---------------------------- MODULE SwqosClient ----------------------------
(***************************************************************************)
(* The submission clients of sol-trade-sdk/src/swqos: what every client    *)
(* shares (SwqosClientTrait: send_transaction, send_transactions, the poll *)
(* for the confirmation), the clients that post a request and read a       *)
(* reply, and the keep-alive task some of them start.  One behaviour uses  *)
(* one client, from several concurrent senders.                            *)
(***************************************************************************)
EXTENDS Integers, Sequences, FiniteSets

CONSTANTS
  Senders,     \* concurrent callers of send_transactions on one client
  Batch        \* Batch[c][p]: how many transactions sender p submits to client c

ASSUME SwqosClientAssumption ==
  /\ Senders # {}
  /\ \A c \in DOMAIN Batch : Batch[c] \in [Senders -> Nat \ {0}]

VARIABLES
  client,      \* the client in use
  sender,      \* per caller: where it is, in which transaction
  outcome,     \* per caller: the results of its transactions, in order
  accepted,    \* transactions the service has taken, as <<caller, index>>
  landed,      \* transactions that have been executed on chain
  keep         \* the client's keep-alive task and what controls it

clientVars == <<client, sender, outcome, accepted, landed, keep>>

(***************************************************************************)
(* What a request can come back with: a JSON body with a result or with an *)
(* error, another body, a status that is no success, or no reply at all.   *)
(* The service has taken the transaction when it says so; it may also have *)
(* when nothing, or nothing readable, came back.                           *)
(***************************************************************************)
Replies == {"result", "error", "unreadable", "status", "none"}
Taken(reply) == CASE reply = "result" -> {TRUE}
                  [] reply \in {"error", "status"} -> {FALSE}
                  [] OTHER -> BOOLEAN

(***************************************************************************)
(* For each client, the replies after which it goes on to poll for the     *)
(* confirmation; after the others it returns the error.                    *)
(***************************************************************************)
Jito_send == Replies \ {"none"}
NextBlock_send == Replies \ {"none"}
FlashBlock_send == Replies \ {"none"}
Node1_send == Replies \ {"none"}
Lightspeed_send == Replies \ {"none"}
Temporal_send == Replies \ {"none"}
Bloxroute_send == Replies \ {"none"}
Stellium_send == Replies \ {"none"}
ZeroSlot_send_any == Replies \ {"none"}   \* Mutated form: the body is not looked at.
ZeroSlot_send == {"result"}
Helius_send == {"result", "unreadable"}
Astralane_send == Replies \ {"status", "none"}
BlockRazorHttp_send == Replies \ {"status", "none"}
BlockRazorGrpc_send == {"result"}
SolRpc_send == {"result"}

SubmittedAfter ==
  [Jito |-> Jito_send, NextBlock |-> NextBlock_send, FlashBlock |-> FlashBlock_send,
   Node1 |-> Node1_send, Lightspeed |-> Lightspeed_send, Temporal |-> Temporal_send,
   Bloxroute |-> Bloxroute_send, Stellium |-> Stellium_send, ZeroSlot |-> ZeroSlot_send,
   Helius |-> Helius_send, Astralane |-> Astralane_send, BlockRazor |-> BlockRazorHttp_send,
   BlockRazorGrpc |-> BlockRazorGrpc_send, Default |-> SolRpc_send]

PostClients == DOMAIN SubmittedAfter
BundleClients == {"Jito", "Bloxroute"}

\* The keep-alive tasks: the flag a new client starts with, the flag at which
\* the loop stops, the flag a drop leaves, whether the task's handle is kept,
\* and whether the task pings once before its loop.
KeepAlive(start, stopsAt, dropped, handle, first) ==
  [start |-> start, stopsAt |-> stopsAt, dropped |-> dropped, handle |-> handle,
   first |-> first]
ZeroSlot_ping == KeepAlive(FALSE, TRUE, TRUE, TRUE, TRUE)
Node1_ping == KeepAlive(FALSE, TRUE, TRUE, TRUE, TRUE)
Temporal_ping == KeepAlive(FALSE, TRUE, TRUE, TRUE, TRUE)
Astralane_ping == KeepAlive(FALSE, TRUE, TRUE, TRUE, FALSE)
BlockRazor_ping == KeepAlive(FALSE, TRUE, TRUE, TRUE, TRUE)
Stellium_ping == KeepAlive(TRUE, TRUE, FALSE, FALSE, TRUE)

PingOf ==
  [ZeroSlot |-> ZeroSlot_ping, Node1 |-> Node1_ping, Temporal |-> Temporal_ping,
   Astralane |-> Astralane_ping, BlockRazor |-> BlockRazor_ping,
   BlockRazorGrpc |-> BlockRazor_ping, Stellium |-> Stellium_ping]
PingClients == DOMAIN PingOf

MaxDelay == 60

-----------------------------------------------------------------------------
(* A new client: its constructor clones it into a task that starts the     *)
(* keep-alive, and returns without waiting for that task.                  *)
NewKeepAlive(c) ==
  [alive |-> TRUE, starter |-> IF c \in PingClients THEN "spawned" ELSE "done",
   task |-> "none", handle |-> FALSE, aborts |-> 0, delay |-> 1,
   flag |-> c \in PingClients /\ PingOf[c].start]

Idle == [pc |-> "idle", n |-> 1, wait |-> FALSE, conn |-> 0, tries |-> 0]

ClientInit(clients) ==
  /\ client \in clients
  /\ sender = [p \in Senders |-> Idle]
  /\ outcome = [p \in Senders |-> <<>>]
  /\ accepted = {} /\ landed = {}
  /\ keep = NewKeepAlive(client)

batch(p) == Batch[client][p]
Tx(p) == <<p, sender[p].n>>

(***************************************************************************)
(* send_transactions: the transactions one after the other, until one      *)
(* fails.  A caller with one transaction calls send_transaction.           *)
(***************************************************************************)
send_transactions(p, wait) ==
  /\ sender[p].pc = "idle" /\ keep.alive
  /\ sender' = [sender EXCEPT ![p] = [@ EXCEPT !.pc = "start", !.wait = wait]]
  /\ UNCHANGED <<client, outcome, accepted, landed, keep>>

\* The record of caller p after its current transaction ended with result r.
Ended(p, r) ==
  IF r = "ok" /\ sender[p].n < batch(p)
    THEN [Idle EXCEPT !.pc = "start", !.n = sender[p].n + 1, !.wait = sender[p].wait]
    ELSE [Idle EXCEPT !.pc = "done", !.n = sender[p].n, !.wait = sender[p].wait]
End(p, r) ==
  /\ sender' = [sender EXCEPT ![p] = Ended(p, r)]
  /\ outcome' = [outcome EXCEPT ![p] = Append(@, r)]

Accept(txs, taken) == accepted' = IF taken THEN accepted \cup txs ELSE accepted

send_transaction(p, reply, taken) ==
  /\ client \in PostClients /\ sender[p].pc = "start"
  /\ ~ (client \in BundleClients /\ batch(p) > 1)
  /\ taken \in Taken(reply)
  /\ Accept({Tx(p)}, taken)
  /\ IF reply \in SubmittedAfter[client]
       THEN sender' = [sender EXCEPT ![p].pc = "poll"] /\ UNCHANGED outcome
       ELSE End(p, "err")
  /\ UNCHANGED <<client, landed, keep>>

\* Jito and bloXroute: the batch is one request, whose confirmation is never
\* polled and whose reply is only logged.
send_bundle(p, reply, taken) ==
  /\ client \in BundleClients /\ sender[p].pc = "start" /\ batch(p) > 1
  /\ taken \in Taken(reply)
  /\ Accept({p} \X (1 .. batch(p)), taken)
  /\ sender' = [sender EXCEPT ![p].pc = "done", ![p].n = batch(p)]
  /\ outcome' = [outcome EXCEPT ![p] =
       [i \in 1 .. batch(p) |-> IF reply = "none" THEN "err" ELSE "ok"]]
  /\ UNCHANGED <<client, landed, keep>>

\* Without wait_confirmation the poll is skipped; with it, it ends when the
\* transaction is seen, with its failure, or after its last attempt.
poll_transaction_confirmation(p) ==
  /\ sender[p].pc = "poll"
  /\ \/ (sender[p].wait => Tx(p) \in landed) /\ End(p, "ok")
     \/ sender[p].wait /\ End(p, "err")
  /\ UNCHANGED <<client, accepted, landed, keep>>

\* The chain executes a transaction the service has taken.
Land ==
  /\ \E tx \in accepted \ landed : landed' = landed \cup {tx}
  /\ UNCHANGED <<client, sender, outcome, accepted, keep>>

-----------------------------------------------------------------------------
(* The keep-alive task.                                                    *)
KeepStep == UNCHANGED <<client, sender, outcome, accepted, landed>>

start_ping_task ==
  /\ keep.starter = "spawned"
  /\ keep' = [keep EXCEPT !.task = IF PingOf[client].first THEN "first" ELSE "loop",
                          !.starter = IF PingOf[client].handle THEN "storing" ELSE "dropping"]
  /\ KeepStep

StorePingHandle ==
  /\ keep.starter = "storing"
  /\ keep' = [keep EXCEPT !.starter = "dropping", !.handle = TRUE]
  /\ KeepStep

\* What dropping a value of the client's type does to the state it shares
\* with its clones.
Dropped_flag_only(k) == [k EXCEPT !.flag = FALSE]   \* Mutated form: nothing stops the task.
Dropped(k) == [k EXCEPT !.flag = PingOf[client].dropped,
                        !.aborts = IF PingOf[client].handle THEN @ + 1 ELSE @]

\* The task that started the keep-alive ends, and drops the clone it owned.
DropClone ==
  /\ keep.starter = "dropping"
  /\ keep' = [Dropped(keep) EXCEPT !.starter = "done"]
  /\ KeepStep

\* The owner drops the client, which no sender is using any more.
drop ==
  /\ keep.alive /\ \A p \in Senders : sender[p].pc \in {"idle", "done"}
  /\ keep' = [(IF client \in PingClients THEN Dropped(keep) ELSE keep) EXCEPT !.alive = FALSE]
  /\ KeepStep

\* The task each drop spawns: it aborts the handle that is stored by then.
AbortPing ==
  /\ keep.aborts > 0
  /\ keep' = [keep EXCEPT !.aborts = @ - 1, !.handle = FALSE,
                          !.task = IF keep.handle THEN "ended" ELSE @]
  /\ KeepStep

\* The first ping, and a tick of the loop that finds the flag at its stop value.
PingTick ==
  /\ \/ keep.task = "first" /\ keep' = [keep EXCEPT !.task = "loop"]
     \/ /\ keep.task = "loop" /\ keep.flag = PingOf[client].stopsAt
        /\ keep' = [keep EXCEPT !.task = "ended"]
  /\ KeepStep

\* A tick of BlockRazor's gRPC task: the health check fails and it sleeps.
HealthCheckFails ==
  /\ client = "BlockRazorGrpc" /\ keep.task = "loop" /\ ~keep.flag
  /\ keep' = [keep EXCEPT !.task = "backoff"]
  /\ KeepStep

HealthCheckSucceeds ==
  /\ client = "BlockRazorGrpc" /\ keep.task = "loop" /\ ~keep.flag
  /\ keep' = [keep EXCEPT !.delay = 1]
  /\ KeepStep

Smaller(a, b) == IF a < b THEN a ELSE b
reconnect_grpc ==
  /\ keep.task = "backoff"
  /\ \E connected \in BOOLEAN :
       keep' = [keep EXCEPT !.task = "loop",
                            !.delay = IF connected THEN 1 ELSE Smaller(2 * @, MaxDelay)]
  /\ KeepStep

KeepNext == \/ start_ping_task \/ StorePingHandle \/ DropClone \/ AbortPing \/ PingTick
            \/ HealthCheckFails \/ HealthCheckSucceeds \/ reconnect_grpc
PostNext(p) == \E reply \in Replies, taken \in BOOLEAN :
                 send_transaction(p, reply, taken) \/ send_bundle(p, reply, taken)
=============================================================================
