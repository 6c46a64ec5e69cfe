--------------------------- MODULE SwqosChannels ---------------------------
(***************************************************************************)
(* The QUIC clients (Speedlanding, Soyas, Node1 and Astralane over QUIC):  *)
(* concurrent senders share one connection, which any of them may find     *)
(* closed and replace.  With the clients of SwqosClient this is the whole  *)
(* of the submission channels.                                             *)
(***************************************************************************)
EXTENDS SwqosClient

CONSTANTS
  Clients,          \* the clients explored, of PostClients \cup QuicClients
  MaxConnections,   \* bound: connections opened after the first
  Addresses,        \* Astralane: how many server candidates are known
  None

QuicClients == {"Speedlanding", "Soyas", "Node1Quic", "AstralaneQuic"}

ASSUME SwqosChannelsAssumption ==
  /\ Clients \subseteq PostClients \cup QuicClients
  /\ Clients \subseteq DOMAIN Batch
  /\ MaxConnections \in Nat /\ Addresses \in Nat \ {0}
  /\ None \notin Senders

VARIABLES
  link,             \* every connection opened so far: its state
  connection,       \* the client's current connection, an index of link
  reconnect,        \* who holds the lock reconnecting takes, or None
  next_server_idx,  \* Astralane: the candidate the next reconnection starts at
  tried,            \* Astralane: candidates tried by the reconnection under way
  inflight,         \* transactions written to a connection, not yet received
  deliveries        \* how many times the service received each transaction

quicVars == <<link, connection, reconnect, next_server_idx, tried, inflight, deliveries>>
vars == <<clientVars, quicVars>>

Txs == UNION {{p} \X (1 .. batch(p)) : p \in Senders}

Init ==
  /\ ClientInit(Clients)
  /\ link = <<"live">> /\ connection = 1
  /\ reconnect = None
  /\ next_server_idx = 0 /\ tried = {}
  /\ inflight = {}
  /\ deliveries = [tx \in Txs |-> 0]

Closed(c) == link[c] # "live"
At(p, pc) == client \in QuicClients /\ sender[p].pc = pc
Goto(p, pc) == sender' = [sender EXCEPT ![p].pc = pc] /\ UNCHANGED outcome
Use(p, c) == /\ sender' = [sender EXCEPT ![p].pc = "write", ![p].conn = c]
             /\ UNCHANGED outcome
Kept == UNCHANGED <<client, accepted, landed, keep>>
SameLinks == UNCHANGED <<link, connection, next_server_idx, tried>>

(***************************************************************************)
(* How each client gets the connection it will write to.                   *)
(***************************************************************************)
\* Speedlanding looks at the connection under the reconnect lock, and releases
\* the lock before it takes it again to reconnect.
\* Mutated form: the connection is not looked at again under the second lock.
Speedlanding_ensure_connected_unchecked(p) ==
  /\ client = "Speedlanding" /\ reconnect = None
  /\ \/ /\ At(p, "start")
        /\ IF Closed(connection) THEN Goto(p, "relock") ELSE Use(p, connection)
        /\ UNCHANGED reconnect
     \/ At(p, "relock") /\ Goto(p, "handshake") /\ reconnect' = p
  /\ Kept /\ SameLinks /\ UNCHANGED <<inflight, deliveries>>
Speedlanding_ensure_connected(p) ==
  /\ client = "Speedlanding" /\ reconnect = None
  /\ \/ /\ At(p, "start")
        /\ IF Closed(connection) THEN Goto(p, "relock") ELSE Use(p, connection)
        /\ UNCHANGED reconnect
     \/ /\ At(p, "relock")
        /\ IF Closed(connection) THEN Goto(p, "handshake") /\ reconnect' = p
                                 ELSE Use(p, connection) /\ UNCHANGED reconnect
  /\ Kept /\ SameLinks /\ UNCHANGED <<inflight, deliveries>>

\* Soyas writes to whatever connection is stored, and reconnects when that
\* failed, unless someone else is reconnecting: then it fails.
Soyas_reconnect(p) ==
  /\ client = "Soyas"
  /\ \/ At(p, "start") /\ Use(p, connection) /\ UNCHANGED reconnect
     \/ At(p, "relock") /\ reconnect = None /\ Goto(p, "handshake") /\ reconnect' = p
     \/ At(p, "relock") /\ reconnect # None /\ End(p, "err") /\ UNCHANGED reconnect
  /\ Kept /\ SameLinks /\ UNCHANGED <<inflight, deliveries>>

\* Node1 reconnects without the lock, which guards only the stored value.
Node1_ensure_connected(p) ==
  /\ client = "Node1Quic" /\ At(p, "start")
  /\ \/ IF Closed(connection) THEN Goto(p, "handshake") ELSE Use(p, connection)
     \/ End(p, "err")                              \* larger than MAX_TX_SIZE
  /\ Kept /\ SameLinks /\ UNCHANGED <<reconnect, inflight, deliveries>>

\* Astralane holds the connection's lock while it reconnects; a connection the
\* server closed with an error code is never replaced.
Astralane_send_transaction(p) ==
  /\ client = "AstralaneQuic" /\ At(p, "start")
  /\ \/ /\ reconnect = None
        /\ CASE link[connection] = "live" -> Use(p, connection) /\ UNCHANGED <<reconnect, next_server_idx, tried>>
             [] link[connection] = "refused" -> End(p, "err") /\ UNCHANGED <<reconnect, next_server_idx, tried>>
             [] OTHER -> /\ Goto(p, "handshake") /\ reconnect' = p
                         /\ next_server_idx' = (next_server_idx + 1) % Addresses
                         /\ tried' = {}
     \/ End(p, "err") /\ UNCHANGED <<reconnect, next_server_idx, tried>> \* too large
  /\ Kept /\ UNCHANGED <<link, connection, inflight, deliveries>>

(***************************************************************************)
(* The handshake (with Node1's authentication) and its end.                *)
(***************************************************************************)
Unlock(p) == reconnect' = IF reconnect = p THEN None ELSE reconnect

HandshakeSucceeds(p) ==
  /\ At(p, "handshake") /\ Len(link) <= MaxConnections
  /\ link' = Append(link, "live") /\ connection' = Len(link) + 1
  /\ Use(p, Len(link) + 1)
  /\ Unlock(p)
  /\ Kept /\ UNCHANGED <<next_server_idx, tried, inflight, deliveries>>

\* The candidate reconnect_next_candidate turns to after those it has tried:
\* it starts at the index before the increment and goes round once.
NextCandidate == (next_server_idx + Addresses - 1 + Cardinality(tried)) % Addresses
MoreCandidates == client = "AstralaneQuic" /\ Cardinality(tried) + 1 < Addresses

\* Mutated form: the lock outlives the failed reconnection.
HandshakeFails_locked(p) ==
  /\ At(p, "handshake") /\ End(p, "err")
  /\ Kept /\ UNCHANGED <<link, connection, next_server_idx, reconnect, tried, inflight, deliveries>>
HandshakeFails(p) ==
  /\ At(p, "handshake")
  /\ IF MoreCandidates
       THEN Goto(p, "handshake") /\ tried' = tried \cup {NextCandidate} /\ UNCHANGED reconnect
       ELSE /\ End(p, "err") /\ Unlock(p)
            /\ tried' = IF client = "AstralaneQuic" THEN tried \cup {NextCandidate} ELSE tried
  /\ Kept /\ UNCHANGED <<link, connection, next_server_idx, inflight, deliveries>>

(***************************************************************************)
(* Writing the transaction.  A write to a live connection puts it in       *)
(* flight when the peer lets it, which may be never; it fails once the     *)
(* connection is closed, and the clients with a timeout give up on one     *)
(* that hangs, before or after it left.                                    *)
(***************************************************************************)
\* A failed first attempt: Speedlanding and Soyas try once more.
\* Mutated form: every client tries once more.
Retry_always(p) ==
  IF sender[p].tries = 0
    THEN /\ sender' = [sender EXCEPT ![p] = [@ EXCEPT !.pc = "start", !.tries = 1, !.conn = 0]]
         /\ UNCHANGED outcome
    ELSE End(p, "err")
Retry(p) ==
  IF client \in {"Speedlanding", "Soyas"} /\ sender[p].tries = 0
    THEN /\ sender' = [sender EXCEPT ![p] =
               [@ EXCEPT !.pc = IF client = "Soyas" THEN "relock" ELSE "start",
                         !.tries = 1, !.conn = 0]]
         /\ UNCHANGED outcome
    ELSE End(p, "err")

\* Speedlanding and Soyas hold their first connection until they return.
ToPoll(p) ==
  /\ sender' = [sender EXCEPT ![p].pc = "poll", ![p].conn =
       IF client \in {"Speedlanding", "Soyas"} /\ sender[p].tries = 0 THEN @ ELSE 0]
  /\ UNCHANGED outcome

Written(p) == {[tx |-> Tx(p), conn |-> sender[p].conn, try |-> sender[p].tries]}

try_send_bytes(p) ==
  /\ At(p, "write") /\ ~Closed(sender[p].conn)
  /\ inflight' = inflight \cup Written(p)
  /\ IF client = "Node1Quic" THEN Goto(p, "reply") ELSE ToPoll(p)
  /\ Kept /\ SameLinks /\ UNCHANGED <<reconnect, deliveries>>

WriteFails(p) ==
  /\ At(p, "write") /\ Closed(sender[p].conn)
  /\ Retry(p)
  /\ Kept /\ SameLinks /\ UNCHANGED <<reconnect, inflight, deliveries>>

\* The timeout: around one write in Speedlanding, around the whole of
\* send_transaction_bytes, reconnection included, in Node1.
SendTimesOut(p) ==
  /\ \/ client = "Speedlanding" /\ At(p, "write")
     \/ client = "Node1Quic" /\ sender[p].pc \in {"handshake", "write", "reply"}
  /\ \/ UNCHANGED inflight
     \/ /\ At(p, "write") /\ ~Closed(sender[p].conn)
        /\ inflight' = inflight \cup Written(p)
  /\ Retry(p)
  /\ Kept /\ SameLinks /\ UNCHANGED <<reconnect, deliveries>>

\* Node1 answers on the stream the transaction came on: 200, or a refusal.
read_response(p) ==
  /\ At(p, "reply")
  /\ \/ deliveries[Tx(p)] > 0 /\ Tx(p) \in accepted /\ ToPoll(p)
     \/ deliveries[Tx(p)] > 0 /\ Tx(p) \notin accepted /\ End(p, "err")
     \/ Closed(sender[p].conn) /\ End(p, "err")
  /\ Kept /\ SameLinks /\ UNCHANGED <<reconnect, inflight, deliveries>>

-----------------------------------------------------------------------------
(* The network and the services.                                           *)
Receive ==
  /\ \E m \in inflight :
       /\ ~Closed(m.conn)
       /\ inflight' = inflight \ {m}
       /\ deliveries' = [deliveries EXCEPT ![m.tx] = @ + 1]
       /\ \E taken \in BOOLEAN : Accept({m.tx}, taken)
  /\ UNCHANGED <<client, sender, outcome, landed, keep, link, connection, reconnect,
                 next_server_idx, tried>>

Close(c, how) ==
  /\ link' = [link EXCEPT ![c] = how]
  /\ inflight' = {m \in inflight : m.conn # c}
  /\ UNCHANGED <<clientVars, connection, reconnect, next_server_idx, tried, deliveries>>

\* A connection is lost, or the server closes it with an error code, which
\* only Astralane's client looks at.
ConnectionCloses ==
  \E c \in DOMAIN link, how \in {"lost", "refused"} :
    /\ client \in QuicClients /\ ~Closed(c)
    /\ how = "refused" => client = "AstralaneQuic"
    /\ Close(c, how)

\* A connection that was replaced and that no sender holds any more is closed
\* by the library, with what is still in flight on it.
LastHandleDropped ==
  \E c \in DOMAIN link :
    /\ ~Closed(c) /\ c # connection /\ \A p \in Senders : sender[p].conn # c
    /\ Close(c, "lost")

\* Dropping the client closes its connection.
DropClient ==
  /\ drop
  /\ IF client \in QuicClients
       THEN /\ link' = [link EXCEPT ![connection] = IF Closed(connection) THEN @ ELSE "lost"]
            /\ inflight' = {m \in inflight : m.conn # connection}
       ELSE UNCHANGED <<link, inflight>>
  /\ UNCHANGED <<connection, reconnect, next_server_idx, tried, deliveries>>

\* What a sender does by itself, with the end of a connection or with a timer: a
\* request and a handshake end, by an answer or by a timeout.
OwnStep(p) ==
  \/ PostNext(p) /\ UNCHANGED quicVars
  \/ poll_transaction_confirmation(p) /\ UNCHANGED quicVars
  \/ Speedlanding_ensure_connected(p) \/ Soyas_reconnect(p)
  \/ Node1_ensure_connected(p) \/ Astralane_send_transaction(p)
  \/ HandshakeSucceeds(p) \/ HandshakeFails(p)
  \/ WriteFails(p) \/ SendTimesOut(p) \/ read_response(p)

SenderStep(p) == OwnStep(p) \/ try_send_bytes(p)

Next ==
  \/ \E p \in Senders, wait \in BOOLEAN : send_transactions(p, wait) /\ UNCHANGED quicVars
  \/ \E p \in Senders : SenderStep(p)
  \/ (Land \/ KeepNext) /\ UNCHANGED quicVars
  \/ DropClient \/ Receive \/ ConnectionCloses \/ LastHandleDropped

(***************************************************************************)
(* Fairness: the runtime polls every task that is ready, and its locks are *)
(* granted in order, so a sender that can take the lock again and again    *)
(* gets it.  Nothing is assumed of the network: a peer that keeps its      *)
(* connection alive and grants no stream, or no credit on it, holds a      *)
(* write for ever.  Nor of the chain, of the health check or of when the   *)
(* owner drops the client.                                                 *)
(***************************************************************************)
Fairness ==
  /\ \A p \in Senders : SF_vars(OwnStep(p))
  /\ WF_vars((start_ping_task \/ StorePingHandle \/ DropClone) /\ UNCHANGED quicVars)
  /\ WF_vars(AbortPing /\ UNCHANGED quicVars)
  /\ WF_vars((PingTick \/ reconnect_grpc) /\ UNCHANGED quicVars)

Spec == Init /\ [][Next]_vars /\ Fairness

-----------------------------------------------------------------------------
\* A submission reported as successful was confirmed if the caller asked for
\* the confirmation, and was taken by the service if the client reads that
\* from the reply (0slot, the RPC node, BlockRazor over gRPC, Node1 over
\* QUIC).  The other clients report success after a refusal too.
OkIsEarned ==
  \A p \in Senders : \A i \in DOMAIN outcome[p] :
    outcome[p][i] = "ok" =>
      /\ sender[p].wait /\ ~(client \in BundleClients /\ batch(p) > 1) => <<p, i>> \in landed
      /\ client \in {"ZeroSlot", "Default", "BlockRazorGrpc", "Node1Quic"} => <<p, i>> \in accepted

\* "reconnect under lock so concurrent senders wait and then all use the new
\* connection" (speedlanding.rs:102), and as much for Astralane: no live
\* connection is replaced, so what is in flight is on the current one.
ConnectionShared ==
  client \in {"Speedlanding", "AstralaneQuic"} =>
    \A c \in DOMAIN link : ~Closed(c) => c = connection

\* A transaction reaches the service at most once, and at most twice through
\* Speedlanding, which resends after a timeout that may have come too late.
DeliveredOnce ==
  \A tx \in Txs :
    deliveries[tx] + Cardinality({m \in inflight : m.tx = tx})
      <= IF client = "Speedlanding" THEN 2 ELSE 1

\* Soyas and Astralane await open_uni and write_all without a timeout.
Blocked(p) ==
  client \in {"Soyas", "AstralaneQuic"} /\ sender[p].pc = "write" /\ ~Closed(sender[p].conn)

\* Every submission returns, or writes for ever to a connection that stays alive,
\* through one of the two clients that set no limit to a write.  No sender waits for
\* ever for a lock, a reply or a handshake, not behind such a write either.
SendReturns ==
  \A p \in Senders : sender[p].pc = "start" ~> (sender[p].pc = "done" \/ []Blocked(p))

\* "Ensure ping task stops when client is destroyed" (zeroslot.rs:252), for the
\* clients that keep the task's handle.
PingEnds ==
  (client \in PingClients \ {"Stellium"} /\ ~keep.alive) ~> [](keep.task = "ended")
=============================================================================
