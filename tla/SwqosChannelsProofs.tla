------------------------- MODULE SwqosChannelsProofs -------------------------
(***************************************************************************)
(* Proofs about the submission clients, for every number of senders,       *)
(* transactions, connections and server candidates: a success is earned, a *)
(* live connection is not replaced, and nothing is delivered more often    *)
(* than the client's retries allow.                                        *)
(***************************************************************************)
EXTENDS SwqosChannels, SequenceTheorems, FiniteSetTheorems, TLAPS

USE SwqosClientAssumption, SwqosChannelsAssumption

\* Where a sender has a transaction under way, and where it has not yet been
\* handed to a connection (for the last time).
Active == {"start", "poll", "relock", "handshake", "write", "reply"}
Before == {"idle", "start", "relock", "handshake", "write"}

SenderRec == [pc : Active \cup {"idle", "done"}, n : Nat, wait : BOOLEAN, conn : Nat, tries : {0, 1}]
LinkStates == {"live", "lost", "refused"}

\* The types the proofs need.
BaseInv ==
  /\ client \in Clients
  /\ sender \in [Senders -> SenderRec]
  /\ outcome \in [Senders -> Seq({"ok", "err"})]
  /\ \A p \in Senders : sender[p].n \in 1 .. batch(p)
  /\ link \in Seq(LinkStates) /\ connection \in 1 .. Len(link)

(***************************************************************************)
(* Success.  The current transaction of a sender is the next to get a      *)
(* result, and a client that reads the reply polls only for what was taken.*)
(***************************************************************************)
Reading == {"ZeroSlot", "Default", "BlockRazorGrpc", "Node1Quic"}

OkInv ==
  /\ \A p \in Senders : sender[p].pc = "idle" => sender[p].n = 1 /\ outcome[p] = <<>>
  /\ \A p \in Senders : sender[p].pc \in Active => sender[p].n = Len(outcome[p]) + 1
  /\ \A p \in Senders : sender[p].pc = "poll" /\ client \in Reading => Tx(p) \in accepted
  /\ OkIsEarned

(***************************************************************************)
(* Deliveries.  What can still be sent has been sent at most as often as   *)
(* it was retried, and through the clients that do not retry after a       *)
(* timeout not at all.                                                     *)
(***************************************************************************)
Copies(tx) == {m \in inflight : m.tx = tx}
Count(tx) == deliveries[tx] + Cardinality(Copies(tx))
Retries(p) == IF client = "Speedlanding" THEN sender[p].tries ELSE 0
Allowed == IF client = "Speedlanding" THEN 2 ELSE 1

FlightOK(p, i) ==
  /\ i > sender[p].n => Count(<<p, i>>) = 0
  /\ i = sender[p].n /\ sender[p].pc \in Before => Count(<<p, i>>) <= Retries(p)
  /\ Count(<<p, i>>) <= Allowed

FlightInv ==
  /\ IsFiniteSet(inflight) /\ \A m \in inflight : m.tx \in Txs
  /\ deliveries \in [Txs -> Nat]
  /\ \A p \in Senders : \A i \in 1 .. batch(p) : FlightOK(p, i)

(***************************************************************************)
(* The shared connection.  Who is in the handshake holds the lock, and the *)
(* connection to be replaced is closed.                                    *)
(***************************************************************************)
Locking == {"Speedlanding", "AstralaneQuic"}

ConnInv ==
  /\ ConnectionShared
  /\ client \in Locking => \A p \in Senders :
       sender[p].pc = "handshake" => reconnect = p /\ Closed(connection)

-----------------------------------------------------------------------------
\* What a step of sender p does to its record and its results.
Goes(p, pc, tries) ==
  \E conn \in Nat :
    /\ sender' = [sender EXCEPT ![p] = [sender[p] EXCEPT !.pc = pc, !.tries = tries, !.conn = conn]]
    /\ outcome' = outcome
Bundled(p) ==
  /\ client \in BundleClients /\ sender[p].pc = "start" /\ batch(p) > 1
  /\ sender' = [sender EXCEPT ![p] = [sender[p] EXCEPT !.pc = "done", !.n = batch(p)]]
  /\ \E r \in {"ok", "err"} : outcome' = [outcome EXCEPT ![p] = [i \in 1 .. batch(p) |-> r]]

Writes(p) == sender[p].pc = "write" /\ inflight' = inflight \cup Written(p)

\* On to the next place, without a write or with one.
Moves(p) ==
  \E pc \in Active :
    /\ Goes(p, pc, sender[p].tries)
    /\ pc = "poll" /\ client \in Reading => Tx(p) \in accepted'
    /\ \/ inflight' = inflight /\ (pc \in Before => sender[p].pc \in Before)
       \/ Writes(p) /\ pc \notin Before
Again(p) ==
  \E pc \in {"start", "relock"} :
    /\ Goes(p, pc, 1) /\ sender[p].pc = "write" /\ sender[p].tries = 0
    /\ inflight' = inflight \/ (Writes(p) /\ client = "Speedlanding")
Fails(p) == End(p, "err") /\ (inflight' = inflight \/ Writes(p))
Succeeds(p) ==
  /\ End(p, "ok") /\ inflight' = inflight /\ sender[p].pc = "poll"
  /\ sender[p].wait => Tx(p) \in landed

SenderKept == client' = client /\ accepted \subseteq accepted' /\ landed' = landed
              /\ deliveries' = deliveries

LEMMA BatchType ==
  ASSUME client \in Clients
  PROVE  \A p \in Senders : batch(p) \in Nat \ {0}
  BY DEF batch

LEMMA PostNames ==
  /\ PostClients = {"Jito", "NextBlock", "FlashBlock", "Node1", "Lightspeed", "Temporal", "Bloxroute",
                    "Stellium", "ZeroSlot", "Helius", "Astralane", "BlockRazor", "BlockRazorGrpc",
                    "Default"}
  /\ \A c \in {"ZeroSlot", "Default", "BlockRazorGrpc"} : SubmittedAfter[c] = {"result"}
  BY DEF PostClients, SubmittedAfter, ZeroSlot_send, SolRpc_send, BlockRazorGrpc_send

LEMMA GotoGoes ==
  ASSUME BaseInv, NEW p \in Senders, NEW pc, Goto(p, pc)
  PROVE  Goes(p, pc, sender[p].tries)
<1>1. sender[p] \in SenderRec /\ sender \in [Senders -> SenderRec]
  BY DEF BaseInv
<1>2. [sender[p] EXCEPT !.pc = pc]
        = [sender[p] EXCEPT !.pc = pc, !.tries = sender[p].tries, !.conn = sender[p].conn]
  BY <1>1 DEF SenderRec
<1>3. sender' = [sender EXCEPT ![p] = [sender[p] EXCEPT !.pc = pc]] /\ outcome' = outcome
  BY <1>1 DEF Goto
<1>4. sender[p].conn \in Nat
  BY <1>1 DEF SenderRec
<1>5. QED  BY <1>2, <1>3, <1>4 DEF Goes

LEMMA UseGoes ==
  ASSUME BaseInv, NEW p \in Senders, NEW c \in Nat, Use(p, c)
  PROVE  Goes(p, "write", sender[p].tries)
<1>1. sender[p] \in SenderRec /\ sender \in [Senders -> SenderRec]
  BY DEF BaseInv
<1>2. [sender[p] EXCEPT !.pc = "write", !.conn = c]
        = [sender[p] EXCEPT !.pc = "write", !.tries = sender[p].tries, !.conn = c]
  BY <1>1 DEF SenderRec
<1>3. sender' = [sender EXCEPT ![p] = [sender[p] EXCEPT !.pc = "write", !.conn = c]]
      /\ outcome' = outcome
  BY <1>1 DEF Use
<1>4. QED  BY <1>2, <1>3 DEF Goes

LEMMA ToPollGoes ==
  ASSUME BaseInv, NEW p \in Senders, ToPoll(p)
  PROVE  Goes(p, "poll", sender[p].tries)
<1> DEFINE c == IF client \in {"Speedlanding", "Soyas"} /\ sender[p].tries = 0
                THEN sender[p].conn ELSE 0
<1>1. sender[p] \in SenderRec /\ sender \in [Senders -> SenderRec]
  BY DEF BaseInv
<1>2. c \in Nat
  BY <1>1 DEF SenderRec
<1>3. sender' = [sender EXCEPT ![p] = [sender[p] EXCEPT !.pc = "poll", !.conn = c]]
      /\ outcome' = outcome
  BY <1>1 DEF ToPoll
<1> HIDE DEF c
<1>4. [sender[p] EXCEPT !.pc = "poll", !.conn = c]
        = [sender[p] EXCEPT !.pc = "poll", !.tries = sender[p].tries, !.conn = c]
  BY <1>1 DEF SenderRec
<1>5. QED  BY <1>2, <1>3, <1>4 DEF Goes

LEMMA RetryGoes ==
  ASSUME BaseInv, NEW p \in Senders, Retry(p)
  PROVE  \/ /\ \E pc \in {"start", "relock"} : Goes(p, pc, 1)
            /\ sender[p].tries = 0 /\ client \in {"Speedlanding", "Soyas"}
         \/ End(p, "err")
<1>1. sender[p] \in SenderRec /\ sender \in [Senders -> SenderRec]
  BY DEF BaseInv
<1>2. CASE client \in {"Speedlanding", "Soyas"} /\ sender[p].tries = 0
  <2> DEFINE pc == IF client = "Soyas" THEN "relock" ELSE "start"
  <2>1. sender' = [sender EXCEPT ![p] = [sender[p] EXCEPT !.pc = pc, !.tries = 1, !.conn = 0]]
        /\ outcome' = outcome /\ pc \in {"start", "relock"}
    BY <1>1, <1>2 DEF Retry
  <2> HIDE DEF pc
  <2>2. Goes(p, pc, 1)
    BY <2>1 DEF Goes
  <2>3. QED  BY <1>2, <2>1, <2>2
<1>3. CASE ~(client \in {"Speedlanding", "Soyas"} /\ sender[p].tries = 0)
  BY <1>3 DEF Retry
<1>4. QED  BY <1>2, <1>3

Kind(p) == Moves(p) \/ Again(p) \/ Fails(p) \/ Succeeds(p) \/ Bundled(p)

\* A move without a write, to a place where no result is near.
LEMMA PlainMove ==
  ASSUME NEW p \in Senders, NEW pc \in Active, Goes(p, pc, sender[p].tries), inflight' = inflight,
         pc # "poll", pc \in Before => sender[p].pc \in Before
  PROVE  Moves(p)
  BY DEF Moves

LEMMA PostKind ==
  ASSUME BaseInv, NEW p \in Senders, PostNext(p), inflight' = inflight
  PROVE  (Moves(p) \/ Fails(p) \/ Bundled(p)) /\ sender[p].pc \in Active
         /\ client' = client /\ accepted \subseteq accepted' /\ landed' = landed
<1>1. PICK reply \in Replies, taken \in BOOLEAN :
        send_transaction(p, reply, taken) \/ send_bundle(p, reply, taken)
  BY DEF PostNext
<1>2. sender[p] \in SenderRec /\ sender \in [Senders -> SenderRec]
  BY DEF BaseInv
<1>3. CASE send_transaction(p, reply, taken)
  <2>1. /\ client \in PostClients /\ sender[p].pc = "start" /\ taken \in Taken(reply)
        /\ accepted' = (IF taken THEN accepted \cup {Tx(p)} ELSE accepted)
        /\ client' = client /\ landed' = landed
    BY <1>3 DEF send_transaction, Accept
  <2>2. CASE reply \notin SubmittedAfter[client]
    BY <1>3, <2>1, <2>2 DEF send_transaction, Fails, Active
  <2>3. CASE reply \in SubmittedAfter[client]
    <3>1. Goto(p, "poll")
      BY <1>3, <2>3 DEF send_transaction, Goto
    <3>2. Goes(p, "poll", sender[p].tries)
      BY <3>1, GotoGoes
    <3>3. client \in Reading => Tx(p) \in accepted'
      <4> SUFFICES ASSUME client \in Reading PROVE Tx(p) \in accepted'
        OBVIOUS
      <4>1. SubmittedAfter[client] = {"result"}
        BY <2>1, PostNames DEF Reading
      <4>2. reply = "result"
        BY <2>3, <4>1
      <4>3. taken = TRUE
        BY <2>1, <4>2 DEF Taken
      <4>4. QED  BY <2>1, <4>3
    <3>4. Moves(p)
      BY <3>2, <3>3 DEF Moves, Active, Before
    <3>5. QED  BY <2>1, <3>4 DEF Active
  <2>4. QED  BY <2>2, <2>3
<1>4. CASE send_bundle(p, reply, taken)
  <2> DEFINE r == IF reply = "none" THEN "err" ELSE "ok"
  <2>1. /\ client \in BundleClients /\ sender[p].pc = "start" /\ batch(p) > 1
        /\ client' = client /\ landed' = landed /\ accepted \subseteq accepted'
        /\ outcome' = [outcome EXCEPT ![p] = [i \in 1 .. batch(p) |-> r]]
    BY <1>4 DEF send_bundle, Accept
  <2>2. sender' = [sender EXCEPT ![p] = [sender[p] EXCEPT !.pc = "done", !.n = batch(p)]]
    BY <1>2, <1>4 DEF send_bundle
  <2>3. r \in {"ok", "err"}
    OBVIOUS
  <2> HIDE DEF r
  <2>4. Bundled(p)
    BY <2>1, <2>2, <2>3 DEF Bundled
  <2>5. QED  BY <2>1, <2>4 DEF Active
<1>5. QED  BY <1>1, <1>3, <1>4

\* How a connection is come by.
LEMMA ConnectKind ==
  ASSUME BaseInv, NEW p \in Senders,
         Speedlanding_ensure_connected(p) \/ Soyas_reconnect(p) \/ Node1_ensure_connected(p)
           \/ Astralane_send_transaction(p)
  PROVE  (Moves(p) \/ Fails(p)) /\ SenderKept /\ sender[p].pc \in Active
<1>1. SenderKept /\ inflight' = inflight /\ sender[p].pc \in {"start", "relock"}
  BY DEF Speedlanding_ensure_connected, Soyas_reconnect, Node1_ensure_connected,
         Astralane_send_transaction, SenderKept, Kept, At
<1>2. \/ \E pc \in {"relock", "handshake"} : Goto(p, pc)
      \/ Use(p, connection) \/ End(p, "err")
  BY DEF Speedlanding_ensure_connected, Soyas_reconnect, Node1_ensure_connected,
         Astralane_send_transaction
<1>3. sender[p].pc \in Active /\ sender[p].pc \in Before
  BY <1>1 DEF Active, Before
<1>4. ASSUME NEW pc \in {"relock", "handshake"}, Goto(p, pc) PROVE Moves(p)
  <2>1. Goes(p, pc, sender[p].tries)
    BY <1>4, GotoGoes
  <2>2. pc \in Active /\ pc # "poll"
    BY DEF Active
  <2>3. QED  BY <1>1, <1>3, <2>1, <2>2, PlainMove
<1>5. CASE Use(p, connection)
  <2>1. connection \in Nat
    BY DEF BaseInv
  <2>2. Goes(p, "write", sender[p].tries)
    BY <1>5, <2>1, UseGoes
  <2>3. "write" \in Active
    BY DEF Active
  <2>4. QED  BY <1>1, <1>3, <2>2, <2>3, PlainMove
<1>6. CASE End(p, "err")
  BY <1>1, <1>3, <1>6 DEF Fails
<1>7. QED  BY <1>1, <1>2, <1>3, <1>4, <1>5, <1>6

LEMMA HandshakeKind ==
  ASSUME BaseInv, NEW p \in Senders, HandshakeSucceeds(p) \/ HandshakeFails(p)
  PROVE  (Moves(p) \/ Fails(p)) /\ SenderKept /\ sender[p].pc \in Active
<1>1. SenderKept /\ inflight' = inflight /\ sender[p].pc = "handshake"
  BY DEF HandshakeSucceeds, HandshakeFails, SenderKept, Kept, At
<1>2. Goto(p, "handshake") \/ Use(p, Len(link) + 1) \/ End(p, "err")
  BY DEF HandshakeSucceeds, HandshakeFails
<1>3. sender[p].pc \in Active /\ sender[p].pc \in Before
  BY <1>1 DEF Active, Before
<1>4. "handshake" \in Active /\ "write" \in Active
  BY DEF Active
<1>5. CASE Goto(p, "handshake")
  <2>1. Goes(p, "handshake", sender[p].tries)
    BY <1>5, GotoGoes
  <2>2. QED  BY <1>1, <1>3, <1>4, <2>1, PlainMove
<1>6. CASE Use(p, Len(link) + 1)
  <2>1. Len(link) + 1 \in Nat
    BY DEF BaseInv
  <2>2. Goes(p, "write", sender[p].tries)
    BY <1>6, <2>1, UseGoes
  <2>3. QED  BY <1>1, <1>3, <1>4, <2>2, PlainMove
<1>7. CASE End(p, "err")
  BY <1>1, <1>3, <1>7 DEF Fails
<1>8. QED  BY <1>2, <1>5, <1>6, <1>7

\* Writing, and what follows it.
LEMMA WriteKind ==
  ASSUME BaseInv, NEW p \in Senders,
         try_send_bytes(p) \/ WriteFails(p) \/ SendTimesOut(p) \/ read_response(p)
  PROVE  (Moves(p) \/ Again(p) \/ Fails(p)) /\ SenderKept /\ sender[p].pc \in Active
<1>1. SenderKept
  BY DEF try_send_bytes, WriteFails, SendTimesOut, read_response, SenderKept, Kept
<1>2. CASE try_send_bytes(p)
  <2>1. Writes(p)
    BY <1>2 DEF try_send_bytes, At, Writes
  <2>2. CASE client = "Node1Quic"
    <3>1. Goto(p, "reply")
      BY <1>2, <2>2 DEF try_send_bytes
    <3>2. Goes(p, "reply", sender[p].tries)
      BY <3>1, GotoGoes
    <3>3. Moves(p)
      BY <2>1, <3>2 DEF Moves, Active, Before
    <3>4. QED  BY <1>1, <2>1, <3>3 DEF Writes, Active
  <2>3. CASE client # "Node1Quic"
    <3>1. ToPoll(p) /\ client \in QuicClients
      BY <1>2, <2>3 DEF try_send_bytes, At
    <3>2. Goes(p, "poll", sender[p].tries)
      BY <3>1, ToPollGoes
    <3>3. client \notin Reading
      BY <2>3, <3>1 DEF Reading, QuicClients
    <3>4. Moves(p)
      BY <2>1, <3>2, <3>3 DEF Moves, Active, Before
    <3>5. QED  BY <1>1, <2>1, <3>4 DEF Writes, Active
  <2>4. QED  BY <2>2, <2>3
<1>3. CASE WriteFails(p)
  <2>1. Retry(p) /\ inflight' = inflight /\ sender[p].pc = "write"
    BY <1>3 DEF WriteFails, At
  <2>2. Again(p) \/ Fails(p)
    BY <2>1, RetryGoes DEF Again, Fails
  <2>3. QED  BY <1>1, <2>1, <2>2 DEF Active
<1>4. CASE SendTimesOut(p)
  <2>1. /\ Retry(p) /\ sender[p].pc \in {"handshake", "write", "reply"}
        /\ inflight' = inflight \/ Writes(p)
        /\ client = "Node1Quic" \/ (client = "Speedlanding" /\ sender[p].pc = "write")
    BY <1>4 DEF SendTimesOut, At, Writes
  <2>2. Again(p) \/ Fails(p)
    BY <2>1, RetryGoes DEF Again, Fails
  <2>3. QED  BY <1>1, <2>1, <2>2 DEF Active
<1>5. CASE read_response(p)
  <2>1. /\ inflight' = inflight /\ sender[p].pc = "reply" /\ accepted' = accepted
        /\ (Tx(p) \in accepted /\ ToPoll(p)) \/ End(p, "err")
    BY <1>5 DEF read_response, At, Kept
  <2>2. CASE End(p, "err")
    BY <1>1, <2>1, <2>2 DEF Fails, Active
  <2>3. CASE Tx(p) \in accepted /\ ToPoll(p)
    <3>1. Goes(p, "poll", sender[p].tries)
      BY <2>3, ToPollGoes
    <3>2. Moves(p)
      BY <2>1, <2>3, <3>1 DEF Moves, Active, Before
    <3>3. QED  BY <1>1, <2>1, <3>2 DEF Active
  <2>4. QED  BY <2>1, <2>2, <2>3
<1>6. QED  BY <1>2, <1>3, <1>4, <1>5

\* Every step of a sender is of one of these kinds.
LEMMA SenderKind ==
  ASSUME BaseInv, NEW p \in Senders, SenderStep(p)
  PROVE  Kind(p) /\ SenderKept /\ sender[p].pc \in Active
<1>1. CASE PostNext(p) /\ UNCHANGED quicVars
  BY <1>1, PostKind DEF quicVars, Kind, SenderKept
<1>2. CASE poll_transaction_confirmation(p) /\ UNCHANGED quicVars
  <2>1. sender[p].pc = "poll" /\ SenderKept /\ inflight' = inflight
    BY <1>2 DEF poll_transaction_confirmation, quicVars, SenderKept
  <2>2. Succeeds(p) \/ Fails(p)
    BY <1>2, <2>1 DEF poll_transaction_confirmation, Succeeds, Fails
  <2>3. QED  BY <2>1, <2>2 DEF Kind, Active
<1>3. CASE Speedlanding_ensure_connected(p) \/ Soyas_reconnect(p)
             \/ Node1_ensure_connected(p) \/ Astralane_send_transaction(p)
  BY <1>3, ConnectKind DEF Kind
<1>4. CASE HandshakeSucceeds(p) \/ HandshakeFails(p)
  BY <1>4, HandshakeKind DEF Kind
<1>5. CASE try_send_bytes(p) \/ WriteFails(p) \/ SendTimesOut(p) \/ read_response(p)
  BY <1>5, WriteKind DEF Kind
<1>6. QED  BY <1>1, <1>2, <1>3, <1>4, <1>5 DEF SenderStep, OwnStep

-----------------------------------------------------------------------------
\* The steps that leave the senders alone.
Quiet == /\ client' = client /\ sender' = sender /\ outcome' = outcome
         /\ accepted \subseteq accepted' /\ landed \subseteq landed'
Called(p, wait) ==
  /\ client' = client /\ sender[p].pc = "idle" /\ UNCHANGED quicVars
  /\ sender' = [sender EXCEPT ![p] = [sender[p] EXCEPT !.pc = "start", !.wait = wait]]
  /\ outcome' = outcome /\ accepted' = accepted /\ landed' = landed

LEMMA KeepQuiet == ASSUME KeepNext \/ drop PROVE Quiet
  BY DEF KeepNext, drop, start_ping_task, StorePingHandle, DropClone, AbortPing, PingTick,
         HealthCheckFails, HealthCheckSucceeds, reconnect_grpc, KeepStep, Quiet

LEMMA NextKinds ==
  ASSUME [Next]_vars
  PROVE  \/ \E p \in Senders : SenderStep(p)
         \/ \E p \in Senders, wait \in BOOLEAN : Called(p, wait)
         \/ Quiet
<1>1. CASE \E p \in Senders, wait \in BOOLEAN : send_transactions(p, wait) /\ UNCHANGED quicVars
  BY <1>1 DEF send_transactions, Called
<1>2. CASE (Land \/ KeepNext) /\ UNCHANGED quicVars
  BY <1>2, KeepQuiet DEF Land, Quiet
<1>3. CASE DropClient
  BY <1>3, KeepQuiet DEF DropClient
<1>4. CASE Receive \/ ConnectionCloses \/ LastHandleDropped
  BY <1>4 DEF Receive, ConnectionCloses, LastHandleDropped, Close, clientVars, Accept, Quiet
<1>5. CASE UNCHANGED vars
  BY <1>5 DEF vars, clientVars, Quiet
<1>6. QED  BY <1>1, <1>2, <1>3, <1>4, <1>5 DEF Next

\* The connections: one is added and becomes the current one, or some that were
\* live are closed.
Adds == link' = Append(link, "live") /\ connection' = Len(link) + 1
Closes ==
  /\ connection' = connection
  /\ link' \in Seq(LinkStates) /\ Len(link') = Len(link)
  /\ \A c \in 1 .. Len(link) : Closed(c) => link'[c] # "live"

LEMMA OneCloses ==
  ASSUME BaseInv, NEW c \in 1 .. Len(link), NEW how \in {"lost", "refused"},
         link' = [link EXCEPT ![c] = how], connection' = connection
  PROVE  Closes
<1>1. link \in Seq(LinkStates)
  BY DEF BaseInv
<1>2. how \in LinkStates
  BY DEF LinkStates
<1>3. link' \in Seq(LinkStates) /\ Len(link') = Len(link)
  BY <1>1, <1>2, ExceptSeq
<1>4. \A d \in 1 .. Len(link) : link'[d] = IF d = c THEN how ELSE link[d]
  BY <1>1
<1>5. \A d \in 1 .. Len(link) : Closed(d) => link'[d] # "live"
  BY <1>4 DEF Closed
<1>6. QED  BY <1>3, <1>5 DEF Closes

LEMMA LinkKinds ==
  ASSUME BaseInv, [Next]_vars
  PROVE  \/ Closes
         \/ \E p \in Senders : HandshakeSucceeds(p) /\ Adds
<1>1. link \in Seq(LinkStates) /\ connection \in 1 .. Len(link)
  BY DEF BaseInv
<1>2. ASSUME link' = link, connection' = connection PROVE Closes
  BY <1>1, <1>2 DEF Closes, Closed
<1>3. ASSUME NEW p \in Senders, SenderStep(p), ~HandshakeSucceeds(p) PROVE Closes
  <2>1. link' = link /\ connection' = connection
    BY <1>3 DEF SenderStep, OwnStep, quicVars, Speedlanding_ensure_connected, Soyas_reconnect,
         Node1_ensure_connected, Astralane_send_transaction, HandshakeFails, try_send_bytes,
         WriteFails, SendTimesOut, read_response, SameLinks
  <2>2. QED  BY <1>2, <2>1
<1>4. ASSUME NEW p \in Senders, HandshakeSucceeds(p) PROVE Adds
  BY <1>4 DEF HandshakeSucceeds, Adds
<1>5. CASE DropClient
  <2>1. connection' = connection
        /\ (link' = link \/ link' = [link EXCEPT ![connection] = IF Closed(connection)
                                                                  THEN @ ELSE "lost"])
    BY <1>5 DEF DropClient
  <2>2. CASE link' = link  BY <1>2, <2>1, <2>2
  <2>3. CASE link' # link
    <3>1. link' = [link EXCEPT ![connection] = "lost"]
      BY <1>1, <2>1, <2>3
    <3>2. QED  BY <1>1, <2>1, <3>1, OneCloses
  <2>4. QED  BY <2>2, <2>3
<1>6. CASE ConnectionCloses \/ LastHandleDropped
  <2>1. PICK c \in DOMAIN link, how \in {"lost", "refused"} : Close(c, how)
    BY <1>6 DEF ConnectionCloses, LastHandleDropped
  <2>2. c \in 1 .. Len(link)
    BY <1>1
  <2>3. link' = [link EXCEPT ![c] = how] /\ connection' = connection
    BY <2>1 DEF Close
  <2>4. QED  BY <2>2, <2>3, OneCloses
<1>7. CASE Receive \/ UNCHANGED vars \/ UNCHANGED quicVars
  BY <1>2, <1>7 DEF Receive, vars, quicVars
<1>8. QED  BY <1>3, <1>4, <1>5, <1>6, <1>7 DEF Next

\* The record and the results of sender p after a step of each kind.
LEMMA GoesRecord ==
  ASSUME BaseInv, NEW p \in Senders, NEW pc \in Active, NEW tries \in {0, 1}, Goes(p, pc, tries)
  PROVE  /\ sender' \in [Senders -> SenderRec]
         /\ \A q \in Senders \ {p} : sender'[q] = sender[q]
         /\ sender'[p].pc = pc /\ sender'[p].tries = tries /\ outcome' = outcome
         /\ sender'[p].n = sender[p].n /\ sender'[p].wait = sender[p].wait
<1>1. sender[p] \in SenderRec /\ sender \in [Senders -> SenderRec]
  BY DEF BaseInv
<1>2. PICK conn \in Nat :
        sender' = [sender EXCEPT ![p] = [sender[p] EXCEPT !.pc = pc, !.tries = tries, !.conn = conn]]
  BY DEF Goes
<1>3. [sender[p] EXCEPT !.pc = pc, !.tries = tries, !.conn = conn] \in SenderRec
  BY <1>1 DEF SenderRec
<1>4. QED  BY <1>1, <1>2, <1>3 DEF SenderRec, Goes

LEMMA EndRecord ==
  ASSUME BaseInv, NEW p \in Senders, NEW r \in {"ok", "err"}, End(p, r)
  PROVE  /\ sender' \in [Senders -> SenderRec]
         /\ \A q \in Senders \ {p} : sender'[q] = sender[q] /\ outcome'[q] = outcome[q]
         /\ outcome' \in [Senders -> Seq({"ok", "err"})]
         /\ outcome'[p] = Append(outcome[p], r)
         /\ sender'[p].wait = sender[p].wait
         /\ \/ /\ sender'[p].pc = "start" /\ sender'[p].n = sender[p].n + 1 /\ r = "ok"
               /\ sender[p].n < batch(p)
            \/ sender'[p].pc = "done" /\ sender'[p].n = sender[p].n
<1>1. sender[p] \in SenderRec /\ sender \in [Senders -> SenderRec]
      /\ outcome \in [Senders -> Seq({"ok", "err"})]
  BY DEF BaseInv
<1>2. sender[p].n \in Nat /\ sender[p].n + 1 \in Nat /\ sender[p].wait \in BOOLEAN
  BY <1>1 DEF SenderRec
<1>3. Ended(p, r) \in SenderRec /\ Ended(p, r).wait = sender[p].wait
      /\ \/ /\ Ended(p, r).pc = "start" /\ Ended(p, r).n = sender[p].n + 1 /\ r = "ok"
            /\ sender[p].n < batch(p)
         \/ Ended(p, r).pc = "done" /\ Ended(p, r).n = sender[p].n
  <2> DEFINE on == [Idle EXCEPT !.pc = "start", !.n = sender[p].n + 1, !.wait = sender[p].wait]
  <2> DEFINE off == [Idle EXCEPT !.pc = "done", !.n = sender[p].n, !.wait = sender[p].wait]
  <2>1. Ended(p, r) = IF r = "ok" /\ sender[p].n < batch(p) THEN on ELSE off
    BY Zenon DEF Ended
  <2>2. Idle \in SenderRec
    BY DEF Idle, SenderRec
  <2>3. on \in SenderRec /\ on.pc = "start" /\ on.n = sender[p].n + 1 /\ on.wait = sender[p].wait
    BY <1>2, <2>2 DEF SenderRec, Active
  <2>4. off \in SenderRec /\ off.pc = "done" /\ off.n = sender[p].n /\ off.wait = sender[p].wait
    BY <1>2, <2>2 DEF SenderRec, Active
  <2> HIDE DEF on, off
  <2>5. QED  BY <2>1, <2>3, <2>4
<1>4. sender' = [sender EXCEPT ![p] = Ended(p, r)]
      /\ outcome' = [outcome EXCEPT ![p] = Append(outcome[p], r)]
  BY <1>1 DEF End
<1>5. Append(outcome[p], r) \in Seq({"ok", "err"})
  BY <1>1, AppendProperties
<1>6. sender'[p] = Ended(p, r) /\ sender' \in [Senders -> SenderRec]
      /\ \A q \in Senders \ {p} : sender'[q] = sender[q]
  BY <1>1, <1>3, <1>4
<1>7. outcome'[p] = Append(outcome[p], r) /\ outcome' \in [Senders -> Seq({"ok", "err"})]
      /\ \A q \in Senders \ {p} : outcome'[q] = outcome[q]
  BY <1>1, <1>4, <1>5
<1>8. QED  BY <1>3, <1>6, <1>7

LEMMA BundledRecord ==
  ASSUME BaseInv, NEW p \in Senders, Bundled(p)
  PROVE  /\ sender' \in [Senders -> SenderRec]
         /\ \A q \in Senders \ {p} : sender'[q] = sender[q] /\ outcome'[q] = outcome[q]
         /\ outcome' \in [Senders -> Seq({"ok", "err"})]
         /\ outcome'[p] \in [1 .. batch(p) -> {"ok", "err"}]
         /\ sender'[p].pc = "done" /\ sender'[p].n = batch(p) /\ sender'[p].wait = sender[p].wait
<1>1. sender[p] \in SenderRec /\ sender \in [Senders -> SenderRec]
      /\ outcome \in [Senders -> Seq({"ok", "err"})] /\ batch(p) \in Nat
  BY BatchType DEF BaseInv
<1>2. PICK r \in {"ok", "err"} : outcome' = [outcome EXCEPT ![p] = [i \in 1 .. batch(p) |-> r]]
  BY DEF Bundled
<1>3. [i \in 1 .. batch(p) |-> r] \in [1 .. batch(p) -> {"ok", "err"}]
  OBVIOUS
<1>4. [i \in 1 .. batch(p) |-> r] \in Seq({"ok", "err"})
  BY <1>1, <1>3, SeqDef
<1>5. outcome'[p] = [i \in 1 .. batch(p) |-> r] /\ outcome' \in [Senders -> Seq({"ok", "err"})]
      /\ \A q \in Senders \ {p} : outcome'[q] = outcome[q]
  BY <1>1, <1>2, <1>4
<1>6. [sender[p] EXCEPT !.pc = "done", !.n = batch(p)] \in SenderRec
  BY <1>1 DEF SenderRec
<1>7. sender' \in [Senders -> SenderRec] /\ \A q \in Senders \ {p} : sender'[q] = sender[q]
  BY <1>1, <1>6 DEF Bundled
<1>8. sender'[p].pc = "done" /\ sender'[p].n = batch(p) /\ sender'[p].wait = sender[p].wait
  BY <1>1 DEF Bundled, SenderRec
<1>9. QED  BY <1>3, <1>5, <1>7, <1>8

LEMMA CalledRecord ==
  ASSUME BaseInv, NEW p \in Senders, NEW wait \in BOOLEAN, Called(p, wait)
  PROVE  /\ sender' \in [Senders -> SenderRec]
         /\ \A q \in Senders \ {p} : sender'[q] = sender[q]
         /\ sender'[p].pc = "start" /\ sender'[p].n = sender[p].n
         /\ sender'[p].tries = sender[p].tries /\ outcome' = outcome
<1>1. sender[p] \in SenderRec /\ sender \in [Senders -> SenderRec]
  BY DEF BaseInv
<1>2. [sender[p] EXCEPT !.pc = "start", !.wait = wait] \in SenderRec
  BY <1>1 DEF SenderRec, Active
<1>3. QED  BY <1>1, <1>2 DEF Called, SenderRec

LEMMA BaseInit == Init => BaseInv
<1> SUFFICES ASSUME Init PROVE BaseInv
  OBVIOUS
<1>1. client \in Clients /\ sender = [p \in Senders |-> Idle] /\ outcome = [p \in Senders |-> <<>>]
      /\ link = <<"live">> /\ connection = 1
  BY DEF Init, ClientInit
<1>2. Idle \in SenderRec /\ Idle.n = 1
  BY DEF Idle, SenderRec
<1>3. \A p \in Senders : sender[p].n \in 1 .. batch(p)
  BY <1>1, <1>2, BatchType
<1>4. link \in Seq(LinkStates) /\ connection \in 1 .. Len(link)
  BY <1>1 DEF LinkStates
<1>5. outcome \in [Senders -> Seq({"ok", "err"})]
  BY <1>1, EmptySeq
<1>6. QED  BY <1>1, <1>2, <1>3, <1>4, <1>5 DEF BaseInv

LEMMA BaseNext ==
  ASSUME BaseInv, [Next]_vars
  PROVE  BaseInv'
<1>1. link' \in Seq(LinkStates) /\ connection' \in 1 .. Len(link')
  <2>1. link \in Seq(LinkStates) /\ connection \in 1 .. Len(link)
    BY DEF BaseInv
  <2>2. CASE Closes  BY <2>1, <2>2 DEF Closes
  <2>3. CASE Adds
    <3>1. "live" \in LinkStates
      BY DEF LinkStates
    <3>2. link' \in Seq(LinkStates) /\ Len(link') = Len(link) + 1
      BY <2>1, <2>3, <3>1, AppendProperties DEF Adds
    <3>3. QED  BY <2>1, <2>3, <3>2 DEF Adds
  <2>4. QED  BY <2>2, <2>3, LinkKinds
<1>2. ASSUME client' = client, sender' \in [Senders -> SenderRec], NEW p \in Senders,
             outcome' \in [Senders -> Seq({"ok", "err"})],
             \A q \in Senders \ {p} : sender'[q] = sender[q], sender'[p].n \in 1 .. batch(p)
      PROVE  BaseInv'
  <2>1. \A q \in Senders : sender'[q].n \in 1 .. batch(q)
    BY <1>2 DEF BaseInv
  <2>2. \A q \in Senders : batch(q)' = batch(q)
    BY <1>2 DEF batch
  <2>3. QED  BY <1>1, <1>2, <2>1, <2>2 DEF BaseInv
<1>3. ASSUME NEW p \in Senders, SenderStep(p) PROVE BaseInv'
  <2>1. Kind(p) /\ client' = client
    BY <1>3, SenderKind DEF SenderKept
  <2>2. sender[p].n \in 1 .. batch(p) /\ batch(p) \in Nat \ {0} /\ sender[p].tries \in {0, 1}
        /\ outcome \in [Senders -> Seq({"ok", "err"})]
    BY BatchType DEF BaseInv, SenderRec
  <2>3. CASE Moves(p) \/ Again(p)
    <3>1. PICK pc \in Active, tries \in {0, 1} : Goes(p, pc, tries)
      BY <2>2, <2>3 DEF Moves, Again, Active
    <3>2. /\ sender' \in [Senders -> SenderRec] /\ outcome' = outcome
          /\ \A q \in Senders \ {p} : sender'[q] = sender[q]
          /\ sender'[p].n = sender[p].n
      BY <3>1, GoesRecord
    <3>3. QED  BY <1>2, <2>1, <2>2, <3>2
  <2>4. CASE Fails(p) \/ Succeeds(p)
    <3>1. PICK r \in {"ok", "err"} : End(p, r)
      BY <2>4 DEF Fails, Succeeds
    <3>2. sender'[p].n \in 1 .. batch(p)
      BY <2>2, <3>1, EndRecord
    <3>3. QED  BY <1>2, <2>1, <3>1, <3>2, EndRecord
  <2>5. CASE Bundled(p)
    <3>1. sender'[p].n \in 1 .. batch(p)
      BY <2>2, <2>5, BundledRecord
    <3>2. QED  BY <1>2, <2>1, <2>5, <3>1, BundledRecord
  <2>6. QED  BY <2>1, <2>3, <2>4, <2>5 DEF Kind
<1>4. ASSUME NEW p \in Senders, NEW wait \in BOOLEAN, Called(p, wait) PROVE BaseInv'
  <2>1. sender[p].n \in 1 .. batch(p) /\ outcome \in [Senders -> Seq({"ok", "err"})] /\ client' = client
    BY <1>4 DEF BaseInv, Called
  <2>2. QED  BY <1>2, <1>4, <2>1, CalledRecord
<1>5. CASE Quiet
  BY <1>1, <1>5 DEF Quiet, BaseInv, batch
<1>6. QED  BY <1>3, <1>4, <1>5, NextKinds

-----------------------------------------------------------------------------
\* What a success of transaction i of sender p stands for.
Earned(p, i) ==
  /\ sender[p].wait /\ ~(client \in BundleClients /\ batch(p) > 1) => <<p, i>> \in landed
  /\ client \in Reading => <<p, i>> \in accepted
EarnedAll(p) == \A i \in DOMAIN outcome[p] : outcome[p][i] = "ok" => Earned(p, i)

LEMMA EarnedOk == OkIsEarned <=> \A p \in Senders : EarnedAll(p)
  BY DEF OkIsEarned, EarnedAll, Earned, Reading

LEMMA EarnedStays ==
  ASSUME NEW q \in Senders, client' = client, sender'[q].wait = sender[q].wait,
         accepted \subseteq accepted', landed \subseteq landed', NEW i, Earned(q, i)
  PROVE  Earned(q, i)'
  BY DEF Earned, batch

\* The part of OkInv about one sender.
OkOf(p) ==
  /\ sender[p].pc = "idle" => sender[p].n = 1 /\ outcome[p] = <<>>
  /\ sender[p].pc \in Active => sender[p].n = Len(outcome[p]) + 1
  /\ sender[p].pc = "poll" /\ client \in Reading => <<p, sender[p].n>> \in accepted
  /\ EarnedAll(p)

LEMMA OkParts == OkInv <=> \A p \in Senders : OkOf(p)
  BY EarnedOk DEF OkInv, OkOf, Tx

LEMMA OkPartsNext == OkInv' <=> \A p \in Senders : OkOf(p)'
<1>1. OkIsEarned' <=> \A p \in Senders : EarnedAll(p)'
  BY DEF OkIsEarned, EarnedAll, Earned, Reading
<1>2. QED  BY <1>1 DEF OkInv, OkOf, Tx

LEMMA OkOther ==
  ASSUME NEW q \in Senders, OkOf(q), client' = client, sender'[q] = sender[q],
         outcome'[q] = outcome[q], accepted \subseteq accepted', landed \subseteq landed'
  PROVE  OkOf(q)'
<1>1. EarnedAll(q)'
  BY EarnedStays DEF OkOf, EarnedAll
<1>2. QED  BY <1>1 DEF OkOf

LEMMA OkInit == Init => OkInv
<1> SUFFICES ASSUME Init, NEW p \in Senders PROVE OkOf(p)
  BY OkParts
<1>1. sender[p].pc = "idle" /\ sender[p].n = 1 /\ outcome[p] = <<>>
  BY DEF Init, ClientInit, Idle
<1>2. QED  BY <1>1 DEF OkOf, EarnedAll, Active

\* A result is the one of the current transaction.
LEMMA EndEarned ==
  ASSUME BaseInv, NEW p \in Senders, OkOf(p), NEW r \in {"ok", "err"}, End(p, r), SenderKept,
         sender[p].pc \in Active, r = "ok" => Earned(p, sender[p].n)
  PROVE  OkOf(p)'
<1>1. /\ outcome[p] \in Seq({"ok", "err"}) /\ outcome'[p] = Append(outcome[p], r)
      /\ sender'[p].wait = sender[p].wait
  BY EndRecord DEF BaseInv
<1>2. sender[p].n = Len(outcome[p]) + 1 /\ EarnedAll(p)
  BY DEF OkOf
<1>3. /\ Len(outcome'[p]) = Len(outcome[p]) + 1 /\ Len(outcome[p]) \in Nat
      /\ DOMAIN outcome'[p] = 1 .. Len(outcome[p]) + 1 /\ DOMAIN outcome[p] = 1 .. Len(outcome[p])
      /\ \A i \in 1 .. Len(outcome[p]) : outcome'[p][i] = outcome[p][i]
      /\ outcome'[p][Len(outcome[p]) + 1] = r
  BY <1>1
<1>4. ASSUME NEW i \in DOMAIN outcome'[p], outcome'[p][i] = "ok" PROVE Earned(p, i)'
  <2>1. Earned(p, i)
    <3>1. CASE i = sender[p].n  BY <1>2, <1>3, <1>4, <3>1
    <3>2. CASE i # sender[p].n
      <4>1. i \in DOMAIN outcome[p] /\ outcome[p][i] = "ok"
        BY <1>2, <1>3, <1>4, <3>2
      <4>2. QED  BY <1>2, <4>1 DEF EarnedAll
    <3>3. QED  BY <3>1, <3>2
  <2>2. QED  BY <1>1, <2>1, EarnedStays DEF SenderKept
<1>5. EarnedAll(p)'
  BY <1>4 DEF EarnedAll
<1>6. sender'[p].pc \in {"start", "done"}
      /\ (sender'[p].pc = "start" => sender'[p].n = Len(outcome'[p]) + 1)
  BY <1>2, <1>3, EndRecord
<1>7. QED  BY <1>5, <1>6 DEF OkOf, Active

LEMMA OkNext ==
  ASSUME BaseInv, OkInv, [Next]_vars
  PROVE  OkInv'
<1>1. \A q \in Senders : OkOf(q)
  BY OkParts
<1>2. ASSUME NEW p \in Senders, SenderStep(p) PROVE \A q \in Senders : OkOf(q)'
  <2>1. Kind(p) /\ SenderKept /\ sender[p].pc \in Active
    BY <1>2, SenderKind
  <2>2. client' = client /\ accepted \subseteq accepted' /\ landed \subseteq landed'
    BY <2>1 DEF SenderKept
  <2>3. CASE Moves(p) \/ Again(p)
    <3>1. PICK pc \in Active, tries \in {0, 1} :
            Goes(p, pc, tries) /\ (pc = "poll" /\ client \in Reading => Tx(p) \in accepted')
      <4>1. sender[p].tries \in {0, 1}
        BY DEF BaseInv, SenderRec
      <4>2. QED  BY <2>3, <4>1 DEF Moves, Again, Active
    <3>2. /\ \A q \in Senders \ {p} : sender'[q] = sender[q]
          /\ sender'[p].pc = pc /\ outcome' = outcome
          /\ sender'[p].n = sender[p].n /\ sender'[p].wait = sender[p].wait
      BY <3>1, GoesRecord
    <3>3. EarnedAll(p)'
      BY <1>1, <2>2, <3>2, EarnedStays DEF OkOf, EarnedAll
    <3>4. OkOf(p)'
      BY <1>1, <2>1, <2>2, <3>1, <3>2, <3>3 DEF OkOf, Tx, Active
    <3>5. QED  BY <1>1, <2>2, <3>2, <3>4, OkOther
  <2>4. CASE Fails(p) \/ Succeeds(p)
    <3>1. PICK r \in {"ok", "err"} : End(p, r) /\ (r = "ok" => Earned(p, sender[p].n))
      <4>1. CASE Fails(p)  BY <4>1 DEF Fails
      <4>2. CASE Succeeds(p)
        BY <1>1, <4>2 DEF Succeeds, Earned, OkOf, Tx
      <4>3. QED  BY <2>4, <4>1, <4>2
    <3>2. OkOf(p)'
      BY <1>1, <2>1, <3>1, EndEarned
    <3>3. \A q \in Senders \ {p} : sender'[q] = sender[q] /\ outcome'[q] = outcome[q]
      BY <3>1, EndRecord
    <3>4. QED  BY <1>1, <2>2, <3>2, <3>3, OkOther
  <2>5. CASE Bundled(p)
    <3>1. \A q \in Senders \ {p} : sender'[q] = sender[q] /\ outcome'[q] = outcome[q]
      BY <2>5, BundledRecord
    <3>2. client \notin Reading /\ client \in BundleClients /\ batch(p) > 1
      BY <2>5 DEF Bundled, BundleClients, Reading
    <3>3. \A i : Earned(p, i)'
      BY <2>2, <3>2 DEF Earned, batch
    <3>4. OkOf(p)'
      BY <2>5, <3>3, BundledRecord DEF OkOf, EarnedAll, Active
    <3>5. QED  BY <1>1, <2>2, <3>1, <3>4, OkOther
  <2>6. QED  BY <2>1, <2>3, <2>4, <2>5 DEF Kind
<1>3. ASSUME NEW p \in Senders, NEW wait \in BOOLEAN, Called(p, wait)
      PROVE  \A q \in Senders : OkOf(q)'
  <2>1. client' = client /\ sender[p].pc = "idle" /\ accepted' = accepted /\ landed' = landed
    BY <1>3 DEF Called
  <2>2. sender[p].n = 1 /\ outcome[p] = <<>>
    BY <1>1, <2>1 DEF OkOf
  <2>3. OkOf(p)'
    BY <1>3, <2>2, CalledRecord DEF OkOf, EarnedAll
  <2>4. QED  BY <1>1, <1>3, <2>1, <2>3, OkOther, CalledRecord
<1>4. \A q \in Senders : OkOf(q)'
  BY <1>1, <1>2, <1>3, NextKinds, OkOther DEF Quiet
<1>5. QED  BY <1>4, OkPartsNext

\* send_transaction and send_transactions of every client: a success stands for
\* a confirmation when one was asked for, and for an acceptance where the client
\* reads the reply; for any number of senders and transactions.
THEOREM OkAlwaysEarned == Spec => []OkIsEarned
<1>1. Init => BaseInv /\ OkInv
  BY BaseInit, OkInit
<1>2. BaseInv /\ OkInv /\ [Next]_vars => BaseInv' /\ OkInv'
  BY BaseNext, OkNext
<1>3. OkInv => OkIsEarned
  BY DEF OkInv
<1>4. QED  BY <1>1, <1>2, <1>3, PTL DEF Spec

-----------------------------------------------------------------------------
LEMMA TxPairs ==
  /\ \A p \in Senders : \A i \in 1 .. batch(p) : <<p, i>> \in Txs
  /\ \A tx \in Txs : tx[1] \in Senders /\ tx[2] \in 1 .. batch(tx[1]) /\ tx = <<tx[1], tx[2]>>
  BY DEF Txs

LEMMA CountType ==
  ASSUME FlightInv, NEW tx \in Txs
  PROVE  IsFiniteSet(Copies(tx)) /\ Cardinality(Copies(tx)) \in Nat /\ Count(tx) \in Nat
         /\ deliveries[tx] \in Nat
<1>1. Copies(tx) \subseteq inflight /\ IsFiniteSet(inflight)
  BY DEF Copies, FlightInv
<1>2. IsFiniteSet(Copies(tx))
  BY <1>1, FS_Subset
<1>3. Cardinality(Copies(tx)) \in Nat
  BY <1>2, FS_CardinalityType
<1>4. deliveries[tx] \in Nat
  BY DEF FlightInv
<1>5. QED  BY <1>2, <1>3, <1>4 DEF Count

LEMMA CountInit == Init => FlightInv
<1> SUFFICES ASSUME Init PROVE FlightInv
  OBVIOUS
<1>1. inflight = {} /\ deliveries = [tx \in Txs |-> 0] /\ client \in Clients
      /\ sender = [p \in Senders |-> Idle]
  BY DEF Init, ClientInit
<1>2. IsFiniteSet({}) /\ Cardinality({}) = 0
  BY FS_EmptySet
<1>3. \A tx \in Txs : Count(tx) = 0
  <2>1. \A tx : Copies(tx) = {}
    BY <1>1 DEF Copies
  <2>2. \A tx \in Txs : Cardinality(Copies(tx)) = 0
    BY <1>2, <2>1
  <2>3. \A tx \in Txs : deliveries[tx] = 0
    BY <1>1
  <2>4. QED  BY <2>2, <2>3 DEF Count
<1>4. \A p \in Senders : \A i \in 1 .. batch(p) : Count(<<p, i>>) = 0
  BY <1>3, TxPairs
<1>5. \A p \in Senders : sender[p].tries = 0
  BY <1>1 DEF Idle
<1>6. \A p \in Senders : \A i \in 1 .. batch(p) : FlightOK(p, i)
  <2>1. (\A p \in Senders : Retries(p) = 0) /\ Allowed \in {1, 2}
    BY <1>5 DEF Retries, Allowed
  <2>2. ASSUME NEW p \in Senders, NEW i \in 1 .. batch(p) PROVE FlightOK(p, i)
    <3>1. Count(<<p, i>>) = 0 /\ Retries(p) = 0
      BY <1>4, <2>1
    <3>2. QED  BY <2>1, <3>1 DEF FlightOK
  <2>3. QED  BY <2>2
<1>7. QED  BY <1>1, <1>2, <1>6 DEF FlightInv

\* What is in flight and what was delivered stays; the sender has gone on.
LEMMA FlightSame ==
  ASSUME BaseInv, BaseInv', FlightInv, client' = client, inflight' = inflight, deliveries' = deliveries,
         NEW p \in Senders, \A q \in Senders \ {p} : sender'[q] = sender[q],
         sender'[p].n >= sender[p].n,
         sender'[p].n = sender[p].n /\ sender'[p].pc \in Before
           => sender[p].pc \in Before /\ sender'[p].tries >= sender[p].tries
  PROVE  FlightInv'
<1>1. Txs' = Txs /\ \A q \in Senders : batch(q)' = batch(q)
  BY DEF Txs, batch
<1>2. \A tx : Count(tx)' = Count(tx)
  BY DEF Count, Copies
<1>3. Allowed' = Allowed
  BY DEF Allowed
<1>4. sender[p].n \in Int /\ sender'[p].n \in Int /\ sender[p].tries \in {0, 1}
      /\ sender'[p].tries \in {0, 1}
  BY DEF BaseInv, SenderRec
<1>5. ASSUME NEW i \in 1 .. batch(p) PROVE FlightOK(p, i)'
  <2> DEFINE k == Count(<<p, i>>)
  <2>1. FlightOK(p, i) /\ k \in Nat /\ Count(<<p, i>>)' = k
    BY <1>2, CountType, TxPairs DEF FlightInv
  <2>2. /\ i > sender[p].n => k = 0
        /\ i = sender[p].n /\ sender[p].pc \in Before => k <= Retries(p)
        /\ k <= Allowed
    BY <2>1 DEF FlightOK
  <2> HIDE DEF k
  <2>3. i > sender'[p].n => k = 0
    BY <1>4, <2>2
  <2>4. Retries(p)' >= 0
        /\ (sender'[p].tries >= sender[p].tries => Retries(p)' >= Retries(p))
        /\ Retries(p)' \in Int /\ Retries(p) \in Int
    BY <1>4 DEF Retries
  <2>5. i = sender'[p].n /\ sender'[p].pc \in Before => k <= Retries(p)'
    BY <1>4, <2>1, <2>2, <2>4
  <2>6. QED  BY <1>3, <2>1, <2>2, <2>3, <2>5 DEF FlightOK
<1>6. \A q \in Senders \ {p} : \A i \in 1 .. batch(q) : FlightOK(q, i)'
  BY <1>2, <1>3 DEF FlightOK, FlightInv, Retries
<1>7. QED  BY <1>1, <1>5, <1>6 DEF FlightInv

\* The current transaction is written to a connection.
LEMMA FlightWrites ==
  ASSUME BaseInv, BaseInv', FlightInv, client' = client, deliveries' = deliveries,
         NEW p \in Senders, \A q \in Senders \ {p} : sender'[q] = sender[q],
         Writes(p), sender'[p].n = sender[p].n,
         sender'[p].pc \in Before => client = "Speedlanding" /\ sender'[p].tries = sender[p].tries + 1
  PROVE  FlightInv'
<1> DEFINE w == [tx |-> Tx(p), conn |-> sender[p].conn, try |-> sender[p].tries]
<1>1. Txs' = Txs /\ \A q \in Senders : batch(q)' = batch(q)
  BY DEF Txs, batch
<1>2. inflight' = inflight \cup {w} /\ w.tx = Tx(p) /\ sender[p].pc = "write"
  BY DEF Writes, Written
<1> HIDE DEF w
<1>3. sender[p].n \in 1 .. batch(p) /\ sender[p].tries \in {0, 1} /\ Tx(p) \in Txs
  BY TxPairs DEF BaseInv, SenderRec, Tx
<1>4. IsFiniteSet(inflight') /\ \A m \in inflight' : m.tx \in Txs
  BY <1>2, <1>3, FS_AddElement DEF FlightInv
<1>5. \A tx \in Txs \ {Tx(p)} : Count(tx)' = Count(tx)
  <2>1. \A tx \in Txs \ {Tx(p)} : Copies(tx)' = Copies(tx)
    BY <1>2 DEF Copies
  <2>2. QED  BY <2>1 DEF Count
<1>6. Count(Tx(p))' <= Count(Tx(p)) + 1 /\ Count(Tx(p))' \in Nat
  <2>1. PICK tx \in Txs : tx = Tx(p)
    BY <1>3
  <2>2. Copies(tx)' = Copies(tx) \cup {w}
    BY <1>2, <2>1 DEF Copies
  <2>3. Cardinality(Copies(tx)') \in {Cardinality(Copies(tx)), Cardinality(Copies(tx)) + 1}
    BY <2>2, CountType, FS_AddElement
  <2>4. Count(tx)' <= Count(tx) + 1 /\ Count(tx)' \in Nat
    BY <2>3, CountType DEF Count
  <2>5. Tx(p)' = Tx(p)
    BY DEF Tx
  <2>6. QED  BY <2>1, <2>4, <2>5 DEF Count, Copies
<1>7. Allowed' = Allowed
  BY DEF Allowed
<1>8. ASSUME NEW i \in 1 .. batch(p) PROVE FlightOK(p, i)'
  <2>1. FlightOK(p, i) /\ <<p, i>> \in Txs
    BY TxPairs DEF FlightInv
  <2>2. CASE i # sender[p].n
    <3>1. <<p, i>> # Tx(p)
      BY <2>2 DEF Tx
    <3>2. Count(<<p, i>>)' = Count(<<p, i>>)
      BY <1>5, <2>1, <3>1
    <3>3. QED  BY <1>7, <2>1, <2>2, <3>2 DEF FlightOK
  <2>3. CASE i = sender[p].n
    <3> DEFINE k == Count(<<p, i>>)
    <3>1. Tx(p) = <<p, i>> /\ Tx(p)' = <<p, i>>
      BY <2>3 DEF Tx
    <3>2. k \in Nat /\ k <= Retries(p)
      BY <1>2, <2>1, <2>3, CountType DEF FlightOK, Before
    <3>3. Count(<<p, i>>)' <= k + 1 /\ Count(<<p, i>>)' \in Nat
      BY <1>6, <3>1 DEF Count, Copies
    <3> HIDE DEF k
    <3>4. Retries(p) + 1 <= Allowed /\ Retries(p) \in Int /\ Allowed \in Int
      BY <1>3 DEF Retries, Allowed
    <3>5. Count(<<p, i>>)' <= Allowed
      BY <3>2, <3>3, <3>4
    <3>6. sender'[p].pc \in Before => Retries(p)' = Retries(p) + 1
      BY DEF Retries
    <3>7. sender'[p].pc \in Before => Count(<<p, i>>)' <= Retries(p)'
      BY <3>2, <3>3, <3>4, <3>6
    <3>8. ~(i > sender'[p].n)
      BY <1>3, <2>3
    <3>9. QED  BY <1>7, <3>5, <3>7, <3>8 DEF FlightOK
  <2>4. QED  BY <2>2, <2>3
<1>9. ASSUME NEW q \in Senders \ {p}, NEW i \in 1 .. batch(q) PROVE FlightOK(q, i)'
  <2>1. <<q, i>> \in Txs /\ <<q, i>> # Tx(p) /\ FlightOK(q, i)
    BY TxPairs DEF Tx, FlightInv
  <2>2. Count(<<q, i>>)' = Count(<<q, i>>)
    BY <1>5, <2>1
  <2>3. QED  BY <1>7, <2>1, <2>2 DEF FlightOK, Retries
<1>10. QED  BY <1>1, <1>4, <1>8, <1>9 DEF FlightInv

\* No sender moves, and no transaction counts more often than before.
LEMMA FlightShrinks ==
  ASSUME BaseInv, FlightInv, client' = client, sender' = sender, deliveries' \in [Txs -> Nat],
         inflight' \subseteq inflight,
         \A tx \in Txs : Count(tx)' \in Nat /\ Count(tx)' <= Count(tx)
  PROVE  FlightInv'
<1>1. Txs' = Txs /\ (\A q \in Senders : batch(q)' = batch(q)) /\ Allowed' = Allowed
  BY DEF Txs, batch, Allowed
<1>2. IsFiniteSet(inflight') /\ \A m \in inflight' : m.tx \in Txs
  BY FS_Subset DEF FlightInv
<1>3. ASSUME NEW p \in Senders, NEW i \in 1 .. batch(p) PROVE FlightOK(p, i)'
  <2> DEFINE k == Count(<<p, i>>)
             l == Count(<<p, i>>)'
  <2>1. k \in Nat /\ l \in Nat /\ l <= k /\ FlightOK(p, i)
    BY TxPairs, CountType DEF FlightInv
  <2>2. /\ i > sender[p].n => k = 0
        /\ i = sender[p].n /\ sender[p].pc \in Before => k <= Retries(p)
        /\ k <= Allowed
    BY <2>1 DEF FlightOK
  <2>3. Retries(p) \in Int /\ Allowed \in Int /\ Retries(p)' = Retries(p)
    BY DEF Retries, Allowed, BaseInv, SenderRec
  <2> HIDE DEF k, l
  <2>4. /\ i > sender[p].n => l = 0
        /\ i = sender[p].n /\ sender[p].pc \in Before => l <= Retries(p)
        /\ l <= Allowed
    BY <2>1, <2>2, <2>3
  <2>5. QED  BY <1>1, <2>3, <2>4 DEF FlightOK, l
<1>4. QED  BY <1>1, <1>2, <1>3 DEF FlightInv

LEMMA FlightSender ==
  ASSUME BaseInv, BaseInv', FlightInv, NEW p \in Senders, SenderStep(p)
  PROVE  FlightInv'
<1>1. Kind(p) /\ client' = client /\ deliveries' = deliveries /\ sender[p].pc \in Active
  BY SenderKind DEF SenderKept
<1>2. sender[p].n \in 1 .. batch(p) /\ sender[p].tries \in {0, 1} /\ batch(p) \in Nat
      /\ sender[p].n \in Int
  BY BatchType DEF BaseInv, SenderRec
<1>3. CASE Moves(p)
  <2>1. PICK pc \in Active :
          /\ Goes(p, pc, sender[p].tries)
          /\ \/ inflight' = inflight /\ (pc \in Before => sender[p].pc \in Before)
             \/ Writes(p) /\ pc \notin Before
    BY <1>3 DEF Moves
  <2>2. /\ \A q \in Senders \ {p} : sender'[q] = sender[q]
        /\ sender'[p].pc = pc /\ sender'[p].tries = sender[p].tries /\ sender'[p].n = sender[p].n
    BY <1>2, <2>1, GoesRecord
  <2>3. CASE inflight' = inflight /\ (pc \in Before => sender[p].pc \in Before)
    BY <1>1, <1>2, <2>2, <2>3, FlightSame
  <2>4. CASE Writes(p) /\ pc \notin Before
    BY <1>1, <2>2, <2>4, FlightWrites
  <2>5. QED  BY <2>1, <2>3, <2>4
<1>4. CASE Again(p)
  <2>1. PICK pc \in Active :
          /\ Goes(p, pc, 1) /\ sender[p].pc = "write" /\ sender[p].tries = 0
          /\ inflight' = inflight \/ (Writes(p) /\ client = "Speedlanding")
    BY <1>4 DEF Again, Active
  <2>2. /\ \A q \in Senders \ {p} : sender'[q] = sender[q]
        /\ sender'[p].pc = pc /\ sender'[p].tries = 1 /\ sender'[p].n = sender[p].n
    BY <2>1, GoesRecord
  <2>3. CASE inflight' = inflight
    BY <1>1, <1>2, <2>1, <2>2, <2>3, FlightSame DEF Before
  <2>4. CASE Writes(p) /\ client = "Speedlanding"
    BY <1>1, <2>1, <2>2, <2>4, FlightWrites
  <2>5. QED  BY <2>1, <2>3, <2>4
<1>5. CASE Fails(p)
  <2>1. /\ \A q \in Senders \ {p} : sender'[q] = sender[q]
        /\ sender'[p].pc = "done" /\ sender'[p].n = sender[p].n
    <3>1. End(p, "err")
      BY <1>5 DEF Fails
    <3>2. QED  BY <3>1, EndRecord
  <2>2. sender'[p].pc \notin Before
    BY <2>1 DEF Before
  <2>3. CASE inflight' = inflight
    BY <1>1, <1>2, <2>1, <2>2, <2>3, FlightSame
  <2>4. CASE Writes(p)
    BY <1>1, <2>1, <2>2, <2>4, FlightWrites
  <2>5. QED  BY <1>5, <2>3, <2>4 DEF Fails
<1>6. CASE Succeeds(p)
  <2>1. End(p, "ok") /\ inflight' = inflight
    BY <1>6 DEF Succeeds
  <2>2. \A q \in Senders \ {p} : sender'[q] = sender[q]
    BY <2>1, EndRecord
  <2>3. \/ sender'[p].n = sender[p].n + 1
        \/ sender'[p].pc = "done" /\ sender'[p].n = sender[p].n
    BY <2>1, EndRecord
  <2>4. sender'[p].n >= sender[p].n
        /\ ~(sender'[p].n = sender[p].n /\ sender'[p].pc \in Before)
    BY <1>2, <2>3 DEF Before
  <2>5. QED  BY <1>1, <2>1, <2>2, <2>4, FlightSame
<1>7. CASE Bundled(p)
  <2>1. /\ \A q \in Senders \ {p} : sender'[q] = sender[q]
        /\ sender'[p].pc = "done" /\ sender'[p].n = batch(p)
    BY <1>7, BundledRecord
  <2>2. inflight' = inflight
    <3>1. sender[p].pc = "start" /\ client \in PostClients /\ client \notin QuicClients
      BY <1>7, PostNames DEF Bundled, BundleClients, QuicClients
    <3>2. QED
      BY <3>1 DEF SenderStep, OwnStep, quicVars, Speedlanding_ensure_connected, Soyas_reconnect,
         Node1_ensure_connected, Astralane_send_transaction, HandshakeSucceeds, HandshakeFails,
         try_send_bytes, WriteFails, SendTimesOut, read_response, At
  <2>3. QED  BY <1>1, <1>2, <2>1, <2>2, FlightSame DEF Before
<1>8. QED  BY <1>1, <1>3, <1>4, <1>5, <1>6, <1>7 DEF Kind

\* The service receives a transaction: it is delivered instead of in flight.
LEMMA FlightReceive ==
  ASSUME BaseInv, FlightInv, Receive
  PROVE  FlightInv'
<1>1. PICK m \in inflight :
        /\ inflight' = inflight \ {m} /\ deliveries' = [deliveries EXCEPT ![m.tx] = @ + 1]
        /\ client' = client /\ sender' = sender
  BY DEF Receive
<1>2. m.tx \in Txs /\ deliveries \in [Txs -> Nat]
  BY DEF FlightInv
<1>3. deliveries' \in [Txs -> Nat]
  BY <1>1, <1>2
<1>4. ASSUME NEW tx \in Txs PROVE Count(tx)' \in Nat /\ Count(tx)' <= Count(tx)
  <2>1. IsFiniteSet(Copies(tx)) /\ Cardinality(Copies(tx)) \in Nat /\ deliveries[tx] \in Nat
    BY CountType
  <2>2. CASE tx = m.tx
    <3>1. Copies(tx)' = Copies(tx) \ {m} /\ m \in Copies(tx)
      BY <1>1, <2>2 DEF Copies
    <3>2. Cardinality(Copies(tx)') = Cardinality(Copies(tx)) - 1
      BY <2>1, <3>1, FS_RemoveElement
    <3>3. Cardinality(Copies(tx)) # 0
      BY <2>1, <3>1, FS_EmptySet
    <3>4. deliveries'[tx] = deliveries[tx] + 1
      BY <1>1, <1>2, <2>2
    <3>5. QED  BY <2>1, <3>2, <3>3, <3>4 DEF Count
  <2>3. CASE tx # m.tx
    <3>1. Copies(tx)' = Copies(tx)
      BY <1>1, <2>3 DEF Copies
    <3>2. deliveries'[tx] = deliveries[tx]
      BY <1>1, <1>2, <2>3
    <3>3. QED  BY <2>1, <3>1, <3>2 DEF Count
  <2>4. QED  BY <2>2, <2>3
<1>5. QED  BY <1>1, <1>3, <1>4, FlightShrinks

\* A connection closes, with what is in flight on it; or nothing happens here.
LEMMA FlightLoses ==
  ASSUME BaseInv, FlightInv, client' = client, sender' = sender, deliveries' = deliveries,
         inflight' \subseteq inflight
  PROVE  FlightInv'
<1>1. deliveries' \in [Txs -> Nat]
  BY DEF FlightInv
<1>2. ASSUME NEW tx \in Txs PROVE Count(tx)' \in Nat /\ Count(tx)' <= Count(tx)
  <2>1. IsFiniteSet(Copies(tx)) /\ Cardinality(Copies(tx)) \in Nat /\ deliveries[tx] \in Nat
    BY CountType
  <2>2. Copies(tx)' \in SUBSET Copies(tx)
    BY DEF Copies
  <2>3. IsFiniteSet(Copies(tx)') /\ Cardinality(Copies(tx)') <= Cardinality(Copies(tx))
    BY <2>1, <2>2, FS_Subset
  <2>4. Cardinality(Copies(tx)') \in Nat
    BY <2>3, FS_CardinalityType
  <2>5. QED  BY <2>1, <2>3, <2>4 DEF Count
<1>3. QED  BY <1>1, <1>2, FlightShrinks

LEMMA FlightNext ==
  ASSUME BaseInv, BaseInv', FlightInv, [Next]_vars
  PROVE  FlightInv'
<1>1. ASSUME NEW p \in Senders, SenderStep(p) PROVE FlightInv'
  BY <1>1, FlightSender
<1>2. CASE \E p \in Senders, wait \in BOOLEAN : send_transactions(p, wait) /\ UNCHANGED quicVars
  <2>1. PICK p \in Senders, wait \in BOOLEAN : Called(p, wait)
    BY <1>2 DEF send_transactions, Called
  <2>2. client' = client /\ inflight' = inflight /\ deliveries' = deliveries
        /\ sender[p].pc = "idle"
    BY <2>1 DEF Called, quicVars
  <2>3. /\ \A q \in Senders \ {p} : sender'[q] = sender[q]
        /\ sender'[p].pc = "start" /\ sender'[p].n = sender[p].n
        /\ sender'[p].tries = sender[p].tries
    BY <2>1, CalledRecord
  <2>4. sender'[p].n >= sender[p].n /\ sender'[p].tries >= sender[p].tries
    <3>1. sender[p] \in SenderRec
      BY DEF BaseInv
    <3>2. sender[p].n \in Nat /\ sender[p].tries \in {0, 1}
      BY <3>1 DEF SenderRec
    <3>3. QED  BY <2>3, <3>2
  <2>5. QED  BY <2>2, <2>3, <2>4, FlightSame DEF Before
<1>3. CASE (Land \/ KeepNext) /\ UNCHANGED quicVars
  <2>1. client' = client /\ sender' = sender
    BY <1>3, KeepQuiet DEF Land, Quiet
  <2>2. QED  BY <1>3, <2>1, FlightLoses DEF quicVars
<1>4. CASE DropClient
  <2>1. client' = client /\ sender' = sender
    BY <1>4, KeepQuiet DEF DropClient, Quiet
  <2>2. deliveries' = deliveries /\ inflight' \subseteq inflight
    BY <1>4 DEF DropClient
  <2>3. QED  BY <2>1, <2>2, FlightLoses
<1>5. CASE Receive
  BY <1>5, FlightReceive
<1>6. CASE ConnectionCloses \/ LastHandleDropped
  BY <1>6, FlightLoses DEF ConnectionCloses, LastHandleDropped, Close, clientVars
<1>7. CASE UNCHANGED vars
  BY <1>7, FlightLoses DEF vars, clientVars, quicVars
<1>8. QED  BY <1>1, <1>2, <1>3, <1>4, <1>5, <1>6, <1>7 DEF Next

\* The QUIC clients, for any number of senders, connections, losses and
\* timeouts: a transaction reaches its service at most once, and at most twice
\* through Speedlanding, which resends after a timeout.
THEOREM NothingDeliveredTwice == Spec => []DeliveredOnce
<1>1. Init => BaseInv /\ FlightInv
  BY BaseInit, CountInit
<1>2. BaseInv /\ FlightInv /\ [Next]_vars => BaseInv' /\ FlightInv'
  BY BaseNext, FlightNext
<1>3. FlightInv => DeliveredOnce
  <2> SUFFICES ASSUME FlightInv, NEW tx \in Txs PROVE Count(tx) <= Allowed
    BY DEF DeliveredOnce, Count, Copies, Allowed
  <2>1. tx[1] \in Senders /\ tx[2] \in 1 .. batch(tx[1]) /\ tx = <<tx[1], tx[2]>>
    BY TxPairs
  <2>2. FlightOK(tx[1], tx[2])
    BY <2>1 DEF FlightInv
  <2>3. QED  BY <2>1, <2>2 DEF FlightOK
<1>4. QED  BY <1>1, <1>2, <1>3, PTL DEF Spec

-----------------------------------------------------------------------------
\* Connections only close, and nobody enters the handshake.
LEMMA ConnCloses ==
  ASSUME BaseInv, ConnInv, client' = client, reconnect' = reconnect, Closes,
         \A q \in Senders : sender'[q].pc = "handshake" => sender[q].pc = "handshake"
  PROVE  ConnInv'
<1>1. /\ link \in Seq(LinkStates) /\ link' \in Seq(LinkStates) /\ Len(link') = Len(link)
      /\ connection' = connection /\ connection \in 1 .. Len(link)
      /\ \A c \in 1 .. Len(link) : Closed(c) => Closed(c)'
  BY DEF Closes, BaseInv, Closed
<1>2. DOMAIN link = 1 .. Len(link) /\ DOMAIN link' = 1 .. Len(link)
  BY <1>1
<1>3. ConnectionShared'
  BY <1>1, <1>2 DEF ConnInv, ConnectionShared
<1>4. client' \in Locking => \A p \in Senders :
        sender'[p].pc = "handshake" => reconnect' = p /\ Closed(connection)'
  <2>1. Closed(connection) => Closed(connection)'
    BY <1>1 DEF Closed
  <2>2. QED  BY <2>1 DEF ConnInv
<1>5. QED  BY <1>3, <1>4 DEF ConnInv

\* The clients that reconnect under the lock.  The second look of Speedlanding
\* and the one of Astralane find the connection closed, and the lock free.
LEMMA ConnLocks ==
  ASSUME BaseInv, ConnInv, NEW p \in Senders,
         Speedlanding_ensure_connected(p) \/ Astralane_send_transaction(p)
  PROVE  ConnInv'
<1>1. /\ client' = client /\ client \in Locking /\ link' = link /\ connection' = connection
      /\ sender[p].pc \in {"start", "relock"}
  BY DEF Speedlanding_ensure_connected, Astralane_send_transaction, Kept, SameLinks, At, Locking
<1>2. \A q \in Senders \ {p} : sender'[q] = sender[q]
  <2>1. Moves(p) \/ Fails(p)
    BY ConnectKind
  <2>2. sender[p].tries \in {0, 1}
    BY DEF BaseInv, SenderRec
  <2>3. CASE Moves(p)
    <3>1. PICK pc \in Active : Goes(p, pc, sender[p].tries)
      BY <2>3 DEF Moves
    <3>2. QED  BY <2>2, <3>1, GoesRecord
  <2>4. CASE Fails(p)
    <3>1. End(p, "err")
      BY <2>4 DEF Fails
    <3>2. QED  BY <3>1, EndRecord
  <2>5. QED  BY <2>1, <2>3, <2>4
<1>3. \/ /\ reconnect = None /\ reconnect' = p /\ Closed(connection)
      \/ /\ reconnect' = reconnect /\ sender'[p].pc # "handshake"
  <2>1. sender[p] \in SenderRec /\ sender \in [Senders -> SenderRec]
    BY DEF BaseInv
  <2>2. /\ \A c : Use(p, c) => sender'[p].pc = "write"
        /\ Goto(p, "relock") => sender'[p].pc = "relock"
    BY <2>1 DEF Use, Goto, SenderRec
  <2>3. End(p, "err") => sender'[p].pc = "done"
    BY EndRecord
  <2>4. \/ /\ reconnect = None /\ reconnect' = p /\ Closed(connection)
        \/ /\ reconnect' = reconnect
           /\ Use(p, connection) \/ Goto(p, "relock") \/ End(p, "err")
    BY DEF Speedlanding_ensure_connected, Astralane_send_transaction, Closed
  <2>5. QED  BY <2>2, <2>3, <2>4
<1>4. ConnectionShared'
  BY <1>1 DEF ConnInv, ConnectionShared, Closed
<1>5. ASSUME NEW q \in Senders, sender'[q].pc = "handshake"
      PROVE  reconnect' = q /\ Closed(connection)'
  <2>1. Closed(connection)' <=> Closed(connection)
    BY <1>1 DEF Closed
  <2>2. CASE q = p  BY <1>3, <1>5, <2>1, <2>2
  <2>3. CASE q # p
    <3>1. reconnect = q /\ Closed(connection)
      BY <1>1, <1>2, <1>5, <2>3 DEF ConnInv
    <3>2. QED  BY <1>3, <2>1, <3>1
  <2>4. QED  BY <2>2, <2>3
<1>6. QED  BY <1>4, <1>5 DEF ConnInv

\* The end of a handshake of a client that holds the lock.
LEMMA ConnHandshake ==
  ASSUME BaseInv, ConnInv, NEW p \in Senders, HandshakeSucceeds(p) \/ HandshakeFails(p),
         client \in Locking
  PROVE  ConnInv'
<1>1. client' = client /\ sender[p].pc = "handshake" /\ reconnect = p /\ Closed(connection)
  BY DEF HandshakeSucceeds, HandshakeFails, Kept, At, ConnInv
<1>2. sender[p] \in SenderRec /\ sender \in [Senders -> SenderRec]
      /\ link \in Seq(LinkStates) /\ connection \in 1 .. Len(link)
  BY DEF BaseInv
<1>3. \A q \in Senders \ {p} : sender[q].pc # "handshake"
  BY <1>1 DEF ConnInv
<1>4. CASE HandshakeSucceeds(p)
  <2>1. link' = Append(link, "live") /\ connection' = Len(link) + 1 /\ Use(p, Len(link) + 1)
    BY <1>4 DEF HandshakeSucceeds
  <2>2. \A q \in Senders : sender'[q].pc # "handshake"
    BY <1>2, <1>3, <2>1 DEF Use, SenderRec
  <2>3. /\ DOMAIN link' = 1 .. Len(link) + 1 /\ DOMAIN link = 1 .. Len(link)
        /\ \A c \in 1 .. Len(link) : link'[c] = link[c]
    BY <1>2, <2>1
  <2>4. \A c \in 1 .. Len(link) : Closed(c)
    BY <1>1, <2>3 DEF ConnInv, ConnectionShared, Locking
  <2>5. \A c \in DOMAIN link' : ~Closed(c)' => c = connection'
    BY <1>2, <2>1, <2>3, <2>4 DEF Closed
  <2>6. QED  BY <2>2, <2>5 DEF ConnInv, ConnectionShared
<1>5. CASE HandshakeFails(p)
  <2>1. link' = link /\ connection' = connection
    BY <1>5 DEF HandshakeFails
  <2>2. \/ Goto(p, "handshake") /\ reconnect' = reconnect
        \/ End(p, "err")
    BY <1>5 DEF HandshakeFails
  <2>3. \A q \in Senders \ {p} : sender'[q] = sender[q]
    BY <1>2, <2>2, EndRecord DEF Goto
  <2>4. End(p, "err") => sender'[p].pc = "done"
    BY EndRecord
  <2>5. \A q \in Senders : sender'[q].pc = "handshake" => q = p /\ reconnect' = reconnect
    BY <1>3, <2>2, <2>3, <2>4
  <2>6. ConnectionShared' /\ (Closed(connection)' <=> Closed(connection))
    BY <1>1, <2>1 DEF ConnInv, ConnectionShared, Closed
  <2>7. QED  BY <1>1, <2>5, <2>6 DEF ConnInv
<1>6. QED  BY <1>4, <1>5

\* The other steps of a sender: no connection, no lock, no way into the handshake.
LEMMA ConnOther ==
  ASSUME BaseInv, ConnInv, NEW p \in Senders, SenderStep(p), client \in Locking,
         ~(Speedlanding_ensure_connected(p) \/ Astralane_send_transaction(p)),
         ~(HandshakeSucceeds(p) \/ HandshakeFails(p))
  PROVE  ConnInv'
<1>1. Kind(p) /\ client' = client /\ client \in QuicClients
  BY SenderKind DEF SenderKept, Locking, QuicClients
<1>2. client \notin PostClients /\ client # "Soyas" /\ client # "Node1Quic"
  BY PostNames DEF Locking
<1>3. \/ poll_transaction_confirmation(p) /\ UNCHANGED quicVars
      \/ try_send_bytes(p) \/ WriteFails(p) \/ SendTimesOut(p) \/ read_response(p)
  BY <1>2 DEF SenderStep, OwnStep, PostNext, send_transaction, send_bundle, Soyas_reconnect,
       Node1_ensure_connected, BundleClients, Locking
<1>4. link' = link /\ connection' = connection /\ reconnect' = reconnect
  BY <1>3 DEF quicVars, try_send_bytes, WriteFails, SendTimesOut, read_response, SameLinks
<1>5. sender[p] \in SenderRec /\ sender \in [Senders -> SenderRec] /\ sender[p].tries \in {0, 1}
      /\ link \in Seq(LinkStates) /\ connection \in 1 .. Len(link)
  BY DEF BaseInv, SenderRec
<1>6. \/ \E pc \in {"start", "relock", "poll"}, tries \in {0, 1} : Goes(p, pc, tries)
      \/ \E r \in {"ok", "err"} : End(p, r)
  <2>1. ToPoll(p) => Goes(p, "poll", sender[p].tries)
    BY ToPollGoes
  <2>2. Retry(p) => (\E pc \in {"start", "relock"} : Goes(p, pc, 1)) \/ End(p, "err")
    BY RetryGoes
  <2>3. ToPoll(p) \/ Retry(p) \/ \E r \in {"ok", "err"} : End(p, r)
    BY <1>2, <1>3 DEF poll_transaction_confirmation, try_send_bytes, WriteFails, SendTimesOut,
         read_response
  <2>4. QED  BY <1>5, <2>1, <2>2, <2>3
<1>7. \A q \in Senders : sender'[q].pc = "handshake" => sender[q].pc = "handshake"
  <2>1. ASSUME NEW pc \in {"start", "relock", "poll"}, NEW tries \in {0, 1}, Goes(p, pc, tries)
        PROVE  \A q \in Senders : sender'[q].pc = "handshake" => sender[q].pc = "handshake"
    <3>1. pc \in Active
      BY DEF Active
    <3>2. (\A q \in Senders \ {p} : sender'[q] = sender[q]) /\ sender'[p].pc = pc
      BY <2>1, <3>1, GoesRecord
    <3>3. QED  BY <3>2
  <2>2. ASSUME NEW r \in {"ok", "err"}, End(p, r)
        PROVE  \A q \in Senders : sender'[q].pc = "handshake" => sender[q].pc = "handshake"
    <3>1. (\A q \in Senders \ {p} : sender'[q] = sender[q]) /\ sender'[p].pc \in {"start", "done"}
      BY <2>2, EndRecord
    <3>2. QED  BY <3>1
  <2>3. QED  BY <1>6, <2>1, <2>2
<1>8. Closes
  BY <1>4, <1>5 DEF Closes, Closed
<1>9. QED  BY <1>1, <1>4, <1>7, <1>8, ConnCloses

LEMMA ConnInit == Init => ConnInv
<1> SUFFICES ASSUME Init PROVE ConnInv
  OBVIOUS
<1>1. link = <<"live">> /\ connection = 1 /\ \A p \in Senders : sender[p].pc = "idle"
  BY DEF Init, ClientInit, Idle
<1>2. QED  BY <1>1 DEF ConnInv, ConnectionShared

LEMMA ConnNext ==
  ASSUME BaseInv, ConnInv, [Next]_vars
  PROVE  ConnInv'
<1>1. ASSUME NEW p \in Senders, SenderStep(p) PROVE ConnInv'
  <2>1. CASE client \in Locking
    BY <1>1, <2>1, ConnLocks, ConnHandshake, ConnOther
  <2>2. CASE client \notin Locking
    <3>1. client' = client
      BY <1>1, SenderKind DEF SenderKept
    <3>2. QED  BY <2>2, <3>1 DEF ConnInv, ConnectionShared, Locking
  <2>3. QED  BY <2>1, <2>2
<1>2. ASSUME NEW p \in Senders, NEW wait \in BOOLEAN, Called(p, wait) PROVE ConnInv'
  <2>1. \A q \in Senders : sender'[q].pc = "handshake" => sender[q].pc = "handshake"
    BY <1>2, CalledRecord
  <2>2. client' = client /\ reconnect' = reconnect /\ link' = link /\ connection' = connection
    BY <1>2 DEF Called, quicVars
  <2>3. Closes
    BY <2>2 DEF Closes, Closed, BaseInv
  <2>4. QED  BY <2>1, <2>2, <2>3, ConnCloses
<1>3. ASSUME Quiet, ~\E p \in Senders : SenderStep(p),
             ~\E p \in Senders, wait \in BOOLEAN : send_transactions(p, wait) /\ UNCHANGED quicVars
      PROVE  ConnInv'
  <2>1. reconnect' = reconnect
    BY <1>3 DEF Next, DropClient, Receive, ConnectionCloses, LastHandleDropped, Close, quicVars, vars
  <2>2. Closes
    BY <1>3, LinkKinds DEF SenderStep, OwnStep
  <2>3. QED  BY <1>3, <2>1, <2>2, ConnCloses DEF Quiet
<1>4. CASE \E p \in Senders, wait \in BOOLEAN : send_transactions(p, wait) /\ UNCHANGED quicVars
  <2>1. \E p \in Senders, wait \in BOOLEAN : Called(p, wait)
    BY <1>4 DEF send_transactions, Called
  <2>2. QED  BY <1>2, <2>1
<1>5. QED  BY <1>1, <1>2, <1>3, <1>4, NextKinds

\* Speedlanding and Astralane over QUIC: however many senders find the
\* connection closed at the same time, a live connection is never replaced.
THEOREM ConnectionAlwaysShared == Spec => []ConnectionShared
<1>1. Init => BaseInv /\ ConnInv
  BY BaseInit, ConnInit
<1>2. BaseInv /\ ConnInv /\ [Next]_vars => BaseInv' /\ ConnInv'
  BY BaseNext, ConnNext
<1>3. ConnInv => ConnectionShared
  BY DEF ConnInv
<1>4. QED  BY <1>1, <1>2, <1>3, PTL DEF Spec
=============================================================================
