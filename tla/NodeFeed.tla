------------------------------- MODULE NodeFeed -------------------------------
(***************************************************************************)
(* The market-data path of the Node.js bot: GrpcSubscriber's log callback  *)
(* and the writes of RedisStore.  Every notification runs a callback of    *)
(* its own; the callbacks interleave at their awaits (getTransaction,      *)
(* SISMEMBER, the pipeline), and nothing is rechecked after one.  Redis    *)
(* survives a crash, the set of processed signatures does not.             *)
(*                                                                         *)
(* A pipeline is no transaction: each of its commands is applied or fails, *)
(* and exec returns the errors where storeTrade does not look.  When the   *)
(* connection goes before any answer, the client sends all of it again.    *)
(***************************************************************************)
EXTENDS NodeStore, FiniteSets

CONSTANTS
  Callbacks,       \* log callbacks that can be in flight at once
  maxProcessedSignatures, \* 10000 in the code
  MaxNotices,      \* bound: notifications delivered
  MaxCrashes       \* bound: crashes of the process and losses of its connection

ASSUME NodeFeedAssumption ==
  maxProcessedSignatures \in Nat \ {0, 1} /\ MaxNotices \in Nat /\ MaxCrashes \in Nat

VARIABLES
  subscribed,  \* GrpcSubscriber.running
  notices,     \* notifications delivered so far
  crashes,     \* crashes and losses so far
  callback,    \* callback[c]: where it is and the signature it serves
  processed,   \* processedSignatures, in insertion order
  sigs,        \* sigs[m]: the Redis set "sigs:m"
  overlapped,  \* history: signatures two callbacks served at once
  halfStored,  \* history: signatures pushed without SADD, or without an answer
  untrimmed,   \* history: tokens whose last push was not followed by its LTRIM
  failed       \* history: signatures whose write failed or died in a crash

feedVars == <<subscribed, notices, crashes, callback, processed, trades, sigs,
              overlapped, halfStored, untrimmed, failed>>

Idle == [stage |-> "idle"]
InFlight(c) == callback[c] # Idle
Serves(c, s) == InFlight(c) /\ callback[c].sig = s

FeedInit ==
  /\ subscribed = TRUE /\ notices = 0 /\ crashes = 0
  /\ callback = [c \in Callbacks |-> Idle] /\ processed = <<>>
  /\ StoreInit /\ sigs = [m \in Tokens |-> {}]
  /\ overlapped = {} /\ halfStored = {} /\ untrimmed = {} /\ failed = {}

Processed == {processed[i] : i \in DOMAIN processed}

\* Mutated form: the signature is marked before the transaction is fetched.
onLogs_marks(c, s) ==
  /\ notices < MaxNotices /\ ~InFlight(c)
  /\ subscribed /\ s \notin Processed
  /\ notices' = notices + 1
  /\ callback' = [callback EXCEPT ![c] = [stage |-> "fetch", sig |-> s]]
  /\ processed' = Append(processed, s)
  /\ overlapped' = overlapped \cup (IF \E d \in Callbacks : Serves(d, s) THEN {s} ELSE {})
  /\ UNCHANGED <<subscribed, crashes, trades, sigs, halfStored, untrimmed, failed>>

\* A log notification of a successful transaction that was not processed yet:
\* its callback asks for the transaction.  Any other one returns at once.
onLogs(c, s) ==
  /\ notices < MaxNotices /\ ~InFlight(c)
  /\ subscribed /\ s \notin Processed
  /\ notices' = notices + 1
  /\ callback' = [callback EXCEPT ![c] = [stage |-> "fetch", sig |-> s]]
  /\ overlapped' = overlapped \cup (IF \E d \in Callbacks : Serves(d, s) THEN {s} ELSE {})
  /\ UNCHANGED <<subscribed, crashes, processed, trades, sigs, halfStored, untrimmed, failed>>

\* Mutated form: the set is cut only when it is already one too large.
markSignatureProcessed_late(s) ==
  LET added == IF s \in Processed THEN processed ELSE Append(processed, s)
  IN  IF Len(added) > maxProcessedSignatures + 1
      THEN SubSeq(added, Len(added) - (maxProcessedSignatures \div 2) + 1, Len(added))
      ELSE added

\* Set.add keeps the place of a member; beyond the limit the older half goes.
markSignatureProcessed(s) ==
  LET added == IF s \in Processed THEN processed ELSE Append(processed, s)
  IN  IF Len(added) > maxProcessedSignatures
      THEN SubSeq(added, Len(added) - (maxProcessedSignatures \div 2) + 1, Len(added))
      ELSE added

\* getTransaction returned something that parses: the signature is marked, and
\* the handler's storeTrade asks Redis for it.
TransactionFetched(c) ==
  /\ InFlight(c) /\ callback[c].stage = "fetch"
  /\ LET s == callback[c].sig
     IN  /\ parseTransaction(Tx[s]) # {}
         /\ processed' = markSignatureProcessed(s)
         /\ \E time \in TimesOf(s) : callback' = [callback EXCEPT ![c] =
              [stage |-> "ask", sig |-> s, record |-> createTradeRecord(s, time)]]
  /\ UNCHANGED <<subscribed, notices, crashes, trades, sigs, overlapped, halfStored, untrimmed, failed>>

\* It returned null or threw, or the parser found nothing or threw: the callback
\* ends without a trace, and a later notification may try again.
FetchFails(c) ==
  /\ InFlight(c) /\ callback[c].stage = "fetch"
  /\ callback' = [callback EXCEPT ![c] = Idle]
  /\ UNCHANGED <<subscribed, notices, crashes, processed, trades, sigs, overlapped, halfStored, untrimmed, failed>>

\* Mutated form: the answer is not looked at.
isSignatureExists_ignored(c) ==
  /\ InFlight(c) /\ callback[c].stage = "ask"
  /\ callback' = [callback EXCEPT ![c].stage = "write"]
  /\ UNCHANGED <<subscribed, notices, crashes, processed, trades, sigs, overlapped, halfStored, untrimmed, failed>>

\* SISMEMBER answers: a known signature ends the callback, the pipeline of an
\* unknown one is sent.
isSignatureExists(c) ==
  /\ InFlight(c) /\ callback[c].stage = "ask"
  /\ callback' = [callback EXCEPT ![c] =
       IF @.sig \in sigs[MintOf(@.sig)] THEN Idle ELSE [@ EXCEPT !.stage = "write"]]
  /\ UNCHANGED <<subscribed, notices, crashes, processed, trades, sigs, overlapped, halfStored, untrimmed, failed>>

\* Mutated form: the list is replaced by the record.
storeTrade_set(c) ==
  /\ InFlight(c) /\ callback[c].stage = "write"
  /\ LET m == MintOf(callback[c].sig)
     IN  /\ trades' = [trades EXCEPT ![m] = <<callback[c].record>>]
         /\ sigs' = [sigs EXCEPT ![m] = @ \cup {callback[c].sig}]
  /\ callback' = [callback EXCEPT ![c] = Idle]
  /\ UNCHANGED <<subscribed, notices, crashes, processed, overlapped, halfStored, untrimmed, failed>>

Pipeline == {"lpush", "ltrim", "sadd"}

\* Redis runs those commands of a callback's pipeline that do not fail.
RunPipeline(c, applied) ==
  /\ InFlight(c) /\ callback[c].stage = "write"
  /\ LET m == MintOf(callback[c].sig)
     IN  /\ pushTrade(m, callback[c].record, applied)
         /\ sigs' = [sigs EXCEPT ![m] = IF "sadd" \in applied THEN @ \cup {callback[c].sig} ELSE @]
         /\ untrimmed' = IF "ltrim" \in applied THEN untrimmed \ {m}
                         ELSE IF "lpush" \in applied THEN untrimmed \cup {m} ELSE untrimmed

\* The pipeline is answered, and the callback ends whatever the answers are.
storeTrade(c) ==
  \E applied \in SUBSET Pipeline :
    /\ RunPipeline(c, applied)
    /\ halfStored' = halfStored \cup
         (IF "lpush" \in applied /\ "sadd" \notin applied THEN {callback[c].sig} ELSE {})
    /\ failed' = failed \cup (IF {"lpush", "sadd"} \subseteq applied THEN {} ELSE {callback[c].sig})
    /\ callback' = [callback EXCEPT ![c] = Idle]
    /\ UNCHANGED <<subscribed, notices, crashes, processed, overlapped>>

\* The connection is lost before the pipeline is answered, whatever ran of it:
\* the client will send it again.
ConnectionLost(c) ==
  /\ crashes < MaxCrashes /\ crashes' = crashes + 1
  /\ \E applied \in SUBSET Pipeline :
       /\ RunPipeline(c, applied)
       /\ halfStored' = halfStored \cup (IF "lpush" \in applied THEN {callback[c].sig} ELSE {})
  /\ UNCHANGED <<subscribed, notices, callback, processed, overlapped, failed>>

\* SISMEMBER fails: emitUpdate logs the error, and the update is lost although
\* its signature stays marked.
StoreFails(c) ==
  /\ InFlight(c) /\ callback[c].stage = "ask"
  /\ callback' = [callback EXCEPT ![c] = Idle]
  /\ failed' = failed \cup {callback[c].sig}
  /\ UNCHANGED <<subscribed, notices, crashes, processed, trades, sigs, overlapped, halfStored, untrimmed>>

unsubscribe ==
  /\ subscribed /\ subscribed' = FALSE
  /\ UNCHANGED <<notices, crashes, callback, processed, trades, sigs, overlapped, halfStored, untrimmed, failed>>

\* The process dies and a new one subscribes.
FeedRestart ==
  /\ crashes < MaxCrashes /\ crashes' = crashes + 1
  /\ subscribed' = TRUE /\ processed' = <<>>
  /\ failed' = failed \cup {callback[c].sig : c \in {d \in Callbacks : InFlight(d)}}
  /\ callback' = [c \in Callbacks |-> Idle]
  /\ UNCHANGED <<notices, trades, sigs, overlapped, halfStored, untrimmed>>

FeedStep ==
  \/ \E c \in Callbacks : \/ \E s \in NodeSigs : onLogs(c, s)
                          \/ TransactionFetched(c) \/ FetchFails(c)
                          \/ isSignatureExists(c) \/ storeTrade(c) \/ StoreFails(c)
                          \/ ConnectionLost(c)
  \/ unsubscribe

FeedNext == FeedStep \/ FeedRestart

FeedSpec == FeedInit /\ [][FeedNext]_feedVars

(***************************************************************************)
(* Properties.                                                             *)
(***************************************************************************)
\* A transaction can be listed twice for two reasons: the check and the write of
\* storeTrade are separate awaits, and two of its callbacks were in flight at once;
\* or its LPUSH ran without its SADD, or without an answer, and was made again.  No
\* redelivery, eviction from processedSignatures or restart alone can do it.
DuplicatesExplained ==
  \A m \in Tokens : \A i, j \in DOMAIN trades[m] :
    i # j /\ trades[m][i].signature = trades[m][j].signature
      => trades[m][i].signature \in overlapped \cup halfStored

\* A signature is marked before its trade is stored: what the subscriber will
\* never look at again is known in Redis, on its way there, or was lost to an error.
MarkedIsStored ==
  \A s \in Processed : \/ \E m \in Tokens : s \in sigs[m]
                       \/ \E c \in Callbacks : Serves(c, s)
                       \/ s \in failed

\* Callbacks that run into each other still leave lists as the strategy expects
\* them, however their pipelines end: a change puts one record of a fetched
\* transaction in front, cuts the list at its limit, or both.
ImplementsStore == StoreSpec

\* The memory of the subscriber stays within its limit, and the list of a token
\* as well unless its last LTRIM failed: the next one to run cuts all of the excess.
FeedBounded ==
  /\ \A m \in Tokens : Len(trades[m]) <= maxTradesPerToken \/ m \in untrimmed
  /\ Len(processed) <= maxProcessedSignatures
=============================================================================
