---------------------------- MODULE NodeBotProofs ----------------------------
(***************************************************************************)
(* The Node.js bot for every set of tokens and transactions, every         *)
(* configuration, every number of callbacks, trades, pending transactions  *)
(* and crashes, and every limit: first its feed, then its trading.  The    *)
(* two share the lists and sets in Redis only.                             *)
(***************************************************************************)
EXTENDS NodeFeed, NodeStrategy, SequenceTheorems, FiniteSetTheorems, TLAPS

\* What the lists in Redis hold.
NodeRecord == [price: Nat, blocktime: Nat, isBuy: BOOLEAN, signature: NodeSigs]

(***************************************************************************)
(* The feed.  What a callback remembers across its awaits is what the      *)
(* proofs are about: the answer of SISMEMBER it writes on may be stale,    *)
(* and its pipeline may have run before (WritesAnew), and it is the only   *)
(* one to know that a marked signature is not yet in Redis (MarkedInv).    *)
(***************************************************************************)
Fetching == [stage: {"fetch"}, sig: NodeSigs]
Storing == [stage: {"ask", "write"}, sig: NodeSigs, record: NodeRecord]

FeedTypeOK ==
  /\ callback \in [Callbacks -> {Idle} \cup Fetching \cup Storing]
  /\ processed \in Seq(NodeSigs)
  /\ trades \in [Tokens -> Seq(NodeRecord)]
  /\ sigs \in [Tokens -> SUBSET NodeSigs]

\* What a callback is about to store is a record of the transaction it fetched.
Faithful(x) == x.stage \in {"ask", "write"} =>
  /\ parseTransaction(Tx[x.sig]) # {}
  /\ \E time \in TimesOf(x.sig) : x.record = createTradeRecord(x.sig, time)
RecordsFaithful == \A c \in Callbacks : Faithful(callback[c])

\* What is listed is known, unless its SADD did not run.
ListedKnown == \A m \in Tokens : \A i \in DOMAIN trades[m] :
  trades[m][i].signature \in sigs[m] \cup halfStored

OverlapSeen == \A c, d \in Callbacks : \A s \in NodeSigs :
  c # d /\ Serves(c, s) /\ Serves(d, s) => s \in overlapped

\* A callback that writes what is listed already overlaps another one, or makes
\* up for a pipeline that was cut.
WritesAnew == \A c \in Callbacks :
  callback[c].stage = "write" =>
    \A i \in DOMAIN trades[MintOf(callback[c].sig)] :
      trades[MintOf(callback[c].sig)][i].signature = callback[c].sig
        => callback[c].sig \in overlapped \cup halfStored

\* A callback that still fetches is no reason for its signature to be marked.
MarkedInv == \A s \in Processed :
  \/ \E m \in Tokens : s \in sigs[m]
  \/ \E c \in Callbacks : Serves(c, s) /\ callback[c].stage # "fetch"
  \/ s \in failed

FeedInv ==
  /\ FeedTypeOK /\ RecordsFaithful /\ FeedBounded
  /\ ListedKnown /\ OverlapSeen /\ WritesAnew /\ DuplicatesExplained /\ MarkedInv

(***************************************************************************)
(* Parsing, lists and callbacks.                                           *)
(***************************************************************************)

\* A transaction that parses names a token, and its record is one of the store.
LEMMA ParsedTyped ==
  ASSUME NEW s \in NodeSigs, parseTransaction(Tx[s]) # {}
  PROVE  /\ MintOf(s) \in Tokens
         /\ \A time \in TimesOf(s) : /\ createTradeRecord(s, time) \in NodeRecord
                                     /\ createTradeRecord(s, time).signature = s
<1> DEFINE tx == Tx[s]
           p == CHOOSE q \in parseTransaction(Tx[s]) : TRUE
<1>1. tx.blockTime \in Nat /\ tx.instructions \in Seq(Instruction)
  BY NodeStoreAssumption
<1>2. p \in parseTransaction(tx)
  OBVIOUS
<1>3. PICK i \in DOMAIN tx.instructions :
        /\ Usable(tx.instructions[i])
        /\ p = [mint |-> CHOOSE m \in extractMintFromAccountKeys(tx.instructions[i].accounts) : TRUE,
                swap |-> parseInstructionData(tx.instructions[i])]
  BY <1>2 DEF parseTransaction
<1>4. tx.instructions[i] \in Instruction
  BY <1>1, ElementOfSeq, LenProperties
<1> DEFINE ix == tx.instructions[i]
<1> HIDE DEF p, tx
<1>5. p.mint \in Tokens
  <2>1. extractMintFromAccountKeys(ix.accounts) # {}
    BY <1>3 DEF Usable
  <2>2. p.mint \in extractMintFromAccountKeys(ix.accounts)
    BY <1>3, <2>1
  <2>3. PICK j \in DOMAIN ix.accounts : p.mint = ix.accounts[j] /\ ix.accounts[j] \notin Excluded
    BY <2>2 DEF extractMintFromAccountKeys
  <2>4. ix.accounts \in Seq(Keys)
    BY <1>4 DEF Instruction
  <2>5. ix.accounts[j] \in Keys
    BY <2>3, <2>4, ElementOfSeq, LenProperties
  <2> QED  BY <2>3, <2>5 DEF Tokens
<1>6. p.swap = parseInstructionData(ix)
  BY <1>3
<1>7. ix.a \in Nat /\ ix.b \in Nat
  BY <1>4 DEF Instruction
<1>8. p.swap.isBuy \in BOOLEAN /\ p.swap.token \in Nat /\ p.swap.sol \in Nat
  BY <1>6, <1>7 DEF parseInstructionData
<1>9. calculatePriceFromAmounts(p.swap.sol, p.swap.token) \in Nat
  <2>1. \A a, b \in Nat : b > 0 => a \div b \in Nat
    OBVIOUS
  <2> QED  BY <1>8, <2>1 DEF calculatePriceFromAmounts
<1>10. \A time \in TimesOf(s) : time \in Nat
  BY <1>1, NodeStoreAssumption DEF TimesOf, tx
<1>11. ASSUME NEW time \in TimesOf(s)
       PROVE  createTradeRecord(s, time) \in NodeRecord /\ createTradeRecord(s, time).signature = s
  <2>1. createTradeRecord(s, time) =
          [price |-> calculatePriceFromAmounts(p.swap.sol, p.swap.token),
           blocktime |-> time, isBuy |-> p.swap.isBuy, signature |-> s]
    BY DEF createTradeRecord, p
  <2> QED  BY <1>8, <1>9, <1>10, <2>1 DEF NodeRecord
<1>12. MintOf(s) = p.mint
  BY DEF MintOf, p
<1> QED  BY <1>5, <1>11, <1>12

LEMMA PrefixTyped ==
  ASSUME NEW S, NEW s \in Seq(S), NEW n \in Nat
  PROVE  /\ Prefix(s, n) \in Seq(S)
         /\ Len(Prefix(s, n)) = IF n < Len(s) THEN n ELSE Len(s)
         /\ \A i \in 1..Len(Prefix(s, n)) : Prefix(s, n)[i] = s[i]
<1> DEFINE k == IF n < Len(s) THEN n ELSE Len(s)
<1>1. Len(s) \in Nat /\ k \in 0..Len(s)
  BY LenProperties
<1>2. Prefix(s, n) = SubSeq(s, 1, k)
  BY DEF Prefix
<1> HIDE DEF k
<1>3. \A i \in 1..k : s[i] \in S
  BY <1>1, ElementOfSeq
<1>4. k \in Int /\ (IF 1 <= k THEN k - 1 + 1 ELSE 0) = k /\ \A i \in 1..k : 1 + i - 1 = i
  BY <1>1
<1>5. /\ SubSeq(s, 1, k) \in Seq(S) /\ Len(SubSeq(s, 1, k)) = k
      /\ \A i \in 1..k : SubSeq(s, 1, k)[i] = s[1 + i - 1]
  BY <1>3, <1>4, SubSeqProperties
<1>6. \A i \in 1..k : SubSeq(s, 1, k)[i] = s[i]
  BY <1>4, <1>5
<1> QED  BY <1>2, <1>5, <1>6 DEF k

\* A list after a pipeline: the new record if it was pushed, then a prefix of
\* the old list, within the limit if it was trimmed.
Shift(applied) == IF "lpush" \in applied THEN 1 ELSE 0

StoredFront(t, s, r, applied) ==
  /\ t \in Seq(NodeRecord) /\ Len(t) <= Len(s) + Shift(applied)
  /\ "ltrim" \in applied => Len(t) <= maxTradesPerToken
  /\ \A i \in 1..Len(t) : t[i] = IF i <= Shift(applied) THEN r ELSE s[i - Shift(applied)]

LEMMA StoredTyped ==
  ASSUME NEW s \in Seq(NodeRecord), NEW r \in NodeRecord, NEW applied
  PROVE  StoredFront(Stored(s, r, applied), s, r, applied)
<1> DEFINE q == IF "lpush" \in applied THEN <<r>> \o s ELSE s
           k == Shift(applied)
           t == IF "ltrim" \in applied THEN Prefix(q, maxTradesPerToken) ELSE q
<1>1. <<r>> \in Seq(NodeRecord) /\ Len(<<r>>) = 1 /\ <<r>>[1] = r
  OBVIOUS
<1>2. Len(s) \in Nat /\ maxTradesPerToken \in Nat
  BY LenProperties, NodeStoreAssumption
<1>3. /\ q \in Seq(NodeRecord) /\ Len(q) = Len(s) + k /\ k \in {0, 1}
      /\ \A i \in 1..Len(q) : q[i] = IF i <= k THEN r ELSE s[i - k]
  <2>1. CASE "lpush" \in applied
    <3>1. q = <<r>> \o s /\ k = 1
      BY <2>1 DEF Shift
    <3>2. <<r>> \o s \in Seq(NodeRecord) /\ Len(<<r>> \o s) = 1 + Len(s)
      BY <1>1, ConcatProperties
    <3>3. \A i \in 1..Len(<<r>> \o s) : (<<r>> \o s)[i] = IF i <= 1 THEN <<r>>[i] ELSE s[i - 1]
      BY <1>1, <3>2, ConcatProperties
    <3> HIDE DEF q, k
    <3>4. \A i \in 1..Len(q) : q[i] = IF i <= 1 THEN r ELSE s[i - 1]
      BY <1>1, <1>2, <3>1, <3>2, <3>3
    <3> QED  BY <1>2, <3>1, <3>2, <3>4
  <2>2. CASE "lpush" \notin applied
    <3>1. q = s /\ k = 0
      BY <2>2 DEF Shift
    <3> HIDE DEF q, k
    <3>2. \A i \in 1..Len(s) : ~(i <= 0) /\ i - 0 = i
      BY <1>2
    <3> QED  BY <1>2, <3>1, <3>2
  <2> QED  BY <2>1, <2>2
<1>4. Stored(s, r, applied) = t
  BY DEF Stored
<1> HIDE DEF q, k
<1>5. /\ t \in Seq(NodeRecord) /\ Len(t) \in Nat /\ Len(t) <= Len(q)
      /\ "ltrim" \in applied => Len(t) <= maxTradesPerToken
      /\ \A i \in 1..Len(t) : t[i] = q[i]
  <2>1. CASE "ltrim" \in applied
    <3>1. t = Prefix(q, maxTradesPerToken)
      BY <2>1
    <3>2. /\ Prefix(q, maxTradesPerToken) \in Seq(NodeRecord)
          /\ Len(Prefix(q, maxTradesPerToken)) =
               IF maxTradesPerToken < Len(q) THEN maxTradesPerToken ELSE Len(q)
          /\ \A i \in 1..Len(Prefix(q, maxTradesPerToken)) : Prefix(q, maxTradesPerToken)[i] = q[i]
      BY <1>2, <1>3, PrefixTyped
    <3> HIDE DEF t
    <3> QED  BY <1>2, <1>3, <3>1, <3>2
  <2>2. CASE "ltrim" \notin applied
    <3>1. t = q
      BY <2>2
    <3> HIDE DEF t
    <3> QED  BY <1>2, <1>3, <2>2, <3>1
  <2> QED  BY <2>1, <2>2
<1> HIDE DEF t
<1>6. \A i \in 1..Len(t) : t[i] = IF i <= k THEN r ELSE s[i - k]
  <2>1. \A i \in 1..Len(t) : i \in 1..Len(q)
    BY <1>2, <1>3, <1>5
  <2> QED  BY <1>3, <1>5, <2>1
<1>7. StoredFront(t, s, r, applied)
  BY <1>3, <1>5, <1>6 DEF StoredFront, k
<1> QED  BY <1>4, <1>7

\* processedSignatures after a signature is marked: within the limit, and with
\* no other signature than before.
LEMMA MarkTyped ==
  ASSUME processed \in Seq(NodeSigs), Len(processed) <= maxProcessedSignatures, NEW s \in NodeSigs
  PROVE  LET t == markSignatureProcessed(s) IN
         /\ t \in Seq(NodeSigs) /\ Len(t) <= maxProcessedSignatures
         /\ \A i \in DOMAIN t : t[i] \in Processed \cup {s}
<1> DEFINE added == IF s \in Processed THEN processed ELSE Append(processed, s)
           h == maxProcessedSignatures \div 2
           n == Len(added)
           cut == SubSeq(added, n - h + 1, n)
<1>1. /\ maxProcessedSignatures \in Nat /\ maxProcessedSignatures >= 2
      /\ h \in Nat /\ h >= 1 /\ h <= maxProcessedSignatures
  BY NodeFeedAssumption
<1>2. /\ added \in Seq(NodeSigs) /\ n \in Nat /\ n <= maxProcessedSignatures + 1
      /\ \A i \in 1..n : added[i] \in Processed \cup {s}
  <2>1. Len(processed) \in Nat /\ DOMAIN processed = 1..Len(processed)
    BY LenProperties
  <2>2. CASE s \in Processed
    <3>1. added = processed
      BY <2>2
    <3>2. \A i \in 1..Len(processed) : processed[i] \in Processed
      BY <2>1 DEF Processed
    <3> HIDE DEF added
    <3> QED  BY <1>1, <2>1, <3>1, <3>2
  <2>3. CASE s \notin Processed
    <3>1. added = Append(processed, s)
      BY <2>3
    <3>2. /\ Append(processed, s) \in Seq(NodeSigs) /\ Len(Append(processed, s)) = Len(processed) + 1
          /\ \A i \in 1..Len(processed) : Append(processed, s)[i] = processed[i]
          /\ Append(processed, s)[Len(processed) + 1] = s
      BY AppendProperties
    <3> HIDE DEF added
    <3>3. \A i \in 1..Len(added) : i \in 1..Len(processed) \/ i = Len(processed) + 1
      BY <2>1, <3>1, <3>2
    <3> QED  BY <1>1, <2>1, <3>1, <3>2, <3>3 DEF Processed
  <2> QED  BY <2>2, <2>3
<1>3. markSignatureProcessed(s) = IF n > maxProcessedSignatures THEN cut ELSE added
  BY DEF markSignatureProcessed
<1> HIDE DEF added, h, n
<1>4. n = Len(added) /\ DOMAIN added = 1..n
  BY <1>2, LenProperties DEF n
<1>5. CASE n > maxProcessedSignatures
  <2>1. n - h + 1 \in Int /\ n \in Int /\ n - h + 1 <= n /\ n - h + 1 >= 1
    BY <1>1, <1>2, <1>5
  <2>2. \A i \in (n - h + 1)..n : added[i] \in NodeSigs
    BY <1>2, <1>4, <2>1, ElementOfSeq
  <2>3. /\ cut \in Seq(NodeSigs)
        /\ Len(cut) = n - (n - h + 1) + 1
        /\ \A i \in 1..(n - (n - h + 1) + 1) : cut[i] = added[(n - h + 1) + i - 1]
    BY <2>1, <2>2, SubSeqProperties
  <2>4. n - (n - h + 1) + 1 = h /\ \A i \in 1..h : (n - h + 1) + i - 1 \in 1..n
    BY <1>1, <1>2, <2>1
  <2>5. DOMAIN cut = 1..h /\ Len(cut) = h
    BY <2>3, <2>4, LenProperties
  <2>6. \A i \in 1..h : cut[i] \in Processed \cup {s}
    BY <1>2, <2>3, <2>4
  <2>7. markSignatureProcessed(s) = cut
    BY <1>3, <1>5
  <2> HIDE DEF cut
  <2> QED  BY <1>1, <2>3, <2>5, <2>6, <2>7
<1>6. CASE ~(n > maxProcessedSignatures)
  BY <1>1, <1>2, <1>3, <1>4, <1>6
<1> QED  BY <1>5, <1>6

\* The states of a callback.
LEMMA CallbackFields ==
  ASSUME NEW x \in {Idle} \cup Fetching \cup Storing
  PROVE  /\ x.stage \in {"idle", "fetch", "ask", "write"}
         /\ x = Idle <=> x.stage = "idle"
         /\ x # Idle => x.sig \in NodeSigs
         /\ x.stage = "fetch" => x \in Fetching
         /\ x.stage \in {"ask", "write"} => x \in Storing /\ x.record \in NodeRecord
<1>1. CASE x = Idle
  BY <1>1 DEF Idle
<1>2. CASE x \in Fetching
  BY <1>2 DEF Idle, Fetching
<1>3. CASE x \in Storing
  BY <1>3 DEF Idle, Storing
<1> QED  BY <1>1, <1>2, <1>3

(***************************************************************************)
(* Steps.                                                                  *)
(***************************************************************************)

\* The initial state.
LEMMA FeedInvInit == FeedInit => FeedInv
<1> SUFFICES ASSUME FeedInit PROVE FeedInv
  OBVIOUS
<1>1. /\ callback = [c \in Callbacks |-> Idle] /\ processed = <<>>
      /\ trades = [m \in Tokens |-> <<>>] /\ sigs = [m \in Tokens |-> {}]
  BY DEF FeedInit, StoreInit
<1>2. FeedTypeOK
  BY <1>1 DEF FeedTypeOK
<1>3. RecordsFaithful /\ OverlapSeen /\ WritesAnew
  BY <1>1 DEF RecordsFaithful, Faithful, OverlapSeen, WritesAnew, Serves, InFlight, Idle
<1>4. ListedKnown /\ DuplicatesExplained
  BY <1>1 DEF ListedKnown, DuplicatesExplained
<1>5. MarkedInv
  BY <1>1 DEF MarkedInv, Processed
<1>6. FeedBounded
  BY <1>1, NodeStoreAssumption, NodeFeedAssumption DEF FeedBounded
<1> QED  BY <1>2, <1>3, <1>4, <1>5, <1>6 DEF FeedInv

\* Steps that change one callback and nothing that is stored: what the new
\* state of the callback must satisfy.
LEMMA CallbackStep ==
  ASSUME FeedInv, NEW c \in Callbacks, NEW x \in {Idle} \cup Fetching \cup Storing,
         callback' = [callback EXCEPT ![c] = x],
         trades' = trades, sigs' = sigs, overlapped \subseteq overlapped',
         halfStored' = halfStored, untrimmed' = untrimmed, Faithful(x),
         x # Idle => \A d \in Callbacks : d # c /\ Serves(d, x.sig) => x.sig \in overlapped',
         x.stage = "write" => MintOf(x.sig) \in Tokens /\ x.sig \notin sigs[MintOf(x.sig)],
         processed' \in Seq(NodeSigs), Len(processed') <= maxProcessedSignatures, MarkedInv'
  PROVE  FeedInv'
<1>1. /\ callback'[c] = x
      /\ \A d \in Callbacks : d # c => callback'[d] = callback[d]
      /\ callback' \in [Callbacks -> {Idle} \cup Fetching \cup Storing]
  BY DEF FeedInv, FeedTypeOK
<1>2. FeedTypeOK'
  BY <1>1 DEF FeedInv, FeedTypeOK
<1>3. RecordsFaithful'
  BY <1>1 DEF FeedInv, RecordsFaithful, Faithful
<1>4. OverlapSeen'
  <2> SUFFICES ASSUME NEW a \in Callbacks, NEW b \in Callbacks, NEW s \in NodeSigs, a # b,
                      callback'[a] # Idle, callback'[a].sig = s,
                      callback'[b] # Idle, callback'[b].sig = s
               PROVE  s \in overlapped'
    BY DEF OverlapSeen, Serves, InFlight
  <2>1. CASE a = c  BY <1>1, <2>1 DEF Serves, InFlight
  <2>2. CASE b = c  BY <1>1, <2>2 DEF Serves, InFlight
  <2>3. CASE a # c /\ b # c  BY <1>1, <2>3 DEF FeedInv, OverlapSeen, Serves, InFlight
  <2> QED  BY <2>1, <2>2, <2>3
<1>5. WritesAnew'
  <2> SUFFICES ASSUME NEW d \in Callbacks, callback'[d].stage = "write",
                      NEW i \in DOMAIN trades[MintOf(callback'[d].sig)],
                      trades[MintOf(callback'[d].sig)][i].signature = callback'[d].sig
               PROVE  callback'[d].sig \in overlapped' \cup halfStored'
    BY DEF WritesAnew
  <2>1. CASE d = c
    BY <1>1, <2>1 DEF FeedInv, ListedKnown
  <2>2. CASE d # c
    BY <1>1, <2>2 DEF FeedInv, WritesAnew
  <2> QED  BY <2>1, <2>2
<1>6. ListedKnown'
  BY DEF FeedInv, ListedKnown
<1>7. DuplicatesExplained'
  BY DEF FeedInv, DuplicatesExplained
<1>8. FeedBounded'
  BY DEF FeedInv, FeedBounded
<1> QED  BY <1>2, <1>3, <1>4, <1>5, <1>6, <1>7, <1>8 DEF FeedInv

\* A marked signature keeps its reason as long as the callback that is its
\* reason goes on, stores it or reports its failure.
LEMMA MarkedKept ==
  ASSUME FeedInv, NEW c \in Callbacks, callback' = [callback EXCEPT ![c] = callback'[c]],
         NEW new,
         \A s \in {processed'[i] : i \in DOMAIN processed'} : s \in Processed \/ s = new,
         \A m \in Tokens : sigs[m] \subseteq sigs'[m], failed \subseteq failed',
         callback[c].stage \in {"ask", "write"} =>
           \/ \E m \in Tokens : callback[c].sig \in sigs'[m]
           \/ callback'[c] # Idle /\ callback'[c].sig = callback[c].sig /\ callback'[c].stage # "fetch"
           \/ callback[c].sig \in failed',
         new \in {processed'[i] : i \in DOMAIN processed'} =>
           new \in Processed \/ (callback'[c] # Idle /\ callback'[c].sig = new /\ callback'[c].stage # "fetch")
  PROVE  MarkedInv'
<1> SUFFICES ASSUME NEW s \in {processed'[i] : i \in DOMAIN processed'}
             PROVE  \/ \E m \in Tokens : s \in sigs'[m]
                    \/ \E d \in Callbacks : /\ callback'[d] # Idle /\ callback'[d].sig = s
                                            /\ callback'[d].stage # "fetch"
                    \/ s \in failed'
  BY DEF MarkedInv, Processed, Serves, InFlight
<1>1. CASE s \notin Processed
  BY <1>1
<1>2. CASE s \in Processed
  <2>1. \/ \E m \in Tokens : s \in sigs[m]
        \/ \E d \in Callbacks : Serves(d, s) /\ callback[d].stage # "fetch"
        \/ s \in failed
    BY <1>2 DEF FeedInv, MarkedInv
  <2>2. CASE \E d \in Callbacks : Serves(d, s) /\ callback[d].stage # "fetch"
    <3>1. PICK d \in Callbacks : callback[d] # Idle /\ callback[d].sig = s /\ callback[d].stage # "fetch"
      BY <2>2 DEF Serves, InFlight
    <3>2. CASE d # c
      <4>1. callback'[d] = callback[d]
        BY <3>2 DEF FeedInv, FeedTypeOK
      <4> QED  BY <3>1, <4>1
    <3>3. CASE d = c
      <4>1. callback[c].stage \in {"ask", "write"}
        BY <3>1, <3>3, CallbackFields DEF FeedInv, FeedTypeOK
      <4> QED  BY <3>1, <3>3, <4>1
    <3> QED  BY <3>2, <3>3
  <2> QED  BY <2>1, <2>2
<1> QED  BY <1>1, <1>2

\* A pipeline, whatever runs of it, and the end or the wait of its callback: the
\* lists, the sets and the histories.
LEMMA PipelineStep ==
  ASSUME FeedInv, NEW c \in Callbacks, NEW applied, RunPipeline(c, applied),
         NEW x \in {Idle, callback[c]}, callback' = [callback EXCEPT ![c] = x],
         processed' = processed, overlapped' = overlapped,
         halfStored \subseteq halfStored', failed \subseteq failed',
         "lpush" \in applied /\ ("sadd" \notin applied \/ x # Idle) => callback[c].sig \in halfStored',
         "sadd" \notin applied /\ x = Idle => callback[c].sig \in failed'
  PROVE  FeedInv'
<1> DEFINE s == callback[c].sig
           m == MintOf(s)
           r == callback[c].record
           k == Shift(applied)
           t == Stored(trades[m], r, applied)
           added == IF "sadd" \in applied THEN sigs[m] \cup {s} ELSE sigs[m]
<1>1. /\ callback \in [Callbacks -> {Idle} \cup Fetching \cup Storing]
      /\ callback[c].stage = "write" /\ callback[c] # Idle
  BY DEF FeedInv, FeedTypeOK, RunPipeline, InFlight
<1>2. s \in NodeSigs /\ r \in NodeRecord
  BY <1>1, CallbackFields
<1>3. PICK time \in TimesOf(s) : parseTransaction(Tx[s]) # {} /\ r = createTradeRecord(s, time)
  BY <1>1 DEF FeedInv, RecordsFaithful, Faithful
<1>4. m \in Tokens /\ r.signature = s
  BY <1>2, <1>3, ParsedTyped
<1>5. /\ trades' = [trades EXCEPT ![m] = t] /\ sigs' = [sigs EXCEPT ![m] = added]
      /\ untrimmed' = IF "ltrim" \in applied THEN untrimmed \ {m}
                      ELSE IF "lpush" \in applied THEN untrimmed \cup {m} ELSE untrimmed
  BY DEF RunPipeline, pushTrade
<1>6. /\ trades \in [Tokens -> Seq(NodeRecord)] /\ sigs \in [Tokens -> SUBSET NodeSigs]
      /\ trades[m] \in Seq(NodeRecord)
  BY <1>4 DEF FeedInv, FeedTypeOK
<1>7. /\ added \subseteq sigs[m] \cup {s} /\ sigs[m] \subseteq added
      /\ "sadd" \in applied => s \in added
  OBVIOUS
<1>8. /\ t \in Seq(NodeRecord) /\ Len(t) <= Len(trades[m]) + k
      /\ "ltrim" \in applied => Len(t) <= maxTradesPerToken
      /\ \A i \in 1..Len(t) : t[i] = IF i <= k THEN r ELSE trades[m][i - k]
  <2>1. StoredFront(t, trades[m], r, applied)
    BY <1>2, <1>6, StoredTyped, Zenon
  <2> HIDE DEF m, r, t
  <2> QED  BY <2>1 DEF StoredFront
<1>9. k \in {0, 1} /\ (k = 1 <=> "lpush" \in applied)
  BY DEF Shift
<1> HIDE DEF s, m, r, k, t, added
<1>10. /\ DOMAIN t = 1..Len(t) /\ Len(t) \in Nat
       /\ DOMAIN trades[m] = 1..Len(trades[m]) /\ Len(trades[m]) \in Nat
  BY <1>6, <1>8, LenProperties
<1>11. /\ trades'[m] = t /\ \A y \in Tokens : y # m => trades'[y] = trades[y]
       /\ sigs'[m] = added /\ \A y \in Tokens : y # m => sigs'[y] = sigs[y]
       /\ \A y \in Tokens : sigs[y] \subseteq sigs'[y]
  BY <1>4, <1>5, <1>6, <1>7
<1>12. /\ callback'[c] = x /\ \A d \in Callbacks : d # c => callback'[d] = callback[d]
       /\ callback' \in [Callbacks -> {Idle} \cup Fetching \cup Storing]
  BY <1>1
<1>13. ASSUME NEW i \in DOMAIN t
       PROVE  \/ k = 1 /\ i = 1 /\ t[i].signature = s
              \/ i - k \in DOMAIN trades[m] /\ t[i] = trades[m][i - k]
  BY <1>4, <1>8, <1>9, <1>10
<1>14. FeedTypeOK'
  <2>1. added \in SUBSET NodeSigs
    BY <1>2, <1>4, <1>6, <1>7
  <2>2. trades' \in [Tokens -> Seq(NodeRecord)] /\ sigs' \in [Tokens -> SUBSET NodeSigs]
    BY <1>4, <1>5, <1>6, <1>8, <2>1
  <2> QED  BY <1>12, <2>2 DEF FeedInv, FeedTypeOK
<1>15. RecordsFaithful'
  <2>1. Faithful(Idle)
    BY DEF Idle, Faithful
  <2>2. \A d \in Callbacks : Faithful(callback[d])
    BY DEF FeedInv, RecordsFaithful
  <2>3. \A d \in Callbacks : Faithful(callback'[d])
    BY <1>12, <2>1, <2>2
  <2> QED  BY <2>3 DEF RecordsFaithful, Faithful
<1>16. ListedKnown'
  <2>1. \A i \in DOMAIN t : t[i].signature \in sigs'[m] \cup halfStored'
    <3> TAKE i \in DOMAIN t
    <3>1. CASE k = 1 /\ i = 1 /\ t[i].signature = s
      BY <1>7, <1>9, <1>11, <3>1 DEF s
    <3>2. CASE i - k \in DOMAIN trades[m] /\ t[i] = trades[m][i - k]
      <4>1. trades[m][i - k].signature \in sigs[m] \cup halfStored
        BY <1>4, <3>2 DEF FeedInv, ListedKnown
      <4> QED  BY <1>4, <1>11, <3>2, <4>1
    <3> QED  BY <1>13, <3>1, <3>2
  <2>2. ASSUME NEW y \in Tokens, NEW i \in DOMAIN trades'[y]
        PROVE  trades'[y][i].signature \in sigs'[y] \cup halfStored'
    <3>1. CASE y = m  BY <1>11, <2>1, <3>1
    <3>2. CASE y # m  BY <1>11, <3>2 DEF FeedInv, ListedKnown
    <3> QED  BY <3>1, <3>2
  <2> QED  BY <2>2 DEF ListedKnown
<1>17. OverlapSeen'
  BY <1>1, <1>12 DEF FeedInv, OverlapSeen, Serves, InFlight
<1>18. ASSUME NEW i \in DOMAIN trades[m], trades[m][i].signature = s
       PROVE  s \in overlapped' \cup halfStored'
  BY <1>1, <1>18 DEF FeedInv, WritesAnew, s, m
<1>19. WritesAnew'
  <2> SUFFICES ASSUME NEW d \in Callbacks, callback'[d].stage = "write",
                      NEW i \in DOMAIN trades'[MintOf(callback'[d].sig)],
                      trades'[MintOf(callback'[d].sig)][i].signature = callback'[d].sig
               PROVE  callback'[d].sig \in overlapped' \cup halfStored'
    BY DEF WritesAnew
  <2>1. callback'[d] = callback[d] /\ (d = c => x # Idle)
    <3>1. Idle.stage # "write"
      BY DEF Idle
    <3> QED  BY <1>12, <3>1
  <2>2. callback[d] # Idle /\ callback[d].sig \in NodeSigs
    BY <1>1, <2>1, CallbackFields
  <2>3. MintOf(callback[d].sig) \in Tokens
    <3>1. parseTransaction(Tx[callback[d].sig]) # {}
      BY <2>1 DEF FeedInv, RecordsFaithful, Faithful
    <3> QED  BY <2>2, <3>1, ParsedTyped
  <2>4. CASE callback[d].sig = s
    <3>1. CASE d = c
      <4>1. CASE k = 1
        BY <1>9, <2>1, <2>4, <3>1, <4>1 DEF s
      <4>2. CASE k # 1
        <5>1. i \in DOMAIN t /\ t[i].signature = s
          BY <1>11, <2>1, <2>4 DEF m
        <5> QED  BY <1>13, <1>18, <2>1, <2>4, <4>2, <5>1
      <4> QED  BY <4>1, <4>2
    <3>2. CASE d # c
      <4>1. Serves(d, s) /\ Serves(c, s)
        BY <1>1, <2>2, <2>4 DEF Serves, InFlight, s
      <4> QED  BY <1>2, <2>1, <2>4, <3>2, <4>1 DEF FeedInv, OverlapSeen
    <3> QED  BY <3>1, <3>2
  <2>5. CASE callback[d].sig # s
    <3> DEFINE n == MintOf(callback[d].sig)
    <3>1. \E j \in DOMAIN trades[n] : trades[n][j].signature = callback[d].sig
      <4>1. CASE n = m
        BY <1>11, <1>13, <2>1, <2>5, <4>1
      <4>2. CASE n # m
        BY <1>11, <2>1, <2>3, <4>2
      <4> QED  BY <4>1, <4>2
    <3> QED  BY <2>1, <3>1 DEF FeedInv, WritesAnew
  <2> QED  BY <2>4, <2>5
<1>20. DuplicatesExplained'
  <2>1. ASSUME NEW i \in DOMAIN t, NEW j \in DOMAIN t, i # j, t[i].signature = t[j].signature
        PROVE  t[i].signature \in overlapped' \cup halfStored'
    <3>1. CASE k = 1 /\ i = 1 /\ t[i].signature = s
      <4>1. j - k \in DOMAIN trades[m] /\ t[j] = trades[m][j - k]
        BY <1>13, <2>1, <3>1
      <4> QED  BY <1>18, <2>1, <3>1, <4>1
    <3>2. CASE k = 1 /\ j = 1 /\ t[j].signature = s
      <4>1. i - k \in DOMAIN trades[m] /\ t[i] = trades[m][i - k]
        BY <1>13, <2>1, <3>2
      <4> QED  BY <1>18, <2>1, <3>2, <4>1
    <3>3. CASE /\ i - k \in DOMAIN trades[m] /\ t[i] = trades[m][i - k]
               /\ j - k \in DOMAIN trades[m] /\ t[j] = trades[m][j - k]
      <4>1. i - k # j - k
        BY <1>9, <1>10, <2>1
      <4>2. trades[m][i - k].signature \in overlapped \cup halfStored
        BY <1>4, <2>1, <3>3, <4>1 DEF FeedInv, DuplicatesExplained
      <4> QED  BY <3>3, <4>2
    <3> QED  BY <1>13, <3>1, <3>2, <3>3
  <2>2. ASSUME NEW y \in Tokens, NEW i \in DOMAIN trades'[y], NEW j \in DOMAIN trades'[y],
               i # j, trades'[y][i].signature = trades'[y][j].signature
        PROVE  trades'[y][i].signature \in overlapped' \cup halfStored'
    <3>1. CASE y = m  BY <1>11, <2>1, <2>2, <3>1
    <3>2. CASE y # m  BY <1>11, <2>2, <3>2 DEF FeedInv, DuplicatesExplained
    <3> QED  BY <3>1, <3>2
  <2> QED  BY <2>2 DEF DuplicatesExplained
<1>21. FeedBounded'
  <2>1. Len(t) <= maxTradesPerToken \/ m \in untrimmed'
    <3>1. CASE "ltrim" \in applied  BY <1>8, <3>1
    <3>2. CASE "ltrim" \notin applied /\ "lpush" \in applied  BY <1>5, <3>2
    <3>3. CASE "ltrim" \notin applied /\ "lpush" \notin applied
      <4>1. Len(trades[m]) <= maxTradesPerToken \/ m \in untrimmed
        BY <1>4 DEF FeedInv, FeedBounded
      <4>2. untrimmed' = untrimmed /\ k = 0
        BY <1>5, <1>9, <3>3
      <4> QED  BY <1>8, <1>10, <4>1, <4>2, NodeStoreAssumption
    <3> QED  BY <3>1, <3>2, <3>3
  <2>2. \A y \in Tokens : y # m => Len(trades'[y]) <= maxTradesPerToken \/ y \in untrimmed'
    BY <1>5, <1>11 DEF FeedInv, FeedBounded
  <2> QED  BY <1>11, <2>1, <2>2 DEF FeedInv, FeedBounded
<1>22. MarkedInv'
  <2>1. callback' = [callback EXCEPT ![c] = callback'[c]]
    BY <1>1, <1>12
  <2>2. \A y \in {processed'[i] : i \in DOMAIN processed'} : y \in Processed
    BY DEF Processed
  <2>3. \/ \E y \in Tokens : callback[c].sig \in sigs'[y]
        \/ callback'[c] # Idle /\ callback'[c].sig = callback[c].sig /\ callback'[c].stage # "fetch"
        \/ callback[c].sig \in failed'
    <3>1. CASE x = callback[c]  BY <1>1, <1>12, <3>1
    <3>2. CASE x = Idle  BY <1>4, <1>7, <1>11, <3>2 DEF s
    <3> QED  BY <3>1, <3>2
  <2> QED  BY <1>1, <1>11, <2>1, <2>2, <2>3, MarkedKept
<1> QED  BY <1>14, <1>15, <1>16, <1>17, <1>19, <1>20, <1>21, <1>22 DEF FeedInv

\* Every step of the feed keeps the invariant.
LEMMA FeedInvNext == FeedInv /\ [FeedNext]_feedVars => FeedInv'
<1> SUFFICES ASSUME FeedInv, [FeedNext]_feedVars PROVE FeedInv'
  OBVIOUS
<1>1. /\ callback \in [Callbacks -> {Idle} \cup Fetching \cup Storing]
      /\ processed \in Seq(NodeSigs) /\ Len(processed) <= maxProcessedSignatures
      /\ sigs \in [Tokens -> SUBSET NodeSigs]
  BY DEF FeedInv, FeedTypeOK, FeedBounded
<1>2. Idle.stage = "idle" /\ Faithful(Idle)
  BY DEF Idle, Faithful
<1>3. ASSUME NEW c \in Callbacks, NEW s \in NodeSigs, onLogs(c, s)
      PROVE  FeedInv'
  <2> DEFINE x == [stage |-> "fetch", sig |-> s]
  <2>1. /\ callback[c] = Idle /\ callback' = [callback EXCEPT ![c] = x]
        /\ overlapped' = overlapped \cup (IF \E d \in Callbacks : Serves(d, s) THEN {s} ELSE {})
        /\ processed' = processed /\ trades' = trades /\ sigs' = sigs /\ failed' = failed
        /\ halfStored' = halfStored /\ untrimmed' = untrimmed
    BY <1>3 DEF onLogs, InFlight
  <2>2. x \in Fetching /\ x.stage = "fetch" /\ x.sig = s /\ Faithful(x)
    BY DEF Fetching, Faithful
  <2> HIDE DEF x
  <2>3. \A d \in Callbacks : Serves(d, s) => s \in overlapped'
    BY <2>1
  <2>4. MarkedInv'
    <3>1. callback' = [callback EXCEPT ![c] = callback'[c]]
      BY <1>1, <2>1
    <3>2. \A y \in {processed'[i] : i \in DOMAIN processed'} : y \in Processed
      BY <2>1 DEF Processed
    <3> QED  BY <1>2, <2>1, <3>1, <3>2, MarkedKept
  <2> QED  BY <1>1, <2>1, <2>2, <2>3, <2>4, CallbackStep
<1>4. ASSUME NEW c \in Callbacks, TransactionFetched(c)
      PROVE  FeedInv'
  <2> DEFINE s == callback[c].sig
  <2>1. callback[c].stage = "fetch" /\ s \in NodeSigs /\ callback[c] # Idle
    BY <1>1, <1>4, CallbackFields DEF TransactionFetched, InFlight
  <2>2. PICK time \in TimesOf(s) : callback' = [callback EXCEPT ![c] =
          [stage |-> "ask", sig |-> s, record |-> createTradeRecord(s, time)]]
    BY <1>4 DEF TransactionFetched
  <2>3. /\ parseTransaction(Tx[s]) # {} /\ processed' = markSignatureProcessed(s)
        /\ trades' = trades /\ sigs' = sigs /\ overlapped' = overlapped /\ failed' = failed
        /\ halfStored' = halfStored /\ untrimmed' = untrimmed
    BY <1>4 DEF TransactionFetched
  <2> DEFINE x == [stage |-> "ask", sig |-> s, record |-> createTradeRecord(s, time)]
  <2>4. createTradeRecord(s, time) \in NodeRecord
    BY <2>1, <2>3, ParsedTyped
  <2>5. x \in Storing /\ x.stage = "ask" /\ x.sig = s /\ x.record = createTradeRecord(s, time)
    BY <2>1, <2>4 DEF Storing
  <2>6. callback' = [callback EXCEPT ![c] = x]
    BY <2>2
  <2> HIDE DEF x
  <2>7. Faithful(x) /\ x # Idle
    BY <1>2, <2>3, <2>5 DEF Faithful
  <2>8. /\ processed' \in Seq(NodeSigs) /\ Len(processed') <= maxProcessedSignatures
        /\ \A i \in DOMAIN processed' : processed'[i] \in Processed \cup {s}
    BY <1>1, <2>1, <2>3, MarkTyped
  <2>9. \A d \in Callbacks : d # c /\ Serves(d, s) => s \in overlapped
    <3>1. Serves(c, s)
      BY <2>1 DEF Serves, InFlight
    <3> QED  BY <2>1, <3>1 DEF FeedInv, OverlapSeen
  <2>10. MarkedInv'
    <3>1. callback'[c] = x /\ callback' = [callback EXCEPT ![c] = callback'[c]]
      BY <1>1, <2>6
    <3>2. \A y \in {processed'[i] : i \in DOMAIN processed'} : y \in Processed \/ y = s
      BY <2>8
    <3> QED  BY <2>1, <2>3, <2>5, <2>7, <3>1, <3>2, MarkedKept
  <2> QED  BY <2>3, <2>5, <2>6, <2>7, <2>8, <2>9, <2>10, CallbackStep
<1>5. ASSUME NEW c \in Callbacks, FetchFails(c)
      PROVE  FeedInv'
  <2>1. /\ callback[c].stage = "fetch" /\ callback' = [callback EXCEPT ![c] = Idle]
        /\ processed' = processed /\ trades' = trades /\ sigs' = sigs
        /\ overlapped' = overlapped /\ failed' = failed
        /\ halfStored' = halfStored /\ untrimmed' = untrimmed
    BY <1>5 DEF FetchFails
  <2>2. MarkedInv'
    <3>1. callback' = [callback EXCEPT ![c] = callback'[c]]
      BY <1>1, <2>1
    <3>2. \A y \in {processed'[i] : i \in DOMAIN processed'} : y \in Processed
      BY <2>1 DEF Processed
    <3> QED  BY <2>1, <3>1, <3>2, MarkedKept
  <2> QED  BY <1>1, <1>2, <2>1, <2>2, CallbackStep
<1>6. ASSUME NEW c \in Callbacks, isSignatureExists(c)
      PROVE  FeedInv'
  <2> DEFINE s == callback[c].sig
             x == [callback[c] EXCEPT !.stage = "write"]
  <2>1. /\ callback[c].stage = "ask" /\ s \in NodeSigs /\ callback[c] # Idle
        /\ callback[c] \in Storing
    BY <1>1, <1>6, CallbackFields DEF isSignatureExists, InFlight
  <2>2. /\ callback' = [callback EXCEPT ![c] = IF s \in sigs[MintOf(s)] THEN Idle ELSE x]
        /\ processed' = processed /\ trades' = trades /\ sigs' = sigs
        /\ overlapped' = overlapped /\ failed' = failed
        /\ halfStored' = halfStored /\ untrimmed' = untrimmed
    BY <1>6 DEF isSignatureExists
  <2>3. parseTransaction(Tx[s]) # {} /\ MintOf(s) \in Tokens
    <3>1. parseTransaction(Tx[s]) # {}
      BY <2>1 DEF FeedInv, RecordsFaithful, Faithful
    <3> QED  BY <2>1, <3>1, ParsedTyped
  <2>4. \A y \in {processed'[i] : i \in DOMAIN processed'} : y \in Processed
    BY <2>2 DEF Processed
  <2>5. CASE s \in sigs[MintOf(s)]
    <3>1. callback' = [callback EXCEPT ![c] = Idle]
      BY <2>2, <2>5
    <3>2. MarkedInv'
      <4>1. callback' = [callback EXCEPT ![c] = callback'[c]]
        BY <1>1, <3>1
      <4> QED  BY <2>2, <2>3, <2>4, <2>5, <4>1, MarkedKept
    <3> QED  BY <1>1, <1>2, <2>2, <3>1, <3>2, CallbackStep
  <2>6. CASE s \notin sigs[MintOf(s)]
    <3>1. callback' = [callback EXCEPT ![c] = x]
      BY <2>2, <2>6
    <3>2. x \in Storing /\ x.stage = "write" /\ x.sig = s /\ x.record = callback[c].record
      BY <2>1 DEF Storing
    <3> HIDE DEF x
    <3>3. Faithful(x) /\ x # Idle
      <4>1. Faithful(callback[c])
        BY DEF FeedInv, RecordsFaithful
      <4> QED  BY <1>2, <2>1, <3>2, <4>1 DEF Faithful
    <3>4. \A d \in Callbacks : d # c /\ Serves(d, s) => s \in overlapped
      <4>1. Serves(c, s)
        BY <2>1 DEF Serves, InFlight
      <4> QED  BY <2>1, <4>1 DEF FeedInv, OverlapSeen
    <3>5. MarkedInv'
      <4>1. callback'[c] = x /\ callback' = [callback EXCEPT ![c] = callback'[c]]
        BY <1>1, <3>1
      <4> QED  BY <2>2, <2>4, <3>2, <3>3, <4>1, MarkedKept
    <3> QED  BY <1>1, <2>2, <2>3, <2>6, <3>1, <3>2, <3>3, <3>4, <3>5, CallbackStep
  <2> QED  BY <2>5, <2>6
<1>7. ASSUME NEW c \in Callbacks, storeTrade(c)
      PROVE  FeedInv'
  <2>1. PICK applied \in SUBSET Pipeline :
          /\ RunPipeline(c, applied)
          /\ halfStored' = halfStored \cup
               (IF "lpush" \in applied /\ "sadd" \notin applied THEN {callback[c].sig} ELSE {})
          /\ failed' = failed \cup
               (IF {"lpush", "sadd"} \subseteq applied THEN {} ELSE {callback[c].sig})
          /\ callback' = [callback EXCEPT ![c] = Idle]
          /\ processed' = processed /\ overlapped' = overlapped
    BY <1>7 DEF storeTrade
  <2> QED  BY <2>1, PipelineStep
<1>8. ASSUME NEW c \in Callbacks, StoreFails(c)
      PROVE  FeedInv'
  <2>1. /\ callback' = [callback EXCEPT ![c] = Idle] /\ failed' = failed \cup {callback[c].sig}
        /\ processed' = processed /\ trades' = trades /\ sigs' = sigs /\ overlapped' = overlapped
        /\ halfStored' = halfStored /\ untrimmed' = untrimmed
    BY <1>8 DEF StoreFails
  <2>2. MarkedInv'
    <3>1. callback' = [callback EXCEPT ![c] = callback'[c]]
      BY <1>1, <2>1
    <3>2. \A y \in {processed'[i] : i \in DOMAIN processed'} : y \in Processed
      BY <2>1 DEF Processed
    <3> QED  BY <2>1, <3>1, <3>2, MarkedKept
  <2> QED  BY <1>1, <1>2, <2>1, <2>2, CallbackStep
<1>9. CASE unsubscribe \/ UNCHANGED feedVars
  <2>1. UNCHANGED <<callback, processed, trades, sigs, overlapped, halfStored, untrimmed, failed>>
    BY <1>9 DEF unsubscribe, feedVars
  <2> QED  BY <2>1 DEF FeedInv, FeedTypeOK, RecordsFaithful, Faithful, FeedBounded, ListedKnown,
                OverlapSeen, WritesAnew, DuplicatesExplained, MarkedInv, Processed, Serves, InFlight
<1>10. CASE FeedRestart
  <2>1. /\ callback' = [c \in Callbacks |-> Idle] /\ processed' = <<>>
        /\ trades' = trades /\ sigs' = sigs /\ overlapped' = overlapped
        /\ halfStored' = halfStored /\ untrimmed' = untrimmed
    BY <1>10 DEF FeedRestart
  <2>2. FeedTypeOK'
    BY <2>1 DEF FeedInv, FeedTypeOK
  <2>3. RecordsFaithful' /\ OverlapSeen' /\ WritesAnew'
    BY <1>2, <2>1 DEF RecordsFaithful, Faithful, OverlapSeen, WritesAnew, Serves, InFlight
  <2>4. ListedKnown' /\ DuplicatesExplained'
    BY <2>1 DEF FeedInv, ListedKnown, DuplicatesExplained
  <2>5. FeedBounded'
    BY <2>1, NodeFeedAssumption DEF FeedInv, FeedBounded
  <2>6. MarkedInv'
    BY <2>1 DEF MarkedInv, Processed
  <2> QED  BY <2>2, <2>3, <2>4, <2>5, <2>6 DEF FeedInv
<1>11. ASSUME NEW c \in Callbacks, ConnectionLost(c)
       PROVE  FeedInv'
  <2>1. PICK applied \in SUBSET Pipeline :
          /\ RunPipeline(c, applied)
          /\ halfStored' = halfStored \cup (IF "lpush" \in applied THEN {callback[c].sig} ELSE {})
    BY <1>11 DEF ConnectionLost
  <2>2. /\ callback' = callback /\ processed' = processed /\ overlapped' = overlapped
        /\ failed' = failed
    BY <1>11 DEF ConnectionLost
  <2>3. callback' = [callback EXCEPT ![c] = callback[c]] /\ callback[c] # Idle
    BY <1>1, <2>1, <2>2 DEF RunPipeline, InFlight
  <2> QED  BY <2>1, <2>2, <2>3, PipelineStep
<1> QED  BY <1>3, <1>4, <1>5, <1>6, <1>7, <1>8, <1>9, <1>10, <1>11 DEF FeedNext, FeedStep

(***************************************************************************)
(* The theorems.                                                           *)
(***************************************************************************)

\* The invariant holds in every state of the feed.
THEOREM FeedInvariant == FeedSpec => []FeedInv
BY FeedInvInit, FeedInvNext, PTL DEF FeedSpec

\* A transaction is listed twice only if two of its callbacks were in flight at
\* once or its pipeline was cut between LPUSH and SADD or its answer: not by
\* redelivery, by eviction from processedSignatures or by a crash.
THEOREM FeedDuplicatesExplained == FeedSpec => []DuplicatesExplained
<1>1. FeedInv => DuplicatesExplained
  BY DEF FeedInv
<1> QED  BY <1>1, FeedInvariant, PTL

\* What the subscriber will never look at again is in Redis, on its way there,
\* or was lost to an error.
THEOREM MarkedAreStored == FeedSpec => []MarkedIsStored
<1>1. FeedInv => MarkedIsStored
  BY DEF FeedInv, MarkedInv, MarkedIsStored
<1> QED  BY <1>1, FeedInvariant, PTL

\* The memory of the subscriber stays within its limit, and a list as well unless
\* its last LTRIM failed.
THEOREM FeedStaysBounded == FeedSpec => []FeedBounded
<1>1. FeedInv => FeedBounded
  BY DEF FeedInv
<1> QED  BY <1>1, FeedInvariant, PTL

\* The interleaved callbacks do to the lists what NodeStore lets the strategy
\* assume, however their pipelines end: a step puts one record of a fetched
\* transaction in front, cuts the list at its limit, or both.
THEOREM FeedImplementsStore == FeedSpec => ImplementsStore
<1>1. FeedInit => StoreInit
  BY DEF FeedInit
<1>2. FeedInv /\ [FeedNext]_feedVars => [StoreNext]_trades
  <2> SUFFICES ASSUME FeedInv, [FeedNext]_feedVars PROVE StoreNext \/ trades' = trades
    OBVIOUS
  <2>1. ASSUME NEW c \in Callbacks, NEW applied \in SUBSET Pipeline, RunPipeline(c, applied)
        PROVE  StoreNext \/ trades' = trades
    <3> DEFINE s == callback[c].sig
               r == callback[c].record
               cut == applied \cap {"lpush", "ltrim"}
    <3>1. callback[c].stage = "write" /\ callback[c] # Idle /\ pushTrade(MintOf(s), r, applied)
      BY <2>1 DEF RunPipeline, InFlight
    <3>2. s \in NodeSigs
      BY <3>1, CallbackFields DEF FeedInv, FeedTypeOK
    <3>3. PICK time \in TimesOf(s) :
            parseTransaction(Tx[s]) # {} /\ r = createTradeRecord(s, time)
      BY <3>1 DEF FeedInv, RecordsFaithful, Faithful
    <3>4. \A q : Stored(q, r, applied) = Stored(q, r, cut)
      BY DEF Stored
    <3>5. pushTrade(MintOf(s), r, cut)
      BY <3>1, <3>4 DEF pushTrade
    <3>6. cut = {} \/ cut \in {{"lpush", "ltrim"}, {"lpush"}, {"ltrim"}}
      OBVIOUS
    <3> HIDE DEF s, r, cut
    <3>7. CASE cut = {}
      <4>1. \A q : Stored(q, r, cut) = q
        BY <3>7 DEF Stored
      <4>2. trades \in [Tokens -> Seq(NodeRecord)]
        BY DEF FeedInv, FeedTypeOK
      <4> QED  BY <3>5, <4>1, <4>2 DEF pushTrade
    <3>8. CASE cut # {}
      <4>1. StoreUpdate(s, time, cut)
        BY <3>3, <3>5 DEF StoreUpdate
      <4> QED  BY <3>2, <3>6, <3>8, <4>1 DEF StoreNext
    <3> QED  BY <3>7, <3>8
  <2>2. ASSUME NEW c \in Callbacks, storeTrade(c) \/ ConnectionLost(c)
        PROVE  StoreNext \/ trades' = trades
    <3>1. \E applied \in SUBSET Pipeline : RunPipeline(c, applied)
      BY <2>2 DEF storeTrade, ConnectionLost
    <3> QED  BY <2>1, <3>1
  <2> QED  BY <2>2 DEF FeedNext, FeedStep, onLogs, TransactionFetched, FetchFails,
                isSignatureExists, StoreFails, unsubscribe, FeedRestart, feedVars
<1> QED  BY <1>1, <1>2, FeedInvariant, PTL DEF FeedSpec, ImplementsStore, StoreSpec

(***************************************************************************)
(* The strategy.  The recorder keeps a trade in three places that are      *)
(* written one after the other; the proofs are about which of them may     *)
(* know of a trade at the same time, and about what is bought without any  *)
(* of them.                                                                *)
(***************************************************************************)
Transaction == [n: Nat, kind: {"buy", "sell"}, mint: Tokens, amount: Nat, current: BOOLEAN]
PositionMap == [Tokens -> ActivePosition \cup {Nil}]
TradeFile == Seq(1..MaxTrades) \cup {Torn}
Locations == {"top", "next", "sleep", "ended", "buy", "increase", "fetch", "balance", "buying",
              "sell", "holdings", "selling",
              "saveBuy", "saveUpdate", "saveSell", "appendClosed", "appendDaily"}

NodeTypeOK ==
  /\ trades \in [Tokens -> Seq(NodeRecord)]
  /\ tokens \in [Tokens -> Nat] /\ stray \in [Tokens -> Nat]
  /\ pending \subseteq Transaction /\ landed \in BOOLEAN
  /\ pc \in Locations /\ todo \subseteq Tokens /\ mint \in Tokens /\ price \in Nat
  /\ tradeInfoCache \in [Tokens -> TradeInfo \cup {Nil}]
  /\ positions \in [Tokens -> [buyPrice: Nat, info: TradeInfo] \cup {Nil}]
  /\ activePositions \in PositionMap /\ activeFile \in PositionMap \cup {Torn}
  /\ closedFile \in TradeFile /\ dailyFile \in TradeFile
  /\ closing \in 0..MaxTrades /\ opened \in 0..MaxTrades /\ faulty \in BOOLEAN

\* Which branch of the loop a token is in: executeBuy works on tokens without
\* an active position, checkSellCondition on tokens with one.
Branches ==
  /\ \A m \in Tokens : positions[m] # Nil => activePositions[m] # Nil
  /\ pc \in {"buy", "increase", "fetch", "balance", "buying"} => activePositions[mint] = Nil
  /\ pc \in {"sell", "holdings", "selling", "saveUpdate"} => activePositions[mint] # Nil
  /\ pc \in {"fetch", "balance", "buying"} => opened < MaxTrades
  /\ pc \in {"balance", "buying"} => tradeInfoCache[mint] \in TradeInfo

\* A map of positions, in memory or on disk, has no id twice.
OwnIds(f) ==
  /\ \A m \in Tokens : f[m] # Nil => f[m].id <= opened
  /\ \A m, n \in Tokens : f[m] # Nil /\ f[n] # Nil /\ f[m].id = f[n].id => m = n

Numbered ==
  /\ OwnIds(activePositions)
  /\ activeFile # Torn => OwnIds(activeFile)
  /\ closedFile # Torn => /\ \A i \in DOMAIN closedFile : closedFile[i] <= opened
                          /\ \A i, j \in DOMAIN closedFile : closedFile[i] = closedFile[j] => i = j

\* Neither the map nor the file of active positions has a closed trade; the
\* trade that recordSell is closing leaves the map, then the file, then is closed.
ClosedApart ==
  /\ Closed(closedFile) \cap (Ids(activePositions) \cup OpenOnDisk) = {}
  /\ pc \in {"saveSell", "appendClosed", "appendDaily"} => closing \in 1..opened
  /\ pc \in {"saveSell", "appendClosed"} =>
       closing \notin Ids(activePositions) \cup Closed(closedFile)
  /\ pc = "appendClosed" => closing \notin OpenOnDisk

\* The trade that is in neither list while recordSell writes.
InHand == IF pc \in {"saveSell", "appendClosed"} THEN {closing} ELSE {}

AllRecorded ==
  ~faulty =>
    /\ closedFile # Torn /\ dailyFile # Torn
    /\ Ids(activePositions) \cup Closed(closedFile) \cup InHand = 1..opened
    /\ closedFile = IF pc = "appendDaily" THEN Append(dailyFile, closing) ELSE dailyFile

\* The only transaction whose call is not over is the one the loop waits for.
OneCurrent ==
  /\ \A t \in pending : t.current =>
       t.mint = mint /\ ~landed /\ pc = IF t.kind = "buy" THEN "buying" ELSE "selling"
  /\ \A t, u \in pending : t.current /\ u.current => t = u

\* A purchase beyond the stray ones has its active position, or has landed and
\* is about to get it; a sale that has landed left no such purchase.
Covered ==
  /\ \A m \in Tokens :
       /\ tokens[m] <= stray[m] + 1
       /\ tokens[m] > stray[m] => activePositions[m] # Nil \/ (pc = "buying" /\ landed /\ mint = m)
  /\ pc = "selling" /\ landed => tokens[mint] <= stray[mint]

NodeInv ==
  /\ NodeTypeOK /\ Branches /\ Numbered /\ ClosedApart /\ AllRecorded /\ OneCurrent /\ Covered

(***************************************************************************)
(* Types.                                                                  *)
(***************************************************************************)

\* A transaction that parses makes a record with a price.
LEMMA RecordTyped ==
  ASSUME NEW s \in NodeSigs, parseTransaction(Tx[s]) # {}, NEW time \in TimesOf(s)
  PROVE  createTradeRecord(s, time) \in NodeRecord
<1> DEFINE tx == Tx[s]
           p == CHOOSE q \in parseTransaction(Tx[s]) : TRUE
<1>1. tx.blockTime \in Nat /\ tx.instructions \in Seq(Instruction) /\ Times \subseteq Nat
  BY NodeStoreAssumption
<1>2. p \in parseTransaction(tx)
  OBVIOUS
<1>3. PICK i \in DOMAIN tx.instructions :
        p = [mint |-> CHOOSE m \in extractMintFromAccountKeys(tx.instructions[i].accounts) : TRUE,
             swap |-> parseInstructionData(tx.instructions[i])]
  BY <1>2 DEF parseTransaction
<1>4. tx.instructions[i] \in Instruction
  BY <1>1, ElementOfSeq, LenProperties
<1>5. time \in Nat
  BY <1>1 DEF TimesOf
<1> HIDE DEF p, tx
<1>6. p.swap.isBuy \in BOOLEAN /\ p.swap.token \in Nat /\ p.swap.sol \in Nat
  BY <1>3, <1>4 DEF parseInstructionData, Instruction
<1>7. calculatePriceFromAmounts(p.swap.sol, p.swap.token) \in Nat
  <2>1. \A a, b \in Nat : b > 0 => a \div b \in Nat
    OBVIOUS
  <2> QED  BY <1>6, <2>1 DEF calculatePriceFromAmounts
<1>8. createTradeRecord(s, time) =
        [price |-> calculatePriceFromAmounts(p.swap.sol, p.swap.token),
         blocktime |-> time, isBuy |-> p.swap.isBuy, signature |-> s]
  BY DEF createTradeRecord, p
<1> QED  BY <1>5, <1>6, <1>7, <1>8 DEF NodeRecord

\* The subscriber keeps the lists typed.
LEMMA MarketTyped ==
  ASSUME trades \in [Tokens -> Seq(NodeRecord)], StoreNext
  PROVE  trades' \in [Tokens -> Seq(NodeRecord)]
<1>1. PICK s \in NodeSigs : \E time \in TimesOf(s) :
        \E applied \in {{"lpush", "ltrim"}, {"lpush"}, {"ltrim"}} : StoreUpdate(s, time, applied)
  BY DEF StoreNext
<1>2. PICK time \in TimesOf(s), applied \in {{"lpush", "ltrim"}, {"lpush"}, {"ltrim"}} :
        StoreUpdate(s, time, applied)
  BY <1>1
<1> DEFINE r == createTradeRecord(s, time)
<1>3. r \in NodeRecord
  BY <1>2, RecordTyped DEF StoreUpdate
<1>4. trades' = [trades EXCEPT ![MintOf(s)] = Stored(@, r, applied)]
  BY <1>2 DEF StoreUpdate, pushTrade
<1> HIDE DEF r
<1>5. \A q \in Seq(NodeRecord) : Stored(q, r, applied) \in Seq(NodeRecord)
  BY <1>3, StoredTyped DEF StoredFront
<1> QED  BY <1>4, <1>5

\* The price checkSellCondition works with is a number.
LEMMA LatestTyped ==
  ASSUME trades \in [Tokens -> Seq(NodeRecord)], NEW m \in Tokens,
         NEW current \in getLatestPriceFromTrades(m)
  PROVE  current \in Nat
<1> DEFINE s == Prefix(trades[m], 1)
<1>1. s \in Seq(NodeRecord) /\ Len(s) \in {0, 1}
  <2>1. trades[m] \in Seq(NodeRecord)
    OBVIOUS
  <2>2. Len(trades[m]) \in Nat
    BY <2>1, LenProperties
  <2>3. s \in Seq(NodeRecord) /\ Len(s) = IF 1 < Len(trades[m]) THEN 1 ELSE Len(trades[m])
    BY <2>1, PrefixTyped
  <2>4. \A n \in Nat : (IF 1 < n THEN 1 ELSE n) \in {0, 1}
    OBVIOUS
  <2> HIDE DEF s
  <2> QED  BY <2>2, <2>3, <2>4, Zenon
<1>2. s # <<>> /\ current = newestTrade(s).price
  BY DEF getLatestPriceFromTrades, getRecentTrades
<1> HIDE DEF s
<1>3. Len(s) = 1 /\ DOMAIN s = 1..1
  <2>1. Len(s) # 0
    BY <1>1, <1>2, EmptySeq
  <2>2. DOMAIN s = 1..Len(s)
    BY <1>1, LenProperties
  <2> QED  BY <1>1, <2>1, <2>2
<1>4. s[1] \in NodeRecord
  <2>1. 1 \in 1..Len(s)
    BY <1>3
  <2> QED  BY <1>1, <2>1, ElementOfSeq
<1>5. newestTrade(s) = s[1]
  <2> DEFINE Newest(i) == \A j \in DOMAIN s :
        s[j].blocktime < s[i].blocktime \/ (s[j].blocktime = s[i].blocktime /\ i <= j)
  <2>1. Newest(1)
    BY <1>3
  <2>2. \E i \in DOMAIN s : Newest(i)
    BY <1>3, <2>1
  <2>3. (CHOOSE i \in DOMAIN s : Newest(i)) \in DOMAIN s
    BY <2>2
  <2>4. (CHOOSE i \in DOMAIN s : Newest(i)) = 1
    BY <1>3, <2>3
  <2> QED  BY <2>4 DEF newestTrade
<1> QED  BY <1>2, <1>4, <1>5 DEF NodeRecord

\* Types of the recorder's data.
LEMMA RecorderTyped ==
  /\ NoPositions \in PositionMap
  /\ \A f \in PositionMap \cup {Torn} : loadActivePositions(f) \in PositionMap
  /\ \A f \in TradeFile, id \in 1..MaxTrades :
       Appended(f, id) \in TradeFile /\ Appended(f, id) # Torn
<1>1. NoPositions \in PositionMap
  BY DEF NoPositions, PositionMap
<1>2. \A f \in PositionMap \cup {Torn} : loadActivePositions(f) \in PositionMap
  BY <1>1 DEF loadActivePositions
<1>3. ASSUME NEW f \in TradeFile, NEW id \in 1..MaxTrades
      PROVE  Appended(f, id) \in Seq(1..MaxTrades)
  <2>1. CASE f = Torn
    BY <2>1 DEF Appended
  <2>2. CASE f # Torn
    <3>1. f \in Seq(1..MaxTrades)
      BY <2>2 DEF TradeFile
    <3> QED  BY <2>2, <3>1, AppendProperties DEF Appended
  <2> QED  BY <2>1, <2>2
<1> QED  BY <1>1, <1>2, <1>3, RecorderAssumption DEF TradeFile

\* A new position, and one whose extremes are noted.
NewPosition(b) ==
  [id |-> opened + 1, buyPrice |-> b, highestPrice |-> b, lowestPrice |-> b]
Noted(r, current) ==
  [r EXCEPT !.highestPrice = IF current > @ THEN current ELSE @,
            !.lowestPrice  = IF current < @ THEN current ELSE @]

LEMMA PositionTyped ==
  ASSUME NodeTypeOK
  PROVE  /\ \A b \in Nat : opened < MaxTrades => NewPosition(b) \in ActivePosition
         /\ \A i \in TradeInfo : calculatePriceFromPool(i) \in Nat
         /\ \A r \in ActivePosition, current \in Nat :
              Noted(r, current) \in ActivePosition /\ Noted(r, current).id = r.id
<1>1. \A b \in Nat : opened < MaxTrades => NewPosition(b) \in ActivePosition
  BY NodeStrategyAssumption DEF NodeTypeOK, ActivePosition, NewPosition
<1>2. \A i \in TradeInfo : calculatePriceFromPool(i) \in Nat
  <2>1. \A i \in TradeInfo : i.base \in {0, 1} /\ i.quote \in Nat
    <3>1. \A i \in [base: {1}, quote: Ratios] : i.base = 1 /\ i.quote \in Nat
      BY NodeStrategyAssumption
    <3>2. \A i \in [base: {0}, quote: {0}] : i.base = 0 /\ i.quote \in Nat
      OBVIOUS
    <3> QED  BY <3>1, <3>2 DEF TradeInfo
  <2>2. \A n \in Nat : n \div 1 \in Nat
    OBVIOUS
  <2> QED  BY <2>1, <2>2 DEF calculatePriceFromPool
<1>3. ASSUME NEW r \in ActivePosition, NEW current \in Nat
      PROVE  Noted(r, current) \in ActivePosition /\ Noted(r, current).id = r.id
  BY DEF ActivePosition, Noted
<1> QED  BY <1>1, <1>2, <1>3

\* The map of positions after a purchase, a price update and a sale.
LEMMA OpenedMap ==
  ASSUME NodeTypeOK, opened < MaxTrades, NEW b \in Nat, OpenPosition(b)
  PROVE  /\ activePositions' = [activePositions EXCEPT ![mint] = NewPosition(b)]
         /\ activePositions' \in PositionMap
         /\ activePositions'[mint] # Nil /\ activePositions'[mint].id = opened + 1
         /\ \A m \in Tokens \ {mint} : activePositions'[m] = activePositions[m]
         /\ opened' = opened + 1 /\ pc' = "saveBuy"
<1>1. /\ activePositions' = [activePositions EXCEPT ![mint] = NewPosition(b)]
      /\ opened' = opened + 1 /\ pc' = "saveBuy"
  BY DEF OpenPosition, recordBuy, Goto, NewPosition
<1>2. activePositions \in [Tokens -> ActivePosition \cup {Nil}] /\ mint \in Tokens
  BY DEF NodeTypeOK, PositionMap
<1>3. NewPosition(b) \in ActivePosition /\ NewPosition(b) # Nil /\ NewPosition(b).id = opened + 1
  <2>1. NewPosition(b) \in ActivePosition
    BY PositionTyped
  <2> QED  BY <2>1, RecorderAssumption DEF NewPosition
<1> QED  BY <1>1, <1>2, <1>3 DEF PositionMap

LEMMA UpdatedMap ==
  ASSUME NodeTypeOK, NEW current \in getLatestPriceFromTrades(mint), updatePrice(current)
  PROVE  /\ activePositions' \in PositionMap /\ price' \in Nat /\ pc' = "saveUpdate"
         /\ activePositions[mint] # Nil /\ activePositions'[mint] # Nil
         /\ activePositions'[mint].id = activePositions[mint].id
         /\ \A m \in Tokens \ {mint} : activePositions'[m] = activePositions[m]
<1>1. current \in Nat
  BY LatestTyped DEF NodeTypeOK
<1>2. activePositions \in [Tokens -> ActivePosition \cup {Nil}] /\ mint \in Tokens
  BY DEF NodeTypeOK, PositionMap
<1>3. /\ activePositions' = [activePositions EXCEPT ![mint] = Noted(activePositions[mint], current)]
      /\ activePositions[mint] # Nil /\ price' = current /\ pc' = "saveUpdate"
  BY <1>2 DEF updatePrice, Goto, Noted
<1> DEFINE r == Noted(activePositions[mint], current)
<1>4. r \in ActivePosition /\ r # Nil /\ r.id = activePositions[mint].id
  <2>1. activePositions[mint] \in ActivePosition
    BY <1>2, <1>3
  <2> QED  BY <1>1, <2>1, PositionTyped, RecorderAssumption
<1>5. activePositions' = [activePositions EXCEPT ![mint] = r]
  BY <1>3
<1> HIDE DEF r
<1> QED  BY <1>1, <1>2, <1>3, <1>4, <1>5 DEF PositionMap

LEMMA SoldMap ==
  ASSUME NodeTypeOK, activePositions[mint] # Nil, recordSell
  PROVE  /\ activePositions' \in PositionMap /\ pc' = "saveSell"
         /\ closing' = activePositions[mint].id /\ closing' \in 1..MaxTrades
         /\ activePositions'[mint] = Nil
         /\ \A m \in Tokens \ {mint} : activePositions'[m] = activePositions[m]
<1>1. activePositions \in [Tokens -> ActivePosition \cup {Nil}] /\ mint \in Tokens
  BY DEF NodeTypeOK, PositionMap
<1>2. activePositions[mint].id \in 1..MaxTrades
  BY <1>1 DEF ActivePosition
<1> QED  BY <1>1, <1>2 DEF recordSell, Goto, PositionMap

\* WriteCut and the calls that are over keep the types.
LEMMA CutTyped ==
  ASSUME NodeTypeOK, WriteCut
  PROVE  activeFile' \in PositionMap \cup {Torn} /\ closedFile' \in TradeFile /\ dailyFile' \in TradeFile
BY DEF NodeTypeOK, WriteCut, TradeFile

LEMMA AbandonedTyped ==
  ASSUME NodeTypeOK
  PROVE  /\ Abandoned \subseteq Transaction
         /\ \A t \in Abandoned : ~t.current
<1>1. \A t \in pending : [t EXCEPT !.current = FALSE] \in Transaction /\ ~[t EXCEPT !.current = FALSE].current
  BY DEF NodeTypeOK, Transaction
<1> QED  BY <1>1 DEF Abandoned

\* Submit adds the only transaction whose call is not over.
LEMMA SubmitTyped ==
  ASSUME NodeTypeOK, NEW kind \in {"buy", "sell"}, NEW amount \in Nat, Submit(kind, amount)
  PROVE  \E t \in Transaction :
           /\ t.kind = kind /\ t.mint = mint /\ t.amount = amount /\ t.current
           /\ pending' = pending \cup {t} /\ landed' = FALSE
<1>1. PICK n \in 1..MaxPending :
        pending' = pending \cup {[n |-> n, kind |-> kind, mint |-> mint, amount |-> amount, current |-> TRUE]}
  BY DEF Submit
<1> DEFINE t == [n |-> n, kind |-> kind, mint |-> mint, amount |-> amount, current |-> TRUE]
<1>2. mint \in Tokens /\ n \in Nat
  BY NodeStrategyAssumption DEF NodeTypeOK
<1>3. t \in Transaction /\ t.kind = kind /\ t.mint = mint /\ t.amount = amount /\ t.current
  BY <1>2 DEF Transaction
<1>4. landed' = FALSE /\ pending' = pending \cup {t}
  BY <1>1 DEF Submit
<1> QED  BY <1>3, <1>4

LEMMA TypeStep ==
  ASSUME NodeTypeOK, Branches, ClosedApart, Next
  PROVE  NodeTypeOK'
<1>1. CASE MarketStep
  BY <1>1, MarketTyped
     DEF MarketStep, NodeTypeOK, chainVars, loopVars, botVars, recVars
<1>2. ASSUME NEW t \in pending, Land(t) PROVE NodeTypeOK'
  <2>1. t \in Transaction /\ t.mint \in Tokens /\ t.current \in BOOLEAN
    BY DEF NodeTypeOK, Transaction
  <2>2. tokens' \in [Tokens -> Nat] /\ stray' \in [Tokens -> Nat]
    <3>1. tokens \in [Tokens -> Nat] /\ stray \in [Tokens -> Nat]
      BY DEF NodeTypeOK
    <3>2. CASE t.kind = "buy"
      <4>1. /\ tokens' = [tokens EXCEPT ![t.mint] = @ + 1]
            /\ stray' = [stray EXCEPT ![t.mint] = IF t.current THEN @ ELSE @ + 1]
        BY <1>2, <3>2 DEF Land
      <4>2. (IF t.current THEN stray[t.mint] ELSE stray[t.mint] + 1) \in Nat
        BY <2>1, <3>1
      <4> QED  BY <2>1, <3>1, <4>1, <4>2
    <3>3. CASE t.kind # "buy"
      <4>1. tokens' = [tokens EXCEPT ![t.mint] = 0] /\ stray' = [stray EXCEPT ![t.mint] = 0]
        BY <1>2, <3>3 DEF Land
      <4> QED  BY <2>1, <3>1, <4>1
    <3> QED  BY <3>2, <3>3
  <2>3. landed' \in BOOLEAN /\ pending' \subseteq Transaction
    BY <1>2, <2>1 DEF NodeTypeOK, Land
  <2> QED  BY <1>2, <2>2, <2>3 DEF Land, NodeTypeOK, marketVars, loopVars, botVars, recVars
<1>3. ASSUME NEW t \in pending, Expire(t) PROVE NodeTypeOK'
  BY <1>3 DEF Expire, NodeTypeOK, marketVars, loopVars, botVars, recVars
<1>4. CASE StartRound
  BY <1>4 DEF StartRound, activeMints, NodeTypeOK, Locations, Goto, marketVars, chainVars, botVars, recVars
<1>5. CASE VisitMint
  BY <1>5 DEF VisitMint, NodeTypeOK, Locations, Goto, marketVars, chainVars, botVars, recVars
<1>6. CASE EndRound \/ Sleep \/ checkBuyCondition \/ checkPriceIncrease
  BY <1>6 DEF EndRound, Sleep, checkBuyCondition, checkPriceIncrease, NodeTypeOK, Locations, Goto,
              marketVars, chainVars, botVars, recVars
<1>7. CASE fetchTradeInfoWithRetry
  BY <1>7 DEF fetchTradeInfoWithRetry, NodeTypeOK, Locations, Goto, marketVars, chainVars, botVars, recVars
<1>8. CASE TraderBuy \/ BuySucceeds
  <2>1. pc \in {"balance", "buying"} /\ opened < MaxTrades /\ tradeInfoCache[mint] \in TradeInfo
    BY <1>8 DEF TraderBuy, BuySucceeds, Branches
  <2>2. ASSUME NEW b \in Nat, OpenPosition(b)
        PROVE  /\ activePositions' \in PositionMap /\ opened' \in 0..MaxTrades /\ pc' \in Locations
               /\ positions' \in [Tokens -> [buyPrice: Nat, info: TradeInfo] \cup {Nil}]
    <3>1. activePositions' \in PositionMap /\ opened' = opened + 1 /\ pc' = "saveBuy"
      BY <2>1, <2>2, OpenedMap
    <3>2. [buyPrice |-> b, info |-> tradeInfoCache[mint]] \in [buyPrice: Nat, info: TradeInfo]
      BY <2>1
    <3>3. positions' \in [Tokens -> [buyPrice: Nat, info: TradeInfo] \cup {Nil}]
      BY <2>2, <3>2 DEF OpenPosition, NodeTypeOK
    <3>4. opened' \in 0..MaxTrades
      BY <2>1, <3>1, NodeStrategyAssumption DEF NodeTypeOK
    <3> QED  BY <3>1, <3>3, <3>4 DEF Locations
  <2>3. CASE TraderBuy
    <3>1. CASE OpenPosition(0) /\ UNCHANGED <<pending, landed>>
      BY <2>2, <2>3, <3>1 DEF TraderBuy, NodeTypeOK, marketVars
    <3>2. CASE Submit("buy", 0) /\ Goto("buying") /\ UNCHANGED <<positions, activePositions, opened>>
      <4>1. PICK t \in Transaction : pending' = pending \cup {t} /\ landed' = FALSE
        BY <3>2, SubmitTyped
      <4> QED  BY <2>3, <3>2, <4>1 DEF TraderBuy, NodeTypeOK, marketVars, Goto, Locations
    <3> QED  BY <2>3, <3>1, <3>2 DEF TraderBuy
  <2>4. CASE BuySucceeds
    <3>1. calculatePriceFromPool(tradeInfoCache[mint]) \in Nat
      BY <2>1, PositionTyped
    <3>2. OpenPosition(calculatePriceFromPool(tradeInfoCache[mint]))
      BY <2>4 DEF BuySucceeds
    <3> QED  BY <2>2, <2>4, <3>1, <3>2 DEF BuySucceeds, NodeTypeOK, marketVars, chainVars
  <2> QED  BY <1>8, <2>3, <2>4
<1>9. CASE checkSellCondition
  <2>1. activePositions' \in PositionMap /\ price' \in Nat /\ pc' \in Locations
    <3>1. CASE Goto("next") /\ UNCHANGED <<price, activePositions>>
      BY <3>1 DEF Goto, NodeTypeOK, Locations
    <3>2. ASSUME NEW current \in getLatestPriceFromTrades(mint), updatePrice(current)
          PROVE  activePositions' \in PositionMap /\ price' \in Nat /\ pc' \in Locations
      BY <3>2, UpdatedMap DEF Locations
    <3> QED  BY <1>9, <3>1, <3>2 DEF checkSellCondition
  <2> QED  BY <1>9, <2>1 DEF checkSellCondition, NodeTypeOK, marketVars, chainVars, botVars
<1>10. CASE TraderSell
  <2>1. pending' \subseteq Transaction /\ landed' \in BOOLEAN /\ pc' \in Locations
    <3>1. CASE Goto("sleep") /\ UNCHANGED <<pending, landed>>
      BY <3>1 DEF Goto, NodeTypeOK, Locations
    <3>2. CASE Submit("sell", tokens[mint]) /\ Goto("selling")
      <4>1. tokens[mint] \in Nat
        BY DEF NodeTypeOK
      <4>2. PICK t \in Transaction : pending' = pending \cup {t} /\ landed' = FALSE
        BY <3>2, <4>1, SubmitTyped
      <4> QED  BY <3>2, <4>2 DEF Goto, Locations, NodeTypeOK
    <3> QED  BY <1>10, <3>1, <3>2 DEF TraderSell
  <2> QED  BY <1>10, <2>1 DEF TraderSell, NodeTypeOK, marketVars, botVars, recVars
<1>11. CASE SellSucceeds
  <2>1. activePositions[mint] # Nil /\ recordSell
    BY <1>11 DEF SellSucceeds, Branches
  <2>2. activePositions' \in PositionMap /\ pc' = "saveSell" /\ closing' \in 0..MaxTrades
    BY <2>1, SoldMap
  <2>3. positions' \in [Tokens -> [buyPrice: Nat, info: TradeInfo] \cup {Nil}]
    BY <1>11 DEF SellSucceeds, NodeTypeOK
  <2> QED  BY <1>11, <2>2, <2>3 DEF SellSucceeds, NodeTypeOK, Locations, marketVars, chainVars
<1>12. CASE saveActivePositions
  <2>1. pc' \in Locations
    BY <1>12 DEF saveActivePositions, Goto, Decision, Locations
  <2> QED  BY <1>12, <2>1 DEF saveActivePositions, NodeTypeOK, marketVars, chainVars, botVars
<1>13. CASE appendClosedTrade
  <2>1. closing \in 1..MaxTrades
    BY <1>13 DEF appendClosedTrade, ClosedApart, NodeTypeOK
  <2>2. closedFile' \in TradeFile /\ dailyFile' \in TradeFile /\ closing' \in 0..MaxTrades /\ pc' \in Locations
    <3>1. closedFile \in TradeFile /\ dailyFile \in TradeFile /\ closing \in 0..MaxTrades
      BY DEF NodeTypeOK
    <3>2. Appended(closedFile, closing) \in TradeFile /\ Appended(dailyFile, closing) \in TradeFile
      BY <2>1, <3>1, RecorderTyped
    <3>3. 0 \in 0..MaxTrades
      BY NodeStrategyAssumption
    <3> QED  BY <1>13, <3>1, <3>2, <3>3, Zenon DEF appendClosedTrade, Goto, Locations
  <2> QED  BY <1>13, <2>2 DEF appendClosedTrade, NodeTypeOK, marketVars, chainVars, botVars
<1>14. CASE CallFails
  <2>1. pending' \subseteq Transaction
    BY <1>14, AbandonedTyped DEF CallFails
  <2>2. stray' \in [Tokens -> Nat]
    BY <1>14 DEF CallFails, NodeTypeOK
  <2> QED  BY <1>14, <2>1, <2>2 DEF CallFails, NodeTypeOK, Goto, Locations, marketVars, botVars, recVars
<1>15. CASE WriteFails
  <2>1. activeFile' \in PositionMap \cup {Torn} /\ closedFile' \in TradeFile /\ dailyFile' \in TradeFile
    BY <1>15, CutTyped DEF WriteFails
  <2>2. closing' \in 0..MaxTrades /\ price' \in Nat /\ faulty' \in BOOLEAN /\ pc' \in Locations
    BY <1>15, NodeStrategyAssumption DEF WriteFails, Goto, Locations
  <2>3. UNCHANGED <<trades, tokens, stray, pending, landed, todo, mint, tradeInfoCache, positions,
                    activePositions, opened>>
    BY <1>15 DEF WriteFails, marketVars, chainVars, botVars
  <2> QED  BY <2>1, <2>2, <2>3 DEF NodeTypeOK
<1>16. CASE Stop
  BY <1>16 DEF Stop, NodeTypeOK, marketVars, chainVars, loopVars, botVars, recVars
<1>17. CASE Crash
  <2>1. activeFile' \in PositionMap \cup {Torn} /\ closedFile' \in TradeFile /\ dailyFile' \in TradeFile
    BY <1>17, CutTyped DEF Crash
  <2>2. activePositions' \in PositionMap
    BY <1>17, <2>1, RecorderTyped DEF Crash
  <2>3. pending' \subseteq Transaction
    BY <1>17, AbandonedTyped DEF Crash
  <2>4. stray' \in [Tokens -> Nat]
    BY <1>17 DEF Crash, NodeTypeOK
  <2>5. /\ closing' \in 0..MaxTrades /\ price' \in Nat /\ faulty' \in BOOLEAN /\ pc' \in Locations
        /\ todo' \subseteq Tokens /\ landed' \in BOOLEAN
    <3>1. closing' = 0 /\ price' = 0 /\ faulty' = TRUE /\ pc' = "top" /\ todo' = {} /\ landed' = FALSE
      BY <1>17 DEF Crash
    <3>2. 0 \in 0..MaxTrades /\ 0 \in Nat
      BY NodeStrategyAssumption
    <3> QED  BY <3>1, <3>2, Zenon DEF Locations
  <2>6. /\ positions' \in [Tokens -> [buyPrice: Nat, info: TradeInfo] \cup {Nil}]
        /\ tradeInfoCache' \in [Tokens -> TradeInfo \cup {Nil}]
    BY <1>17 DEF Crash, NoPositions
  <2>7. UNCHANGED <<trades, tokens, mint, opened>>
    BY <1>17 DEF Crash
  <2> QED  BY <2>1, <2>2, <2>3, <2>4, <2>5, <2>6, <2>7 DEF NodeTypeOK
<1> QED
  BY <1>1, <1>2, <1>3, <1>4, <1>5, <1>6, <1>7, <1>8, <1>9, <1>10, <1>11, <1>12, <1>13, <1>14, <1>15,
     <1>16, <1>17 DEF Next, LoopNext

LEMMA BranchesStep ==
  ASSUME NodeTypeOK, Branches, Next
  PROVE  Branches'
<1> USE DEF Goto
<1>1. ASSUME UNCHANGED <<positions, activePositions, tradeInfoCache, opened>>,
             \/ pc' \in {"top", "next", "sleep", "ended", "appendClosed", "appendDaily"}
             \/ UNCHANGED <<mint, pc>>
      PROVE  Branches'
  BY <1>1 DEF Branches
<1>2. CASE MarketStep \/ Stop \/ \E t \in pending : Land(t) \/ Expire(t)
  BY <1>1, <1>2 DEF MarketStep, Stop, Land, Expire, loopVars, botVars, recVars
<1>3. CASE StartRound \/ EndRound \/ Sleep \/ appendClosedTrade \/ CallFails \/ WriteFails
  <2>1. UNCHANGED <<positions, activePositions, tradeInfoCache, opened>>
    BY <1>3 DEF StartRound, EndRound, Sleep, appendClosedTrade, CallFails, WriteFails, botVars, recVars
  <2>2. pc' \in {"top", "next", "sleep", "ended", "appendDaily"}
    BY <1>3 DEF StartRound, EndRound, Sleep, appendClosedTrade, CallFails, WriteFails
  <2> QED  BY <1>1, <2>1, <2>2
<1>4. CASE VisitMint
  <2>1. PICK m \in todo : mint' = m /\ pc' = IF isHolding(m) THEN "sell" ELSE "buy"
    BY <1>4 DEF VisitMint
  <2>2. m \in Tokens /\ UNCHANGED <<positions, activePositions, tradeInfoCache, opened>>
    BY <1>4 DEF VisitMint, NodeTypeOK, botVars, recVars
  <2> QED  BY <2>1, <2>2 DEF isHolding, Branches
<1>5. CASE checkBuyCondition \/ checkPriceIncrease
  <2>1. UNCHANGED <<positions, activePositions, tradeInfoCache, opened, mint>>
    BY <1>5 DEF checkBuyCondition, checkPriceIncrease, botVars, recVars
  <2>2. /\ pc \in {"buy", "increase"} /\ pc' \in {"next", "increase", "fetch", "balance"}
        /\ pc' \in {"fetch", "balance"} => opened # MaxTrades
        /\ pc' = "balance" => tradeInfoCache[mint] # Nil
    BY <1>5 DEF checkBuyCondition, checkPriceIncrease
  <2>3. /\ tradeInfoCache[mint] # Nil => tradeInfoCache[mint] \in TradeInfo
        /\ opened # MaxTrades => opened < MaxTrades
    BY NodeStrategyAssumption DEF NodeTypeOK
  <2> QED  BY <2>1, <2>2, <2>3 DEF Branches
<1>6. CASE fetchTradeInfoWithRetry
  <2>1. UNCHANGED <<positions, activePositions, opened, mint>> /\ pc = "fetch"
    BY <1>6 DEF fetchTradeInfoWithRetry, recVars
  <2>2. CASE pc' = "balance" /\ \E i \in TradeInfo : tradeInfoCache' = [tradeInfoCache EXCEPT ![mint] = i]
    <3>1. tradeInfoCache'[mint] \in TradeInfo
      BY <2>2 DEF NodeTypeOK
    <3> QED  BY <2>1, <2>2, <3>1 DEF Branches
  <2>3. CASE pc' = pc \/ pc' = "sleep"
    BY <2>1, <2>3 DEF Branches
  <2> QED  BY <1>6, <2>2, <2>3 DEF fetchTradeInfoWithRetry
<1>7. CASE TraderBuy \/ BuySucceeds
  <2>1. /\ pc \in {"balance", "buying"} /\ opened < MaxTrades /\ tradeInfoCache[mint] \in TradeInfo
        /\ UNCHANGED <<mint, tradeInfoCache>>
    BY <1>7 DEF TraderBuy, BuySucceeds, Branches
  <2>2. ASSUME NEW b \in Nat, OpenPosition(b) PROVE Branches'
    <3>1. /\ activePositions'[mint] # Nil /\ pc' = "saveBuy"
          /\ \A m \in Tokens \ {mint} : activePositions'[m] = activePositions[m]
      BY <2>1, <2>2, OpenedMap
    <3>2. \A m \in Tokens \ {mint} : positions'[m] = positions[m]
      BY <2>2 DEF OpenPosition, NodeTypeOK
    <3> QED  BY <3>1, <3>2 DEF Branches
  <2>3. CASE TraderBuy
    <3>1. CASE OpenPosition(0)
      BY <2>2, <3>1
    <3>2. CASE pc' = "buying" /\ UNCHANGED <<positions, activePositions, opened>>
      BY <2>1, <3>2 DEF Branches
    <3> QED  BY <2>3, <3>1, <3>2 DEF TraderBuy
  <2>4. CASE BuySucceeds
    <3>1. calculatePriceFromPool(tradeInfoCache[mint]) \in Nat
      BY <2>1, PositionTyped
    <3>2. OpenPosition(calculatePriceFromPool(tradeInfoCache[mint]))
      BY <2>4 DEF BuySucceeds
    <3> QED  BY <2>2, <3>1, <3>2
  <2> QED  BY <1>7, <2>3, <2>4
<1>8. CASE checkSellCondition
  <2>1. UNCHANGED <<positions, tradeInfoCache, opened, mint>>
    BY <1>8 DEF checkSellCondition, botVars
  <2>2. CASE pc' = "next" /\ UNCHANGED <<price, activePositions>>
    BY <1>1, <2>1, <2>2
  <2>3. ASSUME NEW current \in getLatestPriceFromTrades(mint), updatePrice(current) PROVE Branches'
    <3>1. /\ activePositions'[mint] # Nil /\ pc' = "saveUpdate" /\ mint \in Tokens
          /\ \A m \in Tokens \ {mint} : activePositions'[m] = activePositions[m]
      BY <2>3, UpdatedMap DEF NodeTypeOK
    <3> QED  BY <2>1, <3>1 DEF Branches
  <2> QED  BY <1>8, <2>2, <2>3 DEF checkSellCondition
<1>9. CASE TraderSell
  <2>1. UNCHANGED <<positions, activePositions, tradeInfoCache, opened, mint>>
    BY <1>9 DEF TraderSell, botVars, recVars
  <2>2. pc = "holdings" /\ pc' \in {"sleep", "selling"}
    BY <1>9 DEF TraderSell
  <2> QED  BY <2>1, <2>2 DEF Branches
<1>10. CASE SellSucceeds
  <2>1. /\ activePositions'[mint] = Nil /\ pc' = "saveSell"
        /\ \A m \in Tokens \ {mint} : activePositions'[m] = activePositions[m]
    BY <1>10, SoldMap DEF SellSucceeds, Branches
  <2>2. positions'[mint] = Nil /\ \A m \in Tokens \ {mint} : positions'[m] = positions[m]
    BY <1>10 DEF SellSucceeds, NodeTypeOK
  <2> QED  BY <2>1, <2>2 DEF Branches
<1>11. CASE saveActivePositions
  <2>1. UNCHANGED <<positions, activePositions, tradeInfoCache, opened, mint>>
    BY <1>11 DEF saveActivePositions, botVars
  <2>2. \/ pc' \in {"next", "appendClosed"}
        \/ pc = "saveUpdate" /\ pc' = "holdings"
    BY <1>11 DEF saveActivePositions, Decision
  <2> QED  BY <2>1, <2>2 DEF Branches
<1>12. CASE Crash
  BY <1>12 DEF Crash, Branches, NoPositions
<1> QED
  BY <1>2, <1>3, <1>4, <1>5, <1>6, <1>7, <1>8, <1>9, <1>10, <1>11, <1>12 DEF Next, LoopNext

(***************************************************************************)
(* The recorder.                                                           *)
(***************************************************************************)

\* The ids of a map that differs from another one in one token.
LEMMA IdsOfMap ==
  ASSUME NEW f, NEW g, NEW m \in Tokens, \A n \in Tokens \ {m} : g[n] = f[n]
  PROVE  /\ f[m] = Nil /\ g[m] # Nil => Ids(g) = Ids(f) \cup {g[m].id}
         /\ f[m] # Nil /\ g[m] # Nil /\ g[m].id = f[m].id => Ids(g) = Ids(f)
         /\ /\ f[m] # Nil /\ g[m] = Nil
            /\ \A n \in Tokens : f[n] # Nil /\ f[n].id = f[m].id => n = m
            => Ids(g) = Ids(f) \ {f[m].id}
BY DEF Ids

\* A closed trade is added at the end of a file.
LEMMA ClosedAppended ==
  ASSUME NEW f \in TradeFile, NEW id \in 1..MaxTrades
  PROVE  /\ Appended(f, id) # Torn
         /\ Closed(Appended(f, id)) = Closed(f) \cup {id}
         /\ f # Torn => Appended(f, id) = Append(f, id)
<1>1. Appended(f, id) # Torn /\ (f # Torn => Appended(f, id) = Append(f, id))
  BY RecorderTyped DEF Appended
<1>2. CASE f = Torn
  <2>1. Appended(f, id) = <<id>> /\ Closed(f) = {}
    BY <1>2 DEF Appended, Closed
  <2>2. {<<id>>[i] : i \in DOMAIN <<id>>} = {id}
    OBVIOUS
  <2> QED  BY <1>1, <2>1, <2>2 DEF Closed
<1>3. CASE f # Torn
  <2>1. f \in Seq(1..MaxTrades)
    BY <1>3 DEF TradeFile
  <2>2. /\ DOMAIN f = 1..Len(f) /\ Len(f) \in Nat
        /\ DOMAIN Append(f, id) = 1..(Len(f) + 1)
        /\ \A i \in 1..Len(f) : Append(f, id)[i] = f[i]
        /\ Append(f, id)[Len(f) + 1] = id
    BY <2>1, AppendProperties, LenProperties
  <2>3. {Append(f, id)[i] : i \in DOMAIN Append(f, id)} = {f[i] : i \in DOMAIN f} \cup {id}
    BY <2>2
  <2> QED  BY <1>1, <1>3, <2>3 DEF Closed
<1> QED  BY <1>2, <1>3, <1>1

\* Ids of positions and of closed trades are those of trades that were opened.
LEMMA IdsBounded ==
  ASSUME NodeTypeOK, Numbered
  PROVE  /\ Ids(activePositions) \subseteq 1..opened
         /\ OpenOnDisk \subseteq 1..opened
         /\ Closed(closedFile) \subseteq 1..opened
<1>1. ASSUME NEW f \in PositionMap, OwnIds(f) PROVE Ids(f) \subseteq 1..opened
  <2>1. \A m \in Tokens : f[m] # Nil => f[m].id \in 1..MaxTrades
    BY DEF PositionMap, ActivePosition
  <2>2. \A m \in Tokens : f[m] # Nil => f[m].id \in 1..opened
    BY <1>1, <2>1, NodeStrategyAssumption DEF OwnIds, NodeTypeOK
  <2> QED  BY <2>2 DEF Ids
<1>2. Ids(activePositions) \subseteq 1..opened
  BY <1>1 DEF NodeTypeOK, Numbered
<1>3. OpenOnDisk \subseteq 1..opened
  BY <1>1 DEF NodeTypeOK, Numbered, OpenOnDisk
<1>4. Closed(closedFile) \subseteq 1..opened
  <2>1. CASE closedFile = Torn
    BY <2>1 DEF Closed
  <2>2. CASE closedFile # Torn
    <3>1. \A i \in DOMAIN closedFile : closedFile[i] \in 1..MaxTrades
      BY <2>2, ElementOfSeq, LenProperties DEF NodeTypeOK, TradeFile
    <3>2. \A i \in DOMAIN closedFile : closedFile[i] \in 1..opened
      BY <2>2, <3>1, NodeStrategyAssumption DEF Numbered, NodeTypeOK
    <3> QED  BY <2>2, <3>2 DEF Closed
  <2> QED  BY <2>1, <2>2
<1> QED  BY <1>2, <1>3, <1>4

RecordInv == Numbered /\ ClosedApart /\ AllRecorded

\* Steps that leave the recorder alone.
LEMMA RecorderIdle ==
  ASSUME RecordInv, UNCHANGED recVars, faulty => faulty',
         pc' = pc \/ {pc, pc'} \cap {"saveSell", "appendClosed", "appendDaily"} = {}
  PROVE  RecordInv'
<1> USE DEF RecordInv, recVars
<1>1. Numbered'
  BY DEF Numbered, OwnIds
<1>2. /\ Ids(activePositions)' = Ids(activePositions) /\ OpenOnDisk' = OpenOnDisk
      /\ Closed(closedFile)' = Closed(closedFile)
  BY DEF Ids, OpenOnDisk, Closed
<1>3. ClosedApart'
  BY <1>2 DEF ClosedApart
<1>4. InHand' = InHand /\ (pc' = "appendDaily" <=> pc = "appendDaily")
  BY DEF InHand
<1>5. AllRecorded'
  BY <1>2, <1>4 DEF AllRecorded
<1> QED  BY <1>1, <1>3, <1>5

\* recordBuy opens a trade with a new id.
LEMMA RecordBuyStep ==
  ASSUME NodeTypeOK, Branches, RecordInv, pc \in {"balance", "buying"},
         NEW b \in Nat, OpenPosition(b), UNCHANGED <<activeFile, closedFile, dailyFile, closing, faulty>>
  PROVE  RecordInv'
<1> USE DEF RecordInv
<1>1. activePositions[mint] = Nil /\ opened < MaxTrades /\ mint \in Tokens /\ opened \in Nat
  BY NodeStrategyAssumption DEF Branches, NodeTypeOK
<1>2. /\ activePositions'[mint] # Nil /\ activePositions'[mint].id = opened + 1
      /\ \A m \in Tokens \ {mint} : activePositions'[m] = activePositions[m]
      /\ opened' = opened + 1 /\ pc' = "saveBuy"
  BY <1>1, OpenedMap
<1>3. Ids(activePositions') = Ids(activePositions) \cup {opened + 1}
  BY <1>1, <1>2, IdsOfMap
<1>4. /\ Ids(activePositions) \subseteq 1..opened /\ OpenOnDisk \subseteq 1..opened
      /\ Closed(closedFile) \subseteq 1..opened
  BY IdsBounded
<1>5. Numbered'
  <2>1. \A m \in Tokens : activePositions[m] # Nil => activePositions[m].id \in 1..opened
    BY <1>4 DEF Ids
  <2>2. OwnIds(activePositions)'
    BY <1>1, <1>2, <2>1 DEF Numbered, OwnIds
  <2>3. activeFile # Torn => OwnIds(activeFile)'
    <3>1. activeFile # Torn => \A m \in Tokens : activeFile[m] # Nil => activeFile[m].id \in 1..opened
      BY <1>4 DEF OpenOnDisk, Ids
    <3> QED  BY <1>1, <1>2, <3>1 DEF Numbered, OwnIds
  <2>4. closedFile # Torn => \A i \in DOMAIN closedFile : closedFile[i] <= opened'
    <3>1. closedFile # Torn => \A i \in DOMAIN closedFile : closedFile[i] \in 1..opened
      BY <1>4 DEF Closed
    <3> QED  BY <1>1, <1>2, <3>1
  <2> QED  BY <2>2, <2>3, <2>4 DEF Numbered
<1>6. OpenOnDisk' = OpenOnDisk /\ Closed(closedFile)' = Closed(closedFile)
  BY DEF OpenOnDisk, Closed, Ids
<1>7. opened + 1 \notin 1..opened /\ 1..(opened + 1) = 1..opened \cup {opened + 1}
  BY <1>1
<1>8. ClosedApart'
  BY <1>2, <1>3, <1>4, <1>6, <1>7 DEF ClosedApart
<1>9. AllRecorded'
  <2>1. pc # "appendDaily" /\ InHand = {} /\ InHand' = {}
    BY <1>2 DEF InHand
  <2> QED  BY <1>2, <1>3, <1>6, <1>7, <2>1 DEF AllRecorded
<1> QED  BY <1>5, <1>8, <1>9

\* updatePrice keeps the ids.
LEMMA UpdatePriceStep ==
  ASSUME NodeTypeOK, RecordInv, pc = "sell",
         NEW current \in getLatestPriceFromTrades(mint), updatePrice(current),
         UNCHANGED <<activeFile, closedFile, dailyFile, closing, opened, faulty>>
  PROVE  RecordInv'
<1> USE DEF RecordInv
<1>1. /\ activePositions[mint] # Nil /\ activePositions'[mint] # Nil /\ pc' = "saveUpdate"
      /\ activePositions'[mint].id = activePositions[mint].id /\ mint \in Tokens
      /\ \A m \in Tokens \ {mint} : activePositions'[m] = activePositions[m]
  BY UpdatedMap DEF NodeTypeOK
<1>2. Ids(activePositions') = Ids(activePositions)
  BY <1>1, IdsOfMap
<1>3. Numbered'
  <2>1. OwnIds(activePositions)'
    BY <1>1 DEF Numbered, OwnIds
  <2> QED  BY <2>1 DEF Numbered, OwnIds
<1>4. OpenOnDisk' = OpenOnDisk /\ Closed(closedFile)' = Closed(closedFile) /\ InHand = {} /\ InHand' = {}
  BY <1>1 DEF OpenOnDisk, Closed, Ids, InHand
<1>5. ClosedApart'
  BY <1>1, <1>2, <1>4 DEF ClosedApart
<1>6. AllRecorded'
  BY <1>1, <1>2, <1>4 DEF AllRecorded
<1> QED  BY <1>3, <1>5, <1>6

\* recordSell takes the trade out of the map before it writes anything.
LEMMA RecordSellStep ==
  ASSUME NodeTypeOK, Branches, RecordInv, SellSucceeds
  PROVE  RecordInv'
<1> USE DEF RecordInv
<1>1. /\ activePositions[mint] # Nil /\ mint \in Tokens /\ pc = "selling"
      /\ recordSell /\ UNCHANGED <<activeFile, closedFile, dailyFile, opened, faulty>>
  BY DEF SellSucceeds, Branches, NodeTypeOK
<1>2. /\ closing' = activePositions[mint].id /\ pc' = "saveSell"
      /\ activePositions'[mint] = Nil
      /\ \A m \in Tokens \ {mint} : activePositions'[m] = activePositions[m]
  BY <1>1, SoldMap
<1>3. \A n \in Tokens : activePositions[n] # Nil /\ activePositions[n].id = activePositions[mint].id => n = mint
  BY <1>1 DEF Numbered, OwnIds
<1>4. Ids(activePositions') = Ids(activePositions) \ {closing'}
  BY <1>1, <1>2, <1>3, IdsOfMap
<1>5. closing' \in Ids(activePositions)
  BY <1>1, <1>2 DEF Ids
<1>6. Numbered'
  <2>1. OwnIds(activePositions)'
    BY <1>1, <1>2 DEF Numbered, OwnIds
  <2> QED  BY <1>1, <2>1 DEF Numbered, OwnIds
<1>7. /\ OpenOnDisk' = OpenOnDisk /\ Closed(closedFile)' = Closed(closedFile)
      /\ InHand = {} /\ InHand' = {closing'}
  BY <1>1, <1>2 DEF OpenOnDisk, Closed, Ids, InHand
<1>8. ClosedApart'
  <2>1. Ids(activePositions) \subseteq 1..opened
    BY IdsBounded
  <2> QED  BY <1>1, <1>2, <1>4, <1>5, <1>7, <2>1 DEF ClosedApart
<1>9. AllRecorded'
  BY <1>1, <1>2, <1>4, <1>5, <1>7 DEF AllRecorded
<1> QED  BY <1>6, <1>8, <1>9

LEMMA SaveStep ==
  ASSUME NodeTypeOK, RecordInv, saveActivePositions
  PROVE  RecordInv'
<1> USE DEF RecordInv
<1>1. /\ activeFile' = activePositions
      /\ UNCHANGED <<activePositions, closedFile, dailyFile, closing, opened, faulty>>
      /\ \/ pc = "saveSell" /\ pc' = "appendClosed"
         \/ pc \in {"saveBuy", "saveUpdate"} /\ pc' \in {"next", "holdings"}
  BY DEF saveActivePositions, Goto, Decision
<1>2. Numbered'
  BY <1>1 DEF Numbered, OwnIds
<1>3. /\ OpenOnDisk' \subseteq Ids(activePositions) /\ Ids(activePositions)' = Ids(activePositions)
      /\ Closed(closedFile)' = Closed(closedFile) /\ InHand' = InHand
  BY <1>1 DEF OpenOnDisk, Ids, Closed, InHand
<1>4. ClosedApart'
  BY <1>1, <1>3 DEF ClosedApart
<1>5. AllRecorded'
  BY <1>1, <1>3 DEF AllRecorded
<1> QED  BY <1>2, <1>4, <1>5

\* The closed trade is appended once its removal from the active list is on disk.
LEMMA AppendStep ==
  ASSUME NodeTypeOK, RecordInv, appendClosedTrade
  PROVE  RecordInv'
<1> USE DEF RecordInv
<1>1. /\ UNCHANGED <<activePositions, activeFile, opened, faulty>>
      /\ closing \in 1..opened /\ closing \in 1..MaxTrades
      /\ closedFile \in TradeFile /\ dailyFile \in TradeFile
  BY NodeStrategyAssumption DEF appendClosedTrade, ClosedApart, NodeTypeOK
<1>2. Ids(activePositions)' = Ids(activePositions) /\ OpenOnDisk' = OpenOnDisk
  BY <1>1 DEF Ids, OpenOnDisk
<1>3. CASE pc = "appendClosed"
  <2>1. /\ closedFile' = Appended(closedFile, closing) /\ pc' = "appendDaily"
        /\ UNCHANGED <<dailyFile, closing>>
    BY <1>3 DEF appendClosedTrade, Goto
  <2>2. /\ closedFile' # Torn /\ Closed(closedFile') = Closed(closedFile) \cup {closing}
        /\ closedFile # Torn => closedFile' = Append(closedFile, closing)
    BY <1>1, <2>1, ClosedAppended
  <2>3. Numbered'
    <3>1. OwnIds(activePositions)' /\ (activeFile' # Torn => OwnIds(activeFile)')
      BY <1>1 DEF Numbered, OwnIds
    <3>2. /\ \A i \in DOMAIN closedFile' : closedFile'[i] <= opened
          /\ \A i, j \in DOMAIN closedFile' : closedFile'[i] = closedFile'[j] => i = j
      <4>1. CASE closedFile = Torn
        <5>1. closedFile' = <<closing>>
          BY <2>1, <4>1 DEF Appended
        <5> QED  BY <1>1, <5>1
      <4>2. CASE closedFile # Torn
        <5>1. closedFile \in Seq(1..MaxTrades) /\ closedFile' = Append(closedFile, closing)
          BY <1>1, <2>2, <4>2 DEF TradeFile
        <5>2. /\ Len(closedFile) \in Nat /\ DOMAIN closedFile = 1..Len(closedFile)
              /\ DOMAIN closedFile' = 1..(Len(closedFile) + 1)
              /\ \A i \in 1..Len(closedFile) : closedFile'[i] = closedFile[i]
              /\ closedFile'[Len(closedFile) + 1] = closing
          BY <5>1, AppendProperties, LenProperties
        <5>3. \A i \in DOMAIN closedFile : closedFile[i] # closing
          BY <1>3, <4>2 DEF ClosedApart, Closed
        <5>4. ASSUME NEW i \in DOMAIN closedFile'
              PROVE  \/ i \in DOMAIN closedFile /\ closedFile'[i] = closedFile[i]
                     \/ i = Len(closedFile) + 1 /\ closedFile'[i] = closing
          <6>1. i \in 1..Len(closedFile) \/ i = Len(closedFile) + 1
            BY <5>2
          <6> QED  BY <5>2, <6>1
        <5>5. closing <= opened
          BY <1>1
        <5> QED  BY <4>2, <5>3, <5>4, <5>5 DEF Numbered
      <4> QED  BY <4>1, <4>2
    <3> QED  BY <1>1, <3>1, <3>2 DEF Numbered
  <2>4. ClosedApart'
    BY <1>1, <1>2, <1>3, <2>1, <2>2 DEF ClosedApart
  <2>5. InHand = {closing} /\ InHand' = {}
    BY <1>3, <2>1 DEF InHand
  <2>6. AllRecorded'
    BY <1>1, <1>2, <1>3, <2>1, <2>2, <2>5 DEF AllRecorded
  <2> QED  BY <2>3, <2>4, <2>6
<1>4. CASE pc = "appendDaily"
  <2>1. /\ dailyFile' = Appended(dailyFile, closing) /\ pc' = "next"
        /\ UNCHANGED closedFile
    BY <1>4 DEF appendClosedTrade, Goto
  <2>2. /\ dailyFile' # Torn /\ (dailyFile # Torn => dailyFile' = Append(dailyFile, closing))
        /\ Closed(closedFile)' = Closed(closedFile) /\ InHand = {} /\ InHand' = {}
    BY <1>1, <1>4, <2>1, ClosedAppended DEF Closed, InHand
  <2>3. Numbered'
    BY <1>1, <2>1 DEF Numbered, OwnIds
  <2>4. ClosedApart'
    BY <1>1, <1>2, <2>1, <2>2 DEF ClosedApart
  <2>5. AllRecorded'
    BY <1>1, <1>2, <1>4, <2>1, <2>2 DEF AllRecorded
  <2> QED  BY <2>3, <2>4, <2>5
<1> QED  BY <1>3, <1>4 DEF appendClosedTrade

\* A write that is cut leaves no file with more than it had.
LEMMA CutKeeps ==
  ASSUME RecordInv, WriteCut, UNCHANGED opened
  PROVE  /\ activeFile' # Torn => activeFile' = activeFile /\ OwnIds(activeFile)'
         /\ closedFile' # Torn =>
              /\ \A i \in DOMAIN closedFile' : closedFile'[i] <= opened'
              /\ \A i, j \in DOMAIN closedFile' : closedFile'[i] = closedFile'[j] => i = j
         /\ OpenOnDisk' \subseteq OpenOnDisk
         /\ Closed(closedFile') \subseteq Closed(closedFile)
<1>1. activeFile' \in {activeFile, Torn} /\ closedFile' \in {closedFile, Torn}
  BY DEF WriteCut
<1>2. activeFile' # Torn => activeFile' = activeFile /\ OwnIds(activeFile)'
  BY <1>1 DEF RecordInv, Numbered, OwnIds
<1>3. closedFile' # Torn =>
        /\ \A i \in DOMAIN closedFile' : closedFile'[i] <= opened'
        /\ \A i, j \in DOMAIN closedFile' : closedFile'[i] = closedFile'[j] => i = j
  BY <1>1 DEF RecordInv, Numbered
<1>4. OpenOnDisk' \subseteq OpenOnDisk
  BY <1>1 DEF OpenOnDisk, Ids
<1>5. Closed(closedFile') \subseteq Closed(closedFile)
  BY <1>1 DEF Closed
<1> QED  BY <1>2, <1>3, <1>4, <1>5

LEMMA WriteFailsStep ==
  ASSUME RecordInv, WriteFails
  PROVE  RecordInv'
<1>1. WriteCut /\ UNCHANGED <<activePositions, opened>> /\ pc' = "sleep" /\ faulty' = TRUE
  BY DEF WriteFails, Goto
<1>2. Numbered'
  BY <1>1, CutKeeps DEF RecordInv, Numbered, OwnIds
<1>3. ClosedApart'
  <2>1. Ids(activePositions)' = Ids(activePositions)
    BY <1>1 DEF Ids
  <2> QED  BY <1>1, <2>1, CutKeeps DEF RecordInv, ClosedApart
<1>4. AllRecorded'
  BY <1>1 DEF AllRecorded
<1> QED  BY <1>2, <1>3, <1>4 DEF RecordInv

\* A new process works with the positions that are on disk.
LEMMA CrashStep ==
  ASSUME NodeTypeOK, RecordInv, Crash
  PROVE  RecordInv'
<1>1. /\ WriteCut /\ UNCHANGED opened /\ pc' = "top" /\ faulty' = TRUE
      /\ activePositions' = loadActivePositions(activeFile')
  BY DEF Crash
<1>2. Ids(activePositions') = OpenOnDisk' /\ OwnIds(activePositions)'
  <2>1. CASE activeFile' = Torn
    BY <1>1, <2>1 DEF loadActivePositions, NoPositions, OpenOnDisk, Ids, OwnIds
  <2>2. CASE activeFile' # Torn
    BY <1>1, <2>2, CutKeeps DEF loadActivePositions, OpenOnDisk, Ids, OwnIds
  <2> QED  BY <2>1, <2>2
<1>3. Numbered'
  BY <1>1, <1>2, CutKeeps DEF Numbered
<1>4. ClosedApart'
  BY <1>1, <1>2, CutKeeps DEF RecordInv, ClosedApart
<1>5. AllRecorded'
  BY <1>1 DEF AllRecorded
<1> QED  BY <1>3, <1>4, <1>5 DEF RecordInv

LEMMA RecorderStep ==
  ASSUME NodeTypeOK, Branches, RecordInv, Next
  PROVE  RecordInv'
<1>1. CASE MarketStep \/ Stop \/ \E t \in pending : Land(t) \/ Expire(t)
  <2>1. UNCHANGED <<recVars, faulty, pc>>
    BY <1>1 DEF MarketStep, Stop, Land, Expire, loopVars
  <2> QED  BY <2>1, RecorderIdle
<1>2. CASE StartRound \/ VisitMint \/ EndRound \/ Sleep
  <2>1. UNCHANGED <<recVars, faulty>> /\ pc \in {"top", "next", "sleep"}
    BY <1>2 DEF StartRound, VisitMint, EndRound, Sleep
  <2>2. pc' \in {"top", "next", "sleep", "ended", "sell", "buy"}
    BY <1>2 DEF StartRound, VisitMint, EndRound, Sleep, Goto
  <2> QED  BY <2>1, <2>2, RecorderIdle
<1>3. CASE checkBuyCondition \/ checkPriceIncrease \/ fetchTradeInfoWithRetry \/ TraderSell
  <2>1. UNCHANGED <<recVars, faulty>> /\ pc \in {"buy", "increase", "fetch", "holdings"}
    BY <1>3 DEF checkBuyCondition, checkPriceIncrease, fetchTradeInfoWithRetry, TraderSell
  <2>2. pc' = pc \/ pc' \in {"next", "increase", "fetch", "balance", "sleep", "selling"}
    BY <1>3 DEF checkBuyCondition, checkPriceIncrease, fetchTradeInfoWithRetry, TraderSell, Goto
  <2> QED  BY <2>1, <2>2, RecorderIdle
<1>4. CASE CallFails
  <2>1. UNCHANGED recVars /\ faulty' /\ pc' = "sleep"
    BY <1>4 DEF CallFails, Goto
  <2>2. pc \notin {"saveSell", "appendClosed", "appendDaily"}
    BY <1>4 DEF CallFails
  <2> QED  BY <2>1, <2>2, RecorderIdle
<1>5. CASE TraderBuy \/ BuySucceeds
  <2>1. /\ pc \in {"balance", "buying"}
        /\ UNCHANGED <<tradeInfoCache, activeFile, closedFile, dailyFile, closing, faulty>>
    BY <1>5 DEF TraderBuy, BuySucceeds
  <2>2. CASE TraderBuy
    <3>1. CASE OpenPosition(0)
      BY <2>1, <3>1, RecordBuyStep
    <3>2. CASE Goto("buying") /\ UNCHANGED <<positions, activePositions, opened>>
      <4>1. UNCHANGED recVars /\ pc' = "buying"
        BY <2>1, <3>2 DEF recVars, Goto
      <4> QED  BY <2>1, <4>1, RecorderIdle
    <3> QED  BY <2>2, <3>1, <3>2 DEF TraderBuy
  <2>3. CASE BuySucceeds
    <3>1. calculatePriceFromPool(tradeInfoCache[mint]) \in Nat
      BY <2>1, PositionTyped DEF Branches
    <3>2. OpenPosition(calculatePriceFromPool(tradeInfoCache[mint]))
      BY <2>3 DEF BuySucceeds
    <3> QED  BY <2>1, <3>1, <3>2, RecordBuyStep
  <2> QED  BY <1>5, <2>2, <2>3
<1>6. CASE checkSellCondition
  <2>1. pc = "sell" /\ UNCHANGED <<activeFile, closedFile, dailyFile, closing, opened, faulty>>
    BY <1>6 DEF checkSellCondition
  <2>2. CASE Goto("next") /\ UNCHANGED <<price, activePositions>>
    <3>1. UNCHANGED recVars /\ pc' = "next"
      BY <2>1, <2>2 DEF recVars, Goto
    <3> QED  BY <2>1, <3>1, RecorderIdle
  <2>3. ASSUME NEW current \in getLatestPriceFromTrades(mint), updatePrice(current) PROVE RecordInv'
    BY <2>1, <2>3, UpdatePriceStep
  <2> QED  BY <1>6, <2>2, <2>3 DEF checkSellCondition
<1> QED
  BY <1>1, <1>2, <1>3, <1>4, <1>5, <1>6, RecordSellStep, SaveStep, AppendStep, WriteFailsStep, CrashStep
     DEF Next, LoopNext

(***************************************************************************)
(* The chain.                                                              *)
(***************************************************************************)
ChainInv == OneCurrent /\ Covered

\* Steps that neither send a transaction nor wait for one.
LEMMA ChainIdle ==
  ASSUME NodeTypeOK, ChainInv, UNCHANGED <<tokens, stray, pending, landed>>,
         \A m \in Tokens : activePositions[m] # Nil => activePositions'[m] # Nil,
         UNCHANGED <<pc, mint>> \/ {pc, pc'} \cap {"buying", "selling"} = {}
  PROVE  ChainInv'
<1>1. OneCurrent'
  BY DEF ChainInv, OneCurrent
<1>2. Covered'
  BY DEF ChainInv, Covered
<1> QED  BY <1>1, <1>2 DEF ChainInv

\* A purchase that lands in the call of the loop is the first beyond the stray
\* ones; a purchase that lands later is a stray one; a sale takes all of them.
LEMMA LandStep ==
  ASSUME NodeTypeOK, Branches, ChainInv, NEW t \in pending, Land(t)
  PROVE  ChainInv'
<1>1. UNCHANGED <<activePositions, pc, mint>> /\ pending' = pending \ {t} /\ landed' = (landed \/ t.current)
  BY DEF Land, loopVars, recVars
<1>2. t \in Transaction /\ t.mint \in Tokens /\ t.kind \in {"buy", "sell"}
  BY DEF NodeTypeOK, Transaction
<1>3. OneCurrent'
  BY <1>1 DEF ChainInv, OneCurrent
<1>4. tokens \in [Tokens -> Nat] /\ stray \in [Tokens -> Nat]
  BY DEF NodeTypeOK
<1>5. CASE t.kind = "buy"
  <2>1. /\ tokens' = [tokens EXCEPT ![t.mint] = @ + 1]
        /\ stray' = [stray EXCEPT ![t.mint] = IF t.current THEN @ ELSE @ + 1]
    BY <1>5 DEF Land
  <2>2. /\ tokens'[t.mint] = tokens[t.mint] + 1
        /\ stray'[t.mint] = IF t.current THEN stray[t.mint] ELSE stray[t.mint] + 1
        /\ \A m \in Tokens \ {t.mint} : tokens'[m] = tokens[m] /\ stray'[m] = stray[m]
    BY <1>2, <1>4, <2>1
  <2>3. CASE t.current
    <3>1. t.mint = mint /\ ~landed /\ pc = "buying" /\ activePositions[mint] = Nil /\ landed'
      BY <1>1, <1>5, <2>3 DEF ChainInv, OneCurrent, Branches
    <3>2. tokens[mint] <= stray[mint]
      BY <1>2, <1>4, <3>1 DEF ChainInv, Covered
    <3> QED  BY <1>1, <1>2, <1>3, <1>4, <2>2, <2>3, <3>1, <3>2 DEF ChainInv, Covered
  <2>4. CASE ~t.current
    <3>1. landed' = landed
      BY <1>1, <2>4 DEF NodeTypeOK
    <3>2. \A m \in Tokens : /\ tokens'[m] <= stray'[m] + 1 <=> tokens[m] <= stray[m] + 1
                            /\ tokens'[m] > stray'[m] <=> tokens[m] > stray[m]
                            /\ tokens'[m] <= stray'[m] <=> tokens[m] <= stray[m]
      BY <1>2, <1>4, <2>2, <2>4
    <3>3. mint \in Tokens
      BY DEF NodeTypeOK
    <3> QED  BY <1>1, <1>3, <3>1, <3>2, <3>3 DEF ChainInv, Covered
  <2> QED  BY <2>3, <2>4
<1>6. CASE t.kind = "sell"
  <2>1. tokens' = [tokens EXCEPT ![t.mint] = 0] /\ stray' = [stray EXCEPT ![t.mint] = 0]
    BY <1>6 DEF Land
  <2>2. /\ tokens'[t.mint] = 0 /\ stray'[t.mint] = 0
        /\ \A m \in Tokens \ {t.mint} : tokens'[m] = tokens[m] /\ stray'[m] = stray[m]
    BY <1>2, <1>4, <2>1
  <2>3. landed => landed'
    BY <1>1
  <2>4. \A m \in Tokens :
          /\ tokens'[m] <= stray'[m] + 1
          /\ tokens'[m] > stray'[m] => activePositions'[m] # Nil \/ (pc' = "buying" /\ landed' /\ mint' = m)
    BY <1>1, <1>2, <1>4, <2>2, <2>3 DEF ChainInv, Covered
  <2>5. pc' = "selling" /\ landed' => tokens'[mint'] <= stray'[mint']
    <3> SUFFICES ASSUME pc = "selling", landed' PROVE tokens'[mint] <= stray'[mint]
      BY <1>1
    <3>1. CASE t.current
      BY <2>2, <3>1 DEF ChainInv, OneCurrent
    <3>2. CASE ~t.current
      <4>1. landed /\ mint \in Tokens
        BY <1>1, <3>2 DEF NodeTypeOK
      <4> QED  BY <1>4, <2>2, <4>1 DEF ChainInv, Covered
    <3> QED  BY <3>1, <3>2
  <2> QED  BY <1>3, <2>4, <2>5 DEF ChainInv, Covered
<1> QED  BY <1>2, <1>5, <1>6

\* A swap is sent while no other one is waited for.
LEMMA SubmitStep ==
  ASSUME NodeTypeOK, ChainInv, NEW kind \in {"buy", "sell"}, NEW amount \in Nat, Submit(kind, amount),
         pc \notin {"buying", "selling"}, pc' = IF kind = "buy" THEN "buying" ELSE "selling",
         UNCHANGED <<tokens, stray, mint, activePositions>>
  PROVE  ChainInv'
<1>1. PICK t \in Transaction :
        /\ t.kind = kind /\ t.mint = mint /\ t.current
        /\ pending' = pending \cup {t} /\ landed' = FALSE
  BY SubmitTyped
<1>2. \A u \in pending : ~u.current
  BY DEF ChainInv, OneCurrent
<1>3. OneCurrent'
  BY <1>1, <1>2 DEF OneCurrent
<1>4. Covered'
  BY <1>1 DEF ChainInv, Covered
<1> QED  BY <1>3, <1>4 DEF ChainInv

LEMMA CallFailsStep ==
  ASSUME NodeTypeOK, ChainInv, CallFails
  PROVE  ChainInv'
<1>1. /\ pending' = Abandoned /\ pc' = "sleep" /\ UNCHANGED <<tokens, activePositions>>
      /\ stray' = [stray EXCEPT ![mint] = IF pc = "buying" /\ landed THEN @ + 1 ELSE @]
  BY DEF CallFails, Goto, recVars
<1>2. OneCurrent'
  BY <1>1, AbandonedTyped DEF OneCurrent
<1>3. /\ tokens \in [Tokens -> Nat] /\ stray \in [Tokens -> Nat] /\ mint \in Tokens
  BY DEF NodeTypeOK
<1>4. /\ stray'[mint] = IF pc = "buying" /\ landed THEN stray[mint] + 1 ELSE stray[mint]
      /\ \A m \in Tokens \ {mint} : stray'[m] = stray[m]
  BY <1>1, <1>3
<1>5. Covered'
  <2> SUFFICES ASSUME NEW m \in Tokens
               PROVE  tokens[m] <= stray'[m] + 1 /\ (tokens[m] > stray'[m] => activePositions[m] # Nil)
    BY <1>1 DEF Covered
  <2>1. CASE m = mint /\ pc = "buying" /\ landed
    BY <1>3, <1>4, <2>1 DEF ChainInv, Covered
  <2>2. CASE ~(m = mint /\ pc = "buying" /\ landed)
    <3>1. stray'[m] = stray[m]
      BY <1>4, <2>2
    <3> QED  BY <2>2, <3>1 DEF ChainInv, Covered
  <2> QED  BY <2>1, <2>2
<1> QED  BY <1>2, <1>5 DEF ChainInv

LEMMA ChainCrashStep ==
  ASSUME NodeTypeOK, ChainInv, Crash
  PROVE  ChainInv'
<1>1. /\ pending' = Abandoned /\ pc' = "top" /\ UNCHANGED tokens
      /\ \A m \in Tokens : stray'[m] = IF activePositions'[m] = Nil THEN tokens[m] ELSE stray[m]
  BY DEF Crash
<1>2. OneCurrent'
  BY <1>1, AbandonedTyped DEF OneCurrent
<1>3. tokens \in [Tokens -> Nat] /\ stray \in [Tokens -> Nat]
  BY DEF NodeTypeOK
<1>4. Covered'
  BY <1>1, <1>3 DEF ChainInv, Covered
<1> QED  BY <1>2, <1>4 DEF ChainInv

LEMMA ChainStep ==
  ASSUME NodeTypeOK, Branches, ChainInv, Next
  PROVE  ChainInv'
<1>1. CASE MarketStep \/ Stop
  <2>1. UNCHANGED <<tokens, stray, pending, landed, activePositions, pc, mint>>
    BY <1>1 DEF MarketStep, Stop, chainVars, loopVars, recVars
  <2> QED  BY <2>1, ChainIdle
<1>2. ASSUME NEW t \in pending, Expire(t) PROVE ChainInv'
  <2>1. UNCHANGED <<tokens, stray, landed, activePositions, pc, mint>> /\ pending' \subseteq pending
    BY <1>2 DEF Expire, loopVars, recVars
  <2>2. OneCurrent'
    BY <2>1 DEF ChainInv, OneCurrent
  <2> QED  BY <2>1, <2>2 DEF ChainInv, Covered
<1>3. CASE StartRound \/ VisitMint \/ EndRound \/ Sleep
  <2>1. UNCHANGED <<tokens, stray, pending, landed, activePositions>> /\ pc \in {"top", "next", "sleep"}
    BY <1>3 DEF StartRound, VisitMint, EndRound, Sleep, chainVars, recVars
  <2>2. pc' \in {"top", "next", "sleep", "ended", "sell", "buy"}
    BY <1>3 DEF StartRound, VisitMint, EndRound, Sleep, Goto
  <2> QED  BY <2>1, <2>2, ChainIdle
<1>4. CASE checkBuyCondition \/ checkPriceIncrease \/ fetchTradeInfoWithRetry
  <2>1. UNCHANGED <<tokens, stray, pending, landed, activePositions>> /\ pc \in {"buy", "increase", "fetch"}
    BY <1>4 DEF checkBuyCondition, checkPriceIncrease, fetchTradeInfoWithRetry, chainVars, recVars
  <2>2. pc' = pc \/ pc' \in {"next", "increase", "fetch", "balance", "sleep"}
    BY <1>4 DEF checkBuyCondition, checkPriceIncrease, fetchTradeInfoWithRetry, Goto
  <2> QED  BY <2>1, <2>2, ChainIdle
<1>5. CASE TraderBuy
  <2>1. pc = "balance" /\ opened < MaxTrades /\ UNCHANGED <<tokens, stray, mint>>
    BY <1>5 DEF TraderBuy, Branches
  <2>2. CASE OpenPosition(0) /\ UNCHANGED <<pending, landed>>
    <3>1. /\ activePositions'[mint] # Nil /\ pc' = "saveBuy"
          /\ \A m \in Tokens \ {mint} : activePositions'[m] = activePositions[m]
      BY <2>1, <2>2, OpenedMap
    <3> QED  BY <2>1, <2>2, <3>1, ChainIdle
  <2>3. CASE Submit("buy", 0) /\ Goto("buying") /\ UNCHANGED <<positions, activePositions, opened>>
    BY <2>1, <2>3, SubmitStep DEF Goto
  <2> QED  BY <1>5, <2>2, <2>3 DEF TraderBuy
<1>6. CASE BuySucceeds
  <2>1. /\ pc = "buying" /\ landed /\ UNCHANGED <<tokens, stray, pending, landed, mint>>
        /\ opened < MaxTrades /\ tradeInfoCache[mint] \in TradeInfo
    BY <1>6 DEF BuySucceeds, chainVars, Branches
  <2>2. /\ activePositions'[mint] # Nil /\ pc' = "saveBuy"
        /\ \A m \in Tokens \ {mint} : activePositions'[m] = activePositions[m]
    <3>1. calculatePriceFromPool(tradeInfoCache[mint]) \in Nat
      BY <2>1, PositionTyped
    <3>2. OpenPosition(calculatePriceFromPool(tradeInfoCache[mint]))
      BY <1>6 DEF BuySucceeds
    <3> QED  BY <2>1, <3>1, <3>2, OpenedMap
  <2>3. OneCurrent'
    BY <2>1 DEF ChainInv, OneCurrent
  <2>4. Covered'
    BY <2>1, <2>2 DEF ChainInv, Covered
  <2> QED  BY <2>3, <2>4 DEF ChainInv
<1>7. CASE checkSellCondition
  <2>1. pc = "sell" /\ UNCHANGED <<tokens, stray, pending, landed>>
    BY <1>7 DEF checkSellCondition, chainVars
  <2>2. CASE Goto("next") /\ UNCHANGED <<price, activePositions>>
    BY <2>1, <2>2, ChainIdle DEF Goto
  <2>3. ASSUME NEW current \in getLatestPriceFromTrades(mint), updatePrice(current) PROVE ChainInv'
    <3>1. /\ activePositions'[mint] # Nil /\ pc' = "saveUpdate"
          /\ \A m \in Tokens \ {mint} : activePositions'[m] = activePositions[m]
      BY <2>3, UpdatedMap
    <3> QED  BY <2>1, <3>1, ChainIdle
  <2> QED  BY <1>7, <2>2, <2>3 DEF checkSellCondition
<1>8. CASE TraderSell
  <2>1. pc = "holdings" /\ UNCHANGED <<tokens, stray, mint, activePositions>>
    BY <1>8 DEF TraderSell, recVars
  <2>2. CASE Goto("sleep") /\ UNCHANGED <<pending, landed>>
    BY <2>1, <2>2, ChainIdle DEF Goto
  <2>3. CASE Submit("sell", tokens[mint]) /\ Goto("selling")
    <3>1. tokens[mint] \in Nat /\ pc' = "selling"
      BY <2>3 DEF NodeTypeOK, Goto
    <3> QED  BY <2>1, <2>3, <3>1, SubmitStep
  <2> QED  BY <1>8, <2>2, <2>3 DEF TraderSell
<1>9. CASE SellSucceeds
  <2>1. /\ pc = "selling" /\ landed /\ activePositions[mint] # Nil /\ recordSell
        /\ UNCHANGED <<tokens, stray, pending, landed, mint>> /\ mint \in Tokens
    BY <1>9 DEF SellSucceeds, chainVars, Branches, NodeTypeOK
  <2>2. pc' = "saveSell" /\ \A m \in Tokens \ {mint} : activePositions'[m] = activePositions[m]
    BY <2>1, SoldMap
  <2>3. OneCurrent'
    BY <2>1 DEF ChainInv, OneCurrent
  <2>4. tokens[mint] <= stray[mint] /\ tokens[mint] \in Nat /\ stray[mint] \in Nat
    BY <2>1 DEF ChainInv, Covered, NodeTypeOK
  <2>5. Covered'
    BY <2>1, <2>2, <2>4 DEF ChainInv, Covered
  <2> QED  BY <2>3, <2>5 DEF ChainInv
<1>10. CASE saveActivePositions \/ appendClosedTrade \/ WriteFails
  <2>1. /\ UNCHANGED <<tokens, stray, pending, landed, activePositions>>
        /\ pc \in {"saveBuy", "saveUpdate", "saveSell", "appendClosed", "appendDaily"}
    BY <1>10 DEF saveActivePositions, appendClosedTrade, WriteFails, chainVars
  <2>2. pc' \in {"next", "holdings", "appendClosed", "appendDaily", "sleep"}
    BY <1>10 DEF saveActivePositions, appendClosedTrade, WriteFails, Goto, Decision
  <2> QED  BY <2>1, <2>2, ChainIdle
<1> QED
  BY <1>1, <1>2, <1>3, <1>4, <1>5, <1>6, <1>7, <1>8, <1>9, <1>10, LandStep, CallFailsStep, ChainCrashStep
     DEF Next, LoopNext

(***************************************************************************)
(* The invariant and what it implies.                                      *)
(***************************************************************************)
LEMMA NodeInvInit == Init => NodeInv
<1> SUFFICES ASSUME Init PROVE NodeInv
  OBVIOUS
<1>1. NodeTypeOK
  <2>1. /\ trades \in [Tokens -> Seq(NodeRecord)] /\ closedFile \in TradeFile /\ dailyFile \in TradeFile
    BY EmptySeq DEF Init, StoreInit, TradeFile
  <2>2. /\ tokens \in [Tokens -> Nat] /\ stray \in [Tokens -> Nat] /\ price \in Nat
        /\ closing \in 0..MaxTrades /\ opened \in 0..MaxTrades
    BY NodeStrategyAssumption DEF Init
  <2>3. activePositions \in PositionMap /\ activeFile \in PositionMap \cup {Torn}
    BY RecorderTyped DEF Init
  <2>4. /\ positions \in [Tokens -> [buyPrice: Nat, info: TradeInfo] \cup {Nil}]
        /\ tradeInfoCache \in [Tokens -> TradeInfo \cup {Nil}]
    BY DEF Init, NoPositions
  <2>5. /\ pending \subseteq Transaction /\ landed \in BOOLEAN /\ pc \in Locations
        /\ todo \subseteq Tokens /\ mint \in Tokens /\ faulty \in BOOLEAN
    BY Zenon DEF Init, Locations
  <2> QED  BY <2>1, <2>2, <2>3, <2>4, <2>5 DEF NodeTypeOK
<1>2. Branches
  BY DEF Init, Branches, NoPositions
<1>3. Ids(activePositions) = {} /\ OpenOnDisk = {} /\ Closed(closedFile) = {} /\ InHand = {}
  BY DEF Init, Ids, OpenOnDisk, Closed, NoPositions, InHand
<1>4. Numbered
  BY DEF Init, Numbered, OwnIds, NoPositions
<1>5. ClosedApart
  BY <1>3 DEF Init, ClosedApart
<1>6. AllRecorded
  <2>1. <<>> # Torn
    BY EmptySeq, RecorderAssumption
  <2>2. 1..0 = {}
    OBVIOUS
  <2> QED  BY <1>3, <2>1, <2>2 DEF Init, AllRecorded
<1>7. OneCurrent
  BY DEF Init, OneCurrent
<1>8. Covered
  BY DEF Init, Covered
<1> QED  BY <1>1, <1>2, <1>4, <1>5, <1>6, <1>7, <1>8 DEF NodeInv

LEMMA NodeInvNext == NodeInv /\ [Next]_vars => NodeInv'
<1> SUFFICES ASSUME NodeInv, [Next]_vars PROVE NodeInv'
  OBVIOUS
<1> USE DEF NodeInv
<1>1. CASE Next
  <2>1. NodeTypeOK'
    BY <1>1, TypeStep
  <2>2. Branches'
    BY <1>1, BranchesStep
  <2>3. RecordInv'
    BY <1>1, RecorderStep DEF RecordInv
  <2>4. ChainInv'
    BY <1>1, ChainStep DEF ChainInv
  <2> QED  BY <2>1, <2>2, <2>3, <2>4 DEF RecordInv, ChainInv
<1>2. CASE UNCHANGED vars
  <2>1. UNCHANGED <<trades, tokens, stray, pending, landed, pc, todo, mint, price, tradeInfoCache, positions,
                    activePositions, activeFile, closedFile, dailyFile, closing, opened, faulty>>
    BY <1>2 DEF vars, marketVars, chainVars, loopVars, botVars, recVars
  <2>2. NodeTypeOK'
    BY <2>1 DEF NodeTypeOK
  <2>3. Branches'
    BY <2>1 DEF Branches
  <2>4. RecordInv'
    BY <2>1, RecorderIdle DEF RecordInv, recVars
  <2>5. ChainInv'
    BY <2>1, ChainIdle DEF ChainInv
  <2> QED  BY <2>2, <2>3, <2>4, <2>5 DEF RecordInv, ChainInv
<1> QED  BY <1>1, <1>2

\* The types, the branches of the loop, the ids of the recorder and the cover
\* of purchases, for every instance.
THEOREM NodeInvariant == Spec => []NodeInv
BY NodeInvInit, NodeInvNext, PTL DEF Spec

\* For every number of tokens, trades and crashes and wherever a write of
\* tradeRecorder.ts is cut: no trade is on disk both as open and as closed, and
\* none is closed twice.
THEOREM TradesOpenOrClosed == Spec => []OpenOrClosed
<1>1. NodeInv => OpenOrClosed
  <2> SUFFICES ASSUME NodeInv PROVE OpenOrClosed
    OBVIOUS
  <2>1. OpenOnDisk \cap Closed(closedFile) = {}
    BY DEF NodeInv, ClosedApart
  <2>2. ASSUME closedFile # Torn PROVE Cardinality(Closed(closedFile)) = Len(closedFile)
    <3> DEFINE n == Len(closedFile)
               C == Closed(closedFile)
    <3>1. closedFile \in Seq(1..MaxTrades)
      BY <2>2 DEF NodeInv, NodeTypeOK, TradeFile
    <3>2. n \in Nat /\ DOMAIN closedFile = 1..n /\ closedFile \in [1..n -> 1..MaxTrades]
      BY <3>1, LenProperties
    <3>3. C = {closedFile[i] : i \in 1..n}
      BY <2>2, <3>2 DEF Closed
    <3>4. \A i, j \in 1..n : closedFile[i] = closedFile[j] => i = j
      BY <2>2, <3>2 DEF NodeInv, Numbered
    <3> HIDE DEF n, C
    <3>5. closedFile \in [1..n -> C] /\ \A c \in C : \E i \in 1..n : closedFile[i] = c
      BY <3>2, <3>3
    <3>6. closedFile \in Surjection(1..n, C) /\ closedFile \in Injection(1..n, C)
      BY <3>4, <3>5, Zenon DEF Surjection, Injection, IsInjective
    <3>7. IsFiniteSet(1..n) /\ Cardinality(1..n) = n
      BY <3>2, FS_Interval
    <3>8. Cardinality(C) = Cardinality(1..n)
      BY <3>6, <3>7, FS_Surjection
    <3> QED  BY <3>7, <3>8 DEF n, C
  <2> QED  BY <2>1, <2>2 DEF OpenOrClosed
<1> QED  BY <1>1, NodeInvariant, PTL

\* As long as no call and no write fails, every trade recordBuy opened is active
\* or closed, and appendClosedTrade keeps the daily file equal to the other one.
THEOREM TradesRecorded == Spec => []NothingUnrecorded
<1>1. NodeInv => NothingUnrecorded
  BY DEF NodeInv, AllRecorded, NothingUnrecorded, InHand
<1> QED  BY <1>1, NodeInvariant, PTL

\* However many runs, tokens and transactions that land late: isHolding keeps
\* the bot from buying what it holds.
THEOREM PurchasesCovered == Spec => []PurchaseCovered
<1>1. NodeInv => PurchaseCovered
  BY DEF NodeInv, Covered, PurchaseCovered
<1> QED  BY <1>1, NodeInvariant, PTL
==============================================================================
