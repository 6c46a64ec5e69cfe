------------------------ MODULE TradingStrategyProofs ------------------------
(***************************************************************************)
(* Proofs about the store and the bot for every set of mints and           *)
(* signatures, every list length, wallet and configuration, and every      *)
(* number of events and restarts.  The bot implements the specification of *)
(* the store, so what is shown of the store holds of the bot too.          *)
(***************************************************************************)
EXTENDS TradingStrategy, SequenceTheorems, FiniteSetTheorems, TLAPS

(***************************************************************************)
(* The store: TradeStore on its own.                                       *)
(***************************************************************************)

\* The inductive invariant.  ListedAreKnown is what makes the absence of
\* duplicates inductive: it ties the list to the set that SISMEMBER reads.
StoreInv ==
  /\ StoreTypeOK
  /\ ListedAreKnown
  /\ NoDuplicateSignature
  /\ ListBounded

USE StoreAssumption

\* What LPUSH followed by LTRIM leaves: the new record, then a prefix of the
\* old list, at most stop + 1 entries unless stop is -1.
Pushed(t, s, r, stop) ==
  /\ stop >= 0 => Len(t) <= stop + 1
  /\ Len(t) <= Len(s) + 1
  /\ \A i \in 1..Len(t) : t[i] = IF i = 1 THEN r ELSE s[i - 1]

LEMMA PushTrim ==
  ASSUME NEW S, NEW s \in Seq(S), NEW r \in S, NEW stop \in Int, stop >= -1
  PROVE  /\ ListTo(<<r>> \o s, stop) \in Seq(S)
         /\ Pushed(ListTo(<<r>> \o s, stop), s, r, stop)
<1> DEFINE t == ListTo(<<r>> \o s, stop)
           q == <<r>> \o s
           n == IF stop < 0 THEN Len(q) + stop + 1 ELSE SmallerOf(stop + 1, Len(q))
<1>1. /\ q \in Seq(S)
      /\ Len(q) = Len(s) + 1
      /\ \A i \in 1..Len(q) : q[i] = IF i = 1 THEN r ELSE s[i - 1]
  <2>1. /\ <<r>> \in Seq(S)
        /\ Len(<<r>>) = 1
        /\ <<r>>[1] = r
    OBVIOUS
  <2>2. QED  BY <2>1, ConcatProperties
<1>2. n \in 0..Len(q) /\ (stop >= 0 => n <= stop + 1)
  BY <1>1 DEF SmallerOf
<1> HIDE DEF q
<1>3. \A i \in 1..n : q[i] \in S
  BY <1>1, <1>2, ElementOfSeq
<1>4. t = SubSeq(q, 1, n)
  BY DEF ListTo, q
<1>5. /\ t \in Seq(S)
      /\ Len(t) = n
      /\ \A i \in 1..n : t[i] = q[i]
  <2> HIDE DEF n
  <2>1. n \in Int  BY <1>2
  <2>2. /\ SubSeq(q, 1, n) \in Seq(S)
        /\ Len(SubSeq(q, 1, n)) = IF 1 <= n THEN n - 1 + 1 ELSE 0
        /\ \A i \in 1 .. n - 1 + 1 : SubSeq(q, 1, n)[i] = q[1 + i - 1]
    BY <1>3, <2>1, SubSeqProperties
  <2>3. QED  BY <1>2, <1>4, <2>1, <2>2
<1> HIDE DEF n, t
<1>6. t \in Seq(S) /\ Pushed(t, s, r, stop)
  <2>1. stop >= 0 => Len(t) <= stop + 1
    BY <1>2, <1>5
  <2>2. Len(t) <= Len(s) + 1
    BY <1>1, <1>2, <1>5
  <2>3. \A i \in 1..Len(t) : t[i] = IF i = 1 THEN r ELSE s[i - 1]
    BY <1>1, <1>2, <1>5
  <2>4. QED  BY <1>5, <2>1, <2>2, <2>3 DEF Pushed
<1>7. QED  BY <1>6 DEF t

LEMMA RecordTyped ==
  ASSUME NEW u \in Update
  PROVE  from_transaction(u) \in Record /\ u.mint \in Mints
         /\ from_transaction(u).mint = u.mint
         /\ from_transaction(u).signature \in Signatures
<1>1. from_transaction_price(u.sol, u.token) \in Nat
  <2>1. u.sol \in Nat /\ u.token \in Nat
    BY DEF Update
  <2>2. \A a \in Nat, b \in Nat : b > 0 => a \div b \in Nat
    OBVIOUS
  <2>3. QED  BY <2>1, <2>2 DEF from_transaction_price
<1>2. QED  BY <1>1 DEF from_transaction, Update, Record

\* Storing a record preserves the invariant of the Redis keys.
LEMMA StoreTradeInv ==
  ASSUME StoreInv, NEW m \in Mints, NEW r \in Record, store_trade(m, r)
  PROVE  /\ trades' \in [Mints -> Seq(Record)]
         /\ sigs' \in [Mints -> SUBSET Signatures]
         /\ ListedAreKnown'
         /\ NoDuplicateSignature'
         /\ ListBounded'
<1>1. CASE r.signature \in sigs[m]
  BY <1>1 DEF store_trade, redisVars, StoreInv, StoreTypeOK, ListedAreKnown,
              NoDuplicateSignature, ListBounded
<1>2. CASE r.signature \notin sigs[m]
  <2> DEFINE t == ListTo(<<r>> \o trades[m], max_trades_per_token - 1)
             stop == max_trades_per_token - 1
  <2>1. /\ trades' = [trades EXCEPT ![m] = t]
        /\ sigs' = [sigs EXCEPT ![m] = @ \cup {r.signature}]
    BY <1>2 DEF store_trade
  <2>2. trades[m] \in Seq(Record) /\ r.signature \in Signatures
    BY DEF StoreInv, StoreTypeOK, Record
  <2>3. /\ t \in Seq(Record)
        /\ stop >= 0 => Len(t) <= stop + 1
        /\ Len(t) <= Len(trades[m]) + 1
        /\ \A i \in 1..Len(t) : t[i] = IF i = 1 THEN r ELSE trades[m][i - 1]
    <3>1. stop \in Int /\ stop >= -1
      OBVIOUS
    <3> HIDE DEF stop
    <3>2. /\ ListTo(<<r>> \o trades[m], stop) \in Seq(Record)
          /\ Pushed(ListTo(<<r>> \o trades[m], stop), trades[m], r, stop)
      BY <2>2, <3>1, PushTrim
    <3>3. QED  BY <3>2 DEF stop, Pushed
  <2>4. trades' \in [Mints -> Seq(Record)] /\ sigs' \in [Mints -> SUBSET Signatures]
    BY <2>1, <2>2, <2>3 DEF StoreInv, StoreTypeOK
  <2>5. /\ trades'[m] = t
        /\ \A x \in Mints \ {m} : trades'[x] = trades[x]
        /\ sigs'[m] = sigs[m] \cup {r.signature}
        /\ \A x \in Mints \ {m} : sigs'[x] = sigs[x]
    BY <2>1 DEF StoreInv, StoreTypeOK
  <2>6. /\ DOMAIN t = 1..Len(t) /\ Len(t) \in Nat
        /\ DOMAIN trades[m] = 1..Len(trades[m]) /\ Len(trades[m]) \in Nat
    BY <2>2, <2>3, LenProperties
  <2> HIDE DEF t
  <2>7. ListedAreKnown'
    <3>1. \A i \in DOMAIN t : t[i].signature \in sigs'[m]
      BY <2>3, <2>5, <2>6 DEF StoreInv, ListedAreKnown
    <3>2. QED  BY <2>5, <3>1 DEF StoreInv, ListedAreKnown
  <2>8. NoDuplicateSignature'
    <3>1. ASSUME NEW i \in DOMAIN t, NEW j \in DOMAIN t,
                 t[i].signature = t[j].signature
          PROVE  i = j
      <4>1. \A k \in DOMAIN trades[m] : trades[m][k].signature # r.signature
        BY <1>2 DEF StoreInv, ListedAreKnown
      <4>2. CASE i = 1 \/ j = 1
        <5>1. \A k \in 2..Len(t) : t[k].signature # r.signature
          <6>1. ASSUME NEW k \in 2..Len(t) PROVE t[k].signature # r.signature
            <7>1. t[k] = trades[m][k - 1] /\ k - 1 \in DOMAIN trades[m]
              BY <2>3, <2>6
            <7>2. QED  BY <4>1, <7>1
          <6>2. QED  BY <6>1
        <5>2. t[1] = r
          BY <2>3, <2>6
        <5>3. i \in Nat /\ j \in Nat /\ (i = 1 \/ i \in 2..Len(t)) /\ (j = 1 \/ j \in 2..Len(t))
          BY <2>6
        <5>4. QED  BY <3>1, <4>2, <5>1, <5>2, <5>3
      <4>3. CASE i # 1 /\ j # 1
        <5>1. /\ i - 1 \in DOMAIN trades[m] /\ j - 1 \in DOMAIN trades[m]
              /\ t[i] = trades[m][i - 1] /\ t[j] = trades[m][j - 1]
          BY <2>3, <2>6, <4>3
        <5>2. i - 1 = j - 1
          BY <3>1, <5>1 DEF StoreInv, NoDuplicateSignature
        <5>3. QED  BY <2>6, <5>2
      <4>4. QED  BY <4>2, <4>3
    <3>2. QED  BY <2>5, <3>1 DEF StoreInv, NoDuplicateSignature
  <2>9. ListBounded'
    BY <2>3, <2>5, <2>6 DEF StoreInv, ListBounded
  <2>10. QED  BY <2>4, <2>7, <2>8, <2>9
<1>3. QED  BY <1>1, <1>2

LEMMA StoreInvInit == StoreInit => StoreInv
BY DEF StoreInit, StoreInv, StoreTypeOK, ListedAreKnown, NoDuplicateSignature, ListBounded

\* Every step of the market, the subscriber, the consumer and a restart
\* preserves the invariant.
LEMMA StoreInvNext == StoreInv /\ [StoreNext]_storeVars => StoreInv'
<1> SUFFICES ASSUME StoreInv, [StoreNext]_storeVars PROVE StoreInv'
  OBVIOUS
<1> USE DEF StoreInv
<1>1. CASE Tick
  BY <1>1 DEF Tick, StoreTypeOK, ListedAreKnown, NoDuplicateSignature, ListBounded
<1>2. CASE MarketNext
  <2>1. PICK base \in Mints \cup {WSOL, OtherMint}, quote \in Mints \cup {WSOL, OtherMint},
             br \in Reserves, qr \in Reserves, sig \in Signatures :
               /\ base # quote
               /\ base = OtherMint => quote \in Mints
               /\ quote = OtherMint => base \in Mints
               /\ handle_event(base, quote, br, qr, sig)
    BY <1>2 DEF MarketNext
  <2>2. /\ tasks' \subseteq Update
        /\ emitted' \in 0..MaxEvents
    <3>1. emitted + 1 \in 1..MaxEvents /\ emitted' = emitted + 1
      BY <2>1 DEF handle_event, StoreTypeOK
    <3>2. clock * Micros \in Nat
      BY DEF StoreTypeOK
    <3>3. CASE base # WSOL /\ quote # WSOL
      BY <2>1, <3>1, <3>3 DEF handle_event, StoreTypeOK
    <3>4. CASE base = WSOL \/ quote = WSOL
      BY <2>1, <3>1, <3>2, <3>4 DEF handle_event, StoreTypeOK, Update
    <3>5. QED  BY <3>3, <3>4
  <2>3. UNCHANGED <<clock, restarts, channel, trades, sigs>>
    BY <2>1 DEF handle_event
  <2>4. QED
    BY <2>2, <2>3 DEF StoreTypeOK, ListedAreKnown, NoDuplicateSignature, ListBounded
<1>3. CASE \E u \in tasks : SendUpdate(u)
  <2>1. channel' \in Seq(Update) /\ tasks' \subseteq Update
    BY <1>3, AppendProperties DEF SendUpdate, StoreTypeOK
  <2>2. UNCHANGED <<clock, emitted, restarts, trades, sigs>>
    BY <1>3 DEF SendUpdate
  <2>3. QED
    BY <2>1, <2>2 DEF StoreTypeOK, ListedAreKnown, NoDuplicateSignature, ListBounded
<1>4. CASE ConsumeUpdate
  <2>1. Head(channel) \in Update /\ channel' \in Seq(Update)
    BY <1>4, HeadTailProperties DEF ConsumeUpdate, StoreTypeOK
  <2>2. /\ from_transaction(Head(channel)) \in Record
        /\ Head(channel).mint \in Mints
        /\ store_trade(Head(channel).mint, from_transaction(Head(channel)))
    BY <1>4, <2>1, RecordTyped DEF ConsumeUpdate
  <2>3. UNCHANGED <<clock, emitted, restarts, tasks>>
    BY <1>4 DEF ConsumeUpdate
  <2>4. QED  BY <2>1, <2>2, <2>3, StoreTradeInv DEF StoreTypeOK
<1>5. CASE ConsumeFails
  BY <1>5, HeadTailProperties
     DEF ConsumeFails, StoreTypeOK, ListedAreKnown, NoDuplicateSignature, ListBounded
<1>6. CASE Restart
  BY <1>6 DEF Restart, StoreTypeOK, ListedAreKnown, NoDuplicateSignature, ListBounded
<1>7. CASE UNCHANGED storeVars
  BY <1>7 DEF storeVars, StoreTypeOK, ListedAreKnown, NoDuplicateSignature, ListBounded
<1>8. QED
  BY <1>1, <1>2, <1>3, <1>4, <1>5, <1>6, <1>7 DEF StoreNext, SubscriberNext

THEOREM StoreInvariant == StoreSpec => []StoreInv
BY StoreInvInit, StoreInvNext, PTL DEF StoreSpec

\* store_trade never lists a transaction twice, for every number of mints,
\* signatures, events and restarts and every order of the sender tasks.
THEOREM NoDuplicates == StoreSpec => []NoDuplicateSignature
<1>1. StoreInv => NoDuplicateSignature  BY DEF StoreInv
<1>2. QED  BY <1>1, StoreInvariant, PTL

\* The type invariant of the subscriber and the store, in general.
THEOREM StoreTypeCorrect == StoreSpec => []StoreTypeOK
<1>1. StoreInv => StoreTypeOK  BY DEF StoreInv
<1>2. QED  BY <1>1, StoreInvariant, PTL

\* LTRIM keeps every list within max_trades_per_token, for every limit.
THEOREM Bounded == StoreSpec => []ListBounded
<1>1. StoreInv => ListBounded  BY DEF StoreInv
<1>2. QED  BY <1>1, StoreInvariant, PTL

(***************************************************************************)
(* The bot.                                                                *)
(***************************************************************************)
USE StrategyAssumption, NoneAssumption

\* Purchases of m that can still land, and those together with the ones that
\* have: what the payer may come to hold without another decision to buy.
Buys(m) == {t \in pending : t.kind = "buy" /\ t.mint = m}
Exposure(m) == tokens[m] + Cardinality(Buys(m))

BotTypeOK ==
  /\ pool \in [Mints -> Ratios] /\ wallet \in Nat /\ tokens \in [Mints -> Nat]
  /\ lagging \in Seq(Balances) /\ pending \subseteq Transaction /\ IsFiniteSet(pending)
  /\ swap \in {"none", "sent", "landed"}
  /\ pc \in Locations /\ todo \subseteq Mints /\ mint \in Mints /\ attempt \in 0..max_retries
  /\ positions \in [Mints -> TokenPosition \cup {None}]
  /\ trade_info_cache \in [Mints -> TradeInfo \cup {None}]
  /\ trader_buy_price \in Nat \cup {None}

\* A run of the process has at most one transaction that can still land, and
\* while it runs, that is the one its swap call waits for.
OneInFlight ==
  /\ \A t \in pending : t.run <= restarts
  /\ \A t, u \in pending : t.run = u.run => t = u
  /\ \A t \in pending : t.run = restarts /\ pc # "stopped" =>
        /\ t.mint = mint /\ swap = "sent"
        /\ t.kind = "buy" => pc = "buying"
        /\ t.kind = "sell" => pc = "selling"

\* The branch of execute_buy: not holding, and with a TradeInfo at hand.
BuyingBranch ==
  /\ pc \in {"fetch", "balance"} => ~is_holding(mint)
  /\ pc \in {"balance", "buying"} => trade_info_cache[mint] \in TradeInfo

\* The purchases that no position and no swap call of this run accounts for
\* are left over from earlier runs, at most one from each.
Accounted ==
  \A m \in Mints :
    /\ Exposure(m) <= restarts + 1
    /\ pc # "stopped" /\ ~is_holding(m) /\ ~(pc = "buying" /\ mint = m)
         => Exposure(m) <= restarts

\* A sale that has landed took this run's purchase with it.
SoldOut == pc = "selling" /\ swap = "landed" => Exposure(mint) <= restarts

BotInv ==
  /\ StoreInv
  /\ BotTypeOK
  /\ OneInFlight
  /\ BuyingBranch
  /\ Accounted
  /\ SoldOut

(***************************************************************************)
(* The bot implements the store.                                           *)
(***************************************************************************)
LEMMA StepRefinesStore == [Next]_vars => [StoreNext]_storeVars
<1> SUFFICES ASSUME [Next]_vars PROVE [StoreNext]_storeVars
  OBVIOUS
<1>1. CASE StoreStep
  BY <1>1 DEF StoreStep, StoreNext
<1>2. CASE \E m \in Mints, ratio \in Ratios, sig \in Signatures : MarketSwap(m, ratio, sig)
  <2>1. PICK m \in Mints, ratio \in Ratios, sig \in Signatures : MarketSwap(m, ratio, sig)
    BY <1>2
  <2>2. m # WSOL /\ m # OtherMint /\ WSOL # OtherMint /\ ratio \in Reserves /\ 1 \in Reserves
    OBVIOUS
  <2>3. handle_event(m, WSOL, 1, ratio, sig)
    BY <2>1 DEF MarketSwap
  <2>4. MarketNext
    BY <2>2, <2>3 DEF MarketNext
  <2>5. QED  BY <2>4 DEF StoreNext
<1>2a. CASE \E m \in Mints, sig \in Signatures : OtherSwap(m, sig)
  <2>1. PICK m \in Mints, sig \in Signatures : OtherSwap(m, sig)
    BY <1>2a
  <2>2. m # WSOL /\ m # OtherMint /\ WSOL # OtherMint /\ 1 \in Reserves
    OBVIOUS
  <2>3. handle_event(WSOL, m, 1, 1, sig) \/ handle_event(m, OtherMint, 1, 1, sig)
    BY <2>1 DEF OtherSwap
  <2>4. CASE handle_event(WSOL, m, 1, 1, sig)
    <3>1. MarketNext  BY <2>2, <2>4 DEF MarketNext
    <3>2. QED  BY <3>1 DEF StoreNext
  <2>5. CASE handle_event(m, OtherMint, 1, 1, sig)
    <3>1. MarketNext  BY <2>2, <2>5 DEF MarketNext
    <3>2. QED  BY <3>1 DEF StoreNext
  <2>6. QED  BY <2>3, <2>4, <2>5
<1>3. CASE \E t \in pending : Land(t) \/ Expire(t)
  BY <1>3 DEF Land, Expire
<1>3a. CASE Finalize
  BY <1>3a DEF Finalize
<1>4. CASE LoopNext
  BY <1>4 DEF LoopNext, StartRound, StartEmptyRound, VisitMint, EndRound,
     check_buy_condition, check_price_increase, get_or_fetch_trade_info, FetchTradeInfo, TraderBuy, BuySucceeds,
     BuyFails, check_sell_condition, SellSucceeds, SellFails
<1>5. CASE CallFails
  BY <1>5 DEF CallFails
<1>6. CASE RestartBot
  BY <1>6 DEF RestartBot, StoreNext
<1>7. CASE UNCHANGED vars
  BY <1>7 DEF vars
<1>8. QED  BY <1>1, <1>2, <1>2a, <1>3, <1>4, <1>5, <1>6, <1>7, <1>3a DEF Next

\* Every behaviour of the bot is one of the subscriber and the store, so that
\* the strategy's calls cannot disturb what store_trade guarantees.
THEOREM BotImplementsStore == Spec => StoreSpec
<1>1. Init => StoreInit  BY DEF Init
<1>2. QED  BY <1>1, StepRefinesStore, PTL DEF Spec, StoreSpec

(***************************************************************************)
(* Exposure.                                                               *)
(***************************************************************************)
LEMMA ExposureType ==
  ASSUME BotTypeOK, NEW m \in Mints
  PROVE  /\ IsFiniteSet(Buys(m)) /\ Cardinality(Buys(m)) \in Nat
         /\ tokens[m] \in Nat /\ Exposure(m) \in Nat
         /\ Exposure(m) >= tokens[m]
<1>1. IsFiniteSet(pending) /\ Buys(m) \in SUBSET pending /\ tokens[m] \in Nat
  BY DEF BotTypeOK, Buys
<1>2. IsFiniteSet(Buys(m))
  BY <1>1, FS_Subset
<1>3. Cardinality(Buys(m)) \in Nat
  BY <1>2, FS_CardinalityType
<1>4. QED  BY <1>1, <1>2, <1>3 DEF Exposure

\* What the RPC node answers is typed like the balances themselves.
LEMMA FinalizedType ==
  ASSUME BotTypeOK
  PROVE  finalized.wallet \in Nat /\ finalized.tokens \in [Mints -> Nat]
<1>1. CASE lagging = <<>>
  BY <1>1 DEF BotTypeOK, finalized
<1>2. CASE lagging # <<>>
  <2>1. Head(lagging) \in Balances
    BY <1>2 DEF BotTypeOK
  <2>2. QED  BY <1>2, <2>1 DEF finalized, Balances
<1>3. QED  BY <1>1, <1>2

LEMMA ExposureSame ==
  ASSUME tokens' = tokens, pending' = pending
  PROVE  \A m \in Mints : Exposure(m)' = Exposure(m)
BY DEF Exposure, Buys

\* Transactions of different, earlier runs: there are no more than such runs.
LEMMA EarlierRuns ==
  ASSUME NEW S, NEW n \in Nat,
         \A t \in S : t.run \in 0..(n - 1),
         \A t, u \in S : t.run = u.run => t = u
  PROVE  Cardinality(S) <= n
<1> DEFINE f == [t \in S |-> t.run]
<1>1. f \in Injection(S, 0..(n - 1))
  BY DEF Injection, IsInjective
<1>2. IsFiniteSet(0..(n - 1)) /\ Cardinality(0..(n - 1)) = n
  BY FS_Interval
<1>3. Cardinality(S) <= Cardinality(0..(n - 1))
  BY <1>1, <1>2, FS_Injection
<1>4. QED  BY <1>2, <1>3

(***************************************************************************)
(* The inductive invariant.                                                *)
(***************************************************************************)
LEMMA BotInvInit == Init => BotInv
<1> SUFFICES ASSUME Init PROVE BotInv
  OBVIOUS
<1>1. StoreInv
  BY StoreInvInit DEF Init
<1>2. IsFiniteSet(pending) /\ pending = {} /\ restarts = 0
  BY FS_EmptySet DEF Init, StoreInit
<1>3. BotTypeOK
  BY <1>2 DEF Init, BotTypeOK, Locations
<1>4. \A m \in Mints : Buys(m) = {} /\ tokens[m] = 0
  BY <1>2 DEF Init, Buys
<1>5. \A m \in Mints : Exposure(m) = 0
  BY <1>4, FS_EmptySet DEF Exposure
<1>6. Accounted /\ SoldOut
  BY <1>2, <1>3, <1>5 DEF Accounted, SoldOut, BotTypeOK
<1>7. OneInFlight
  BY <1>2 DEF OneInFlight
<1>8. BuyingBranch
  BY DEF Init, BuyingBranch
<1>9. QED  BY <1>1, <1>3, <1>6, <1>7, <1>8 DEF BotInv

\* A step that leaves the chain, the positions and the process alone keeps the
\* accounting, whatever it does to the loop outside of a swap call.
LEMMA QuietStep ==
  ASSUME BotInv, restarts' = restarts, UNCHANGED <<wallet, tokens, pending, positions>>,
         \/ pc' = "stopped"
         \/ /\ pc \notin {"buying", "selling", "stopped"}
            /\ pc' \notin {"buying", "selling"}
         \/ UNCHANGED <<pc, mint, swap>>
  PROVE  OneInFlight' /\ Accounted' /\ SoldOut'
<1> USE DEF BotInv
<1>1. \A m \in Mints : Exposure(m)' = Exposure(m)
  BY ExposureSame
<1>2. OneInFlight'
  BY DEF OneInFlight, BotTypeOK, Transaction
<1>3. Accounted'
  <2> SUFFICES ASSUME NEW m \in Mints
               PROVE  /\ Exposure(m)' <= restarts' + 1
                      /\ pc' # "stopped" /\ ~is_holding(m)' /\ ~(pc' = "buying" /\ mint' = m)
                           => Exposure(m)' <= restarts'
    BY DEF Accounted
  <2>1. Exposure(m)' <= restarts' + 1
    BY <1>1 DEF Accounted
  <2>2. pc' # "stopped" /\ ~is_holding(m)' /\ ~(pc' = "buying" /\ mint' = m)
          => pc # "stopped" /\ ~is_holding(m) /\ ~(pc = "buying" /\ mint = m)
    BY DEF is_holding
  <2>3. QED  BY <1>1, <2>1, <2>2 DEF Accounted
<1>4. SoldOut'
  BY <1>1 DEF SoldOut, BotTypeOK
<1>5. QED  BY <1>2, <1>3, <1>4

\* The part of the loop that decides: no step of it touches the chain, the
\* positions or a swap call.
DecisionStep ==
  \/ StartRound \/ StartEmptyRound \/ VisitMint \/ EndRound
  \/ check_buy_condition \/ check_price_increase \/ FetchTradeInfo
  \/ BuyFails \/ SellFails \/ CallFails

LEMMA DecisionInv ==
  ASSUME BotInv, DecisionStep
  PROVE  /\ BotTypeOK' /\ BuyingBranch' /\ OneInFlight' /\ Accounted' /\ SoldOut'
<1> USE DEF BotInv
<1>1. get_active_mints \subseteq Mints
  BY DEF get_active_mints
<1>2. BotTypeOK' /\ BuyingBranch'
  <2> USE DEF BotTypeOK, BuyingBranch, is_holding, Goto, Locations, storeVars, chainVars, botVars
  <2>1. CASE StartRound  BY <1>1, <2>1 DEF StartRound
  <2>2. CASE StartEmptyRound  BY <2>2 DEF StartEmptyRound
  <2>3. CASE VisitMint  BY <2>3 DEF VisitMint
  <2>4. CASE EndRound  BY <2>4 DEF EndRound
  <2>5. CASE check_buy_condition  BY <2>5 DEF check_buy_condition
  <2>6. CASE check_price_increase  BY <2>6 DEF check_price_increase, get_or_fetch_trade_info
  <2>7. CASE FetchTradeInfo
    <3>1. \A ratio \in Ratios : [base |-> 1, quote |-> ratio] \in TradeInfo
      BY DEF TradeInfo
    <3>2. \/ /\ \E info \in TradeInfo :
                  trade_info_cache' = [trade_info_cache EXCEPT ![mint] = info]
             /\ pc' = "balance" /\ UNCHANGED attempt
          \/ /\ attempt < max_retries /\ attempt' = attempt + 1
             /\ UNCHANGED <<pc, trade_info_cache>>
          \/ pc' = "stopped" /\ UNCHANGED <<attempt, trade_info_cache>>
      BY <2>7, <3>1 DEF FetchTradeInfo
    <3>3. /\ pc = "fetch"
          /\ UNCHANGED <<storeVars, chainVars, swap, todo, mint, positions, trader_buy_price>>
      BY <2>7 DEF FetchTradeInfo
    <3>4. CASE \E info \in TradeInfo :
                  trade_info_cache' = [trade_info_cache EXCEPT ![mint] = info]
      <4>1. PICK info \in TradeInfo : trade_info_cache' = [trade_info_cache EXCEPT ![mint] = info]
        BY <3>4
      <4>2. trade_info_cache' \in [Mints -> TradeInfo \cup {None}] /\ trade_info_cache'[mint] \in TradeInfo
        BY <4>1
      <4>3. pc' \in Locations /\ attempt' \in 0..max_retries
        BY <3>2
      <4>4. QED  BY <3>3, <4>2, <4>3
    <3>5. CASE UNCHANGED trade_info_cache
      <4>1. pc' \in {"fetch", "balance", "stopped"} /\ attempt' \in 0..max_retries
        BY <3>2, <3>3
      <4>2. pc' = "balance" => trade_info_cache[mint] \in TradeInfo
        BY <3>2, <3>3, <3>5
      <4>3. QED  BY <3>3, <3>5, <4>1, <4>2
    <3>6. QED  BY <3>2, <3>4, <3>5
  <2>8. CASE BuyFails  BY <2>8 DEF BuyFails
  <2>9. CASE SellFails  BY <2>9 DEF SellFails
  <2>10. CASE CallFails  BY <2>10 DEF CallFails
  <2>11. QED
    BY <2>1, <2>2, <2>3, <2>4, <2>5, <2>6, <2>7, <2>8, <2>9, <2>10 DEF DecisionStep
<1>3. /\ restarts' = restarts /\ UNCHANGED <<wallet, tokens, pending, positions>>
      /\ \/ pc' = "stopped"
         \/ /\ pc \notin {"buying", "selling", "stopped"}
            /\ pc' \notin {"buying", "selling"}
         \/ UNCHANGED <<pc, mint, swap>>
  BY DEF DecisionStep, StartRound, StartEmptyRound, VisitMint, EndRound,
     check_buy_condition, check_price_increase, get_or_fetch_trade_info, FetchTradeInfo, BuyFails, SellFails,
     CallFails, Goto, storeVars, chainVars, botVars
<1>4. QED  BY <1>2, <1>3, QuietStep

\* A position may be added to the mint that is being bought.
LEMMA RecordedTyped ==
  ASSUME BotInv, trade_info_cache[mint] \in TradeInfo
  PROVE  calculate_price_from_pool(trade_info_cache[mint]) \in Nat
<1>1. trade_info_cache[mint].base \in Nat /\ trade_info_cache[mint].quote \in Nat
  BY DEF TradeInfo
<1>2. \A a \in Nat, b \in Nat : b # 0 => (1000 * a) \div b \in Nat
  OBVIOUS
<1>3. QED  BY <1>1, <1>2 DEF calculate_price_from_pool

LEMMA RecordInv ==
  ASSUME BotInv, RecordPosition, trade_info_cache[mint] \in TradeInfo,
         UNCHANGED <<restarts, pool, wallet, tokens, lagging, pending, todo, mint, attempt, trade_info_cache>>,
         pc \in {"balance", "buying"}, pc' = "next",
         pc = "buying" => swap = "landed", swap' \in {"none", "sent", "landed"},
         trader_buy_price' \in Nat \cup {None}
  PROVE  /\ BotTypeOK' /\ BuyingBranch' /\ OneInFlight' /\ Accounted' /\ SoldOut'
<1> USE DEF BotInv
<1>1. positions' \in [Mints -> TokenPosition \cup {None}] /\ is_holding(mint)'
      /\ \A m \in Mints : m # mint => positions'[m] = positions[m]
  <2>1. positions' = [positions EXCEPT ![mint] =
           [buy_price |-> calculate_price_from_pool(trade_info_cache[mint]),
            trade_info |-> trade_info_cache[mint]]]
    BY DEF RecordPosition
  <2>2. [buy_price |-> calculate_price_from_pool(trade_info_cache[mint]),
         trade_info |-> trade_info_cache[mint]] \in TokenPosition
    BY RecordedTyped DEF TokenPosition
  <2>3. QED  BY <2>1, <2>2 DEF BotTypeOK, is_holding
<1>2. BotTypeOK'
  BY <1>1 DEF BotTypeOK, Locations
<1>3. BuyingBranch'
  BY DEF BuyingBranch
<1>4. \A t \in pending : t.run # restarts
  BY DEF OneInFlight, BotTypeOK, Transaction
<1>5. OneInFlight'
  BY <1>4 DEF OneInFlight
<1>6. \A m \in Mints : Exposure(m)' = Exposure(m)
  BY ExposureSame
<1>7. Accounted'
  <2> SUFFICES ASSUME NEW m \in Mints
               PROVE  /\ Exposure(m)' <= restarts' + 1
                      /\ pc' # "stopped" /\ ~is_holding(m)' /\ ~(pc' = "buying" /\ mint' = m)
                           => Exposure(m)' <= restarts'
    BY DEF Accounted
  <2>1. Exposure(m)' <= restarts' + 1
    BY <1>6 DEF Accounted
  <2>2. ~is_holding(m)' => m # mint /\ ~is_holding(m)
    BY <1>1 DEF is_holding
  <2>3. QED  BY <1>6, <2>1, <2>2 DEF Accounted
<1>8. SoldOut'
  BY DEF SoldOut
<1>9. QED  BY <1>2, <1>3, <1>5, <1>7, <1>8

\* A transaction is handed to the SDK: it is the only one of this run.
LEMMA SubmitInv ==
  ASSUME BotInv, NEW kind \in {"buy", "sell"}, NEW amount \in Nat, Submit(kind, amount),
         UNCHANGED <<restarts, pool, wallet, tokens, lagging, todo, mint, attempt, positions,
                     trade_info_cache, trader_buy_price>>,
         \/ /\ kind = "buy" /\ pc = "balance" /\ pc' = "buying"
         \/ kind = "sell" /\ pc = "sell" /\ pc' = "selling" /\ is_holding(mint)
  PROVE  /\ BotTypeOK' /\ BuyingBranch' /\ OneInFlight' /\ Accounted' /\ SoldOut'
<1> DEFINE t == [kind |-> kind, mint |-> mint, amount |-> amount, run |-> restarts]
<1> USE DEF BotInv
<1>1. pending' = pending \cup {t} /\ swap' = "sent"
  BY DEF Submit
<1>2. t \in Transaction /\ restarts \in Nat
  BY DEF Transaction, BotTypeOK, StoreInv, StoreTypeOK
<1>3. t.kind = kind /\ t.mint = mint /\ t.amount = amount /\ t.run = restarts
  OBVIOUS
<1> HIDE DEF t
<1>4. \A u \in pending : u.run # restarts
  BY DEF OneInFlight, BotTypeOK, Transaction
<1>5. IsFiniteSet(pending')
  BY <1>1, FS_AddElement DEF BotTypeOK
<1>6. BotTypeOK'
  BY <1>1, <1>2, <1>5 DEF BotTypeOK, Locations
<1>7. BuyingBranch'
  BY DEF BuyingBranch
<1>8. OneInFlight'
  BY <1>1, <1>2, <1>3, <1>4 DEF OneInFlight
<1>9. ASSUME NEW m \in Mints
      PROVE  /\ Exposure(m)' \in Nat
             /\ Exposure(m)' = IF kind = "buy" /\ m = mint THEN Exposure(m) + 1 ELSE Exposure(m)
  <2>1. IsFiniteSet(Buys(m)) /\ Cardinality(Buys(m)) \in Nat /\ tokens[m] \in Nat
    BY ExposureType
  <2>2. t \notin Buys(m)
    BY <1>3, <1>4 DEF Buys
  <2>3. Buys(m)' = IF kind = "buy" /\ m = mint THEN Buys(m) \cup {t} ELSE Buys(m)
    BY <1>1, <1>3 DEF Buys
  <2>4. Cardinality(Buys(m) \cup {t}) = Cardinality(Buys(m)) + 1
    BY <2>1, <2>2, FS_AddElement
  <2>5. QED  BY <2>1, <2>3, <2>4 DEF Exposure
<1>10. Accounted'
  <2> SUFFICES ASSUME NEW m \in Mints
               PROVE  /\ Exposure(m)' <= restarts' + 1
                      /\ pc' # "stopped" /\ ~is_holding(m)' /\ ~(pc' = "buying" /\ mint' = m)
                           => Exposure(m)' <= restarts'
    BY DEF Accounted
  <2>1. kind = "buy" => ~is_holding(mint)
    BY DEF BuyingBranch
  <2>2. /\ Exposure(m) <= restarts + 1
        /\ ~is_holding(m) => Exposure(m) <= restarts
        /\ Exposure(m) \in Nat
    BY ExposureType DEF Accounted
  <2>3. is_holding(m)' <=> is_holding(m)
    BY DEF is_holding
  <2>4. QED  BY <1>2, <1>9, <2>1, <2>2, <2>3
<1>11. SoldOut'
  BY <1>1 DEF SoldOut
<1>12. QED  BY <1>6, <1>7, <1>8, <1>10, <1>11

\* A transaction executes on chain.
LEMMA LandInv ==
  ASSUME BotInv, NEW t \in pending, Land(t)
  PROVE  /\ BotTypeOK' /\ BuyingBranch' /\ OneInFlight' /\ Accounted' /\ SoldOut'
<1> USE DEF BotInv
<1>1. /\ pending' = pending \ {t}
      /\ UNCHANGED <<restarts, pool, pc, todo, mint, attempt, positions, trade_info_cache,
                     trader_buy_price>>
      /\ swap' = IF t.run = restarts THEN "landed" ELSE swap
      /\ lagging' = Append(lagging, [wallet |-> wallet, tokens |-> tokens])
  BY DEF Land, storeVars, loopVars, botVars
<1>2. /\ t \in Transaction /\ t.mint \in Mints /\ t.amount \in Nat /\ t.run \in Nat
      /\ t.kind \in {"buy", "sell"} /\ restarts \in Nat
  BY DEF BotTypeOK, Transaction, StoreInv, StoreTypeOK
<1>3. \/ /\ t.kind = "buy" /\ wallet >= t.amount
         /\ wallet' = wallet - t.amount
         /\ tokens' = [tokens EXCEPT ![t.mint] = tokens[t.mint] + 1]
      \/ /\ t.kind = "sell" /\ tokens[t.mint] = t.amount
         /\ \E proceeds \in {0, buy_amount} : wallet' = wallet + proceeds
         /\ tokens' = [tokens EXCEPT ![t.mint] = 0]
  BY DEF Land
<1>4. BotTypeOK'
  <2>1. IsFiniteSet(pending')
    BY <1>1, FS_RemoveElement DEF BotTypeOK
  <2>2. wallet' \in Nat /\ tokens' \in [Mints -> Nat]
    <3>1. wallet \in Nat /\ tokens \in [Mints -> Nat] /\ buy_amount \in Nat
      BY DEF BotTypeOK
    <3>2. CASE t.kind = "buy"
      <4>1. wallet' = wallet - t.amount /\ wallet >= t.amount
        BY <1>3, <3>2
      <4>2. tokens' = [tokens EXCEPT ![t.mint] = tokens[t.mint] + 1]
        BY <1>3, <3>2
      <4>3. QED  BY <1>2, <3>1, <4>1, <4>2
    <3>3. CASE t.kind = "sell"
      <4>1. PICK proceeds \in {0, buy_amount} : wallet' = wallet + proceeds
        BY <1>3, <3>3
      <4>2. tokens' = [tokens EXCEPT ![t.mint] = 0]
        BY <1>3, <3>3
      <4>3. QED  BY <1>2, <3>1, <4>1, <4>2
    <3>4. QED  BY <1>2, <3>2, <3>3
  <2>3. lagging' \in Seq(Balances)
    <3>1. [wallet |-> wallet, tokens |-> tokens] \in Balances
      BY DEF BotTypeOK, Balances
    <3>2. lagging \in Seq(Balances)
      BY DEF BotTypeOK
    <3>3. QED  BY <1>1, <3>1, <3>2, AppendProperties
  <2>4. QED  BY <1>1, <2>1, <2>2, <2>3 DEF BotTypeOK
<1>5. BuyingBranch'
  BY <1>1 DEF BuyingBranch, is_holding
<1>6. OneInFlight'
  BY <1>1 DEF OneInFlight
<1>7. ASSUME NEW m \in Mints
      PROVE  /\ Exposure(m)' \in Nat /\ Exposure(m) \in Nat /\ Exposure(m)' <= Exposure(m)
             /\ t.kind = "sell" /\ m = t.mint => Exposure(m)' = Cardinality(Buys(m)')
  <2>1. /\ IsFiniteSet(Buys(m)) /\ Cardinality(Buys(m)) \in Nat /\ tokens[m] \in Nat
        /\ Exposure(m) \in Nat
    BY ExposureType
  <2>2. CASE t.kind = "buy" /\ m = t.mint
    <3>1. t \in Buys(m) /\ Buys(m)' = Buys(m) \ {t}
      BY <1>1, <2>2 DEF Buys
    <3>2. /\ Cardinality(Buys(m)') = Cardinality(Buys(m)) - 1
          /\ IsFiniteSet(Buys(m)')
      BY <2>1, <3>1, FS_RemoveElement
    <3>3. Cardinality(Buys(m)') \in Nat
      BY <3>2, FS_CardinalityType
    <3>4. tokens'[m] = tokens[m] + 1
      BY <1>2, <1>3, <2>2 DEF BotTypeOK
    <3>5. QED  BY <2>1, <2>2, <3>2, <3>3, <3>4 DEF Exposure
  <2>3. CASE t.kind = "sell" \/ m # t.mint
    <3>1. Buys(m)' = Buys(m)
      BY <1>1, <2>3 DEF Buys
    <3>2. tokens'[m] = IF m = t.mint THEN 0 ELSE tokens[m]
      BY <1>2, <1>3, <2>3 DEF BotTypeOK
    <3>3. QED  BY <2>1, <2>3, <3>1, <3>2 DEF Exposure
  <2>4. QED  BY <1>2, <2>2, <2>3
<1>8. Accounted'
  <2> SUFFICES ASSUME NEW m \in Mints
               PROVE  /\ Exposure(m)' <= restarts' + 1
                      /\ pc' # "stopped" /\ ~is_holding(m)' /\ ~(pc' = "buying" /\ mint' = m)
                           => Exposure(m)' <= restarts'
    BY DEF Accounted
  <2>1. is_holding(m)' <=> is_holding(m)
    BY <1>1 DEF is_holding
  <2>2. QED  BY <1>1, <1>2, <1>7, <2>1 DEF Accounted
<1>9. SoldOut'
  <2> SUFFICES ASSUME pc = "selling", swap' = "landed" PROVE Exposure(mint)' <= restarts
    BY <1>1 DEF SoldOut
  <2>1. mint \in Mints  BY DEF BotTypeOK
  <2>2. CASE t.run = restarts
    <3>1. t.kind = "sell" /\ t.mint = mint
      BY <1>2, <2>2 DEF OneInFlight
    <3>2. \A u \in Buys(mint)' : u.run \in 0..(restarts - 1)
      BY <1>1, <1>2, <2>2 DEF Buys, OneInFlight, BotTypeOK, Transaction
    <3>3. \A u, v \in Buys(mint)' : u.run = v.run => u = v
      BY <1>1 DEF Buys, OneInFlight
    <3>4. Cardinality(Buys(mint)') <= restarts
      BY <1>2, <3>2, <3>3, EarlierRuns
    <3>5. Exposure(mint)' = Cardinality(Buys(mint)')
      BY <1>1, <1>7, <2>1, <3>1
    <3>6. QED  BY <3>4, <3>5
  <2>3. CASE t.run # restarts
    <3>1. Exposure(mint) <= restarts
      BY <1>1, <2>3 DEF SoldOut
    <3>2. Exposure(mint)' <= Exposure(mint)  /\ Exposure(mint)' \in Nat /\ Exposure(mint) \in Nat
      BY <1>1, <1>7, <2>1
    <3>3. QED  BY <1>2, <3>1, <3>2
  <2>4. QED  BY <2>2, <2>3
<1>10. QED  BY <1>4, <1>5, <1>6, <1>8, <1>9

\* A transaction can no longer land.
LEMMA ExpireInv ==
  ASSUME BotInv, NEW t \in pending, Expire(t)
  PROVE  /\ BotTypeOK' /\ BuyingBranch' /\ OneInFlight' /\ Accounted' /\ SoldOut'
<1> USE DEF BotInv
<1>1. /\ pending' = pending \ {t}
      /\ UNCHANGED <<restarts, pool, wallet, tokens, lagging, swap, pc, todo, mint, attempt, positions,
                     trade_info_cache, trader_buy_price>>
  BY DEF Expire, storeVars, loopVars, botVars
<1>2. restarts \in Nat
  BY DEF StoreInv, StoreTypeOK
<1>3. BotTypeOK'
  <2>1. IsFiniteSet(pending')
    BY <1>1, FS_RemoveElement DEF BotTypeOK
  <2>2. QED  BY <1>1, <2>1 DEF BotTypeOK
<1>4. BuyingBranch' /\ OneInFlight'
  BY <1>1 DEF BuyingBranch, is_holding, OneInFlight
<1>5. ASSUME NEW m \in Mints
      PROVE  Exposure(m)' \in Nat /\ Exposure(m) \in Nat /\ Exposure(m)' <= Exposure(m)
  <2>1. IsFiniteSet(Buys(m)) /\ Cardinality(Buys(m)) \in Nat /\ tokens[m] \in Nat
    BY ExposureType
  <2>2. Buys(m)' \in SUBSET Buys(m)
    BY <1>1 DEF Buys
  <2>3. /\ Cardinality(Buys(m)') <= Cardinality(Buys(m))
        /\ IsFiniteSet(Buys(m)')
    BY <2>1, <2>2, FS_Subset
  <2>4. Cardinality(Buys(m)') \in Nat
    BY <2>3, FS_CardinalityType
  <2>5. QED  BY <1>1, <2>1, <2>3, <2>4 DEF Exposure
<1>6. Accounted'
  <2> SUFFICES ASSUME NEW m \in Mints
               PROVE  /\ Exposure(m)' <= restarts' + 1
                      /\ pc' # "stopped" /\ ~is_holding(m)' /\ ~(pc' = "buying" /\ mint' = m)
                           => Exposure(m)' <= restarts'
    BY DEF Accounted
  <2>1. is_holding(m)' <=> is_holding(m)
    BY <1>1 DEF is_holding
  <2>2. QED  BY <1>1, <1>2, <1>5, <2>1 DEF Accounted
<1>7. SoldOut'
  <2>1. mint \in Mints  BY DEF BotTypeOK
  <2>2. Exposure(mint)' \in Nat /\ Exposure(mint) \in Nat /\ Exposure(mint)' <= Exposure(mint)
    BY <1>1, <1>5, <2>1
  <2>3. QED  BY <1>1, <1>2, <2>2 DEF SoldOut
<1>8. QED  BY <1>3, <1>4, <1>6, <1>7

\* The sale has landed: the position goes, and with it nothing of this run.
LEMMA SellSucceedsInv ==
  ASSUME BotInv, SellSucceeds
  PROVE  /\ BotTypeOK' /\ BuyingBranch' /\ OneInFlight' /\ Accounted' /\ SoldOut'
<1> USE DEF BotInv
<1>1. /\ pc = "selling" /\ swap = "landed" /\ pc' = "next" /\ swap' = "none"
      /\ positions' = [positions EXCEPT ![mint] = None]
      /\ UNCHANGED <<restarts, pool, wallet, tokens, lagging, pending, todo, mint, attempt,
                     trade_info_cache, trader_buy_price>>
  BY DEF SellSucceeds, Goto, storeVars, chainVars
<1>2. BotTypeOK' /\ BuyingBranch' /\ SoldOut'
  BY <1>1 DEF BotTypeOK, Locations, BuyingBranch, SoldOut
<1>3. OneInFlight'
  BY <1>1 DEF OneInFlight
<1>4. \A m \in Mints : Exposure(m)' = Exposure(m)
  BY <1>1, ExposureSame
<1>5. Accounted'
  <2> SUFFICES ASSUME NEW m \in Mints
               PROVE  /\ Exposure(m)' <= restarts' + 1
                      /\ pc' # "stopped" /\ ~is_holding(m)' /\ ~(pc' = "buying" /\ mint' = m)
                           => Exposure(m)' <= restarts'
    BY DEF Accounted
  <2>1. CASE m = mint
    BY <1>1, <1>4, <2>1 DEF SoldOut, Accounted
  <2>2. CASE m # mint
    <3>1. is_holding(m)' <=> is_holding(m)
      BY <1>1, <2>2 DEF is_holding, BotTypeOK
    <3>2. QED  BY <1>1, <1>4, <3>1 DEF Accounted
  <2>3. QED  BY <2>1, <2>2
<1>6. QED  BY <1>2, <1>3, <1>5

\* A new process: whatever the old one bought or submitted is now left over.
LEMMA RestartInv ==
  ASSUME BotInv, RestartBot
  PROVE  /\ BotTypeOK' /\ BuyingBranch' /\ OneInFlight' /\ Accounted' /\ SoldOut'
<1> USE DEF BotInv
<1>1. /\ restarts' = restarts + 1 /\ pc' = "top" /\ todo' = {} /\ attempt' = 0 /\ swap' = "none"
      /\ positions' = [m \in Mints |-> None]
      /\ trade_info_cache' = [m \in Mints |-> None]
      /\ trader_buy_price' = None
      /\ UNCHANGED <<pool, wallet, tokens, lagging, pending, mint>>
  BY DEF RestartBot, Restart
<1>2. restarts \in Nat
  BY DEF StoreInv, StoreTypeOK
<1>3. BotTypeOK' /\ BuyingBranch' /\ SoldOut'
  BY <1>1 DEF BotTypeOK, Locations, BuyingBranch, SoldOut
<1>4. OneInFlight'
  BY <1>1, <1>2 DEF OneInFlight, BotTypeOK, Transaction
<1>6. \A m \in Mints : Exposure(m)' = Exposure(m)
  BY <1>1, ExposureSame
<1>7. Accounted'
  <2> SUFFICES ASSUME NEW m \in Mints
               PROVE  Exposure(m)' <= restarts' + 1 /\ Exposure(m)' <= restarts'
    BY DEF Accounted
  <2>1. Exposure(m) \in Nat  BY ExposureType
  <2>2. QED  BY <1>1, <1>2, <1>6, <2>1 DEF Accounted
<1>8. QED  BY <1>3, <1>4, <1>7

LEMMA BotInvNext == BotInv /\ [Next]_vars => BotInv'
<1> SUFFICES ASSUME BotInv, [Next]_vars PROVE BotInv'
  OBVIOUS
<1> DEFINE Rest == /\ BotTypeOK /\ BuyingBranch /\ OneInFlight /\ Accounted
                   /\ SoldOut
<1>1. StoreInv'
  BY StepRefinesStore, StoreInvNext DEF BotInv
<1>2. CASE StoreStep
  <2>1. restarts' = restarts /\ UNCHANGED <<chainVars, swap, loopVars, botVars>>
    BY <1>2 DEF StoreStep, Tick, SubscriberNext, SendUpdate, ConsumeUpdate, ConsumeFails
  <2>2. OneInFlight' /\ Accounted' /\ SoldOut'
    BY <2>1, QuietStep DEF chainVars, loopVars, botVars
  <2>3. BotTypeOK' /\ BuyingBranch'
    BY <2>1 DEF BotInv, BotTypeOK, BuyingBranch, is_holding, chainVars, loopVars, botVars
  <2>4. QED  BY <1>1, <2>2, <2>3 DEF BotInv
<1>3. CASE \E m \in Mints, ratio \in Ratios, sig \in Signatures : MarketSwap(m, ratio, sig)
  <2>1. PICK m \in Mints, ratio \in Ratios, sig \in Signatures : MarketSwap(m, ratio, sig)
    BY <1>3
  <2>2. /\ restarts' = restarts /\ UNCHANGED <<wallet, tokens, lagging, pending, swap, loopVars, botVars>>
        /\ pool' = [pool EXCEPT ![m] = ratio]
    BY <2>1 DEF MarketSwap, handle_event
  <2>3. OneInFlight' /\ Accounted' /\ SoldOut'
    BY <2>2, QuietStep DEF loopVars, botVars
  <2>4. BotTypeOK' /\ BuyingBranch'
    BY <2>2 DEF BotInv, BotTypeOK, BuyingBranch, is_holding, loopVars, botVars
  <2>5. QED  BY <1>1, <2>3, <2>4 DEF BotInv
<1>3a. CASE \E m \in Mints, sig \in Signatures : OtherSwap(m, sig)
  <2>1. restarts' = restarts /\ UNCHANGED <<chainVars, swap, loopVars, botVars>>
    BY <1>3a DEF OtherSwap, handle_event
  <2>2. OneInFlight' /\ Accounted' /\ SoldOut'
    BY <2>1, QuietStep DEF chainVars, loopVars, botVars
  <2>3. BotTypeOK' /\ BuyingBranch'
    BY <2>1 DEF BotInv, BotTypeOK, BuyingBranch, is_holding, chainVars, loopVars, botVars
  <2>4. QED  BY <1>1, <2>2, <2>3 DEF BotInv
<1>4. CASE \E t \in pending : Land(t) \/ Expire(t)
  BY <1>1, <1>4, LandInv, ExpireInv DEF BotInv
<1>4a. CASE Finalize
  <2>1. /\ restarts' = restarts /\ lagging # <<>> /\ lagging' = Tail(lagging)
        /\ UNCHANGED <<pool, wallet, tokens, pending, swap, loopVars, botVars>>
    BY <1>4a DEF Finalize, storeVars
  <2>2. OneInFlight' /\ Accounted' /\ SoldOut'
    BY <2>1, QuietStep DEF loopVars, botVars
  <2>3. lagging' \in Seq(Balances)
    BY <2>1 DEF BotInv, BotTypeOK
  <2>4. BotTypeOK' /\ BuyingBranch'
    BY <2>1, <2>3 DEF BotInv, BotTypeOK, BuyingBranch, is_holding, loopVars, botVars
  <2>5. QED  BY <1>1, <2>2, <2>4 DEF BotInv
<1>5. CASE DecisionStep
  BY <1>1, <1>5, DecisionInv DEF BotInv
<1>6. CASE TraderBuy
  <2>1. /\ pc = "balance" /\ trade_info_cache[mint] \in TradeInfo
        /\ swap \in {"none", "sent", "landed"} /\ trader_buy_price \in Nat \cup {None}
        /\ UNCHANGED <<restarts, pool, wallet, tokens, lagging, todo, mint, attempt,
                       trade_info_cache, trader_buy_price>>
    BY <1>6 DEF TraderBuy, BotInv, BuyingBranch, BotTypeOK, storeVars
  <2>2. CASE finalized.wallet < buy_amount + GAS_RESERVE_LAMPORTS
    <3>1. RecordPosition /\ pc' = "next" /\ UNCHANGED <<pending, swap>>
      BY <1>6, <2>2, FinalizedType DEF TraderBuy, Goto, BotInv
    <3>2. Rest'
      BY <2>1, <3>1, RecordInv
    <3>3. QED  BY <1>1, <3>2 DEF BotInv
  <2>3. CASE finalized.wallet >= buy_amount + GAS_RESERVE_LAMPORTS
    <3>1. Submit("buy", buy_amount) /\ pc' = "buying" /\ UNCHANGED positions
      BY <1>6, <2>3, FinalizedType DEF TraderBuy, Goto, BotInv
    <3>2. Rest'
      BY <2>1, <2>3, <3>1, SubmitInv
    <3>3. QED  BY <1>1, <3>2 DEF BotInv
  <2>4. QED  BY <2>2, <2>3, FinalizedType DEF BotInv
<1>7. CASE BuySucceeds
  <2>1. /\ pc = "buying" /\ swap = "landed" /\ swap' = "none" /\ pc' = "next" /\ RecordPosition
        /\ trader_buy_price' = calculate_price_from_pool(trade_info_cache[mint])
        /\ trade_info_cache[mint] \in TradeInfo
        /\ UNCHANGED <<restarts, pool, wallet, tokens, lagging, pending, todo, mint, attempt, trade_info_cache>>
    BY <1>7 DEF BuySucceeds, Goto, BotInv, BuyingBranch, storeVars, chainVars
  <2>2. trader_buy_price' \in Nat \cup {None}
    BY <2>1, RecordedTyped
  <2>3. Rest'
    BY <2>1, <2>2, RecordInv
  <2>4. QED  BY <1>1, <2>3 DEF BotInv
<1>8. CASE check_sell_condition
  <2>1. /\ pc = "sell"
        /\ UNCHANGED <<restarts, pool, wallet, tokens, lagging, todo, mint, attempt, positions,
                       trade_info_cache, trader_buy_price>>
    BY <1>8 DEF check_sell_condition, storeVars, botVars
  <2>2. CASE pc' \in {"next", "stopped"} /\ UNCHANGED <<pending, swap>>
    <3>1. OneInFlight' /\ Accounted' /\ SoldOut'
      BY <2>1, <2>2, QuietStep
    <3>2. BotTypeOK' /\ BuyingBranch'
      BY <2>1, <2>2 DEF BotInv, BotTypeOK, BuyingBranch, Locations
    <3>3. QED  BY <1>1, <3>1, <3>2 DEF BotInv
  <2>3. CASE SaleSignalled(mint) /\ Submit("sell", finalized.tokens[mint]) /\ pc' = "selling"
    <3>1. is_holding(mint) /\ finalized.tokens[mint] \in Nat
      BY <2>3, FinalizedType DEF SaleSignalled, BotInv, BotTypeOK
    <3>2. Rest'
      BY <2>1, <2>3, <3>1, SubmitInv
    <3>3. QED  BY <1>1, <3>2 DEF BotInv
  <2>4. QED  BY <1>8, <2>2, <2>3 DEF check_sell_condition, Goto
<1>9. CASE SellSucceeds
  BY <1>1, <1>9, SellSucceedsInv DEF BotInv
<1>10. CASE RestartBot
  BY <1>1, <1>10, RestartInv DEF BotInv
<1>11. CASE UNCHANGED vars
  <2>1. restarts' = restarts /\ UNCHANGED <<chainVars, swap, loopVars, botVars>>
    BY <1>11 DEF vars, storeVars
  <2>2. OneInFlight' /\ Accounted' /\ SoldOut'
    BY <2>1, QuietStep DEF chainVars, loopVars, botVars
  <2>3. BotTypeOK' /\ BuyingBranch'
    BY <2>1 DEF BotInv, BotTypeOK, BuyingBranch, is_holding, chainVars, loopVars, botVars
  <2>4. QED  BY <1>1, <2>2, <2>3 DEF BotInv
<1>12. QED
  BY <1>2, <1>3, <1>3a, <1>4, <1>4a, <1>5, <1>6, <1>7, <1>8, <1>9, <1>10, <1>11
     DEF Next, LoopNext, DecisionStep

(***************************************************************************)
(* The theorems.                                                           *)
(***************************************************************************)

\* The inductive invariant holds in every reachable state of the bot.
THEOREM BotInvariant == Spec => []BotInv
BY BotInvInit, BotInvNext, PTL DEF Spec

\* Type correctness of the bot together with its store and subscriber.
THEOREM BotTypeCorrect == Spec => []TypeOK
<1>1. BotInv => TypeOK  BY DEF BotInv, BotTypeOK, StoreInv, TypeOK
<1>2. QED  BY <1>1, BotInvariant, PTL

\* Whatever is bought is watched, up to one purchase left by each earlier run.
THEOREM Tracked == Spec => []HoldingsTracked
<1>1. BotInv => HoldingsTracked
  <2> SUFFICES ASSUME BotInv, pc # "stopped", NEW m \in Mints, tokens[m] > restarts
               PROVE  is_holding(m) \/ (pc = "buying" /\ mint = m)
    BY DEF HoldingsTracked
  <2>1. /\ Exposure(m) \in Nat /\ tokens[m] \in Nat /\ Exposure(m) >= tokens[m]
        /\ restarts \in Nat
    BY ExposureType DEF BotInv, StoreInv, StoreTypeOK
  <2>2. QED  BY <2>1 DEF BotInv, Accounted
<1>2. QED  BY <1>1, BotInvariant, PTL

\* A run never holds, nor can come to hold, two purchases of one mint.
THEOREM OnePurchase == Spec => []OnePurchasePerRun
<1>1. BotInv => OnePurchasePerRun
  <2> SUFFICES ASSUME BotInv, NEW m \in Mints PROVE tokens[m] <= restarts + 1
    BY DEF OnePurchasePerRun
  <2>1. /\ Exposure(m) \in Nat /\ tokens[m] \in Nat /\ Exposure(m) >= tokens[m]
        /\ restarts \in Nat /\ Exposure(m) <= restarts + 1
    BY ExposureType DEF BotInv, StoreInv, StoreTypeOK, Accounted
  <2>2. QED  BY <2>1
<1>2. QED  BY <1>1, BotInvariant, PTL

\* A position is dropped only once the sale has landed and took the tokens.
THEOREM Dropped == Spec => DroppedMeansSold
<1> DEFINE Step == restarts' = restarts =>
             \A m \in Mints : is_holding(m) /\ positions'[m] = None => tokens[m] <= restarts
<1>1. BotInv /\ [Next]_vars => [Step]_vars
  <2> SUFFICES ASSUME BotInv, Next, restarts' = restarts, NEW m \in Mints,
                      is_holding(m), positions'[m] = None
               PROVE  tokens[m] <= restarts
    OBVIOUS
  <2>1. positions'[m] # positions[m]
    BY DEF is_holding
  <2>2. ~RestartBot
    BY DEF RestartBot, Restart, BotInv, StoreInv, StoreTypeOK
  <2>3. ~RecordPosition \/ trade_info_cache[mint] \notin TradeInfo
    <3> SUFFICES ASSUME RecordPosition, trade_info_cache[mint] \in TradeInfo PROVE FALSE
      OBVIOUS
    <3>1. [buy_price |-> calculate_price_from_pool(trade_info_cache[mint]),
           trade_info |-> trade_info_cache[mint]] \in TokenPosition
      BY RecordedTyped DEF TokenPosition
    <3>2. QED  BY <2>1, <3>1 DEF RecordPosition, BotInv, BotTypeOK
  <2>4. ~TraderBuy /\ ~BuySucceeds
    BY <2>1, <2>3 DEF TraderBuy, BuySucceeds, BotInv, BuyingBranch
  <2>5. SellSucceeds
    BY <2>1, <2>2, <2>4 DEF Next, LoopNext, StoreStep, MarketSwap, OtherSwap, Land, Expire, Finalize, StartRound,
       StartEmptyRound, VisitMint, EndRound, check_buy_condition, check_price_increase, get_or_fetch_trade_info,
       FetchTradeInfo, BuyFails, check_sell_condition, SellFails, CallFails, botVars
  <2>6. m = mint /\ Exposure(mint) <= restarts
    BY <2>1, <2>5 DEF SellSucceeds, BotInv, SoldOut, BotTypeOK
  <2>7. /\ Exposure(m) \in Nat /\ tokens[m] \in Nat /\ Exposure(m) >= tokens[m]
        /\ restarts \in Nat
    BY ExposureType DEF BotInv, StoreInv, StoreTypeOK
  <2>8. QED  BY <2>6, <2>7
<1>2. QED  BY <1>1, BotInvariant, PTL DEF Spec, DroppedMeansSold
=============================================================================
