----------------------------- MODULE TradeStore -----------------------------
(***************************************************************************)
(* The market-data path of the Rust bot: PumpSwap swap events reach        *)
(* GrpcSubscriber::handle_event, every event travels through a spawned     *)
(* task of its own into an unbounded channel, and one consumer task writes *)
(* it to Redis with RedisStore::store_trade.  The reads of RedisStore that *)
(* the strategy decides on are operators of this module.                   *)
(*                                                                         *)
(* Redis outlives the process: Restart drops the tasks and the channel and *)
(* keeps trades and sigs.  An f64 price is an integer number of thousandths*)
(* of a SOL per token, so that the division by 1000 of the code is exact.  *)
(***************************************************************************)
EXTENDS Integers, Sequences, FiniteSets

CONSTANTS
  Mints,           \* token mints the market trades against WSOL
  WSOL,            \* the wrapped SOL mint
  OtherMint,       \* a mint that appears only in pools without WSOL
  Signatures,      \* transaction signatures
  Reserves,        \* values of a pool reserve in an event
  redis_configured,     \* FALSE: the store could not be created (None)
  max_trades_per_token, \* LTRIM length of a token's list
  Genesis,         \* first block timestamp, in seconds
  Micros,          \* microseconds per second (10^6 in the code)
  SecondsLimit,    \* deserialize_blocktime: smaller values are seconds (10^12)
  MaxEvents,       \* bound: events the market emits
  MaxClock,        \* bound: seconds the clock advances
  MaxRestarts      \* bound: restarts of the process

ASSUME StoreAssumption ==
  /\ WSOL \notin Mints /\ OtherMint \notin Mints /\ OtherMint # WSOL
  /\ Reserves \subseteq Nat
  /\ redis_configured \in BOOLEAN /\ max_trades_per_token \in Nat
  /\ Genesis \in Nat /\ Micros \in Nat \ {0} /\ SecondsLimit \in Nat
  /\ Genesis * Micros >= SecondsLimit    \* block times are far past 1970
  /\ MaxEvents \in Nat /\ MaxClock \in Nat /\ MaxRestarts \in Nat

VARIABLES
  clock,     \* timestamp of the latest block
  emitted,   \* number of events emitted so far (bounded by MaxEvents)
  restarts,  \* number of restarts so far (bounded by MaxRestarts)
  tasks,     \* updates held by spawned sender tasks, not yet sent: unordered
  channel,   \* the mpsc channel of TransactionUpdate
  trades,    \* trades[m]: the Redis list "trades:m", last inserted first
  sigs       \* sigs[m]: the Redis set "sigs:m", never trimmed

marketVars == <<clock, emitted, restarts>>
redisVars  == <<trades, sigs>>
storeVars  == <<clock, emitted, restarts, tasks, channel, trades, sigs>>

(***************************************************************************)
(* Records.                                                                *)
(***************************************************************************)

\* from_transaction: (sol / token) / 1000, in thousandths; 0 without tokens.
from_transaction_price(sol, token) == IF token > 0 THEN sol \div token ELSE 0

\* What deserialize_blocktime makes of the number store_trade wrote.
deserialize_blocktime(num) == IF num < SecondsLimit THEN num * Micros ELSE num

Update == [id: 1..MaxEvents, mint: Mints, token: Reserves, sol: Reserves,
           sig: Signatures, blocktime_us: Nat]

Record == [mint: Mints, price: Nat, blocktime_us: Nat, signature: Signatures]

from_transaction(u) ==
  [mint |-> u.mint, price |-> from_transaction_price(u.sol, u.token),
   blocktime_us |-> u.blocktime_us, signature |-> u.sig]

(***************************************************************************)
(* Redis lists.  LRANGE and LTRIM with start 0: a stop of -1 is the last   *)
(* element, so a limit of 0, passed on as limit - 1, selects everything.   *)
(***************************************************************************)
SmallerOf(a, b) == IF a < b THEN a ELSE b

ListTo(s, stop) ==
  SubSeq(s, 1, IF stop < 0 THEN Len(s) + stop + 1 ELSE SmallerOf(stop + 1, Len(s)))

\* The entries get_recent_trades returns, before its sort.
get_recent_trades(m, limit) ==
  [i \in DOMAIN ListTo(trades[m], limit - 1) |->
     [trades[m][i] EXCEPT !.blocktime_us = deserialize_blocktime(@)]]

\* first() and last() of the stable sort by descending block time.
newest(s) == s[CHOOSE i \in DOMAIN s : \A j \in DOMAIN s :
                  \/ s[j].blocktime_us < s[i].blocktime_us
                  \/ s[j].blocktime_us = s[i].blocktime_us /\ i <= j]
oldest(s) == s[CHOOSE i \in DOMAIN s : \A j \in DOMAIN s :
                  \/ s[j].blocktime_us > s[i].blocktime_us
                  \/ s[j].blocktime_us = s[i].blocktime_us /\ j <= i]

\* get_latest_price_from_trades: a set, empty for None.
get_latest_price_from_trades(m) ==
  LET s == get_recent_trades(m, 1) IN IF s = <<>> THEN {} ELSE {newest(s).price}

\* calculate_price_change_from_records, compared with a threshold in percent:
\* None (fewer than two records, or an oldest price of 0) is never a rise.
price_rises(m, record_count, threshold_pct) ==
  LET s == get_recent_trades(m, record_count)
  IN  /\ Len(s) >= 2
      /\ oldest(s).price # 0
      /\ (newest(s).price - oldest(s).price) * 100 >= threshold_pct * oldest(s).price

get_active_mints == {m \in Mints : redis_configured /\ trades[m] # <<>>}

(***************************************************************************)
(* Actions.                                                                *)
(***************************************************************************)
StoreInit ==
  /\ clock = Genesis /\ emitted = 0 /\ restarts = 0
  /\ tasks = {} /\ channel = <<>>
  /\ trades = [m \in Mints |-> <<>>]
  /\ sigs = [m \in Mints |-> {}]

Tick ==
  /\ clock < Genesis + MaxClock
  /\ clock' = clock + 1
  /\ UNCHANGED <<emitted, restarts, tasks, channel, trades, sigs>>

\* Mutated form: the mint is the base mint, whichever side WSOL is on.
handle_event_base_mint(base, quote, baseReserves, quoteReserves, sig) ==
  /\ emitted < MaxEvents
  /\ emitted' = emitted + 1
  /\ base = WSOL \/ quote = WSOL
  /\ tasks' = tasks \cup {[id |-> emitted + 1, mint |-> base, token |-> baseReserves,
                           sol |-> quoteReserves, sig |-> sig,
                           blocktime_us |-> clock * Micros]}
  /\ UNCHANGED <<clock, restarts, channel, trades, sigs>>

\* A swap event reaches handle_event: events of pools without WSOL are
\* dropped, for the others the token side is picked and the update is handed
\* to a new task.  One transaction may hold several swaps: signatures of
\* different events may be equal, and a stream may deliver an event again.
handle_event(base, quote, baseReserves, quoteReserves, sig) ==
  /\ emitted < MaxEvents
  /\ emitted' = emitted + 1
  /\ \/ /\ base # WSOL /\ quote # WSOL
        /\ UNCHANGED tasks
     \/ /\ base = WSOL \/ quote = WSOL
        /\ tasks' = tasks \cup
             {[id |-> emitted + 1,
               mint  |-> IF base = WSOL THEN quote ELSE base,
               token |-> IF base = WSOL THEN quoteReserves ELSE baseReserves,
               sol   |-> IF base = WSOL THEN baseReserves ELSE quoteReserves,
               sig |-> sig, blocktime_us |-> clock * Micros]}
  /\ UNCHANGED <<clock, restarts, channel, trades, sigs>>

\* The tasks contend for the sender's mutex: any of them may be next.
SendUpdate(u) ==
  /\ u \in tasks
  /\ tasks' = tasks \ {u}
  /\ channel' = Append(channel, u)
  /\ UNCHANGED <<clock, emitted, restarts, trades, sigs>>

\* Mutated forms: the signature is not recorded; the trim is off by one.
store_trade_no_sadd(m, r) ==
  IF r.signature \in sigs[m]
  THEN UNCHANGED redisVars
  ELSE /\ trades' = [trades EXCEPT ![m] =
                       ListTo(<<r>> \o @, max_trades_per_token - 1)]
       /\ UNCHANGED sigs
store_trade_long_trim(m, r) ==
  IF r.signature \in sigs[m]
  THEN UNCHANGED redisVars
  ELSE /\ trades' = [trades EXCEPT ![m] = ListTo(<<r>> \o @, max_trades_per_token)]
       /\ sigs' = [sigs EXCEPT ![m] = @ \cup {r.signature}]

\* The Redis commands of store_trade for a record: SISMEMBER, then the atomic
\* pipeline LPUSH, LTRIM, SADD.  The store's mutex is held throughout.
store_trade(m, r) ==
  IF r.signature \in sigs[m]
  THEN UNCHANGED redisVars
  ELSE /\ trades' = [trades EXCEPT ![m] =
                       ListTo(<<r>> \o @, max_trades_per_token - 1)]
       /\ sigs' = [sigs EXCEPT ![m] = @ \cup {r.signature}]

ConsumeUpdate ==
  /\ channel # <<>> /\ redis_configured
  /\ channel' = Tail(channel)
  /\ store_trade(Head(channel).mint, from_transaction(Head(channel)))
  /\ UNCHANGED <<clock, emitted, restarts, tasks>>

\* There is no store, or store_trade returns an error: only a warning.
ConsumeFails ==
  /\ channel # <<>>
  /\ channel' = Tail(channel)
  /\ UNCHANGED <<clock, emitted, restarts, tasks, trades, sigs>>

\* The process dies and is started again: what was in memory is gone.
Restart ==
  /\ restarts < MaxRestarts
  /\ restarts' = restarts + 1
  /\ tasks' = {} /\ channel' = <<>>
  /\ UNCHANGED <<clock, emitted, trades, sigs>>

MarketNext ==
  \E base \in Mints \cup {WSOL, OtherMint}, quote \in Mints \cup {WSOL, OtherMint},
     br \in Reserves, qr \in Reserves, sig \in Signatures :
    /\ base # quote
    /\ base = OtherMint => quote \in Mints     \* the pairs that differ to the
    /\ quote = OtherMint => base \in Mints     \* code: with and without WSOL
    /\ handle_event(base, quote, br, qr, sig)

SubscriberNext ==
  \/ \E u \in tasks : SendUpdate(u)
  \/ ConsumeUpdate
  \/ ConsumeFails

StoreNext == Tick \/ MarketNext \/ SubscriberNext \/ Restart

StoreSpec == StoreInit /\ [][StoreNext]_storeVars

(***************************************************************************)
(* Properties.                                                             *)
(***************************************************************************)

\* Type invariant of the subscriber and the store.
StoreTypeOK ==
  /\ clock \in Nat /\ emitted \in 0..MaxEvents /\ restarts \in 0..MaxRestarts
  /\ tasks \subseteq Update
  /\ channel \in Seq(Update)
  /\ trades \in [Mints -> Seq(Record)]
  /\ sigs \in [Mints -> SUBSET Signatures]

\* Every record of a list has its signature in the set store_trade consults:
\* the reason why a redelivered event cannot be inserted a second time.
ListedAreKnown ==
  \A m \in Mints : \A i \in DOMAIN trades[m] : trades[m][i].signature \in sigs[m]

\* store_trade never lists a transaction twice, whatever the stream redelivers,
\* in whatever order the sender tasks run, across restarts of the bot.
NoDuplicateSignature ==
  \A m \in Mints : \A i, j \in DOMAIN trades[m] :
     trades[m][i].signature = trades[m][j].signature => i = j

\* LTRIM keeps a list within max_trades_per_token.  (With a limit of 0 the
\* stop index is -1 and nothing is trimmed.)
ListBounded ==
  max_trades_per_token > 0 => \A m \in Mints : Len(trades[m]) <= max_trades_per_token
=============================================================================
