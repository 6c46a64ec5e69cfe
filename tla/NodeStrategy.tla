----------------------------- MODULE NodeStrategy -----------------------------
(***************************************************************************)
(* The Node.js bot: TradingStrategy's monitoring loop, the Trader it drives *)
(* and the TradeRecorder that keeps positions and closed trades in files,  *)
(* over the store that the subscriber (NodeFeed) fills concurrently.       *)
(*                                                                         *)
(* An error ends the round, not the loop.  writeFileSync truncates and     *)
(* then writes: a crash or a full disk can leave a file that JSON.parse    *)
(* rejects (Torn), which the recorder reads as an empty one.               *)
(***************************************************************************)
EXTENDS NodeStore, FiniteSets

CONSTANTS
  Nil,                \* undefined
  Torn,               \* a file that does not parse
  Ratios,             \* lamports per token unit of the pools
  InitialLamports, buyLamports, GAS_RESERVE, maxRetries,
  buyRecordCount, buyThresholdPct, sellProfitPct, sellStopLossPct,
  MaxUpdates,         \* bound: records stored
  MaxRestarts,        \* bound: crashes of the process
  MaxTrades,          \* bound: trades the recorder opens
  MaxPending          \* bound: transactions that can still land

ASSUME NodeStrategyAssumption ==
  /\ Ratios \subseteq Nat /\ InitialLamports \in Nat /\ buyLamports \in Nat /\ GAS_RESERVE \in Nat
  /\ maxRetries \in Nat /\ buyRecordCount \in Nat /\ buyThresholdPct \in Nat
  /\ sellProfitPct \in Nat /\ sellStopLossPct \in Nat 
  /\ MaxUpdates \in Nat /\ MaxRestarts \in Nat /\ MaxTrades \in Nat /\ MaxPending \in Nat

VARIABLES
  updates, restarts, \* records stored and crashes so far
  wallet, tokens,    \* lamports, and purchases of each token, on chain
  stray,             \* history: purchases of each token that no position covers
  pending,           \* transactions that were sent and can still land
  landed,            \* the transaction of the current call executed
  running,           \* TradingStrategy.running
  pc, todo, mint, attempt, \* where the monitoring loop is
  price,             \* currentPrice of checkSellCondition
  positions,         \* positions[m]: buy price and TradeInfo, or Nil
  tradeInfoCache,    \* tradeInfoCache[m]: a TradeInfo, or Nil
  activePositions,   \* activePositions[m]: the recorder's map
  activeFile, closedFile, dailyFile,  \* its files
  closing,           \* the trade recordSell is closing
  opened,            \* trades opened so far: the ids 1..opened
  faulty             \* history: some call or write failed, or a crash happened

marketVars == <<trades, updates, restarts>>
chainVars == <<wallet, tokens, stray, pending, landed>>
loopVars  == <<pc, todo, mint, attempt, price>>
botVars   == <<positions, tradeInfoCache>>
recVars   == <<activePositions, activeFile, closedFile, dailyFile, closing, opened>>
vars == <<marketVars, chainVars, running, loopVars, botVars, recVars, faulty>>

\* The pool's reserves; both are 0 when the balances could not be read.
TradeInfo == [base: {1}, quote: Ratios] \cup [base: {0}, quote: {0}]
ActivePosition == [id: 1..MaxTrades, buyPrice: Nat, highestPrice: Nat, lowestPrice: Nat]

\* undefined is no position, and a file that does not parse is no list of trades.
ASSUME RecorderAssumption == Nil \notin ActivePosition /\ Torn \notin Seq(1..MaxTrades)

NoPositions == [m \in Tokens |-> Nil]

\* Mutated form: the recorder is not asked.
isHolding_memory(m) == positions[m] # Nil

\* In the map of the process, or restored from the recorder's file.
isHolding(m) == positions[m] # Nil \/ activePositions[m] # Nil

\* In the unit of the stored records; 0 for a pool without base reserves.
calculatePriceFromPool(i) == IF i.base = 0 THEN 0 ELSE i.quote \div i.base

\* profitPct >= sellProfitPct or <= -sellStopLossPct; 0 without a buy price.
shouldSell(current, buyPrice) ==
  LET gain == IF buyPrice > 0 THEN (current - buyPrice) * 100 ELSE 0
      unit == IF buyPrice > 0 THEN buyPrice ELSE 1
  IN  gain >= sellProfitPct * unit \/ gain <= -(sellStopLossPct * unit)

\* The buy price and the TradeInfo checkSellCondition works with.
buyPriceOf(m) == IF positions[m] # Nil THEN positions[m].buyPrice ELSE activePositions[m].buyPrice
infoOf(m) == IF positions[m] # Nil THEN positions[m].info ELSE tradeInfoCache[m]

Goto(l) == pc' = l

\* loadActivePositions: what a new process reads.
loadActivePositions(file) == IF file = Torn THEN NoPositions ELSE file

Init ==
  /\ StoreInit /\ updates = 0 /\ restarts = 0
  /\ wallet = InitialLamports /\ tokens = [m \in Tokens |-> 0] /\ stray = tokens
  /\ pending = {} /\ landed = FALSE
  /\ running = TRUE
  /\ pc = "top" /\ todo = {} /\ mint \in Tokens /\ attempt = 0 /\ price = 0
  /\ positions = NoPositions /\ tradeInfoCache = NoPositions
  /\ activePositions = NoPositions /\ activeFile = NoPositions
  /\ closedFile = <<>> /\ dailyFile = <<>> /\ closing = 0 /\ opened = 0
  /\ faulty = FALSE

\* The subscriber stores a record, between any two steps of the loop.
MarketStep ==
  /\ updates < MaxUpdates /\ updates' = updates + 1
  /\ StoreNext
  /\ UNCHANGED <<restarts, chainVars, running, loopVars, botVars, recVars, faulty>>

(***************************************************************************)
(* The chain.                                                              *)
(***************************************************************************)

\* A sale names the balance it was built with and closes the account.
Land(t) ==
  /\ t \in pending
  /\ pending' = pending \ {t}
  /\ \/ /\ t.kind = "buy" /\ wallet >= buyLamports
        /\ wallet' = wallet - buyLamports
        /\ tokens' = [tokens EXCEPT ![t.mint] = @ + 1]
        /\ stray' = [stray EXCEPT ![t.mint] = IF t.current THEN @ ELSE @ + 1]
     \/ /\ t.kind = "sell" /\ tokens[t.mint] = t.amount
        /\ \E proceeds \in {0, buyLamports} : wallet' = wallet + proceeds
        /\ tokens' = [tokens EXCEPT ![t.mint] = 0]
        /\ stray' = [stray EXCEPT ![t.mint] = 0]
  /\ landed' = (landed \/ t.current)
  /\ UNCHANGED <<marketVars, running, loopVars, botVars, recVars, faulty>>

Expire(t) ==
  /\ t \in pending
  /\ pending' = pending \ {t}
  /\ UNCHANGED <<marketVars, wallet, tokens, stray, landed, running, loopVars, botVars, recVars, faulty>>

Submit(kind, amount) ==
  /\ \E n \in 1..MaxPending :
       /\ {t.n : t \in pending} \cap 1..n = 1..(n - 1)
       /\ pending' = pending \cup {[n |-> n, kind |-> kind, mint |-> mint, amount |-> amount,
                                   current |-> TRUE]}
  /\ landed' = FALSE

\* The call of the current transaction is over; it may still land.
Abandoned == {[t EXCEPT !.current = FALSE] : t \in pending}

(***************************************************************************)
(* The monitoring loop.                                                    *)
(***************************************************************************)
StartRound ==
  /\ pc = "top"
  /\ todo' = activeMints
  /\ Goto("next")
  /\ UNCHANGED <<marketVars, chainVars, running, mint, attempt, price, botVars, recVars, faulty>>

VisitMint ==
  /\ pc = "next" /\ todo # {}
  /\ \E m \in todo : /\ mint' = m /\ todo' = todo \ {m}
                     /\ Goto(IF isHolding(m) THEN "sell" ELSE "buy")
  /\ UNCHANGED <<marketVars, chainVars, running, attempt, price, botVars, recVars, faulty>>

EndRound ==
  /\ pc = "next" /\ todo = {}
  /\ Goto("sleep")
  /\ UNCHANGED <<marketVars, chainVars, running, todo, mint, attempt, price, botVars, recVars, faulty>>

Sleep ==
  /\ pc = "sleep"
  /\ Goto(IF running THEN "top" ELSE "ended")
  /\ UNCHANGED <<marketVars, chainVars, running, todo, mint, attempt, price, botVars, recVars, faulty>>

Stop ==
  /\ running /\ running' = FALSE
  /\ UNCHANGED <<marketVars, chainVars, loopVars, botVars, recVars, faulty>>

\* Mutated form: the error is not caught and the loop is left.
CallFails_ends ==
  /\ pc \in {"top", "buy", "increase", "balance", "buying", "sell", "holdings", "selling"}
  /\ faulty' = TRUE
  /\ Goto("ended")
  /\ UNCHANGED <<marketVars, chainVars, running, todo, mint, attempt, price, botVars, recVars>>

\* A Redis, RPC or SDK call fails.  The error of a swap says nothing about its
\* transaction.  The catch of the loop skips the rest of the round.
CallFails ==
  /\ pc \in {"top", "buy", "increase", "balance", "buying", "sell", "holdings", "selling"}
  /\ faulty' = TRUE
  /\ pending' = Abandoned /\ landed' = FALSE
  /\ stray' = [stray EXCEPT ![mint] = IF pc = "buying" /\ landed THEN @ + 1 ELSE @]
  /\ Goto("sleep")
  /\ UNCHANGED <<marketVars, wallet, tokens, running, todo, mint, attempt, price, botVars, recVars>>

checkBuyCondition ==
  /\ pc = "buy"
  /\ Goto(IF getLatestPriceFromTrades(mint) = {} THEN "next" ELSE "increase")
  /\ UNCHANGED <<marketVars, chainVars, running, todo, mint, attempt, price, botVars, recVars, faulty>>

\* checkPriceIncrease, and executeBuy up to its first await.
checkPriceIncrease ==
  /\ pc = "increase"
  /\ Goto(IF ~priceRises(mint, buyRecordCount, buyThresholdPct) \/ opened = MaxTrades THEN "next"
          ELSE IF tradeInfoCache[mint] = Nil THEN "fetch" ELSE "balance")
  /\ UNCHANGED <<marketVars, chainVars, running, todo, mint, attempt, price, botVars, recVars, faulty>>

\* fetchTradeInfoWithRetry: an attempt finds the pool (with reserves of 0 when
\* the balances cannot be read), or fails; the last failure is thrown.
fetchTradeInfoWithRetry ==
  /\ pc = "fetch"
  /\ \/ /\ attempt < maxRetries
        /\ \E i \in TradeInfo : tradeInfoCache' = [tradeInfoCache EXCEPT ![mint] = i]
        /\ Goto("balance") /\ attempt' = 0
     \/ /\ attempt < maxRetries
        /\ attempt' = attempt + 1 /\ UNCHANGED <<pc, tradeInfoCache>>
     \/ /\ attempt = maxRetries
        /\ Goto("sleep") /\ attempt' = 0 /\ UNCHANGED tradeInfoCache
  /\ UNCHANGED <<marketVars, chainVars, running, todo, mint, price, positions, recVars, faulty>>

\* The recorder opens a trade and writes the active list.
recordBuy(buyPrice) ==
  /\ opened' = opened + 1
  /\ activePositions' = [activePositions EXCEPT ![mint] =
       [id |-> opened + 1, buyPrice |-> buyPrice, highestPrice |-> buyPrice, lowestPrice |-> buyPrice]]
  /\ Goto("saveBuy")

\* executeBuy after a result with success = true, up to the write of recordBuy.
OpenPosition(buyPrice) ==
  /\ positions' = [positions EXCEPT ![mint] = [buyPrice |-> buyPrice, info |-> tradeInfoCache[mint]]]
  /\ recordBuy(buyPrice)

\* Trader.buy: too small a balance is a success with price 0.
TraderBuy ==
  /\ pc = "balance"
  /\ \/ /\ wallet < buyLamports + GAS_RESERVE
        /\ OpenPosition(0)
        /\ UNCHANGED <<pending, landed>>
     \/ /\ wallet >= buyLamports + GAS_RESERVE
        /\ Submit("buy", 0)
        /\ Goto("buying") /\ UNCHANGED <<positions, activePositions, opened>>
  /\ UNCHANGED <<marketVars, wallet, tokens, stray, running, todo, mint, attempt, price, tradeInfoCache,
                 activeFile, closedFile, dailyFile, closing, faulty>>

BuySucceeds ==
  /\ pc = "buying" /\ landed
  /\ OpenPosition(calculatePriceFromPool(tradeInfoCache[mint]))
  /\ UNCHANGED <<marketVars, chainVars, running, todo, mint, attempt, price, tradeInfoCache,
                 activeFile, closedFile, dailyFile, closing, faulty>>

\* The decision: a position that should be sold but has no TradeInfo is left.
Decision(current) ==
  IF shouldSell(current, buyPriceOf(mint)) /\ infoOf(mint) # Nil THEN "holdings" ELSE "next"

\* The recorder notes the extremes of an active position and writes the list.
updatePrice(current) ==
  /\ activePositions[mint] # Nil
  /\ activePositions' = [activePositions EXCEPT
       ![mint].highestPrice = IF current > @ THEN current ELSE @,
       ![mint].lowestPrice  = IF current < @ THEN current ELSE @]
  /\ price' = current
  /\ Goto("saveUpdate")

\* checkSellCondition up to the write of updatePrice.  A token that is held
\* always has an active position: the update is never skipped.
checkSellCondition ==
  /\ pc = "sell"
  /\ \/ /\ getLatestPriceFromTrades(mint) = {}
        /\ Goto("next") /\ UNCHANGED <<price, activePositions>>
     \/ \E current \in getLatestPriceFromTrades(mint) : updatePrice(current)
  /\ UNCHANGED <<marketVars, chainVars, running, todo, mint, attempt, botVars,
                 activeFile, closedFile, dailyFile, closing, opened, faulty>>

\* Trader.sell: without a token balance it throws, else it sells all of it.
TraderSell ==
  /\ pc = "holdings"
  /\ \/ /\ tokens[mint] = 0
        /\ Goto("sleep") /\ UNCHANGED <<pending, landed>>
     \/ /\ tokens[mint] > 0
        /\ Submit("sell", tokens[mint])
        /\ Goto("selling")
  /\ UNCHANGED <<marketVars, wallet, tokens, stray, running, todo, mint, attempt, price, botVars, recVars,
                 faulty>>

\* The recorder takes the position out of the active list and writes the list,
\* then the closed trade.
recordSell ==
  /\ closing' = activePositions[mint].id
  /\ activePositions' = [activePositions EXCEPT ![mint] = Nil]
  /\ Goto("saveSell")

\* executeSell after a success, and recordSell up to its first write.
SellSucceeds ==
  /\ pc = "selling" /\ landed
  /\ positions' = [positions EXCEPT ![mint] = Nil]
  /\ recordSell
  /\ UNCHANGED <<marketVars, chainVars, running, todo, mint, attempt, price, tradeInfoCache,
                 activeFile, closedFile, dailyFile, opened, faulty>>

(***************************************************************************)
(* The recorder's writes: synchronous, one after the other.                *)
(***************************************************************************)

\* Mutated form: recordSell does not save the shortened list.
saveActivePositions_unsold ==
  /\ pc \in {"saveBuy", "saveUpdate", "saveSell"}
  /\ activeFile' = IF pc = "saveSell" THEN activeFile ELSE activePositions
  /\ Goto(CASE pc = "saveBuy"    -> "next"
            [] pc = "saveUpdate" -> Decision(price)
            [] pc = "saveSell"   -> "appendClosed")
  /\ price' = 0
  /\ UNCHANGED <<marketVars, chainVars, running, todo, mint, attempt, botVars,
                 activePositions, closedFile, dailyFile, closing, opened, faulty>>

saveActivePositions ==
  /\ pc \in {"saveBuy", "saveUpdate", "saveSell"}
  /\ activeFile' = activePositions
  /\ Goto(CASE pc = "saveBuy"    -> "next"
            [] pc = "saveUpdate" -> Decision(price)
            [] pc = "saveSell"   -> "appendClosed")
  /\ price' = 0
  /\ UNCHANGED <<marketVars, chainVars, running, todo, mint, attempt, botVars,
                 activePositions, closedFile, dailyFile, closing, opened, faulty>>

\* A file that does not parse is replaced by one with the new record alone.
Appended(file, id) == IF file = Torn THEN <<id>> ELSE Append(file, id)

\* Mutated form: the daily file is forgotten.
appendClosedTrade_no_daily ==
  /\ pc = "appendClosed"
  /\ closedFile' = Appended(closedFile, closing)
  /\ closing' = 0
  /\ Goto("next")
  /\ UNCHANGED <<marketVars, chainVars, running, todo, mint, attempt, price, botVars,
                 activePositions, activeFile, dailyFile, opened, faulty>>

appendClosedTrade ==
  /\ \/ /\ pc = "appendClosed"
        /\ closedFile' = Appended(closedFile, closing)
        /\ Goto("appendDaily") /\ UNCHANGED <<dailyFile, closing>>
     \/ /\ pc = "appendDaily"
        /\ dailyFile' = Appended(dailyFile, closing)
        /\ closing' = 0
        /\ Goto("next") /\ UNCHANGED closedFile
  /\ UNCHANGED <<marketVars, chainVars, running, todo, mint, attempt, price, botVars,
                 activePositions, activeFile, opened, faulty>>

\* The file that is being written keeps its content, or is torn.
WriteCut ==
  /\ activeFile' \in {activeFile} \cup
       (IF pc \in {"saveBuy", "saveUpdate", "saveSell"} THEN {Torn} ELSE {})
  /\ closedFile' \in {closedFile} \cup (IF pc = "appendClosed" THEN {Torn} ELSE {})
  /\ dailyFile' \in {dailyFile} \cup (IF pc = "appendDaily" THEN {Torn} ELSE {})

\* A write throws: the error reaches the catch of the loop.
WriteFails ==
  /\ pc \in {"saveBuy", "saveUpdate", "saveSell", "appendClosed", "appendDaily"}
  /\ faulty' = TRUE
  /\ WriteCut
  /\ price' = 0 /\ closing' = 0
  /\ Goto("sleep")
  /\ UNCHANGED <<marketVars, chainVars, running, todo, mint, attempt, botVars,
                 activePositions, opened>>

\* The process dies, anywhere, and is started again.
Crash ==
  /\ restarts < MaxRestarts /\ restarts' = restarts + 1
  /\ UNCHANGED <<trades, updates>>
  /\ WriteCut
  /\ faulty' = TRUE
  /\ activePositions' = loadActivePositions(activeFile')
  /\ stray' = [m \in Tokens |-> IF activePositions'[m] = Nil THEN tokens[m] ELSE stray[m]]
  /\ pending' = Abandoned
  /\ positions' = NoPositions /\ tradeInfoCache' = NoPositions
  /\ running' = TRUE /\ landed' = FALSE
  /\ pc' = "top" /\ todo' = {} /\ attempt' = 0 /\ price' = 0 /\ closing' = 0
  /\ UNCHANGED <<wallet, tokens, mint, opened>>

LoopNext ==
  \/ StartRound \/ VisitMint \/ EndRound \/ Sleep
  \/ checkBuyCondition \/ checkPriceIncrease \/ fetchTradeInfoWithRetry
  \/ TraderBuy \/ BuySucceeds \/ checkSellCondition \/ TraderSell \/ SellSucceeds
  \/ saveActivePositions \/ appendClosedTrade

Next ==
  \/ MarketStep
  \/ \E t \in pending : Land(t) \/ Expire(t)
  \/ LoopNext
  \/ CallFails \/ WriteFails \/ Stop \/ Crash

\* The loop is the only task of the process that never ends: timers fire, and
\* what it awaits returns or throws; a swap waits for its confirmation with a
\* timeout, and a transaction expires with its blockhash.
Spec ==
  /\ Init /\ [][Next]_vars
  /\ WF_vars(LoopNext) /\ WF_vars(CallFails /\ pc \in {"buying", "selling"})
  /\ WF_vars(\E t \in pending : Expire(t))

(***************************************************************************)
(* Properties.                                                             *)
(***************************************************************************)
Ids(f) == {f[m].id : m \in {n \in Tokens : f[n] # Nil}}
OpenOnDisk == IF activeFile = Torn THEN {} ELSE Ids(activeFile)
Closed(file) == IF file = Torn THEN {} ELSE {file[i] : i \in DOMAIN file}

\* Whatever write a crash or a full disk cuts short, no trade is on record both
\* as open and as closed, and none is closed twice: recordSell shortens the
\* active list before it appends.
OpenOrClosed ==
  /\ OpenOnDisk \cap Closed(closedFile) = {}
  /\ closedFile # Torn => Cardinality(Closed(closedFile)) = Len(closedFile)

\* As long as nothing failed, every trade that was opened is active or closed,
\* and the closed ones are in the daily file as well.
NothingUnrecorded ==
  ~faulty /\ pc \notin {"saveSell", "appendClosed", "appendDaily"} =>
    /\ Ids(activePositions) \cup Closed(closedFile) = 1..opened
    /\ closedFile = dailyFile

\* Across crashes the recorder keeps the bot from buying what it holds: a token
\* is bought a second time only when the first purchase was reported as failed,
\* or its record was lost with the process or its file.
PurchaseCovered ==
  \A m \in Tokens :
    /\ tokens[m] <= stray[m] + 1
    /\ tokens[m] > stray[m] => \/ activePositions[m] # Nil
                              \/ (pc = "buying" /\ mint = m)

\* No error ends the bot: rounds go on until somebody stops it.
RoundsGoOn == []<>(pc = "top" \/ ~running)
=============================================================================
