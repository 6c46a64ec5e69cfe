--------------------------- MODULE TradingStrategy ---------------------------
(***************************************************************************)
(* The Rust bot: the monitoring loop of TradingStrategy and the Trader it  *)
(* drives, over the trade store that the subscriber fills concurrently.    *)
(*                                                                         *)
(* A swap is what SwapService says of the SDK: it is submitted, it may     *)
(* land, and the call returns; Ok only after it landed, an error at any    *)
(* time, also while the transaction can still land.  Fees are paid out of  *)
(* the gas reserve and are not tracked.  Every error propagates with `?`   *)
(* out of the loop and ends the bot; Restart is a new process: Redis and   *)
(* the chain survive, positions and the TradeInfo cache do not.            *)
(***************************************************************************)
EXTENDS TradeStore

CONSTANTS
  None,               \* no position, no cached TradeInfo
  Ratios,             \* lamports per token unit a pool moves through
  InitialWallet,      \* lamports of the payer at the start
  buy_amount,         \* buy_amount_lamports()
  GAS_RESERVE_LAMPORTS,
  max_retries,        \* attempts of fetch_trade_info_with_retry
  buy_record_count, buy_threshold_pct, sell_profit_pct, sell_stop_loss_pct,
  jito_enabled,       \* new_with_options: only Jito, no Default channel
  MaxLag              \* bound: swaps that are confirmed and not yet finalized

ASSUME StrategyAssumption ==
  /\ Ratios \subseteq Reserves /\ 1 \in Reserves
  /\ InitialWallet \in Nat /\ buy_amount \in Nat /\ GAS_RESERVE_LAMPORTS \in Nat
  /\ max_retries \in Nat /\ buy_record_count \in Nat
  /\ buy_threshold_pct \in Nat /\ sell_profit_pct \in Nat /\ sell_stop_loss_pct \in Nat
  /\ jito_enabled \in BOOLEAN /\ MaxLag \in Nat \ {0}

VARIABLES
  pool,       \* pool[m]: lamports per token unit on chain
  wallet,     \* lamports of the payer
  tokens,     \* tokens[m]: purchases of m in the payer's token account
  lagging,    \* earlier balances the finalized view has yet to pass through
  pending,    \* submitted transactions that can still land
  swap,       \* the current swap call: "none", "sent", "landed"
  pc,         \* where the monitoring loop is
  todo,       \* mints of this round not visited yet
  mint,       \* the mint being visited
  attempt,    \* attempts of fetch_trade_info_with_retry made
  positions,  \* positions[m]: a TokenPosition, or None
  trade_info_cache, \* trade_info_cache[m]: the reserves fetched, or None
  trader_buy_price  \* Trader.buy_price: the price of the last purchase

chainVars == <<pool, wallet, tokens, lagging, pending>>
loopVars  == <<pc, todo, mint, attempt>>
botVars   == <<positions, trade_info_cache, trader_buy_price>>
vars == <<storeVars, chainVars, swap, loopVars, botVars>>

TradeInfo == [base: Reserves, quote: Reserves]
TokenPosition == [buy_price: Nat, trade_info: TradeInfo]
ASSUME NoneAssumption == None \notin TokenPosition

\* The client of new_with_options asks for finalized state: what get_balance and
\* get_token_account_balance answer trails the swaps already confirmed.
Balances == [wallet: Nat, tokens: [Mints -> Nat]]
finalized == IF lagging = <<>> THEN [wallet |-> wallet, tokens |-> tokens] ELSE Head(lagging)

\* A transaction remembers the run of the process that signed it.
Transaction == [kind: {"buy", "sell"}, mint: Mints, amount: Nat, run: Nat]

Locations == {"top", "next", "buy", "increase", "fetch", "balance", "buying",
              "sell", "selling", "stopped"}

is_holding(m) == positions[m] # None

\* The price of the cached reserves, in thousandths of a SOL per token.  The
\* division by 1000 that from_transaction makes is absent here.
calculate_price_from_pool(i) == IF i.base = 0 THEN 0 ELSE (1000 * i.quote) \div i.base

\* profit_pct >= sell_profit_pct or profit_pct <= -sell_stop_loss_pct, where
\* profit_pct is 0 for a buy price that is not positive.
profit_signals_sale(price, buy_price) ==
  LET gain == IF buy_price > 0 THEN (price - buy_price) * 100 ELSE 0
      unit == IF buy_price > 0 THEN buy_price ELSE 1
  IN  gain >= sell_profit_pct * unit \/ gain <= -(sell_stop_loss_pct * unit)

\* The last stored record of m says that its position should be sold.
SaleSignalled(m) ==
  /\ is_holding(m)
  /\ \E price \in get_latest_price_from_trades(m) :
        profit_signals_sale(price, positions[m].buy_price)

Init ==
  /\ StoreInit
  /\ pool \in [Mints -> Ratios]
  /\ wallet = InitialWallet /\ tokens = [m \in Mints |-> 0] /\ lagging = <<>>
  /\ pending = {}
  /\ swap = "none"
  /\ pc = "top" /\ todo = {} /\ mint \in Mints /\ attempt = 0
  /\ positions = [m \in Mints |-> None]
  /\ trade_info_cache = [m \in Mints |-> None]
  /\ trader_buy_price = None

Goto(l) == pc' = l

(***************************************************************************)
(* The market and the chain.                                               *)
(***************************************************************************)
MarketSwap(m, ratio, sig) ==
  /\ handle_event(m, WSOL, 1, ratio, sig)
  /\ pool' = [pool EXCEPT ![m] = ratio]
  /\ UNCHANGED <<wallet, tokens, lagging, pending, swap, loopVars, botVars>>

\* A swap in another pool of the token: one with WSOL as its base mint, or one
\* without WSOL.
OtherSwap(m, sig) ==
  /\ handle_event(WSOL, m, 1, 1, sig) \/ handle_event(m, OtherMint, 1, 1, sig)
  /\ UNCHANGED <<chainVars, swap, loopVars, botVars>>

\* A pending transaction executes.  A sale closes the token account, so it
\* executes only while the account holds exactly the amount it names.
Land(t) ==
  /\ t \in pending /\ Len(lagging) < MaxLag
  /\ pending' = pending \ {t}
  /\ lagging' = Append(lagging, [wallet |-> wallet, tokens |-> tokens])
  /\ \/ /\ t.kind = "buy" /\ wallet >= t.amount
        /\ wallet' = wallet - t.amount
        /\ tokens' = [tokens EXCEPT ![t.mint] = @ + 1]
     \/ /\ t.kind = "sell" /\ tokens[t.mint] = t.amount
        /\ \E proceeds \in {0, buy_amount} : wallet' = wallet + proceeds
        /\ tokens' = [tokens EXCEPT ![t.mint] = 0]
  /\ swap' = IF t.run = restarts THEN "landed" ELSE swap
  /\ UNCHANGED <<storeVars, pool, loopVars, botVars>>

\* The block of the oldest confirmed swap becomes final.
Finalize ==
  /\ lagging # <<>>
  /\ lagging' = Tail(lagging)
  /\ UNCHANGED <<storeVars, pool, wallet, tokens, pending, swap, loopVars, botVars>>

\* It fails on chain, or its blockhash expires.
Expire(t) ==
  /\ t \in pending
  /\ pending' = pending \ {t}
  /\ UNCHANGED <<storeVars, pool, wallet, tokens, lagging, swap, loopVars, botVars>>

(***************************************************************************)
(* The monitoring loop.                                                    *)
(***************************************************************************)

\* A round starts with the mints KEYS returns.
StartRound ==
  /\ pc = "top"
  /\ todo' = get_active_mints
  /\ Goto("next")
  /\ UNCHANGED <<storeVars, chainVars, swap, mint, attempt, botVars>>

\* An error of KEYS is swallowed by unwrap_or_default: a round without mints.
StartEmptyRound ==
  /\ pc = "top" /\ redis_configured
  /\ todo' = {}
  /\ Goto("next")
  /\ UNCHANGED <<storeVars, chainVars, swap, mint, attempt, botVars>>

VisitMint ==
  /\ pc = "next" /\ todo # {}
  /\ \E m \in todo :
       /\ mint' = m /\ todo' = todo \ {m}
       /\ Goto(IF is_holding(m) THEN "sell" ELSE "buy")
  /\ UNCHANGED <<storeVars, chainVars, swap, attempt, botVars>>

EndRound ==
  /\ pc = "next" /\ todo = {}
  /\ Goto("top")
  /\ UNCHANGED <<storeVars, chainVars, swap, todo, mint, attempt, botVars>>

\* check_buy_condition up to its first store access.
check_buy_condition ==
  /\ pc = "buy"
  /\ Goto(IF is_holding(mint) \/ get_latest_price_from_trades(mint) = {}
          THEN "next" ELSE "increase")
  /\ UNCHANGED <<storeVars, chainVars, swap, todo, mint, attempt, botVars>>

\* What execute_buy does next: a cached TradeInfo is used, however old it is.
get_or_fetch_trade_info == IF trade_info_cache[mint] = None THEN "fetch" ELSE "balance"

\* check_price_increase, and execute_buy up to its first call.
check_price_increase ==
  /\ pc = "increase"
  /\ Goto(IF ~price_rises(mint, buy_record_count, buy_threshold_pct) \/ is_holding(mint)
          THEN "next"
          ELSE get_or_fetch_trade_info)
  /\ attempt' = 0
  /\ UNCHANGED <<storeVars, chainVars, swap, todo, mint, botVars>>

\* One attempt of fetch_trade_info_with_retry, and its error after the last.
\* The reserves are finalized ones: the pool may have moved to any ratio since.
FetchTradeInfo ==
  /\ pc = "fetch"
  /\ \/ /\ attempt < max_retries
        /\ \E ratio \in Ratios :
             trade_info_cache' = [trade_info_cache EXCEPT ![mint] = [base |-> 1, quote |-> ratio]]
        /\ Goto("balance") /\ UNCHANGED attempt
     \/ /\ attempt < max_retries
        /\ attempt' = attempt + 1
        /\ UNCHANGED <<pc, trade_info_cache>>
     \/ /\ attempt = max_retries
        /\ Goto("stopped") /\ UNCHANGED <<attempt, trade_info_cache>>
  /\ UNCHANGED <<storeVars, chainVars, swap, todo, mint, positions, trader_buy_price>>

\* execute_buy after trader.buy returned Ok.
RecordPosition ==
  positions' = [positions EXCEPT ![mint] =
    [buy_price  |-> calculate_price_from_pool(trade_info_cache[mint]),
     trade_info |-> trade_info_cache[mint]]]

Submit(kind, amount) ==
  /\ pending' = pending \cup
       {[kind |-> kind, mint |-> mint, amount |-> amount, run |-> restarts]}
  /\ swap' = "sent"

\* Trader::buy: with too small a balance it returns Ok without buying, and
\* execute_buy records a position all the same.
TraderBuy ==
  /\ pc = "balance"
  /\ \/ /\ finalized.wallet < buy_amount + GAS_RESERVE_LAMPORTS
        /\ RecordPosition
        /\ Goto("next") /\ UNCHANGED <<pending, swap>>
     \/ /\ finalized.wallet >= buy_amount + GAS_RESERVE_LAMPORTS
        /\ Submit("buy", buy_amount)
        /\ Goto("buying") /\ UNCHANGED positions
  /\ UNCHANGED <<storeVars, pool, wallet, tokens, lagging, todo, mint, attempt,
                 trade_info_cache, trader_buy_price>>

BuySucceeds ==
  /\ pc = "buying" /\ swap = "landed"
  /\ RecordPosition
  /\ trader_buy_price' = calculate_price_from_pool(trade_info_cache[mint])
  /\ swap' = "none"
  /\ Goto("next")
  /\ UNCHANGED <<storeVars, chainVars, todo, mint, attempt, trade_info_cache>>

\* Mutated form: an error of the buy is logged and the loop goes on.
BuyFails_continue ==
  /\ pc = "buying"
  /\ swap' = "none"
  /\ Goto("next")
  /\ UNCHANGED <<storeVars, chainVars, todo, mint, attempt, botVars>>

\* The swap reports an error, whatever became of its transaction.
BuyFails ==
  /\ pc = "buying"
  /\ swap' = "none"
  /\ Goto("stopped")
  /\ UNCHANGED <<storeVars, chainVars, todo, mint, attempt, botVars>>

\* Mutated form: a sale without tokens is passed over, as a purchase without
\* money is.
check_sell_condition_passes ==
  /\ pc = "sell"
  /\ \/ /\ ~SaleSignalled(mint) \/ finalized.tokens[mint] = 0
        /\ Goto("next") /\ UNCHANGED <<pending, swap>>
     \/ /\ SaleSignalled(mint) /\ jito_enabled
        /\ Goto("stopped") /\ UNCHANGED <<pending, swap>>
     \/ /\ SaleSignalled(mint)
        /\ finalized.tokens[mint] > 0 /\ ~jito_enabled
        /\ Submit("sell", finalized.tokens[mint])
        /\ Goto("selling")
  /\ UNCHANGED <<storeVars, pool, wallet, tokens, lagging, todo, mint, attempt, botVars>>

\* check_sell_condition and Trader::sell up to the submission: nothing to do,
\* no balance or no Default channel for a swap without tip (errors), or a sale
\* of the whole balance.
check_sell_condition ==
  /\ pc = "sell"
  /\ \/ /\ ~SaleSignalled(mint)
        /\ Goto("next") /\ UNCHANGED <<pending, swap>>
     \/ /\ SaleSignalled(mint)
        /\ finalized.tokens[mint] = 0 \/ jito_enabled
        /\ Goto("stopped") /\ UNCHANGED <<pending, swap>>
     \/ /\ SaleSignalled(mint)
        /\ finalized.tokens[mint] > 0 /\ ~jito_enabled
        /\ Submit("sell", finalized.tokens[mint])
        /\ Goto("selling")
  /\ UNCHANGED <<storeVars, pool, wallet, tokens, lagging, todo, mint, attempt, botVars>>

SellSucceeds ==
  /\ pc = "selling" /\ swap = "landed"
  /\ positions' = [positions EXCEPT ![mint] = None]
  /\ swap' = "none"
  /\ Goto("next")
  /\ UNCHANGED <<storeVars, chainVars, todo, mint, attempt, trade_info_cache, trader_buy_price>>

\* Mutated form: the position is dropped before the outcome is known.
SellFails_drop ==
  /\ pc = "selling"
  /\ positions' = [positions EXCEPT ![mint] = None]
  /\ swap' = "none"
  /\ Goto("stopped")
  /\ UNCHANGED <<storeVars, chainVars, todo, mint, attempt, trade_info_cache, trader_buy_price>>

SellFails ==
  /\ pc = "selling"
  /\ swap' = "none"
  /\ Goto("stopped")
  /\ UNCHANGED <<storeVars, chainVars, todo, mint, attempt, botVars>>

\* A Redis command (top, buy, increase, sell) or an RPC call before the
\* submission (balance, sell) fails: `?` ends the loop and the bot.
CallFails ==
  /\ pc \in {"top", "buy", "increase", "balance", "sell"}
  /\ redis_configured
  /\ Goto("stopped")
  /\ UNCHANGED <<storeVars, chainVars, swap, todo, mint, attempt, botVars>>

\* The process is killed, or ended, and is started again.
RestartBot ==
  /\ Restart
  /\ pc' = "top" /\ todo' = {} /\ attempt' = 0 /\ swap' = "none"
  /\ positions' = [m \in Mints |-> None]
  /\ trade_info_cache' = [m \in Mints |-> None]
  /\ trader_buy_price' = None
  /\ UNCHANGED <<pool, wallet, tokens, lagging, pending, mint>>

LoopNext ==
  \/ StartRound \/ StartEmptyRound \/ VisitMint \/ EndRound
  \/ check_buy_condition \/ check_price_increase \/ FetchTradeInfo
  \/ TraderBuy \/ BuySucceeds \/ BuyFails
  \/ check_sell_condition \/ SellSucceeds \/ SellFails

StoreStep == (Tick \/ SubscriberNext) /\ UNCHANGED <<chainVars, swap, loopVars, botVars>>

Next ==
  \/ StoreStep
  \/ \E m \in Mints, ratio \in Ratios, sig \in Signatures : MarketSwap(m, ratio, sig)
  \/ \E m \in Mints, sig \in Signatures : OtherSwap(m, sig)
  \/ \E t \in pending : Land(t) \/ Expire(t)
  \/ Finalize
  \/ LoopNext
  \/ CallFails
  \/ RestartBot

\* The loop is one tokio task that is always scheduled again: its sleeps end, RPC
\* calls have the client's timeout, a swap returns (SwqosExecutor's CallReturns),
\* and Redis, asked without a timeout, is assumed to answer or to fail.
\* Redis does not fail every KEYS command for ever.
Spec == Init /\ [][Next]_vars /\ WF_vars(LoopNext) /\ SF_vars(StartRound)

(***************************************************************************)
(* Properties.                                                             *)
(***************************************************************************)

\* Type invariant of the bot.
TypeOK ==
  /\ StoreTypeOK
  /\ pool \in [Mints -> Ratios] /\ wallet \in Nat /\ tokens \in [Mints -> Nat]
  /\ lagging \in Seq(Balances) /\ pending \subseteq Transaction
  /\ swap \in {"none", "sent", "landed"}
  /\ pc \in Locations /\ todo \subseteq Mints /\ mint \in Mints /\ attempt \in 0..max_retries
  /\ positions \in [Mints -> TokenPosition \cup {None}]
  /\ trade_info_cache \in [Mints -> TradeInfo \cup {None}]
  /\ trader_buy_price \in Nat \cup {None}

\* While the bot runs, what it bought is covered by a position it watches or is
\* being bought right now, up to what earlier runs left behind (positions are
\* only in memory): at most one purchase of a mint for each of them.
HoldingsTracked ==
  pc # "stopped" =>
    \A m \in Mints : tokens[m] > restarts => is_holding(m) \/ (pc = "buying" /\ mint = m)

\* However often the bot decides to buy, a run holds one purchase of a mint at
\* most, also when a swap that was reported as failed lands later.
OnePurchasePerRun == \A m \in Mints : tokens[m] <= restarts + 1

\* A running bot gives up a position only when its tokens are gone (but for what
\* earlier runs left): neither a failed nor a late sale drops it.
DroppedMeansSold ==
  [][restarts' = restarts =>
       \A m \in Mints : is_holding(m) /\ positions'[m] = None => tokens[m] <= restarts]_vars

\* However often KEYS fails, and whatever was skipped or is not final yet, the
\* running bot gets to act on a position whose last record says it should be
\* sold, unless the market takes that back: it submits the sale or stops.
SaleAttempted ==
  \A m \in Mints :
    SaleSignalled(m) ~> \/ ~SaleSignalled(m)
                        \/ pc = "selling" /\ mint = m
                        \/ pc = "stopped"

\* trading.rs:110 "Correct price calculation": the price of a record and the
\* price a position remembers are in one unit, so that a record with the very
\* reserves of the purchase is neither a profit nor a loss.
NoSaleAtTheBuyPrice ==
  pc = "selling" => LET i == positions[mint].trade_info
                    IN  from_transaction_price(i.quote, i.base)
                          \notin get_latest_price_from_trades(mint)
=============================================================================
