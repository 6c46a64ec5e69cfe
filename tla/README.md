# A TLA+ model of pumpswap_bot

The repository holds a trading bot for PumpSwap, Solana's AMM for migrated
pump.fun tokens: a Rust bot (`src/`), a Node.js bot that implements the same
strategy (`pumpswap-bot-nodejs/`), and the SDK that builds, submits and confirms
the transactions (`sol-trade-sdk/`).  This directory models what decides, spends
and can go wrong in time: the market data paths, the two strategy loops with
their traders and records, the SDK's start-up, wallet transactions, fee
settings and quotes, its assembly of transactions, its submission pipeline and
channels, and its lock-free structures.

Paths below are relative to the repository root.  The bot's `Cargo.toml` names the
published crate `sol-trade-sdk` 4.0.3; the model follows the copy of the SDK in
the repository.

## Inventory

| Component | Source | State | Operations |
|---|---|---|---|
| gRPC subscriber | `src/grpc_subscriber.rs` | spawned tasks, an unbounded channel | `handle_event`, send through a mutex |
| Trade store | `src/trading.rs` (`RedisStore`) | Redis: a list `trades:<mint>`, a set `sigs:<mint>` | `store_trade`, `get_recent_trades`, price and change, `get_active_mints` |
| Strategy | `src/strategy.rs` | `positions`, `trade_info_cache`, in memory | `monitoring_loop`, buy and sell conditions, `execute_buy`, `execute_sell` |
| Trader | `src/trading.rs` (`Trader`) | last buy price; the chain through RPC | `buy`, `sell`, balances, `fetch_trade_info_with_retry` |
| SWQOS executor | `sol-trade-sdk/src/trading/core/{executor,async_executor}.rs`, `swqos/common.rs` | a bounded queue, worker tasks, a result collector per call | `swap`, `execute_parallel`, `run_one_swqos_job`, `wait_for_all_submitted`, `poll_any_transaction_confirmation` |
| SWQOS channel clients | `sol-trade-sdk/src/swqos/*.rs` | HTTP, gRPC and QUIC connections, a keep-alive task | `send_transaction(s)`, `ensure_connected`, `reconnect`, `start_ping_task`, `drop` |
| Gas fee strategy | `sol-trade-sdk/src/common/gas_fee_strategy.rs` | an `ArcSwap` of a map | set, update, delete, `get_strategies` |
| AMM arithmetic | `sol-trade-sdk/src/utils/calc/`, `common/bonding_curve.rs` | none | amounts, fees, slippage limits |
| SDK client, start-up | `sol-trade-sdk/src/lib.rs` | rents, channels, sender cores, WSOL accounts | `TradingInfrastructure::new`, `TradingClient::new`, `ensure_wsol_ata` |
| SDK client, trades | `sol-trade-sdk/src/lib.rs`, `instruction/`, `trading/common/` | the wallet's accounts | `buy`, `sell`, wrap, unwrap, close, claim, transfer |
| Transaction assembly | `sol-trade-sdk/src/trading/{common,core,middleware}/`, `swqos/serialization.rs`, `common/{address_lookup,nonce_cache}.rs` | pools of builders and of buffers, a cache of budget instructions | `build_transaction`, `apply_middlewares_...`, `serialize_transaction_sync`, `simulate_transaction` |
| Performance helpers | `sol-trade-sdk/src/perf/` | bitmaps, rings | `allocate`, `deallocate`, `write_data`, `read_data`, `try_push`, `try_pop` |
| Node.js bot, data path | `pumpswap-bot-nodejs/src/{grpcSubscriber,redisStore}.ts` | processed signatures in memory, Redis | `onLogs`, `storeTrade`, the reads |
| Node.js bot, strategy | `pumpswap-bot-nodejs/src/{strategy,trader,tradeRecorder}.ts` | positions in memory and in three JSON files | the loop, `buy`, `sell`, `recordBuy`, `recordSell` |
| Configuration | `src/config.rs`, `src/main.rs`, `pumpswap-bot-nodejs/src/{config,index}.ts` | none after start | parse a file |

How they interact.  The gRPC client calls back for every swap event.  Each event
is handled by a task of its own, which spawns another one that sends an update
into the channel; one consumer takes updates and writes them to Redis.  The
monitoring loop is a second task: every second it asks Redis for the known
mints and visits them one after the other, to sell what it holds and to buy what
has risen.  Buying and selling call the trader, which reads balances over RPC
and calls the SDK.  The SDK builds one transaction per channel and fee setting,
queues one job for each with a pool of workers that all calls share, collects
what the channels report for two seconds, and polls the chain for fifteen.  In
the Rust bot any error leaves the loop through `?` and ends the process; in the
Node.js bot it ends the round.  The Node.js bot has no consumer: log callbacks
interleave at their awaits and write to Redis themselves, and a recorder keeps
positions and closed trades in files.

What is hard about it (the list with lines is under `hazards` in `PROJECT.json`):

- a transaction can execute after the call that sent it reported failure;
- the process can stop between any two steps, and only Redis, the recorder's files
  (which a crash may tear) and the chain remember anything;
- balances are read at *finalized*, swaps return at *confirmed*; transactions are
  built from balances other transactions change before they land;
- updates arrive in any order and more than once, for callbacks that overlap;
- the worker pool, its wakeups and its queue are shared by concurrent calls, and
  calls give up while their jobs go on; connections are shared, lost and replaced;
- an update of the fees is several atomic steps, and swaps read in between;
- builders, buffers and budget instructions pass from one thread's transaction to
  another's through pools and a cache;
- quotes are rounded step by step and wrap at 64 bits.

## Modules

| Module | Models | State |
|---|---|---|
| `TradeStore` | Rust subscriber, channel, consumer, Redis store | `clock`, `emitted`, `restarts`, `tasks`, `channel`, `trades`, `sigs` |
| `TradingStrategy` | Rust loop and trader over `TradeStore`, with the chain | `pool`, `wallet`, `tokens`, `lagging`, `pending`; `swap`; `pc`, `todo`, `mint`, `attempt`; `positions`, `trade_info_cache`, `trader_buy_price` |
| `SwapService` | what a caller of the SDK's `buy` and `sell` may rely on (abstract) | `outcome`, `executed` |
| `SwqosExecutor` | `swap`, `execute_parallel`, the worker pool, the poll; implements `SwapService` | per call, per worker, the queue, the fate of every transaction |
| `SwqosClient` | every channel client that posts and reads a reply; batches, the poll, the keep-alive tasks | `client`, `sender`, `outcome`, `accepted`, `landed`, `keep` |
| `SwqosChannels` | the QUIC clients over `SwqosClient` | `link`, `connection`, `reconnect`, `inflight`, `deliveries`, ... |
| `NodeStore` | the Node.js store as its reader sees it (abstract), and its parsing | `trades` |
| `NodeFeed` | the log callbacks and the writes; implements `NodeStore` | `callback`, `processed`, `sigs`, `notices`, `crashes`; `halfStored`, `untrimmed` |
| `NodeStrategy` | Node.js loop, trader and recorder over `NodeStore` | chain, loop, `positions`, `activePositions`, three files |
| `GasFeeStrategy` | every call as its sequence of rcu steps, and the channels a swap selects | `strategies`, `todo`, `calls` |
| `TradeWallet` | instruction sequences of every DEX and of the client's wallet operations, and what the chain does with them | `wallet`, `seed`, `job`, `calls` |
| `AmmCalc` | the quotes, and a trader who moves a pool by them | `venue`, `creator`, `pool`, `money`, `tokens` |
| `TransactionAssembly` | from the instructions of a swap to the bytes a channel sends, and the simulation | `builders`, `buffers`, `cache`, `thread`, `sent` |
| `SdkStartup` | infrastructure, client, WSOL account creation, further wallets | `at`, rents, channels, cores, `ensure`, `inflight` |
| `ZeroCopyIo` | block pools, byte ring, item ring | bitmaps, `at`, `held`; `cells`, positions, `writer`, `reader` |
| `*Proofs` | theorems | |
| `MC*` | instances for TLC | |

`TradingStrategy` extends `TradeStore`: its steps are the store's steps, or the
loop's, or the chain's.  Between the strategy and the SDK stands `SwapService`:
the strategy assumes of a swap exactly what `SwapService` allows, and
`SwqosExecutor` is shown to implement it.  `NodeStrategy` stands on `NodeStore` in
the same way, and `NodeFeed` is shown to implement that.  `SwqosChannels` extends
`SwqosClient`; a behaviour uses one client, chosen at the start.

### TradeStore

`handle_event` drops events of pools without WSOL, picks the token side and adds
an update to `tasks`, the set of sender tasks; `SendUpdate` lets any of them
come next.  In the bot these events are the swaps of the model's pool
(`MarketSwap`) and those of other pools of the same token (`OtherSwap`).  `ConsumeUpdate` is the consumer with the whole of `store_trade`:
SISMEMBER and the atomic pipeline LPUSH, LTRIM, SADD are one step because the
consumer holds the store's mutex and is the only writer.  `ConsumeFails` is the
branch that logs a warning.  `Restart` clears what is in memory.  The reads are
operators: `get_recent_trades` with its conversion of block times and its stable
sort (`newest`, `oldest`), `price_rises` for the comparison with the threshold.
`LTRIM 0 -1` keeps everything, so a limit of 0 does not limit.

Prices are integers, in thousandths of a SOL per token; the division by 1000 in
`from_transaction` is then exact, and its absence in `calculate_price_from_pool`
is visible.

### TradingStrategy

`pc` is the loop's place.  A round (`StartRound`, `VisitMint`, `EndRound`) visits
each mint KEYS returned, in any order; `StartEmptyRound` is the swallowed error
of KEYS.  A visit goes through `check_buy_condition`, `check_price_increase`,
`FetchTradeInfo` (with its attempts), `TraderBuy` and the outcome of the swap, or
through `check_sell_condition` and the outcome of the sale.  A new position is
written only after the swap returned.  `CallFails` is every `?` on a Redis or RPC
call.  All errors lead to `stopped`.

The chain is the environment: `pending` holds transactions that may `Land` or
`Expire` at any time, also after the run that signed them; `lagging` holds the
balances that later swaps have already changed, the first of which is what a
finalized read returns (`finalized`).  One purchase is one unit of tokens.  A
sale closes the token account, so it executes only when it names the whole
balance.

### SwqosExecutor

A call goes through `swap` (its checks and early errors), `PushJob` for each
channel (a push onto a full queue is silently dropped), `TipAccountFails`,
`NotifyWaiters`, `wait_for_all_submitted` and the poll.  Each worker goes through
`PopJob` or `PopNothing`/`AwaitNotified` (the empty pop and the start of the wait
are two steps, as in `swqos_worker_loop`), `build_transaction`,
`send_transaction` and the two steps of `submit`, push and count.  A transaction
is unsent, in flight, processed or errored (on a fork that may be abandoned),
confirmed, failed or expired; transactions with one durable nonce exclude each
other.  Time is not modelled: a wait with a timeout may end at any moment.

### SwqosClient and SwqosChannels

For each client one definition (`Jito_send`, `ZeroSlot_send`, ...) says after which
replies it goes on to the confirmation and after which it returns the error: most
report success after a refusal too.  The keep-alive task is described by the flag
it starts with, the flag it stops at, and whether its handle is kept.  The four
QUIC clients differ in how they get a connection: looked at twice under a lock
(Speedlanding), replaced after a failed write unless somebody else is at it
(Soyas), without a lock (Node1), under the connection's lock and over several
addresses (Astralane).  A write puts a transaction in flight; a timeout may come
before or after.  Soyas and Astralane open their streams and write without a timeout:
over a live connection such a write may wait for the peer for ever (`Blocked`).

### NodeStore, NodeFeed and NodeStrategy

A callback goes through getTransaction, SISMEMBER and the pipeline, one step
each.  The pipeline LPUSH, LTRIM, SADD is no transaction: each command may fail by
itself, the code looks at none of their errors, and when the connection is lost
(`ConnectionLost`) any part of it has run and the client sends it again.
`halfStored` are the signatures pushed without SADD, `untrimmed` the lists pushed to
without LTRIM.  `processed` is the insertion-ordered set of signatures, cut in half when
full.  `NodeStore` says of all this only that a record of a parsed transaction is
put in front of a list, that a list is trimmed, or both; its operators are the reads the
strategy decides on.  `NodeStrategy` has the steps of the loop, with errors that
end the round (`CallFails`), and the recorder's three writes as steps of their own,
any of which may be cut short (`WriteCut`): a torn file is read as an empty one.
`stray` counts purchases whose record was lost or whose failure was reported; it
is what `PurchaseCovered` is relative to.

### GasFeeStrategy

A call is a sequence of steps `Del` and `Put`; `Writers` interleave between them.
`task_configs` is the selection of `execute_parallel` with its minimum tips.

### TradeWallet

A transaction is a sequence of instructions (create, create without idempotence,
wrap, swap, close, pay out) that takes effect as a whole or not at all.  `Call`
builds it from the balances of that moment, after the argument checks; `Land`
executes it on those of a later one.  The look at an account before it is closed or
unwrapped may go unanswered, which the code takes for no account.  A request has a
token type of its own; Meteora's builder takes the account to pay from, and to be
paid to, from it and not from the pool (`OnAccountOf`).  Prices are one to one, rent
is left out.

### AmmCalc

Every formula is written as in the code, on integers.  `% U64` stands where the code
computes in 64 bits, or cuts a result of 128 bits to them, and the result need not
fit; where it is not written, an amount or a reserve bounds the result.  Tolerances
are any u64.  A floating-point result is the set of the values it may have:
`Precision` stands for 2^50, since the four roundings of `min_amount_out` lose at
most 2^-53 each.  `Buy` and `Sell` move a pool by the quotes.

### TransactionAssembly

A job carries the instructions of a swap and everything that is added to them.
`swap` runs the protocol's middlewares; the worker puts the nonce's advance, the tip
and the budget in front (`Prologue`, with the cache read and filled in the steps
`BudgetHit`, `BudgetMiss` and `BudgetInsert`), runs the middlewares again, takes a
builder from the pool, compiles, gives the builder back, takes a buffer, encodes and
sends.  Each operation on a pool or on the cache is a step of its own.  An address
is an account key, `Compile` replaces a key by its index in the lookup table as it was
fetched, and `Executed` reads the index in the table on chain.  The middlewares are
the built-in one and three a program may add: append, remove all, refuse.

### SdkStartup

Every wait may end by an answer, an error or its timeout.  `ensure` is the place
in `ensure_wsol_ata` and its attempts; creations nobody waits for may still land.
A panic aborts the process, in a background task too, as the SDK's release profile
says.  Cargo ignores that profile when the SDK is built as a dependency, where a panic
ends only its task; no property is about what runs after one.

### ZeroCopyIo

Every atomic load, store and exchange is a step, and so is every store of a
copy.  Exchanges may fail without a reason (`compare_exchange_weak`).
`memcpy_simd_optimized` stores whole words; what a word holds beyond the message
is a 0.

## Runs

| Run | Instance | Shows |
|---|---|---|
| `bot` | 1 mint, 3 signatures, 3 events, lists of 2, 1 restart, money for two purchases, 1 unfinalized swap | no duplicate, bounded lists, types; `HoldingsTracked`, `OnePurchasePerRun`, `DroppedMeansSold`, `SaleAttempted` |
| `price_units` | 1 mint | a violation: a record with the reserves of the purchase triggers the stop loss |
| `executor` | 1 call of any kind, 2 channels, 2 workers, queue of 1 | `AllCollected`, `OneBuyExecutes`, `CallReturns`, `ImplementsSwapService` |
| `node_feed` | 2 callbacks, 3 transactions, memory and lists of 2, pipelines cut anywhere, 1 crash | duplicates need overlapping callbacks or a pipeline without its SADD; lists are bounded where LTRIM ran; what is marked is stored, on its way, or failed; `ImplementsStore` |
| `node_bot` | 1 token, 2 records, 2 trades, 1 crash | no trade open and closed; all trades on record unless something failed; `PurchaseCovered`; `RoundsGoOn` |
| `gas_fee` | 2 writers, 2 calls, 2 channels | `NeverUnset`, `KindsExclusive` |
| `channels` | 2 senders, all 18 clients, up to 3 connections, 2 addresses | `OkIsEarned`, `ConnectionShared`, `DeliveredOnce`, `SendReturns`, `PingEnds` |
| `wallet` | 1 token, a caller who tries every DEX, flag and token type, a caller who trades like the bot and manages its SOL, 4 calls | `NoWsolLeft`, `PurchaseExecutes`, `SaleExecutes` |
| `calc` | 12 pools, 5 venues, 9 amounts, 4 trades, tolerances up to 600% | `RoundTripLoses`, `QuotesAgree`, `SlippageKept` |
| `assembly` | 2 threads, pools of 1 builder and 1 buffer, 12 kinds of jobs, 3 jobs | `SentAsAsked`, `NonceFirst` |
| `startup` | 2 wallets, channel lists of every sort, 0 to 4 cores, every state of the wallets | `ClientReady`, `AbortExplained`, `StartupEnds` |
| `zero_copy` | 2 threads, pools of 3 and 1 blocks, words of 2 bits; a ring of 8, 18 bytes | `BlocksAccounted`, `AllocationFinds`, `RingDelivers` |

Bounds.  In the bot, `MaxEvents` = 3 is two records for a signal and one more to
change the price or to be redelivered, with a list of 2 so that trimming happens;
one restart is enough for a transaction of one run to land in the next;
`MaxClock` = 1 gives equal and different block times; `InitialWallet` pays for two
purchases and a skipped third.  The model's pool stays at 2 and another
pool of the token trades at 1, so that prices rise and fall.  The safety properties of
this run are theorems for any number of mints, signatures, restarts and unfinalized swaps; `SaleAttempted` is
checked for one mint only, where KEYS that fail, purchases that were skipped and
balances that lag stand in the way of a sale, and not the visits of other mints,
each of which ends.  `Genesis`, `Micros` and `SecondsLimit` are scaled
down from the code's 10^6 and 10^12 with their order kept.  In the executor a queue
of 1 drops a job of two, and the poll limits 10 and 15 become 1 and 2: a poll
before and after the question for details.  In `node_feed` a memory of 2 with 3
signatures makes eviction happen while callbacks run.  In `gas_fee` each of the two
calls is any of the setters over all channels, up to twelve rcu steps.  In `wallet`
four calls, split among the callers in any way, are enough for a purchase and a sale around the
other's transactions.  In `calc` `U64` = 2^16 makes products wrap and amounts near a
reserve not fit, amounts on both sides of `Precision` = 2^7 make floats exact and not,
and the pools go from nearly empty to many times the trade.  In
`assembly` three jobs are two at once and one that reuses what both left, and pools of 1
run empty and full; the kinds of jobs cover every encoding, nonce, tip, table and
middleware, jobs that are simulated and jobs that fail.  In `zero_copy` words of 2 bits give a
pool of two words; 18 bytes go round the ring of 8 twice, and counters wrap at 16.
Only `node_feed` uses symmetry, of its callbacks, and checks no liveness.
Deadlock is not checked: the Rust bot stops after an error, and the events,
restarts and calls of an instance are finite.

Fairness.  In `TradingStrategy` the loop is weakly fair: it is one tokio task
whose sleeps end, whose RPC calls have the client's timeout and whose swaps
return (`CallReturns`).  Redis commands have no timeout in the code; that Redis
answers or fails is an assumption.  Strong fairness of `StartRound` says that Redis
does not fail every KEYS command for ever.  In `SwqosExecutor` every call in
progress and every worker is weakly fair, as the runtime schedules a task that can
run.  In `NodeStrategy` the loop is weakly fair, a swap that is waited for ends (its
confirmation has a timeout) and a transaction expires with its blockhash.  In
`SdkStartup` the start-up and every creation are weakly fair: each wait has a
timeout.  In `SwqosChannels` a sender is strongly fair in what it does by itself
(`OwnStep`), because the locks are tokio mutexes, which are granted in the order they
are asked for, and each wait has a timeout; the writes of Soyas and Astralane, which
have none, are left to the peer, and `SendReturns` says that a submission ends or waits
in such a write from some time on.  The steps of the keep-alive task are weakly fair.  Nothing is assumed of subscribers, markets,
networks, services, the chain, or of when a client is dropped.

## Where the code and its words differ

`price_units` is kept as a run; `PROJECT.json` quotes the line.  The following were
met while modelling; the models follow the code, and the properties are stated so
that they hold of it:

- a second swap of a token in one transaction carries the same signature and is
  dropped as a duplicate (`src/trading.rs:182`; the Node.js bot reads only the
  first usable instruction);
- a purchase skipped for lack of balance is reported as success and becomes a
  position, whose sale stops the Rust bot (`src/trading.rs:761`, `trader.ts:458`);
- the reserves of a token are fetched once and used for all later purchases
  (`src/strategy.rs:306`);
- a sale soon after its purchase finds no finalized tokens and stops the bot
  (`src/trading.rs:446`);
- a worker that found the queue empty and does not wait yet misses
  `notify_waiters`; the job stays in the queue until the next call
  (`async_executor.rs:149`), and a transaction whose channel takes longer than two
  seconds is sent but not polled for (`async_executor.rs:409`);
- a restored position of the Node.js bot has no `TradeInfo`, so its sale is
  decided and not carried out (`strategy.ts:215`);
- most channel clients report success after a refusal (`OkIsEarned` names those
  that do not);
- with a seed the creation of a token account is not idempotent (`seed.rs:53`);
- the documentation offers the token type SOL for every trade
  (`docs/TRADING_PARAMETERS.md:21`), but Meteora's builder then pays from the account of
  the mint So11...111 (`meteora_damm_v2.rs:51`), which nothing opens: such a trade fails
  whatever the wallet holds (`Misnamed`);
- the tolerance of a sale is not limited: above 100% the difference wraps and the sale
  asks for what no pool gives (`calc/common.rs:78`, `bonk.rs:109`); the limit of a
  Raydium swap is a float, which from 2^53 on may exceed the quote
  (`raydium_amm_v4.rs:138`);
- the number of tokens to sell for an amount near the reserve is cut to 64 bits and does
  not bring the amount (`calc/pumpswap.rs:269`); `QuotesAgree` is about those that fit
  (`SellQuoteFits`), and so for the price of buying out (`bonding_curve.rs:249`);
- the threshold for creating the WSOL account, 500,000 lamports, is below the
  rent that the comment above it gives (`lib.rs:655`, `lib.rs:659`): the model's
  "short" wallets pass the check and cannot pay;
- zero addresses of a lookup table are left out as unused slots
  (`address_lookup.rs:27`), which moves every later index against the table on chain;
  `SentAsAsked` is about tables without one;
- the copy of the mapped ring stores whole words past the end of a message
  (`hardware_optimizations.rs:46`), over unread bytes when the ring is nearly full;
  `RingDelivers` holds until that happens (`spilled`).

## Theorems

All hold for every value of the constants that satisfies the named assumptions.

*TradingStrategyProofs* first takes the store, from `StoreAssumption` (WSOL and `OtherMint` are no traded
mints, numbers are natural, block times lie past the limit that
`deserialize_blocktime` takes for seconds).  `NoDuplicateSignature` is not
inductive: a new record might repeat one in the list that the set of signatures
has lost.  `StoreInv` adds `ListedAreKnown`, every listed record has its
signature in the set, which survives trimming because the set is never trimmed.
`StoreInvariant`, `NoDuplicates`, `StoreTypeCorrect` and `Bounded` follow.

Then the bot, from `StrategyAssumption` and `NoneAssumption` as well.
`BotImplementsStore`: every step of the bot is a step of `TradeStore` or leaves it
alone, so the store's theorems hold of the bot.  `HoldingsTracked` speaks of tokens
that have arrived; what threatens it are purchases that have not.  `BotInv`
therefore counts `Exposure`, tokens and purchases that can still land:

- `OneInFlight`: a run has at most one transaction that can land, and while the
  bot runs it is the one its call waits for;
- `BuyingBranch`: who is about to buy does not hold;
- `Accounted`: exposure is at most one per run, and within the earlier runs' share
  when this run neither holds nor is buying;
- `SoldOut`: after a sale landed only the earlier runs' share remains.

From it `BotTypeCorrect`, `Tracked`, `OnePurchase` and the action property
`Dropped`.  The argument that carries them is that an unknown outcome of a swap
always stops the bot; if the loop went on after a failed purchase, `Accounted`
would fail at the next one.

*SwqosExecutorProofs*, from `ExecutorAssumption`.  `ExecInv` consists of types,
`OwnTasks` (what is queued, run or sent belongs to its call), `SentOnce` (a job is
in one place until it is sent, and no two are the same), `Exclusive` (a buy
without nonce has one task; with a nonce one transaction lands) and `NotYetOk`.
`OneBuy` follows from `OwnTasks` and `Exclusive`.  `Implements` shows that
initial states map to initial states of `SwapService` and every step to a step or
a stutter.

`Collected`, from the same assumption: `completed_count` is a number and does not
say which results it counts.  `CollectInv` says that it is the size of some set of
results that were pushed and whose jobs are over (`Counts`), and that a job is in one
place until it is counted (`JobsApart`).  A subset of the tasks as large as the tasks
is all of them.

*SwqosChannelsProofs*, from `SwqosClientAssumption` and `SwqosChannelsAssumption`.
The steps of all clients are first reduced to what they do to a sender's record and
results: it moves on with or without a write (`Moves`), tries again (`Again`), fails
or succeeds (`Fails`, `Succeeds`), or sends a bundle (`Bundled`).

- `OkAlwaysEarned`.  `OkInv`: the current transaction of a sender is the next to get a
  result, and a client that reads the reply polls only for what was accepted.  Without
  the first a result could belong to another transaction than the one that landed.
- `NothingDeliveredTwice`.  `DeliveredOnce` counts what has arrived or is in flight;
  what threatens it is a write that is still to come.  `FlightInv` says that before
  the last write the count is at most the number of retries so far, and 0 for the
  transactions after the current one.
- `ConnectionAlwaysShared`.  `ConnInv`: who is in the handshake holds the lock, and
  the connection it will replace is closed.

*TransactionProofs*, the fees, from `GasFeeAssumption` (`SwqosTypes` lists no type twice).
`NeverUnset` and `KindsExclusive` speak of the map; what keeps them is in the calls
under way.  `Replaces`: in what is left of a call every deletion is followed by an
insertion for its pair.  `Cleared` and `Vacant`: before an insertion, the kinds it
excludes are deleted by the same call, now or already; the latter stays true only
while no other call works on the pair, which `contended` records.  That each setter
is built this way is shown once, for the sequences `set`, `ForTypes` and the tip and
price updates make, and their concatenations.

The assembly, from `AssemblyAssumption` (what a job consists of).  The invariant says for
each stage of a thread what it holds as a function of its job alone (`Before`, `After`),
with the contents of the builder it took from the pool left open, since `reset` comes
before the copy; that an entry of the cache serves every job with its key
(`CacheRight`); and that what was sent is the message of its job (`SentRight`).
`AlwaysSentAsAsked` and `NonceAlwaysFirst` follow from it and from two facts about
operators: without zero keys the client's places in a lookup table are the table's own
(`CompiledExecutes`), and any list of middlewares returns nothing or a list that begins as
its input did (`Applied`).  The latter is an induction along the list: the recursive
function `Chain` satisfies its equation (`ChainEquation`), and the least number of
middlewares for which the fact fails cannot exist (`LeastNatural`).

*NodeBotProofs*, the feed, from `NodeStoreAssumption` and `NodeFeedAssumption`.  `FeedInv` is
about what a callback remembers across its awaits: `ListedKnown` (a listed record
has its signature in Redis's set, or was pushed without SADD), `OverlapSeen` (two callbacks for one signature were
recorded as overlapping), `WritesAnew` (who is about to write what has been written
meanwhile overlaps, or writes what a cut pipeline left half stored), `RecordsFaithful` (the record is one of the fetched transaction)
and `MarkedInv`, stronger than `MarkedIsStored`: a callback that still fetches is no
excuse for a marked signature.  From it `FeedDuplicatesExplained`, `MarkedAreStored`,
`FeedStaysBounded`, and the refinement `FeedImplementsStore`, where only a pipeline,
whichever of its commands ran, is a step of `NodeStore`.

The strategy, from `NodeStrategyAssumption` and `RecorderAssumption` (undefined is no
position, a file that does not parse is no list) as well.  A crash replaces the maps in
memory by what the files hold, so `NodeInv` says of the files what it says of memory:

- `Numbered`: the ids of active positions, in memory and in the file, are distinct and
  were given out;
- `ClosedApart`: a closed trade is in neither, and the one `recordSell` is closing has
  left the map, then the file, before it is appended.  From both `TradesOpenOrClosed`;
- `AllRecorded`, for `TradesRecorded`, names the one trade that is in no list while
  `recordSell` writes;
- `Branches` and `OneCurrent`: the loop buys only tokens without an active position,
  and the only transaction whose call is not over is the one it waits for;
- `Covered`, for `PurchasesCovered`: tokens beyond the stray ones have a position or
  have just landed under the call, and after a sale has landed there are none.

*SdkClientProofs*, the wallet, from `TradeWalletAssumption` (requests and initial wallets
are well formed, nothing lies in the account that unwrapping uses, no token is called
like money).  What a transaction does is an induction over its instructions: the
recursive function `After` satisfies its equation (`AfterEquation`), and by
`LeastNatural` the second of two parts goes on from a wallet the first leaves
(`SecondPart`).  From then on only two rules are used, for one instruction and for
parts in sequence (`OneAchieves`, `BothAchieve`).

- `WsolNeverLeft`.  `Tidy`: from any wallet, with nothing in the account for unwrapping
  and, unless the request is to keep wrapped SOL, without the account for it, a
  transaction leaves such a wallet or fails.  Every builder's transaction is tidy
  (`BuildTidy`), and since this is said of any wallet it does not matter on which one it
  lands.  `WalletInv` says it of every transaction that was sent; it quantifies over all
  wallets, so TLC checks only its consequence `NoWsolLeft`.
- `PurchasesExecute` and `SalesExecute`, with `TradesBuilt` (a trade that was sent is what
  its builder makes of its request).  `PurchaseWorks` and `SaleWorks` follow the trade
  from instruction to instruction (the account is open, it holds what was wrapped, the
  token's is open, what is closed is empty): from every wallet with the funds none fails,
  unless Meteora's builder was given another token type than the pool's (`Misnamed`).

The start-up, from `SdkStartupAssumption`.  `ClientReady` has two parts.  `RentInv` follows
the order of the two fetches, `ChannelsInv` says what the infrastructure is once it is built (`Wired`)
and that nothing uses it before; that the cores are as many as the senders is an
argument on the cardinality of an interval.  `AbortInv`: between two attempts to
create an account, one that is there or can still land went unseen.

*ZeroCopyIoProofs*, from `ZeroCopyAssumption`.  `BlocksAccounted` is inductive once
every bit, block in hand and block of the program is one of an existing block
(`PoolTypeOK`).  Every action that moves a block either gets it in hand
(`GetsInHand`: the exchange, `deallocate`) or lets it go (`LetsGo`); the exchange
takes only a bit that is set, because it replaces the word it compared.
`AllocationAlwaysFinds` rests on `StillAhead`: a block that has been free since a scan
began lies in none of the words passed.  A scan that has made as many attempts as
there are words has passed all of them, wherever it began, which is a lemma on
residues (`AttemptsReachAll`).

`RingAlwaysDelivers`, from the same assumption.  `RingInvariant` relates positions to
counts: the reader's position is the number of values read modulo `Limit`, the
writer's that of values sent (`Positions`), and what is between them fits
(`RingBounds`).  The stores a copy has still to make are values at their places
(`StoresInPlace`), and every value not yet read is in its cell or among these stores
(`Contents`), unless a copy has spilled.  That two values that fit into the ring have
different cells is a lemma on residues.

*AmmCalcProofs*, from `AmmCalcAssumption`.  Divisions are used only through the bounds
of what they round to (`Quotient`, `Ceiling`).  Every venue's purchase and sale is an
instance of `Quoted`: part of the amount goes into the pool, and what is taken out
keeps the product of the reserves from falling.  `RoundTripLoses` is not inductive;
`AmmInv` relates the pool to the one it started as: its base and the trader's tokens,
its quote and the trader's money, are no more than at the beginning, and the product of
the reserves is no less.  Selling what is left then cannot take the quote reserve below
its start.  `SlippageAlwaysKept` and `QuotesAlwaysAgree` hold of every pool with
positive reserves that fit the word, which `AmmInv` gives (`PoolFits`) because the supplies of a
token and of money do.  What fits is not cut (`ModFits`); a share of a wrapped product is
no more than the tolerance says (`ShareBelow`), so that taking it off leaves enough
(`ShareOff`); and Raydium's float lies between two quotients (`RaydiumTolerance`).

Only model-checked:

- liveness (`CallReturns`, `SaleAttempted`, `RoundsGoOn`, `SendReturns`, `PingEnds`,
  `StartupEnds`): fairness and `ENABLED` are outside the prover's fragment.

## What is not modelled

- In the executor: `wait_tx_confirmed = false`, a missing RPC client (the bot uses
  neither) and `wait_for_success`, which no call of the bot reaches.  In the assembly:
  batches, which repeat the steps of one transaction, signing and prefetching, and two
  panics: over a nonce without its account (`nonce_manager.rs:19`) and over a message that
  does not compile (`transaction_pool.rs:96`).
- In the rings, the words that a read stores past the end of the caller's buffer
  (`zero_copy_io.rs:362`): they are outside of the ring, and what is delivered is the same.
- In the quotes, PumpFun's number for a small purchase moves no pool: it is compared with
  the quote it replaces (`QuotesAgree`).
- In the trader: pools with WSOL as base mint, address derivation, fees (they come
  out of the gas reserve), the saturating addition at u64::MAX, and Redis keys that are
  no mint address.
- f64 rounding of prices: they are exact.  Unused methods: `get_trades_in_window`,
  `calculate_price_change`, `should_sell`.
- Byte layouts, account lists and the pool lookups of `params.rs`: encodings and
  reads without state of their own.  Rents and percentages of balances in the
  wallet.
- The recorder's statistics, logging, HTTP headers and URLs, TLS configuration.
- `syscall_bypass`, `compiler_optimization`, `simd` (hints, vector instructions and
  counters nothing reads) and the four files of `perf/` that are not compiled;
  examples.

## Plan

Done: the modules and theorems above.  Next, in this order:

1. The composition of `TradingStrategy` with `SwqosExecutor` in place of the
   assumption that `SwapService` states.
