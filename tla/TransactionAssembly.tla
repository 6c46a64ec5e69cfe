------------------------- MODULE TransactionAssembly --------------------------
(***************************************************************************)
(* How the SDK turns the instructions of a swap into what a channel sends: *)
(* the middlewares, the nonce, the tip and the compute budget, the message *)
(* with its lookup table, and the encoded bytes.  The threads share a pool *)
(* of builders, a pool of buffers and a cache of budget instructions;      *)
(* every operation on one of them is a step.  Options are sets with at     *)
(* most one element.  An instruction names one account beside its program. *)
(***************************************************************************)
EXTENDS Integers, Sequences, FiniteSets

CONSTANTS
  Threads,                      \* callers of swap and worker threads
  Jobs,                         \* what swap may be asked for
  Accounts, ZeroKey,            \* account keys; the key of 32 zero bytes
  Hashes,                       \* blockhashes and nonces
  TX_BUILDER_POOL_CAP, TX_BUILDER_POOL_PREFILL,
  SERIALIZER_POOL_SIZE, SERIALIZER_PREWARM_BUFFERS,
  MaxJobs                       \* bound: jobs begun

VARIABLES
  builders,  \* TX_BUILDER_POOL: the instructions each idle builder holds
  buffers,   \* buffer_pool: what each idle buffer holds
  cache,     \* COMPUTE_BUDGET_CACHE
  thread,    \* thread[t]: its place and its local variables
  begun,     \* jobs begun so far
  sent       \* history: what was handed to a channel, with its job

vars == <<builders, buffers, cache, thread, begun, sent>>

Ix == [op: {"advance", "tip", "price", "limit", "swap", "memo"}, key: Accounts, amount: Nat]
Middleware == {"log", "memo", "clear", "fail"}
NonceInfo == [account: Accounts, current: SUBSET Hashes]

AtMostOne(option) == \A x, y \in option : x = y

ASSUME AssemblyAssumption ==
  /\ ZeroKey \in Accounts
  /\ TX_BUILDER_POOL_PREFILL \in 0..TX_BUILDER_POOL_CAP /\ TX_BUILDER_POOL_CAP \in Nat
  /\ SERIALIZER_PREWARM_BUFFERS \in Nat /\ SERIALIZER_POOL_SIZE \in Nat \ {0}
  /\ MaxJobs \in Nat
  /\ \A j \in Jobs :
       /\ j.business \in Seq(Ix) /\ j.middlewares \in Seq(Middleware)
       /\ j.tip_account \in Accounts /\ j.price \in Nat /\ j.limit \in Nat /\ j.tip \in Nat
       /\ {j.simulate, j.with_tip, j.rpc, j.default_fee} \subseteq BOOLEAN
       /\ j.nonce \subseteq NonceInfo /\ AtMostOne(j.nonce)
       /\ j.recent \subseteq Hashes /\ AtMostOne(j.recent)
       /\ (\A a \in j.table : a \in Seq(Accounts)) /\ AtMostOne(j.table)
       /\ j.encoding \in {"base58", "base64", "bincode", "other"}

Some(option) == CHOOSE x \in option : TRUE

(***************************************************************************)
(* Middlewares.  LoggingMiddleware is the built-in one; the others are     *)
(* what a program may add: append, remove all, or refuse.                  *)
(***************************************************************************)
Memo == [op |-> "memo", key |-> ZeroKey, amount |-> 0]

\* What one middleware makes of a list; an option, empty for an error.
process(m, instructions) ==
  CASE m = "log"   -> {instructions}
    [] m = "memo"  -> {Append(instructions, Memo)}
    [] m = "clear" -> {<<>>}
    [] m = "fail"  -> {}

\* What the first n of them make, one after the other; an error or an empty list
\* ends the chain.
Chain(ms, instructions) ==
  LET result[n \in 0..Len(ms)] ==
        IF n = 0 THEN [out |-> {instructions}, ends |-> FALSE]
        ELSE IF result[n - 1].ends THEN result[n - 1]
        ELSE LET out == process(ms[n], Some(result[n - 1].out))
             IN  [out |-> out, ends |-> out \in {{}, {<<>>}}]
  IN  result

apply_middlewares(ms, instructions) == Chain(ms, instructions)[Len(ms)].out

(***************************************************************************)
(* The parts of a transaction.                                             *)
(***************************************************************************)

\* A durable nonce is advanced by the transaction that uses it.  A nonce without
\* its account, over which the code panics, is no job of the model.
add_nonce_instruction(j) ==
  IF j.nonce = {} THEN <<>>
  ELSE <<[op |-> "advance", key |-> Some(j.nonce).account, amount |-> 0]>>

\* A simulation is built without its tip.
add_tip(j) ==
  IF j.with_tip /\ ~j.simulate /\ j.tip > 0
  THEN <<[op |-> "tip", key |-> j.tip_account, amount |-> j.tip]>> ELSE <<>>

compute_budget_instructions(j) ==
  (IF j.price > 0 THEN <<[op |-> "price", key |-> ZeroKey, amount |-> j.price]>> ELSE <<>>)
  \o (IF j.limit > 0 THEN <<[op |-> "limit", key |-> ZeroKey, amount |-> j.limit]>> ELSE <<>>)

\* Mutated form: the tip is put first.
Prologue_tip_first(j, budget) == add_tip(j) \o add_nonce_instruction(j) \o budget

\* The instructions before those of the swap, in the order they are pushed.
Prologue(j, budget) == add_nonce_instruction(j) \o add_tip(j) \o budget

\* An option, empty for an error.
get_transaction_blockhash(j) ==
  IF j.nonce # {} THEN Some(j.nonce).current ELSE j.recent

\* The addresses of a table as the client reads them, with their places: zero keys
\* are left out and not counted.
fetch_address_lookup_table_account(addresses) ==
  LET kept == {i \in DOMAIN addresses : addresses[i] # ZeroKey}
  IN  {<<Cardinality(kept \cap 1..i), addresses[i]>> : i \in kept}

\* The message: an account that is in the table is named by its place there.
Compile(instructions, table, hash) ==
  LET entries(key) == {e \in UNION {fetch_address_lookup_table_account(a) : a \in table} :
                         e[2] = key}
      name(key) == IF entries(key) = {} THEN <<"key", key>>
                   ELSE <<"table", Some(entries(key))[1]>>
  IN  [ixs |-> [i \in DOMAIN instructions |->
                  [op |-> instructions[i].op, amount |-> instructions[i].amount,
                   account |-> name(instructions[i].key)]],
       table |-> table, hash |-> hash]

\* The instructions the chain executes: places are those of the table itself.
Executed(message) ==
  [i \in DOMAIN message.ixs |->
     LET ix == message.ixs[i]
     IN  [op |-> ix.op, amount |-> ix.amount,
          key |-> IF ix.account[1] = "key" THEN ix.account[2]
                  ELSE Some(message.table)[ix.account[2]]]]

(***************************************************************************)
(* A thread's work.                                                        *)
(***************************************************************************)
Idle == [stage |-> "idle"]
At(t, stage) == thread[t].stage = stage
Goto(t, local) == thread' = [thread EXCEPT ![t] = local]
Fail(t) == Goto(t, Idle)

\* ArrayQueue: a push onto a full queue is dropped.
Push(queue, x, cap) == IF Len(queue) < cap THEN Append(queue, x) ELSE queue

\* The pools are filled at first use; a buffer more than fits is not made.
PrefilledBuilders == [i \in 1..TX_BUILDER_POOL_PREFILL |-> <<>>]
PrewarmCount ==
  IF SERIALIZER_PREWARM_BUFFERS < SERIALIZER_POOL_SIZE
  THEN SERIALIZER_PREWARM_BUFFERS ELSE SERIALIZER_POOL_SIZE
new_with_prewarm == [i \in 1..PrewarmCount |-> <<>>]

Init ==
  /\ builders = PrefilledBuilders /\ buffers = new_with_prewarm
  /\ cache = {} /\ thread = [t \in Threads |-> Idle]
  /\ begun = 0 /\ sent = {}

preprocess(instructions) == instructions # <<>>

\* A simulation needs RPC and takes the fee of the default channel.
Simulable(j) == j.rpc /\ j.default_fee

\* swap up to the submission or the simulation: the instructions of the protocol,
\* as the builder of the protocol made them, go through the middlewares.
swap(t, j) ==
  /\ At(t, "idle") /\ begun < MaxJobs /\ begun' = begun + 1
  /\ LET final == apply_middlewares(j.middlewares, j.business)
     IN  IF ~preprocess(j.business) \/ final = {} \/ (j.simulate /\ ~Simulable(j))
         THEN Fail(t)
         ELSE Goto(t, [stage |-> "budget", job |-> j, business |-> Some(final)])
  /\ UNCHANGED <<builders, buffers, cache, sent>>

BudgetKey(j) == <<j.price, j.limit>>
Cached(key) == {entry \in cache : entry.key = key}

\* Where the lookup in the cache leads: the budget's instructions follow the
\* nonce and the tip, the swap's own follow them.
Extend(t, budget, stage) ==
  LET local == thread[t]
  IN  Goto(t, [stage |-> stage, job |-> local.job,
               ixs |-> Prologue(local.job, budget) \o local.business])

BudgetHit(t) ==
  /\ At(t, "budget")
  /\ \E entry \in Cached(BudgetKey(thread[t].job)) : Extend(t, entry.ixs, "finish")
  /\ UNCHANGED <<builders, buffers, cache, begun, sent>>

BudgetMiss(t) ==
  /\ At(t, "budget") /\ Cached(BudgetKey(thread[t].job)) = {}
  /\ Extend(t, compute_budget_instructions(thread[t].job), "insert")
  /\ UNCHANGED <<builders, buffers, cache, begun, sent>>

\* DashMap::insert replaces what another thread has put there since.
BudgetInsert(t) ==
  /\ At(t, "insert")
  /\ LET key == BudgetKey(thread[t].job)
     IN  cache' = (cache \ Cached(key))
                    \cup {[key |-> key, ixs |-> compute_budget_instructions(thread[t].job)]}
  /\ Goto(t, [thread[t] EXCEPT !.stage = "finish"])
  /\ UNCHANGED <<builders, buffers, begun, sent>>

\* The blockhash, then the middlewares over the whole list; either may fail.
build_transaction(t) ==
  /\ At(t, "finish")
  /\ LET j    == thread[t].job
         full == apply_middlewares(j.middlewares, thread[t].ixs)
     IN  IF get_transaction_blockhash(j) = {} \/ full = {} THEN Fail(t)
         ELSE Goto(t, [stage |-> "acquire", job |-> j, ixs |-> Some(full),
                       hash |-> Some(get_transaction_blockhash(j))])
  /\ UNCHANGED <<builders, buffers, cache, begun, sent>>

\* A builder of the pool, or a new one when the pool is empty.
acquire_builder(t) ==
  /\ At(t, "acquire")
  /\ LET local == thread[t]
         empty == builders = <<>>
     IN  /\ Goto(t, [stage |-> "compile", job |-> local.job, ixs |-> local.ixs,
                     hash |-> local.hash, builder |-> IF empty THEN <<>> ELSE Head(builders)])
         /\ builders' = IF empty THEN builders ELSE Tail(builders)
  /\ UNCHANGED <<buffers, cache, begun, sent>>

\* Mutated form: what the builder held stays in it.
reset_keeps(builder) == builder

reset(builder) == <<>>

\* The builder copies the instructions behind what it holds and compiles them.  The
\* panic over a message that does not compile (more than 256 accounts) is left out.
build_zero_alloc(t) ==
  /\ At(t, "compile")
  /\ LET local == thread[t]
         built == reset(local.builder) \o local.ixs
     IN  Goto(t, [stage |-> "release", job |-> local.job, builder |-> built,
                  message |-> Compile(built, local.job.table, local.hash)])
  /\ UNCHANGED <<builders, buffers, cache, begun, sent>>

release_builder(t) ==
  /\ At(t, "release")
  /\ builders' = Push(builders, reset(thread[t].builder), TX_BUILDER_POOL_CAP)
  /\ Goto(t, [stage |-> IF thread[t].job.simulate THEN "simulate" ELSE "serialize",
              job |-> thread[t].job, message |-> thread[t].message])
  /\ UNCHANGED <<buffers, cache, begun, sent>>

\* The node runs the transaction, or refuses to; nothing is sent.
simulate_transaction(t) ==
  /\ At(t, "simulate") /\ Goto(t, Idle)
  /\ UNCHANGED <<builders, buffers, cache, begun, sent>>

\* A buffer of the pool or a new one is cleared and filled with the message.
serialize_zero_alloc(t) ==
  /\ At(t, "serialize")
  /\ Goto(t, [stage |-> "encode", job |-> thread[t].job, buffer |-> <<thread[t].message>>])
  /\ buffers' = IF buffers = <<>> THEN buffers ELSE Tail(buffers)
  /\ UNCHANGED <<builders, cache, begun, sent>>

\* Text is a copy of the buffer, which goes back before anything is sent.
serialize_transaction_sync(t) ==
  /\ At(t, "encode") /\ thread[t].job.encoding \in {"base58", "base64"}
  /\ Goto(t, [stage |-> "send", job |-> thread[t].job, bytes |-> thread[t].buffer])
  /\ buffers' = Push(buffers, thread[t].buffer, SERIALIZER_POOL_SIZE)
  /\ UNCHANGED <<builders, cache, begun, sent>>

\* Any other encoding is an error, and the buffer is lost to the pool.
EncodingFails(t) ==
  /\ At(t, "encode") /\ thread[t].job.encoding = "other"
  /\ Fail(t)
  /\ UNCHANGED <<builders, buffers, cache, begun, sent>>

\* The channel sends the text, or the bytes in the buffer itself, which its
\* guard keeps until the send is over.
send(t) ==
  /\ \/ At(t, "send")
     \/ At(t, "encode") /\ thread[t].job.encoding = "bincode"
  /\ LET text == At(t, "send")
     IN  /\ sent' = sent \cup {[job |-> thread[t].job,
                                bytes |-> IF text THEN thread[t].bytes ELSE thread[t].buffer]}
         /\ IF text THEN Goto(t, Idle) ELSE Goto(t, [thread[t] EXCEPT !.stage = "drop"])
  /\ UNCHANGED <<builders, buffers, cache, begun>>

\* PooledTxBufGuard::drop, after the send or because there was no connection to
\* send on: a buffer that holds something goes back.
DropGuard(t) ==
  /\ At(t, "drop") \/ (At(t, "encode") /\ thread[t].job.encoding = "bincode")
  /\ Goto(t, Idle)
  /\ buffers' = IF thread[t].buffer = <<>> THEN buffers
                ELSE Push(buffers, thread[t].buffer, SERIALIZER_POOL_SIZE)
  /\ UNCHANGED <<builders, cache, begun, sent>>

Next == \E t \in Threads :
  \/ \E j \in Jobs : swap(t, j)
  \/ BudgetHit(t) \/ BudgetMiss(t) \/ BudgetInsert(t) \/ build_transaction(t)
  \/ acquire_builder(t) \/ build_zero_alloc(t) \/ release_builder(t)
  \/ simulate_transaction(t) \/ serialize_zero_alloc(t)
  \/ serialize_transaction_sync(t) \/ EncodingFails(t) \/ send(t) \/ DropGuard(t)

Spec == Init /\ [][Next]_vars

(***************************************************************************)
(* Properties.                                                             *)
(***************************************************************************)

\* What a job asks for, worked out without any shared state.
Asked(j) ==
  Some(apply_middlewares(j.middlewares,
    Prologue(j, compute_budget_instructions(j)) \o Some(apply_middlewares(j.middlewares, j.business))))

\* What is sent is one message, and the chain executes exactly the instructions
\* its job asked for: nothing of another thread's job comes along in a builder,
\* a buffer or the cache.  A table with a zero key is the exception: the client
\* leaves it out and counts the entries behind it one short.
SentAsAsked ==
  \A s \in sent : (\A a \in s.job.table : ZeroKey \notin {a[i] : i \in DOMAIN a}) =>
    /\ Len(s.bytes) = 1
    /\ Executed(s.bytes[1]) = Asked(s.job)

\* The runtime takes a transaction for a durable one only if the advance of the
\* nonce comes first; it must then carry the nonce as its hash.  Middlewares that
\* append or refuse keep it so; one that empties the list leaves nothing.
NonceFirst ==
  \A s \in sent : s.job.nonce # {} /\ s.bytes[1].ixs # <<>> =>
    /\ s.bytes[1].ixs[1].op = "advance"
    /\ s.bytes[1].hash \in Some(s.job.nonce).current
=============================================================================
