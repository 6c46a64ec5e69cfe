---------------------------- MODULE SwqosExecutor ----------------------------
(***************************************************************************)
(* The submission pipeline of the SDK: GenericTradeExecutor::swap calls    *)
(* execute_parallel, which pushes one job per SWQOS channel onto a bounded *)
(* queue shared by all calls, wakes the workers, waits up to two seconds   *)
(* for the results of its jobs, and then polls the chain for a signature   *)
(* among the results it got.  Workers are shared by all calls and go on    *)
(* with the jobs of calls that have given up.                              *)
(*                                                                         *)
(* Elapsed time is not modelled: a wait with a timeout may time out at any *)
(* moment.  wait_for_success is unreachable (swap never asks for it).      *)
(***************************************************************************)
EXTENDS Integers, Sequences, FiniteSets

CONSTANTS
  Calls,          \* calls of swap: sequential or from several tasks
  Requests,       \* the kinds of calls: buy or sell, with a nonce, with a tip
  Channels,       \* pairs of a configured SWQOS client and a gas fee config
  Default,        \* the plain RPC channel
  NoJob,          \* a worker has no job
  Workers,        \* worker tasks of the pool
  QueueCap,       \* SWQOS_QUEUE_CAP
  PollsBeforeDetails, \* polls before get_transaction is asked (10)
  PollLimit           \* polls that fit into the confirmation timeout (15)

ASSUME ExecutorAssumption ==
  /\ IsFiniteSet(Calls) /\ IsFiniteSet(Workers) /\ Workers # {}
  /\ Requests \subseteq [buy: BOOLEAN, durable: BOOLEAN, with_tip: BOOLEAN]
  /\ IsFiniteSet(Channels)
  /\ QueueCap \in Nat \ {0}
  /\ PollsBeforeDetails \in Nat \ {0} /\ PollLimit \in Nat \ {0}

VARIABLES
  pc,         \* pc[c]: where the call is
  is_buy,     \* is_buy[c]
  nonce,      \* nonce[c]: durable_nonce is set
  tasks,      \* tasks[c]: channels of the call's jobs; total_tasks is their number
  todo,       \* todo[c]: channels whose job is not pushed yet
  results,    \* results[c]: channels whose TaskResult is in the collector
  completed,  \* completed[c]: completed_count
  sigs,       \* sigs[c]: channels whose signature get_first returned
  timed_out,  \* timed_out[c]: the wait ended without all results
  polls,      \* polls[c]: poll_count
  landed_sig, \* landed_sig[c]: at most one channel
  ok,         \* ok[c]: the success flag swap returned
  queue,      \* the shared ArrayQueue of jobs
  worker,     \* worker[w]: where the worker is
  job,        \* job[w]: the job it runs
  chain       \* chain[c][ch]: the fate of the job's transaction

callVars == <<pc, is_buy, nonce, tasks, todo, timed_out, sigs, polls, landed_sig, ok>>
collectorVars == <<results, completed>>
workVars == <<queue, worker, job>>
vars == <<callVars, collectorVars, workVars, chain>>

Jobs == [call: Calls, channel: Channels]

\* "processed" (with success) and "errored" can still be rolled back with their
\* fork; "confirmed" and "failed" are what becomes of them once confirmed.
Fates == {"unsent", "inflight", "processed", "errored", "confirmed", "failed", "expired"}

Init ==
  /\ pc = [c \in Calls |-> "idle"]
  /\ is_buy = [c \in Calls |-> FALSE] /\ nonce = [c \in Calls |-> FALSE]
  /\ tasks = [c \in Calls |-> {}] /\ todo = [c \in Calls |-> {}]
  /\ results = [c \in Calls |-> {}] /\ completed = [c \in Calls |-> 0]
  /\ sigs = [c \in Calls |-> {}] /\ timed_out = [c \in Calls |-> FALSE]
  /\ polls = [c \in Calls |-> 0] /\ landed_sig = [c \in Calls |-> {}]
  /\ ok = [c \in Calls |-> FALSE]
  /\ queue = <<>>
  /\ worker = [w \in Workers |-> "loop"]
  /\ job = [w \in Workers |-> NoJob]
  /\ chain = [c \in Calls |-> [ch \in Channels |-> "unsent"]]

At(c, from, to) == pc[c] = from /\ pc' = [pc EXCEPT ![c] = to]

(***************************************************************************)
(* The caller.                                                             *)
(***************************************************************************)

\* Mutated form: several channels are accepted for a buy without a nonce.
swap_no_nonce_check(c, buy, durable, with_tip, configured) ==
  LET usable == {ch \in configured : buy \/ with_tip \/ ch = Default}
  IN  /\ pc[c] = "idle"
      /\ pc' = [pc EXCEPT ![c] = IF usable = {} THEN "done" ELSE "push"]
      /\ is_buy' = [is_buy EXCEPT ![c] = buy]
      /\ nonce' = [nonce EXCEPT ![c] = durable]
      /\ tasks' = [tasks EXCEPT ![c] = usable]
      /\ todo' = [todo EXCEPT ![c] = usable]
      /\ UNCHANGED <<sigs, timed_out, polls, landed_sig, ok, collectorVars, workVars, chain>>

\* swap up to the first push.  A buy always pays the tip; without tip only the
\* Default channel is used.  No usable channel, and a buy over several channels
\* without a durable nonce, are errors; an error in building the instructions
\* has the same effect as no channel.
swap(c, buy, durable, with_tip, configured) ==
  LET usable == {ch \in configured : buy \/ with_tip \/ ch = Default}
      refused == usable = {} \/ (buy /\ ~durable /\ \E a, b \in usable : a # b)
  IN  /\ pc[c] = "idle"
      /\ pc' = [pc EXCEPT ![c] = IF refused THEN "done" ELSE "push"]
      /\ is_buy' = [is_buy EXCEPT ![c] = buy]
      /\ nonce' = [nonce EXCEPT ![c] = durable]
      /\ tasks' = [tasks EXCEPT ![c] = IF refused THEN {} ELSE usable]
      /\ todo' = [todo EXCEPT ![c] = IF refused THEN {} ELSE usable]
      /\ UNCHANGED <<sigs, timed_out, polls, landed_sig, ok, collectorVars, workVars, chain>>

\* queue.push: the error of a full queue is ignored and the job is dropped.
PushJob(c) ==
  /\ pc[c] = "push"
  /\ \E ch \in todo[c] :
       /\ todo' = [todo EXCEPT ![c] = @ \ {ch}]
       /\ queue' = IF Len(queue) < QueueCap
                   THEN Append(queue, [call |-> c, channel |-> ch]) ELSE queue
  /\ UNCHANGED <<pc, is_buy, nonce, tasks, sigs, timed_out, polls, landed_sig, ok,
                 collectorVars, worker, job, chain>>

\* get_tip_account fails: the call returns in the middle of the loop, without
\* waking anybody for the jobs it has already pushed.
TipAccountFails(c) ==
  /\ todo[c] # {}
  /\ At(c, "push", "done")
  /\ UNCHANGED <<is_buy, nonce, tasks, todo, sigs, timed_out, polls, landed_sig, ok,
                 collectorVars, workVars, chain>>

\* notify_waiters wakes the workers that wait now and leaves no permit.
NotifyWaiters(c) ==
  /\ todo[c] = {}
  /\ At(c, "push", "wait")
  /\ worker' = [w \in Workers |-> IF worker[w] = "waiting" THEN "loop" ELSE worker[w]]
  /\ UNCHANGED <<is_buy, nonce, tasks, todo, sigs, timed_out, polls, landed_sig, ok,
                 collectorVars, queue, job, chain>>

\* Mutated form: the wait for the results has no timeout.
wait_for_all_submitted_forever(c) ==
  /\ completed[c] >= Cardinality(tasks[c])
  /\ At(c, "wait", IF results[c] = {} THEN "done" ELSE "poll")
  /\ sigs' = [sigs EXCEPT ![c] = results[c]]
  /\ results' = [results EXCEPT ![c] = {}]
  /\ UNCHANGED <<is_buy, nonce, tasks, todo, timed_out, polls, landed_sig, ok, completed,
                 workVars, chain>>

\* wait_for_all_submitted: all results are counted, or the time is up; then
\* get_first drains what the collector holds.  Nothing to poll is an error.
wait_for_all_submitted(c) ==
  /\ timed_out' = [timed_out EXCEPT ![c] = completed[c] < Cardinality(tasks[c])]
  /\ At(c, "wait", IF results[c] = {} THEN "done" ELSE "poll")
  /\ sigs' = [sigs EXCEPT ![c] = results[c]]
  /\ results' = [results EXCEPT ![c] = {}]
  /\ UNCHANGED <<is_buy, nonce, tasks, todo, polls, landed_sig, ok, completed, workVars, chain>>

Return(c, success) ==
  /\ At(c, "poll", "done")
  /\ ok' = [ok EXCEPT ![c] = success]
  /\ UNCHANGED <<is_buy, nonce, tasks, todo, sigs, timed_out, polls, landed_sig,
                 collectorVars, workVars, chain>>

\* Mutated form: any status without an error is taken for a confirmation.
PollConfirmed_any_status(c) ==
  /\ polls[c] < PollLimit
  /\ \E ch \in sigs[c] : chain[c][ch] \in {"processed", "confirmed"}
  /\ Return(c, TRUE)

\* One iteration of poll_any_transaction_confirmation: a signature is confirmed,
\* without an error.
PollConfirmed(c) ==
  /\ polls[c] < PollLimit
  /\ \E ch \in sigs[c] : chain[c][ch] = "confirmed"
  /\ Return(c, TRUE)

\* None is, and the first signature that has a status is remembered.  After
\* PollsBeforeDetails polls get_transaction is asked for the remembered one:
\* it is not found (yet), or it answers with the transaction and its error.
PollAgain(c) ==
  LET known == {ch \in sigs[c] : chain[c][ch] \in {"processed", "errored", "failed"}}
  IN  /\ pc[c] = "poll" /\ polls[c] < PollLimit
      /\ \A ch \in sigs[c] : chain[c][ch] # "confirmed"
      /\ polls' = [polls EXCEPT ![c] = @ + 1]
      /\ \/ landed_sig[c] # {} /\ UNCHANGED landed_sig
         \/ landed_sig[c] = {} /\ known = {} /\ UNCHANGED landed_sig
         \/ /\ landed_sig[c] = {}
            /\ \E ch \in known : landed_sig' = [landed_sig EXCEPT ![c] = {ch}]
      /\ UNCHANGED <<pc, is_buy, nonce, tasks, todo, sigs, timed_out, ok,
                     collectorVars, workVars, chain>>

GetTransaction(c) ==
  /\ polls[c] >= PollsBeforeDetails
  /\ \E ch \in landed_sig[c] :
       /\ chain[c][ch] \in {"confirmed", "failed"}
       /\ Return(c, chain[c][ch] = "confirmed")

\* The time is up, or get_signature_statuses fails.
PollFails(c) == Return(c, FALSE)

CallStep(c) ==
  \/ PushJob(c) \/ TipAccountFails(c) \/ NotifyWaiters(c)
  \/ wait_for_all_submitted(c)
  \/ PollConfirmed(c) \/ PollAgain(c) \/ GetTransaction(c) \/ PollFails(c)

(***************************************************************************)
(* The workers.                                                            *)
(***************************************************************************)
Works(w, from, to) == worker[w] = from /\ worker' = [worker EXCEPT ![w] = to]

PopJob(w) ==
  /\ queue # <<>>
  /\ Works(w, "loop", "build")
  /\ job' = [job EXCEPT ![w] = Head(queue)]
  /\ queue' = Tail(queue)
  /\ UNCHANGED <<callVars, collectorVars, chain>>

\* pop returned None; the worker is not a waiter yet.
PopNothing(w) ==
  /\ queue = <<>>
  /\ Works(w, "loop", "empty")
  /\ UNCHANGED <<callVars, collectorVars, queue, job, chain>>

AwaitNotified(w) ==
  /\ Works(w, "empty", "waiting")
  /\ UNCHANGED <<callVars, collectorVars, queue, job, chain>>

\* build_transaction: its error goes to the collector as a result.
build_transaction(w) ==
  /\ \/ Works(w, "build", "send")
     \/ Works(w, "build", "push")
  /\ UNCHANGED <<callVars, collectorVars, queue, job, chain>>

\* send_transaction: an error does not say whether the transaction got out.
send_transaction(w) ==
  /\ Works(w, "send", "push")
  /\ \/ UNCHANGED chain
     \/ chain' = [chain EXCEPT ![job[w].call][job[w].channel] = "inflight"]
  /\ UNCHANGED <<callVars, collectorVars, queue, job>>

\* Mutated form: the result is counted before it is pushed.
submit_count_first(w) ==
  \/ /\ Works(w, "push", "count")
     /\ completed' = [completed EXCEPT ![job[w].call] = @ + 1]
     /\ UNCHANGED <<callVars, results, queue, job, chain>>
  \/ /\ Works(w, "count", "loop")
     /\ results' = [results EXCEPT ![job[w].call] = @ \cup {job[w].channel}]
     /\ job' = [job EXCEPT ![w] = NoJob]
     /\ UNCHANGED <<callVars, completed, queue, chain>>

\* ResultCollector::submit: the result is pushed, then counted.
submit(w) ==
  \/ /\ Works(w, "push", "count")
     /\ results' = [results EXCEPT ![job[w].call] = @ \cup {job[w].channel}]
     /\ UNCHANGED <<callVars, completed, queue, job, chain>>
  \/ /\ Works(w, "count", "loop")
     /\ completed' = [completed EXCEPT ![job[w].call] = @ + 1]
     /\ job' = [job EXCEPT ![w] = NoJob]
     /\ UNCHANGED <<callVars, results, queue, chain>>

WorkerStep(w) ==
  \/ PopJob(w) \/ PopNothing(w) \/ AwaitNotified(w)
  \/ build_transaction(w) \/ send_transaction(w) \/ submit(w)

(***************************************************************************)
(* The chain.  The transactions of a call with a durable nonce exclude each*)
(* other: the first to land, even one that fails, uses the nonce up.       *)
(***************************************************************************)
NonceUsed(c) ==
  nonce[c] /\ \E ch \in Channels : chain[c][ch] \in {"processed", "errored", "confirmed", "failed"}

Fate(c, ch, from, to) ==
  /\ chain[c][ch] = from
  /\ chain' = [chain EXCEPT ![c][ch] = to]
  /\ UNCHANGED <<callVars, collectorVars, workVars>>

ChainStep(c, ch) ==
  \/ ~NonceUsed(c) /\ Fate(c, ch, "inflight", "processed")
  \/ ~NonceUsed(c) /\ Fate(c, ch, "inflight", "errored")
  \/ Fate(c, ch, "inflight", "expired")
  \/ Fate(c, ch, "processed", "confirmed")
  \/ Fate(c, ch, "errored", "failed")
  \/ Fate(c, ch, "processed", "inflight")     \* its fork is abandoned
  \/ Fate(c, ch, "errored", "inflight")

Next ==
  \/ \E c \in Calls, r \in Requests, configured \in SUBSET Channels :
        swap(c, r.buy, r.durable, r.with_tip, configured)
  \/ \E c \in Calls : CallStep(c)
  \/ \E w \in Workers : WorkerStep(w)
  \/ \E c \in Calls, ch \in Channels : ChainStep(c, ch)

\* Tasks and threads are scheduled again and again; sleeps and RPC calls end.
Spec == /\ Init /\ [][Next]_vars
        /\ \A c \in Calls : WF_vars(CallStep(c))
        /\ \A w \in Workers : WF_vars(WorkerStep(w))

(***************************************************************************)
(* Properties.                                                             *)
(***************************************************************************)

\* A call that stops waiting because everything is counted has every result,
\* whatever the workers' interleaving: submit pushes before it counts.
AllCollected ==
  \A c \in Calls : pc[c] = "poll" /\ ~timed_out[c] => sigs[c] = tasks[c]

\* A buy executes at most once, over however many channels it is sent and also
\* after its call has returned: several channels need a durable nonce.
OneBuyExecutes ==
  \A c \in Calls : is_buy[c] =>
    \A a, b \in Channels : chain[c][a] = "confirmed" /\ chain[c][b] = "confirmed" => a = b

\* Every call returns: neither a full queue, nor a lost wakeup, nor a slow
\* channel can hold it, because both of its waits have a timeout.
CallReturns == \A c \in Calls : pc[c] # "idle" ~> pc[c] = "done"

\* The refinement mapping: what the caller sees, and what the chain has done.
ServiceOutcome ==
  [c \in Calls |-> IF pc[c] = "idle" THEN "idle"
                   ELSE IF pc[c] # "done" THEN "pending"
                   ELSE IF ok[c] THEN "ok" ELSE "err"]
ServiceExecuted == [c \in Calls |-> \E ch \in Channels : chain[c][ch] = "confirmed"]
Service == INSTANCE SwapService WITH outcome <- ServiceOutcome, executed <- ServiceExecuted

\* The executor implements SwapService: success is only reported for a swap
\* that is confirmed without error, whatever was collected, dropped or left in
\* the queue by other calls.
ImplementsSwapService == Service!Spec
=============================================================================
