------------------------- MODULE SwqosExecutorProofs -------------------------
(***************************************************************************)
(* Proofs about SwqosExecutor for every number of calls, channels, workers,*)
(* every queue capacity and every timeout: a buy executes at most once,    *)
(* the executor implements SwapService, and a wait that ends because       *)
(* everything is counted has every result.                                 *)
(***************************************************************************)
EXTENDS SwqosExecutor, SequenceTheorems, FiniteSetTheorems, TLAPS

Busy == {"build", "send", "push", "count"}
Unsent == {"build", "send"}

\* The types the proof needs; the bound of completed_count is not one of them.
ExecTypes ==
  /\ pc \in [Calls -> {"idle", "push", "wait", "poll", "done"}]
  /\ is_buy \in [Calls -> BOOLEAN] /\ nonce \in [Calls -> BOOLEAN]
  /\ tasks \in [Calls -> SUBSET Channels] /\ todo \in [Calls -> SUBSET Channels]
  /\ results \in [Calls -> SUBSET Channels] /\ sigs \in [Calls -> SUBSET Channels]
  /\ landed_sig \in [Calls -> SUBSET Channels]
  /\ ok \in [Calls -> BOOLEAN]
  /\ queue \in Seq(Jobs)
  /\ worker \in [Workers -> {"loop", "empty", "waiting", "build", "send", "push", "count"}]
  /\ job \in [Workers -> Jobs \cup {NoJob}]
  /\ \A w \in Workers : worker[w] \in Busy => job[w] \in Jobs
  /\ chain \in [Calls -> [Channels -> Fates]]

\* What is queued, run or sent belongs to the tasks of a call that has begun.
OwnTasks ==
  /\ \A c \in Calls : pc[c] = "idle" => tasks[c] = {}
  /\ \A c \in Calls : todo[c] \subseteq tasks[c]
  /\ \A i \in 1..Len(queue) : queue[i].channel \in tasks[queue[i].call]
  /\ \A w \in Workers : worker[w] \in Busy => job[w].channel \in tasks[job[w].call]
  /\ \A c \in Calls, ch \in Channels : chain[c][ch] # "unsent" => ch \in tasks[c]

\* A job is in one place until it is sent, and it is sent once.
SentOnce ==
  /\ \A c \in Calls : \A ch \in todo[c] :
       /\ chain[c][ch] = "unsent"
       /\ \A i \in 1..Len(queue) : queue[i] # [call |-> c, channel |-> ch]
       /\ \A w \in Workers : worker[w] \in Unsent => job[w] # [call |-> c, channel |-> ch]
  /\ \A i \in 1..Len(queue) :
       /\ chain[queue[i].call][queue[i].channel] = "unsent"
       /\ \A w \in Workers : worker[w] \in Unsent => job[w] # queue[i]
       /\ \A k \in 1..Len(queue) : queue[i] = queue[k] => i = k
  /\ \A w \in Workers : worker[w] \in Unsent =>
       /\ chain[job[w].call][job[w].channel] = "unsent"
       /\ \A v \in Workers : worker[v] \in Unsent /\ job[v] = job[w] => v = w

\* A buy without a nonce has one task; a nonce lets one transaction land.
Exclusive ==
  \A c \in Calls :
    /\ is_buy[c] /\ ~nonce[c] => \A a, b \in tasks[c] : a = b
    /\ nonce[c] => \A a, b \in Channels :
         /\ chain[c][a] \in {"processed", "errored", "confirmed", "failed"}
         /\ chain[c][b] \in {"processed", "errored", "confirmed", "failed"}
         => a = b

NotYetOk == \A c \in Calls : pc[c] # "done" => ~ok[c]

ExecInv == ExecTypes /\ OwnTasks /\ SentOnce /\ Exclusive /\ NotYetOk

USE DEF Busy, Unsent

LEMMA ExecInvInit == Init => ExecInv
BY ExecutorAssumption
   DEF Init, ExecInv, ExecTypes, OwnTasks, SentOnce, Exclusive, NotYetOk, Fates

LEMMA QueuedJobs ==
  ASSUME ExecInv
  PROVE  \A i \in 1..Len(queue) : /\ queue[i] \in Jobs
                                   /\ queue[i].call \in Calls
                                   /\ queue[i].channel \in Channels
<1>1. queue \in Seq(Jobs)  BY DEF ExecInv, ExecTypes
<1>2. \A i \in 1..Len(queue) : queue[i] \in Jobs  BY <1>1, ElementOfSeq
<1>3. QED  BY <1>2 DEF Jobs

\* Steps of a call that leave the queue, the workers and the chain alone.
ReturningStep(c) ==
  \/ TipAccountFails(c) \/ wait_for_all_submitted(c)
  \/ PollConfirmed(c) \/ PollAgain(c) \/ GetTransaction(c) \/ PollFails(c)

LEMMA ReturningInv ==
  ASSUME ExecInv, NEW c \in Calls, ReturningStep(c)
  PROVE  ExecInv'
<1> USE DEF ExecInv
<1>1. /\ UNCHANGED <<is_buy, nonce, tasks, todo, queue, worker, job, chain>>
      /\ pc' \in [Calls -> {"idle", "push", "wait", "poll", "done"}]
      /\ \A d \in Calls : pc'[d] = "idle" => pc[d] = "idle"
      /\ \A d \in Calls : pc'[d] # "done" => ~ok'[d]
      /\ ok' \in [Calls -> BOOLEAN]
      /\ results' \in [Calls -> SUBSET Channels] /\ sigs' \in [Calls -> SUBSET Channels]
      /\ landed_sig' \in [Calls -> SUBSET Channels]
  <2> USE DEF ExecTypes, NotYetOk, At, Return, callVars, collectorVars, workVars
  <2>1. CASE TipAccountFails(c)  BY <2>1 DEF TipAccountFails
  <2>2. CASE wait_for_all_submitted(c)  BY <2>2 DEF wait_for_all_submitted
  <2>3. CASE PollConfirmed(c)  BY <2>3 DEF PollConfirmed
  <2>4. CASE PollAgain(c)
    <3>1. landed_sig' = landed_sig \/ \E ch \in sigs[c] : landed_sig' = [landed_sig EXCEPT ![c] = {ch}]
      BY <2>4 DEF PollAgain
    <3>2. landed_sig' \in [Calls -> SUBSET Channels]
      <4>1. CASE landed_sig' = landed_sig  BY <4>1
      <4>2. ASSUME NEW ch \in sigs[c], landed_sig' = [landed_sig EXCEPT ![c] = {ch}]
            PROVE  landed_sig' \in [Calls -> SUBSET Channels]
        <5>1. {ch} \in SUBSET Channels  OBVIOUS
        <5>2. QED  BY <4>2, <5>1
      <4>3. QED  BY <3>1, <4>1, <4>2
    <3>3. UNCHANGED <<pc, is_buy, nonce, tasks, todo, sigs, ok, results, queue, worker, job, chain>>
      BY <2>4 DEF PollAgain
    <3>4. QED  BY <3>2, <3>3
  <2>5. CASE GetTransaction(c)
    <3>1. PICK ch \in landed_sig[c] : Return(c, chain[c][ch] = "confirmed")
      BY <2>5 DEF GetTransaction
    <3>2. (chain[c][ch] = "confirmed") \in BOOLEAN
      OBVIOUS
    <3>3. QED  BY <3>1, <3>2
  <2>6. CASE PollFails(c)  BY <2>6 DEF PollFails
  <2>7. QED  BY <2>1, <2>2, <2>3, <2>4, <2>5, <2>6 DEF ReturningStep
<1>2. ExecTypes'  BY <1>1 DEF ExecTypes
<1>3. OwnTasks'  BY <1>1 DEF OwnTasks
<1>4. SentOnce' /\ Exclusive'  BY <1>1 DEF SentOnce, Exclusive
<1>5. NotYetOk'  BY <1>1 DEF NotYetOk
<1>6. QED  BY <1>2, <1>3, <1>4, <1>5

LEMMA SwapInv ==
  ASSUME ExecInv, NEW c \in Calls, NEW buy \in BOOLEAN, NEW durable \in BOOLEAN,
         NEW with_tip \in BOOLEAN, NEW configured \in SUBSET Channels,
         swap(c, buy, durable, with_tip, configured)
  PROVE  ExecInv'
<1> DEFINE usable == {ch \in configured : buy \/ with_tip \/ ch = Default}
           refused == usable = {} \/ (buy /\ ~durable /\ \E a, b \in usable : a # b)
           set == IF refused THEN {} ELSE usable
<1> USE DEF ExecInv
<1>1. /\ pc[c] = "idle" /\ pc' = [pc EXCEPT ![c] = IF refused THEN "done" ELSE "push"]
      /\ is_buy' = [is_buy EXCEPT ![c] = buy] /\ nonce' = [nonce EXCEPT ![c] = durable]
      /\ tasks' = [tasks EXCEPT ![c] = set] /\ todo' = [todo EXCEPT ![c] = set]
      /\ UNCHANGED <<sigs, landed_sig, ok, results, queue, worker, job, chain>>
  BY DEF swap, collectorVars, workVars
<1>2. set \in SUBSET Channels /\ (buy /\ ~durable => \A a, b \in set : a = b)
  OBVIOUS
<1>3. tasks[c] = {} /\ \A ch \in Channels : chain[c][ch] = "unsent"
  BY <1>1 DEF OwnTasks
<1> HIDE DEF usable, refused, set
<1>4. ExecTypes'
  BY <1>1, <1>2 DEF ExecTypes
<1>5. OwnTasks'
  <2>1. \A d \in Calls : tasks[d] \subseteq tasks'[d]
    BY <1>1, <1>3 DEF ExecTypes
  <2>2. \A d \in Calls : pc'[d] = "idle" => tasks'[d] = {}
    BY <1>1 DEF OwnTasks, ExecTypes
  <2>3. \A d \in Calls : todo'[d] \subseteq tasks'[d]
    BY <1>1 DEF OwnTasks, ExecTypes
  <2>4. \A i \in 1..Len(queue) : queue[i].channel \in tasks'[queue[i].call]
    <3>1. \A i \in 1..Len(queue) : queue[i].call \in Calls
      BY QueuedJobs
    <3>2. QED  BY <2>1, <3>1 DEF OwnTasks
  <2>5. \A w \in Workers : worker[w] \in Busy => job[w].channel \in tasks'[job[w].call]
    BY <2>1 DEF OwnTasks, ExecTypes, Jobs
  <2>6. QED  BY <1>1, <2>1, <2>2, <2>3, <2>4, <2>5 DEF OwnTasks
<1>6. SentOnce'
  <2>1. \A i \in 1..Len(queue) : queue[i].call # c
    BY <1>3 DEF OwnTasks
  <2>2. \A w \in Workers : worker[w] \in Unsent => job[w].call # c
    BY <1>3 DEF OwnTasks
  <2>3. ASSUME NEW d \in Calls, NEW ch \in todo'[d]
        PROVE  /\ chain[d][ch] = "unsent"
               /\ \A i \in 1..Len(queue) : queue[i] # [call |-> d, channel |-> ch]
               /\ \A w \in Workers : worker[w] \in Unsent => job[w] # [call |-> d, channel |-> ch]
    <3>1. CASE d = c
      BY <1>1, <1>2, <1>3, <2>1, <2>2, <2>3, <3>1 DEF ExecTypes
    <3>2. CASE d # c
      BY <1>1, <2>3, <3>2 DEF SentOnce, ExecTypes
    <3>3. QED  BY <3>1, <3>2
  <2>4. QED  BY <1>1, <2>3 DEF SentOnce
<1>7. Exclusive'
  BY <1>1, <1>2, <1>3 DEF Exclusive, ExecTypes
<1>8. NotYetOk'
  BY <1>1 DEF NotYetOk, ExecTypes
<1>9. QED  BY <1>4, <1>5, <1>6, <1>7, <1>8

\* queue.push, and the silent drop when the queue is full.
LEMMA PushInv ==
  ASSUME ExecInv, NEW c \in Calls, PushJob(c)
  PROVE  ExecInv'
<1> USE DEF ExecInv
<1>1. PICK ch \in todo[c] :
        /\ todo' = [todo EXCEPT ![c] = todo[c] \ {ch}]
        /\ queue' = IF Len(queue) < QueueCap
                    THEN Append(queue, [call |-> c, channel |-> ch]) ELSE queue
  BY DEF PushJob
<1>2. UNCHANGED <<pc, is_buy, nonce, tasks, sigs, landed_sig, ok, results, worker, job, chain>>
  BY DEF PushJob, collectorVars
<1> DEFINE j == [call |-> c, channel |-> ch]
<1>3. /\ j \in Jobs /\ j.call = c /\ j.channel = ch /\ ch \in Channels
      /\ ch \in tasks[c] /\ chain[c][ch] = "unsent"
      /\ \A i \in 1..Len(queue) : queue[i] # j
      /\ \A w \in Workers : worker[w] \in Unsent => job[w] # j
  BY <1>1 DEF Jobs, ExecTypes, OwnTasks, SentOnce
<1>4. /\ todo' \in [Calls -> SUBSET Channels]
      /\ \A d \in Calls : todo'[d] \subseteq todo[d]
      /\ ch \notin todo'[c]
  BY <1>1 DEF ExecTypes
<1>5. CASE queue' = queue
  <2>1. ExecTypes' /\ OwnTasks' /\ SentOnce' /\ Exclusive' /\ NotYetOk'
    BY <1>2, <1>4, <1>5 DEF ExecTypes, OwnTasks, SentOnce, Exclusive, NotYetOk
  <2>2. QED  BY <2>1
<1>6. CASE queue' = Append(queue, j)
  <2> HIDE DEF j
  <2>1. /\ queue \in Seq(Jobs) /\ Len(queue) \in Nat
        /\ queue' \in Seq(Jobs) /\ Len(queue') = Len(queue) + 1
        /\ \A i \in 1..Len(queue) : queue'[i] = queue[i]
        /\ queue'[Len(queue) + 1] = j
    BY <1>3, <1>6, AppendProperties, LenProperties DEF ExecTypes
  <2>2. \A i \in 1..Len(queue') : i \in 1..Len(queue) \/ (i = Len(queue) + 1 /\ queue'[i] = j)
    BY <2>1
  <2>3. ExecTypes'
    BY <1>2, <1>4, <2>1 DEF ExecTypes
  <2>4. OwnTasks'
    <3>1. \A i \in 1..Len(queue') : queue'[i].channel \in tasks[queue'[i].call]
      BY <1>3, <2>1, <2>2 DEF OwnTasks
    <3>2. QED  BY <1>2, <1>4, <3>1 DEF OwnTasks
  <2>5. SentOnce'
    <3>1. ASSUME NEW d \in Calls, NEW e \in todo'[d], NEW i \in 1..Len(queue')
          PROVE  queue'[i] # [call |-> d, channel |-> e]
      <4>1. CASE i \in 1..Len(queue)
        BY <1>4, <2>1, <3>1, <4>1 DEF SentOnce
      <4>2. CASE queue'[i] = j
        BY <1>3, <1>4, <3>1, <4>2
      <4>3. QED  BY <2>2, <4>1, <4>2
    <3>2. ASSUME NEW i \in 1..Len(queue')
          PROVE  /\ chain[queue'[i].call][queue'[i].channel] = "unsent"
                 /\ \A w \in Workers : worker[w] \in Unsent => job[w] # queue'[i]
      <4>1. CASE i \in 1..Len(queue)
        BY <2>1, <4>1 DEF SentOnce
      <4>2. CASE queue'[i] = j
        BY <1>3, <4>2
      <4>3. QED  BY <2>2, <4>1, <4>2
    <3>3. \A i, k \in 1..Len(queue') : queue'[i] = queue'[k] => i = k
      BY <1>3, <2>1, <2>2 DEF SentOnce
    <3>4. QED  BY <1>2, <1>4, <3>1, <3>2, <3>3 DEF SentOnce
  <2>6. Exclusive' /\ NotYetOk'
    BY <1>2 DEF Exclusive, NotYetOk
  <2>7. QED  BY <2>3, <2>4, <2>5, <2>6
<1>7. QED  BY <1>1, <1>5, <1>6

\* queue.pop by a worker.
LEMMA PopInv ==
  ASSUME ExecInv, NEW w \in Workers, PopJob(w)
  PROVE  ExecInv'
<1> USE DEF ExecInv
<1>1. /\ queue # <<>> /\ worker[w] = "loop" /\ worker' = [worker EXCEPT ![w] = "build"]
      /\ job' = [job EXCEPT ![w] = Head(queue)] /\ queue' = Tail(queue)
      /\ UNCHANGED <<pc, is_buy, nonce, tasks, todo, sigs, landed_sig, ok, results, chain>>
  BY DEF PopJob, Works, callVars, collectorVars
<1>2. /\ queue \in Seq(Jobs) /\ Len(queue) \in Nat /\ Len(queue) >= 1
      /\ Head(queue) = queue[1] /\ queue' \in Seq(Jobs)
      /\ Len(queue') = Len(queue) - 1
      /\ \A i \in 1..Len(queue') : queue'[i] = queue[i + 1]
  BY <1>1, HeadTailProperties, EmptySeq, LenProperties DEF ExecTypes
<1>3. 1 \in 1..Len(queue) /\ \A i \in 1..Len(queue') : i + 1 \in 1..Len(queue) /\ i + 1 # 1
  BY <1>2
<1>4. /\ queue[1] \in Jobs /\ queue[1].channel \in tasks[queue[1].call]
      /\ chain[queue[1].call][queue[1].channel] = "unsent"
  BY <1>3, QueuedJobs DEF OwnTasks, SentOnce
<1>5. ExecTypes'
  BY <1>1, <1>2, <1>4 DEF ExecTypes
<1>6. OwnTasks'
  BY <1>1, <1>2, <1>3, <1>4 DEF OwnTasks, ExecTypes
<1>7. SentOnce'
  <2>1. \A v \in Workers : worker'[v] \in Unsent =>
           \/ v # w /\ worker[v] \in Unsent /\ job'[v] = job[v]
           \/ v = w /\ job'[v] = queue[1]
    BY <1>1, <1>2 DEF ExecTypes
  <2>2. ASSUME NEW c \in Calls, NEW ch \in todo[c]
        PROVE  /\ chain[c][ch] = "unsent"
               /\ \A i \in 1..Len(queue') : queue'[i] # [call |-> c, channel |-> ch]
               /\ \A v \in Workers : worker'[v] \in Unsent => job'[v] # [call |-> c, channel |-> ch]
    BY <1>2, <1>3, <2>1 DEF SentOnce
  <2>3. ASSUME NEW i \in 1..Len(queue')
        PROVE  /\ chain[queue'[i].call][queue'[i].channel] = "unsent"
               /\ \A v \in Workers : worker'[v] \in Unsent => job'[v] # queue'[i]
    <3>1. queue'[i] = queue[i + 1] /\ i + 1 \in 1..Len(queue) /\ i + 1 # 1
      BY <1>2, <1>3
    <3>2. /\ chain[queue[i + 1].call][queue[i + 1].channel] = "unsent"
          /\ \A v \in Workers : worker[v] \in Unsent => job[v] # queue[i + 1]
          /\ queue[1] # queue[i + 1]
      BY <1>3, <3>1 DEF SentOnce
    <3>3. QED  BY <2>1, <3>1, <3>2
  <2>4. \A i, k \in 1..Len(queue') : queue'[i] = queue'[k] => i = k
    <3> SUFFICES ASSUME NEW i \in 1..Len(queue'), NEW k \in 1..Len(queue'), queue'[i] = queue'[k]
                 PROVE  i = k
      OBVIOUS
    <3>1. i + 1 = k + 1
      BY <1>2, <1>3 DEF SentOnce
    <3>2. QED  BY <3>1
  <2>5. ASSUME NEW v \in Workers, worker'[v] \in Unsent
        PROVE  /\ chain[job'[v].call][job'[v].channel] = "unsent"
               /\ \A u \in Workers : worker'[u] \in Unsent /\ job'[u] = job'[v] => u = v
    BY <1>3, <1>4, <2>1, <2>5 DEF SentOnce
  <2>6. QED  BY <1>1, <2>2, <2>3, <2>4, <2>5 DEF SentOnce
<1>8. Exclusive' /\ NotYetOk'
  BY <1>1 DEF Exclusive, NotYetOk
<1>9. QED  BY <1>5, <1>6, <1>7, <1>8

\* The other steps of a worker, and notify_waiters.
LEMMA WakeInv ==
  ASSUME ExecInv, NEW c \in Calls, NotifyWaiters(c)
  PROVE  ExecInv'
<1> USE DEF ExecInv
<1>1. /\ pc' = [pc EXCEPT ![c] = "wait"] /\ pc[c] = "push"
      /\ worker' = [w \in Workers |-> IF worker[w] = "waiting" THEN "loop" ELSE worker[w]]
      /\ UNCHANGED <<is_buy, nonce, tasks, todo, sigs, landed_sig, ok, results, queue, job, chain>>
  BY DEF NotifyWaiters, At, collectorVars
<1>2. /\ worker' \in [Workers -> {"loop", "empty", "waiting", "build", "send", "push", "count"}]
      /\ \A w \in Workers : worker'[w] \in Busy => worker[w] = worker'[w]
  BY <1>1 DEF ExecTypes
<1>3. ExecTypes'  BY <1>1, <1>2 DEF ExecTypes
<1>4. OwnTasks'  BY <1>1, <1>2 DEF OwnTasks, ExecTypes
<1>5. SentOnce'  BY <1>1, <1>2 DEF SentOnce
<1>6. Exclusive' /\ NotYetOk'  BY <1>1 DEF Exclusive, NotYetOk, ExecTypes
<1>7. QED  BY <1>3, <1>4, <1>5, <1>6

IdleOrSubmit(w) ==
  PopNothing(w) \/ AwaitNotified(w) \/ build_transaction(w) \/ submit(w)

LEMMA WorkerInv ==
  ASSUME ExecInv, NEW w \in Workers, IdleOrSubmit(w)
  PROVE  ExecInv'
<1> USE DEF ExecInv
<1>1. /\ UNCHANGED <<pc, is_buy, nonce, tasks, todo, sigs, landed_sig, ok, queue, chain>>
      /\ worker' \in [Workers -> {"loop", "empty", "waiting", "build", "send", "push", "count"}]
      /\ job' \in [Workers -> Jobs \cup {NoJob}]
      /\ results' \in [Calls -> SUBSET Channels]
      /\ \A v \in Workers : worker'[v] \in Busy => worker[v] \in Busy /\ job'[v] = job[v]
      /\ \A v \in Workers : worker'[v] \in Unsent => worker[v] \in Unsent
  <2> USE DEF ExecTypes, Works, callVars, collectorVars
  <2>1. CASE PopNothing(w)  BY <2>1 DEF PopNothing
  <2>2. CASE AwaitNotified(w)  BY <2>2 DEF AwaitNotified
  <2>3. CASE build_transaction(w)  BY <2>3 DEF build_transaction
  <2>4. CASE submit(w)
    <3>1. worker[w] \in Busy /\ job[w] \in Jobs /\ job[w].call \in Calls /\ job[w].channel \in Channels
      BY <2>4 DEF submit, Jobs
    <3> DEFINE c == job[w].call
               more == results[c] \cup {job[w].channel}
    <3>2. more \in SUBSET Channels
      BY <3>1
    <3>3. \/ results' = [results EXCEPT ![c] = more] /\ worker' = [worker EXCEPT ![w] = "count"]
             /\ UNCHANGED job
          \/ UNCHANGED results /\ worker' = [worker EXCEPT ![w] = "loop"]
             /\ job' = [job EXCEPT ![w] = NoJob]
      BY <2>4 DEF submit
    <3>4. UNCHANGED <<pc, is_buy, nonce, tasks, todo, sigs, landed_sig, ok, queue, chain>>
      BY <2>4 DEF submit
    <3> HIDE DEF c, more
    <3>5. QED  BY <3>1, <3>2, <3>3, <3>4
  <2>5. QED  BY <2>1, <2>2, <2>3, <2>4 DEF IdleOrSubmit
<1>2. ExecTypes'  BY <1>1 DEF ExecTypes
<1>3. OwnTasks'  BY <1>1 DEF OwnTasks
<1>4. SentOnce'  BY <1>1 DEF SentOnce
<1>5. Exclusive' /\ NotYetOk'  BY <1>1 DEF Exclusive, NotYetOk
<1>6. QED  BY <1>2, <1>3, <1>4, <1>5

\* send_transaction puts the transaction of a job that was unsent into flight.
LEMMA SendInv ==
  ASSUME ExecInv, NEW w \in Workers, send_transaction(w)
  PROVE  ExecInv'
<1> USE DEF ExecInv
<1> DEFINE c == job[w].call
           ch == job[w].channel
<1>1. /\ worker[w] = "send" /\ worker' = [worker EXCEPT ![w] = "push"]
      /\ chain' = chain \/ chain' = [chain EXCEPT ![c][ch] = "inflight"]
      /\ UNCHANGED <<pc, is_buy, nonce, tasks, todo, sigs, landed_sig, ok, results, queue, job>>
  BY DEF send_transaction, Works, callVars, collectorVars
<1>2. job[w] \in Jobs /\ c \in Calls /\ ch \in Channels /\ ch \in tasks[c] /\ chain[c][ch] = "unsent"
      /\ job[w] = [call |-> c, channel |-> ch]
  BY <1>1 DEF ExecTypes, Jobs, OwnTasks, SentOnce
<1> HIDE DEF c, ch
<1>3. /\ chain' \in [Calls -> [Channels -> Fates]]
      /\ \A d \in Calls, e \in Channels :
           chain'[d][e] = chain[d][e] \/ (d = c /\ e = ch /\ chain'[d][e] = "inflight")
  <2> USE DEF ExecTypes
  <2>1. CASE chain' = chain  BY <2>1
  <2>2. CASE chain' = [chain EXCEPT ![c][ch] = "inflight"]
    <3>1. "inflight" \in Fates  BY DEF Fates
    <3>2. QED  BY <1>2, <2>2, <3>1
  <2>3. QED  BY <1>1, <2>1, <2>2
<1>4. /\ worker' \in [Workers -> {"loop", "empty", "waiting", "build", "send", "push", "count"}]
      /\ \A v \in Workers : worker'[v] \in Busy => worker[v] \in Busy
      /\ \A v \in Workers : worker'[v] \in Unsent => worker[v] \in Unsent /\ v # w
  BY <1>1 DEF ExecTypes
<1>5. ExecTypes'
  BY <1>1, <1>3, <1>4 DEF ExecTypes
<1>6. OwnTasks'
  BY <1>1, <1>2, <1>3, <1>4 DEF OwnTasks
<1>7. SentOnce'
  <2>1. ASSUME NEW d \in Calls, NEW e \in todo[d]
        PROVE  /\ chain'[d][e] = "unsent"
               /\ \A i \in 1..Len(queue) : queue[i] # [call |-> d, channel |-> e]
               /\ \A v \in Workers : worker'[v] \in Unsent => job[v] # [call |-> d, channel |-> e]
    <3>1. e \in Channels /\ chain[d][e] = "unsent" /\ job[w] # [call |-> d, channel |-> e]
      <4>1. e \in Channels  BY <2>1 DEF ExecTypes
      <4>2. worker[w] \in Unsent  BY <1>1
      <4>3. QED  BY <2>1, <4>1, <4>2 DEF SentOnce
    <3>2. chain'[d][e] = "unsent"
      BY <1>2, <1>3, <3>1
    <3>3. QED  BY <1>4, <2>1, <3>2 DEF SentOnce
  <2>2. ASSUME NEW i \in 1..Len(queue)
        PROVE  /\ chain'[queue[i].call][queue[i].channel] = "unsent"
               /\ \A v \in Workers : worker'[v] \in Unsent => job[v] # queue[i]
    <3>1. /\ queue[i] \in Jobs /\ queue[i].call \in Calls /\ queue[i].channel \in Channels
          /\ chain[queue[i].call][queue[i].channel] = "unsent" /\ job[w] # queue[i]
      BY <1>1, QueuedJobs DEF SentOnce
    <3>2. ~(queue[i].call = c /\ queue[i].channel = ch)
      BY <1>2, <3>1 DEF Jobs
    <3>3. QED  BY <1>3, <1>4, <3>1, <3>2 DEF SentOnce
  <2>3. ASSUME NEW v \in Workers, worker'[v] \in Unsent
        PROVE  /\ chain'[job[v].call][job[v].channel] = "unsent"
               /\ \A u \in Workers : worker'[u] \in Unsent /\ job[u] = job[v] => u = v
    <3>1. /\ v # w /\ worker[v] \in Unsent /\ job[v] \in Jobs /\ job[v] # job[w]
          /\ chain[job[v].call][job[v].channel] = "unsent"
      BY <1>1, <1>4, <2>3 DEF SentOnce, ExecTypes
    <3>2. ~(job[v].call = c /\ job[v].channel = ch)
      BY <1>2, <3>1 DEF Jobs
    <3>3. chain'[job[v].call][job[v].channel] = "unsent"
      BY <1>3, <3>1, <3>2 DEF Jobs
    <3>4. QED  BY <1>4, <3>1, <3>3 DEF SentOnce
  <2>4. QED  BY <1>1, <2>1, <2>2, <2>3 DEF SentOnce
<1>8. Exclusive'
  BY <1>1, <1>3 DEF Exclusive
<1>9. NotYetOk'
  BY <1>1 DEF NotYetOk
<1>10. QED  BY <1>5, <1>6, <1>7, <1>8, <1>9

\* What the network does to a transaction: one that landed stays exclusive.
LEMMA ChainInv ==
  ASSUME ExecInv, NEW c \in Calls, NEW ch \in Channels, ChainStep(c, ch)
  PROVE  ExecInv'
<1> USE DEF ExecInv
<1>1. PICK to \in Fates :
        /\ chain[c][ch] # "unsent" /\ to # "unsent"
        /\ chain' = [chain EXCEPT ![c][ch] = to]
        /\ to \in {"processed", "errored", "confirmed", "failed"} =>
              chain[c][ch] \in {"processed", "errored", "confirmed", "failed"} \/ ~NonceUsed(c)
  BY DEF ChainStep, Fate, Fates
<1>2. UNCHANGED <<callVars, collectorVars, workVars>>
  BY DEF ChainStep, Fate
<1>3. /\ chain' \in [Calls -> [Channels -> Fates]]
      /\ chain'[c][ch] = to
      /\ \A d \in Calls, e \in Channels : chain'[d][e] = chain[d][e] \/ (d = c /\ e = ch)
      /\ \A d \in Calls, e \in Channels : chain'[d][e] = "unsent" <=> chain[d][e] = "unsent"
  BY <1>1 DEF ExecTypes
<1> USE DEF callVars, collectorVars, workVars
<1>4. ExecTypes'  BY <1>2, <1>3 DEF ExecTypes
<1>5. OwnTasks'  BY <1>2, <1>3 DEF OwnTasks
<1>6. SentOnce'
  <2>1. \A i \in 1..Len(queue) : queue[i].call \in Calls /\ queue[i].channel \in Channels
    BY QueuedJobs
  <2>2. \A w \in Workers : worker[w] \in Unsent => job[w].call \in Calls /\ job[w].channel \in Channels
    BY DEF ExecTypes, Jobs
  <2>3. \A d \in Calls : todo[d] \subseteq Channels
    BY DEF ExecTypes
  <2>4. QED  BY <1>2, <1>3, <2>1, <2>2, <2>3 DEF SentOnce
<1>7. Exclusive'
  <2>1. nonce[c] /\ to \in {"processed", "errored", "confirmed", "failed"} =>
          \A a \in Channels : chain[c][a] \in {"processed", "errored", "confirmed", "failed"} => a = ch
    BY <1>1 DEF NonceUsed, Exclusive
  <2>2. QED  BY <1>2, <1>3, <2>1 DEF Exclusive
<1>8. NotYetOk'  BY <1>2 DEF NotYetOk
<1>9. QED  BY <1>4, <1>5, <1>6, <1>7, <1>8

LEMMA ExecInvNext == ExecInv /\ [Next]_vars => ExecInv'
<1> SUFFICES ASSUME ExecInv, [Next]_vars PROVE ExecInv'
  OBVIOUS
<1>1. CASE \E c \in Calls, r \in Requests, configured \in SUBSET Channels :
             swap(c, r.buy, r.durable, r.with_tip, configured)
  <2>1. PICK c \in Calls, r \in Requests, configured \in SUBSET Channels :
          swap(c, r.buy, r.durable, r.with_tip, configured)
    BY <1>1
  <2>2. r.buy \in BOOLEAN /\ r.durable \in BOOLEAN /\ r.with_tip \in BOOLEAN
    BY ExecutorAssumption
  <2>3. QED  BY <2>1, <2>2, SwapInv
<1>2. CASE \E c \in Calls : CallStep(c)
  BY <1>2, PushInv, WakeInv, ReturningInv DEF CallStep, ReturningStep
<1>3. CASE \E w \in Workers : WorkerStep(w)
  BY <1>3, PopInv, SendInv, WorkerInv DEF WorkerStep, IdleOrSubmit
<1>4. CASE \E c \in Calls, ch \in Channels : ChainStep(c, ch)
  BY <1>4, ChainInv
<1>5. CASE UNCHANGED vars
  BY <1>5 DEF vars, callVars, collectorVars, workVars, ExecInv, ExecTypes, OwnTasks, SentOnce,
     Exclusive, NotYetOk
<1>6. QED  BY <1>1, <1>2, <1>3, <1>4, <1>5 DEF Next

(***************************************************************************)
(* Theorems.                                                               *)
(***************************************************************************)

\* The strengthening of the properties of swap and the worker pool: a job is
\* in one place until it is sent, and what is sent belongs to its call.
THEOREM ExecInvariant == Spec => []ExecInv
BY ExecInvInit, ExecInvNext, PTL DEF Spec

\* A buy executes at most once, whatever the channels, the workers and the
\* losses in the queue: swap asks for a nonce when there are several channels.
THEOREM OneBuy == Spec => []OneBuyExecutes
<1>1. ExecInv => OneBuyExecutes
  <2> SUFFICES ASSUME ExecInv, NEW c \in Calls, is_buy[c], NEW a \in Channels, NEW b \in Channels,
                      chain[c][a] = "confirmed", chain[c][b] = "confirmed"
               PROVE  a = b
    BY DEF OneBuyExecutes
  <2>1. CASE nonce[c]
    BY <2>1 DEF ExecInv, Exclusive
  <2>2. CASE ~nonce[c]
    BY <2>2 DEF ExecInv, Exclusive, OwnTasks
  <2>3. QED  BY <2>1, <2>2
<1>2. QED  BY <1>1, ExecInvariant, PTL

LEMMA OutcomeValue ==
  \A c \in Calls : ServiceOutcome[c] = IF pc[c] = "idle" THEN "idle"
                                       ELSE IF pc[c] # "done" THEN "pending"
                                       ELSE IF ok[c] THEN "ok" ELSE "err"
BY DEF ServiceOutcome

\* swap, and the steps of a call that only move pc, ok and its own records.
LEMMA SwapImplements ==
  ASSUME ExecInv, NEW c \in Calls, NEW buy \in BOOLEAN, NEW durable \in BOOLEAN,
         NEW with_tip \in BOOLEAN, NEW configured \in SUBSET Channels,
         swap(c, buy, durable, with_tip, configured)
  PROVE  Service!Next
<1>1. /\ pc[c] = "idle" /\ UNCHANGED <<ok, chain>>
      /\ pc' = [pc EXCEPT ![c] = "done"] \/ pc' = [pc EXCEPT ![c] = "push"]
  BY DEF swap
<1>2. pc \in [Calls -> {"idle", "push", "wait", "poll", "done"}] /\ ok[c] = FALSE
  BY <1>1 DEF ExecInv, ExecTypes, NotYetOk
<1>3. ServiceExecuted' = ServiceExecuted
  BY <1>1 DEF ServiceExecuted
<1>4. ServiceOutcome[c] = "idle"
  BY <1>1 DEF ServiceOutcome
<1>5. CASE pc' = [pc EXCEPT ![c] = "done"]
  <2>1. ServiceOutcome' = [ServiceOutcome EXCEPT ![c] = "err"]
    BY <1>1, <1>2, <1>5 DEF ServiceOutcome
  <2>2. QED  BY <1>3, <1>4, <2>1 DEF Service!Next, Service!Refuse
<1>6. CASE pc' = [pc EXCEPT ![c] = "push"]
  <2>1. ServiceOutcome' = [ServiceOutcome EXCEPT ![c] = "pending"]
    BY <1>1, <1>2, <1>6 DEF ServiceOutcome
  <2>2. QED  BY <1>3, <1>4, <2>1 DEF Service!Next, Service!Begin
<1>7. QED  BY <1>1, <1>5, <1>6

\* A call that returns reports success only for a confirmed transaction.
LEMMA ReturnImplements ==
  ASSUME ExecInv, NEW c \in Calls, ReturningStep(c)
  PROVE  Service!Next \/ UNCHANGED <<ServiceOutcome, ServiceExecuted>>
<1>1. UNCHANGED chain
  BY DEF ReturningStep, TipAccountFails, wait_for_all_submitted, PollConfirmed, PollAgain,
         GetTransaction, PollFails, Return
<1>2. ServiceExecuted' = ServiceExecuted
  BY <1>1 DEF ServiceExecuted
<1>3. /\ pc \in [Calls -> {"idle", "push", "wait", "poll", "done"}]
      /\ ok \in [Calls -> BOOLEAN]
      /\ sigs[c] \subseteq Channels /\ landed_sig[c] \subseteq Channels
      /\ pc[c] # "done" => ok[c] = FALSE
  BY DEF ExecInv, ExecTypes, NotYetOk
<1>4. ASSUME pc[c] \notin {"idle", "done"}, pc' = [pc EXCEPT ![c] = "done"], UNCHANGED ok
      PROVE  Service!Next
  <2>1. ServiceOutcome[c] = "pending"
    BY <1>4 DEF ServiceOutcome
  <2>2. ServiceOutcome' = [ServiceOutcome EXCEPT ![c] = "err"]
    BY <1>3, <1>4 DEF ServiceOutcome
  <2>3. QED  BY <1>2, <2>1, <2>2 DEF Service!Next, Service!Fail
<1>5. ASSUME NEW success \in BOOLEAN, Return(c, success), success => ServiceExecuted[c]
      PROVE  Service!Next
  <2>1. /\ pc[c] = "poll" /\ pc' = [pc EXCEPT ![c] = "done"]
        /\ ok' = [ok EXCEPT ![c] = success]
    BY <1>5 DEF Return, At
  <2>2. ServiceOutcome[c] = "pending"
    BY <2>1 DEF ServiceOutcome
  <2>3. CASE success = TRUE
    <3>1. ServiceOutcome' = [ServiceOutcome EXCEPT ![c] = "ok"]
      BY <1>3, <2>1, <2>3 DEF ServiceOutcome
    <3>2. QED  BY <1>2, <1>5, <2>2, <2>3, <3>1 DEF Service!Next, Service!Succeed
  <2>4. CASE success = FALSE
    <3>1. ServiceOutcome' = [ServiceOutcome EXCEPT ![c] = "err"]
      BY <1>3, <2>1, <2>4 DEF ServiceOutcome
    <3>2. QED  BY <1>2, <2>2, <3>1 DEF Service!Next, Service!Fail
  <2>5. QED  BY <2>3, <2>4
<1>6. CASE TipAccountFails(c)
  BY <1>4, <1>6 DEF TipAccountFails, At
<1>7. CASE wait_for_all_submitted(c)
  <2>1. /\ pc[c] = "wait" /\ UNCHANGED ok
        /\ pc' = [pc EXCEPT ![c] = "done"] \/ pc' = [pc EXCEPT ![c] = "poll"]
    BY <1>7 DEF wait_for_all_submitted, At
  <2>2. CASE pc' = [pc EXCEPT ![c] = "poll"]
    <3>1. ServiceOutcome' = ServiceOutcome
      BY <1>3, <2>1, <2>2 DEF ServiceOutcome
    <3>2. QED  BY <1>2, <3>1
  <2>3. QED  BY <1>4, <2>1, <2>2
<1>8. CASE PollConfirmed(c)
  <2>1. ServiceExecuted[c]
    BY <1>3, <1>8 DEF PollConfirmed, ServiceExecuted
  <2>2. QED  BY <1>5, <1>8, <2>1 DEF PollConfirmed
<1>9. CASE PollAgain(c)
  <2>1. UNCHANGED <<pc, ok>>
    BY <1>9 DEF PollAgain
  <2>2. ServiceOutcome' = ServiceOutcome
    BY <2>1 DEF ServiceOutcome
  <2>3. QED  BY <1>2, <2>2
<1>10. CASE GetTransaction(c)
  <2>1. PICK ch \in landed_sig[c] : Return(c, chain[c][ch] = "confirmed")
    BY <1>10 DEF GetTransaction
  <2>2. (chain[c][ch] = "confirmed") \in BOOLEAN
    OBVIOUS
  <2>3. chain[c][ch] = "confirmed" => ServiceExecuted[c]
    BY <1>3, <2>1 DEF ServiceExecuted
  <2>4. QED  BY <1>5, <2>1, <2>2, <2>3
<1>11. CASE PollFails(c)
  BY <1>5, <1>11 DEF PollFails
<1>12. QED
  BY <1>6, <1>7, <1>8, <1>9, <1>10, <1>11 DEF ReturningStep

\* What the network does is visible when a call's first transaction is final.
LEMMA ChainImplements ==
  ASSUME ExecInv, NEW c \in Calls, NEW ch \in Channels, ChainStep(c, ch)
  PROVE  Service!Next \/ UNCHANGED <<ServiceOutcome, ServiceExecuted>>
<1>1. PICK to \in Fates :
        /\ chain[c][ch] \in {"inflight", "processed", "errored"}
        /\ chain' = [chain EXCEPT ![c][ch] = to]
  BY DEF ChainStep, Fate, Fates
<1>2. UNCHANGED <<pc, ok>>
  BY DEF ChainStep, Fate, callVars
<1>3. ServiceOutcome' = ServiceOutcome
  BY <1>2 DEF ServiceOutcome
<1>4. chain \in [Calls -> [Channels -> Fates]]
  BY DEF ExecInv, ExecTypes
<1>5. ServiceOutcome[c] \in {"pending", "ok", "err"}
  <2>1. pc[c] # "idle"
    BY <1>1 DEF ExecInv, OwnTasks
  <2>2. QED  BY <2>1, OutcomeValue
<1>6. CASE to = "confirmed"
  <2>1. \A d \in Calls : ServiceExecuted'[d] = IF d = c THEN TRUE ELSE ServiceExecuted[d]
    BY <1>1, <1>4, <1>6 DEF ServiceExecuted
  <2>2. ServiceExecuted' = [ServiceExecuted EXCEPT ![c] = TRUE]
    BY <2>1 DEF ServiceExecuted
  <2>3. CASE ServiceExecuted[c] = TRUE
    <3>1. ServiceExecuted' = ServiceExecuted
      BY <2>1, <2>3 DEF ServiceExecuted
    <3>2. QED  BY <1>3, <3>1
  <2>4. CASE ServiceExecuted[c] = FALSE
    BY <1>3, <1>5, <2>2, <2>4 DEF Service!Next, Service!Execute
  <2>5. QED  BY <2>3, <2>4 DEF ServiceExecuted
<1>7. CASE to # "confirmed"
  <2>1. \A d \in Calls, e \in Channels : chain'[d][e] = "confirmed" <=> chain[d][e] = "confirmed"
    BY <1>1, <1>4, <1>7
  <2>2. ServiceExecuted' = ServiceExecuted
    BY <2>1 DEF ServiceExecuted
  <2>3. QED  BY <1>3, <2>2
<1>8. QED  BY <1>6, <1>7

\* Pushing, waking, and what the workers do is invisible to the caller.
LEMMA Invisible ==
  ASSUME ExecInv,
         (\E c \in Calls : PushJob(c) \/ NotifyWaiters(c)) \/ (\E w \in Workers : WorkerStep(w))
  PROVE  UNCHANGED <<ServiceOutcome, ServiceExecuted>>
<1>1. ASSUME UNCHANGED <<pc, ok, chain>>
      PROVE  UNCHANGED <<ServiceOutcome, ServiceExecuted>>
  BY <1>1 DEF ServiceOutcome, ServiceExecuted
<1>2. ASSUME NEW c \in Calls, PushJob(c)
      PROVE  UNCHANGED <<ServiceOutcome, ServiceExecuted>>
  BY <1>1, <1>2 DEF PushJob
<1>3. ASSUME NEW c \in Calls, NotifyWaiters(c)
      PROVE  UNCHANGED <<ServiceOutcome, ServiceExecuted>>
  <2>1. pc[c] = "push" /\ pc' = [pc EXCEPT ![c] = "wait"] /\ UNCHANGED <<ok, chain>>
    BY <1>3 DEF NotifyWaiters, At
  <2>2. ServiceOutcome' = ServiceOutcome
    BY <2>1 DEF ServiceOutcome, ExecInv, ExecTypes
  <2>3. QED  BY <2>1, <2>2 DEF ServiceExecuted
<1>4. ASSUME NEW w \in Workers, send_transaction(w)
      PROVE  UNCHANGED <<ServiceOutcome, ServiceExecuted>>
  <2> DEFINE c == job[w].call
             ch == job[w].channel
  <2>1. /\ worker[w] = "send" /\ UNCHANGED <<pc, ok>>
        /\ chain' = chain \/ chain' = [chain EXCEPT ![c][ch] = "inflight"]
    BY <1>4 DEF send_transaction, Works, callVars
  <2>2. c \in Calls /\ ch \in Channels /\ chain[c][ch] = "unsent"
    BY <2>1 DEF ExecInv, ExecTypes, SentOnce, Jobs
  <2>3. chain \in [Calls -> [Channels -> Fates]]
    BY DEF ExecInv, ExecTypes
  <2> HIDE DEF c, ch
  <2>4. \A d \in Calls, e \in Channels : chain'[d][e] = "confirmed" <=> chain[d][e] = "confirmed"
    BY <2>1, <2>2, <2>3
  <2>5. ServiceExecuted' = ServiceExecuted
    BY <2>4 DEF ServiceExecuted
  <2>6. ServiceOutcome' = ServiceOutcome
    BY <2>1 DEF ServiceOutcome
  <2>7. QED  BY <2>5, <2>6
<1>5. ASSUME NEW w \in Workers, PopJob(w) \/ IdleOrSubmit(w)
      PROVE  UNCHANGED <<ServiceOutcome, ServiceExecuted>>
  BY <1>1, <1>5 DEF PopJob, IdleOrSubmit, PopNothing, AwaitNotified, build_transaction, submit,
     callVars
<1>6. QED  BY <1>2, <1>3, <1>4, <1>5 DEF WorkerStep, IdleOrSubmit

\* swap, execute_parallel, the worker pool and the confirmation poll together
\* implement SwapService: a success is reported only for an executed swap.
THEOREM Implements == Spec => ImplementsSwapService
<1>1. Init => Service!Init
  BY DEF Init, Service!Init, ServiceOutcome, ServiceExecuted
<1>2. ExecInv /\ [Next]_vars => [Service!Next]_<<ServiceOutcome, ServiceExecuted>>
  <2> SUFFICES ASSUME ExecInv, [Next]_vars
               PROVE  Service!Next \/ UNCHANGED <<ServiceOutcome, ServiceExecuted>>
    OBVIOUS
  <2>1. CASE \E c \in Calls, r \in Requests, configured \in SUBSET Channels :
               swap(c, r.buy, r.durable, r.with_tip, configured)
    <3>1. PICK c \in Calls, r \in Requests, configured \in SUBSET Channels :
            swap(c, r.buy, r.durable, r.with_tip, configured)
      BY <2>1
    <3>2. r.buy \in BOOLEAN /\ r.durable \in BOOLEAN /\ r.with_tip \in BOOLEAN
      BY ExecutorAssumption
    <3>3. QED  BY <3>1, <3>2, SwapImplements
  <2>2. CASE \E c \in Calls : CallStep(c)
    BY <2>2, Invisible, ReturnImplements DEF CallStep, ReturningStep
  <2>3. CASE \E w \in Workers : WorkerStep(w)
    BY <2>3, Invisible
  <2>4. CASE \E c \in Calls, ch \in Channels : ChainStep(c, ch)
    BY <2>4, ChainImplements
  <2>5. CASE UNCHANGED vars
    BY <2>5 DEF vars, callVars, ServiceOutcome, ServiceExecuted
  <2>6. QED  BY <2>1, <2>2, <2>3, <2>4, <2>5 DEF Next
<1>3. QED
  BY <1>1, <1>2, ExecInvariant, PTL DEF Spec, ImplementsSwapService, Service!Spec

(***************************************************************************)
(* The results.  completed_count is a number and says nothing of which     *)
(* results it counts.  The invariant says that it is the number of some    *)
(* set of results that were pushed and whose jobs are over; that set can   *)
(* only be as large as the set of tasks when it is that set.               *)
(***************************************************************************)
Early(c) == pc[c] \in {"idle", "push", "wait"}
Is(j, c, ch) == j.call = c /\ j.channel = ch

\* A job is to be pushed, queued, or with a worker until it is counted, and in
\* one of these places only.
JobsApart ==
  /\ \A c \in Calls : \A ch \in todo[c] :
       /\ \A i \in 1..Len(queue) : ~Is(queue[i], c, ch)
       /\ \A w \in Workers : worker[w] \in Busy => ~Is(job[w], c, ch)
  /\ \A i \in 1..Len(queue) :
       /\ \A k \in 1..Len(queue) : Is(queue[k], queue[i].call, queue[i].channel) => k = i
       /\ \A w \in Workers : worker[w] \in Busy => ~Is(job[w], queue[i].call, queue[i].channel)
  /\ \A v, w \in Workers : worker[v] \in Busy /\ worker[w] \in Busy
                             /\ Is(job[v], job[w].call, job[w].channel) => v = w

\* None of the channels in D has a job of call c left.
Over(c, D) ==
  /\ \A ch \in D : ch \notin todo[c]
  /\ \A i \in 1..Len(queue) : queue[i].call = c => queue[i].channel \notin D
  /\ \A w \in Workers : worker[w] \in Busy /\ job[w].call = c => job[w].channel \notin D

Counts(c, D) == D \subseteq results[c] /\ completed[c] = Cardinality(D) /\ Over(c, D)

Counted ==
  /\ \A c \in Calls : results[c] \subseteq tasks[c]
  /\ \A c \in Calls : Early(c) => \E D \in SUBSET Channels : Counts(c, D)
  /\ \A w \in Workers : worker[w] = "count" /\ Early(job[w].call)
                          => job[w].channel \in results[job[w].call]
  /\ completed \in [Calls -> Nat] /\ timed_out \in [Calls -> BOOLEAN]

CollectInv == JobsApart /\ Counted /\ AllCollected

LEMMA CollectInvInit == Init => CollectInv
<1> SUFFICES ASSUME Init PROVE CollectInv
  OBVIOUS
<1>1. JobsApart
  <2>1. 1..Len(queue) = {}
    <3>1. Len(queue) = 0
      BY EmptySeq DEF Init
    <3>2. QED  BY <3>1
  <2>2. \A w \in Workers : worker[w] \notin Busy
    BY DEF Init, Busy
  <2>3. \A c \in Calls : todo[c] = {}
    BY DEF Init
  <2>4. QED  BY <2>1, <2>2, <2>3 DEF JobsApart
<1>2. \A c \in Calls : Counts(c, {})
  <2>1. Cardinality({}) = 0
    BY FS_EmptySet
  <2>2. \A c \in Calls : Over(c, {})
    BY DEF Over
  <2>3. QED  BY <2>1, <2>2 DEF Counts, Init
<1>3. \A c \in Calls : \E D \in SUBSET Channels : Counts(c, D)
  <2>1. {} \in SUBSET Channels
    OBVIOUS
  <2>2. QED  BY <1>2, <2>1
<1>4. Counted
  BY <1>3 DEF Init, Counted
<1>5. AllCollected
  BY DEF Init, AllCollected
<1>6. QED  BY <1>1, <1>4, <1>5 DEF CollectInv

LEMMA BusyJobs ==
  ASSUME ExecInv
  PROVE  \A w \in Workers : worker[w] \in Busy =>
           job[w].call \in Calls /\ job[w].channel \in Channels
                                /\ job[w].channel \in tasks[job[w].call]
<1>1. \A w \in Workers : worker[w] \in Busy => job[w] \in Jobs
  BY DEF ExecInv, ExecTypes
<1>2. QED  BY <1>1 DEF Jobs, ExecInv, OwnTasks

\* Steps that start no job, finish none, and take no call back to an earlier
\* place leave the counting alone.
LEMMA Quiet ==
  ASSUME CollectInv, ExecInv,
         UNCHANGED <<tasks, todo, queue, job, results, completed, sigs, timed_out>>,
         \A w \in Workers : worker'[w] \in Busy => worker[w] \in Busy,
         \A w \in Workers : worker'[w] = "count" => worker[w] = "count",
         \A c \in Calls : Early(c)' => Early(c),
         \A c \in Calls : pc'[c] = "poll" => pc[c] = "poll"
  PROVE  CollectInv'
<1>1. JobsApart'
  <2>1. JobsApart
    BY DEF CollectInv
  <2>2. \A c \in Calls : \A ch \in todo'[c] :
          /\ \A i \in 1..Len(queue') : ~Is(queue'[i], c, ch)
          /\ \A w \in Workers : worker'[w] \in Busy => ~Is(job'[w], c, ch)
    BY <2>1 DEF JobsApart
  <2>3. \A i \in 1..Len(queue') :
          /\ \A k \in 1..Len(queue') : Is(queue'[k], queue'[i].call, queue'[i].channel) => k = i
          /\ \A w \in Workers : worker'[w] \in Busy => ~Is(job'[w], queue'[i].call, queue'[i].channel)
    BY <2>1 DEF JobsApart
  <2>4. \A v, w \in Workers : worker'[v] \in Busy /\ worker'[w] \in Busy
                                /\ Is(job'[v], job'[w].call, job'[w].channel) => v = w
    BY <2>1 DEF JobsApart
  <2>5. QED  BY <2>2, <2>3, <2>4 DEF JobsApart, Is
<1>2. \A c \in Calls, D \in SUBSET Channels : Counts(c, D) => Counts(c, D)'
  BY DEF Counts, Over
<1>3. \A w \in Workers : worker[w] = "count" => job[w].call \in Calls
  BY BusyJobs DEF Busy
<1>4. ASSUME NEW c \in Calls, Early(c)'
      PROVE  \E D \in SUBSET Channels : Counts(c, D)'
  BY <1>2, <1>4 DEF CollectInv, Counted
<1>5. Counted'
  BY <1>3, <1>4 DEF CollectInv, Counted
<1>6. AllCollected'
  BY DEF CollectInv, AllCollected
<1>7. QED  BY <1>1, <1>5, <1>6 DEF CollectInv

LEMMA SwapCollect ==
  ASSUME CollectInv, ExecInv, NEW c \in Calls, NEW buy \in BOOLEAN, NEW durable \in BOOLEAN,
         NEW with_tip \in BOOLEAN, NEW configured \in SUBSET Channels,
         swap(c, buy, durable, with_tip, configured)
  PROVE  CollectInv'
<1>1. PICK chosen \in SUBSET Channels :
        /\ pc[c] = "idle" /\ tasks' = [tasks EXCEPT ![c] = chosen]
        /\ todo' = [todo EXCEPT ![c] = chosen]
  BY DEF swap
<1>2. /\ \A d \in Calls \ {c} : pc'[d] = pc[d] /\ tasks'[d] = tasks[d] /\ todo'[d] = todo[d]
      /\ pc'[c] \in {"push", "done"} /\ tasks'[c] = chosen /\ todo'[c] = chosen
      /\ UNCHANGED <<queue, worker, job, results, completed, sigs, timed_out>>
  BY <1>1 DEF swap, collectorVars, workVars, ExecInv, ExecTypes
<1>3. tasks[c] = {} /\ results[c] = {}
  BY <1>1 DEF ExecInv, OwnTasks, CollectInv, Counted
<1>4. /\ \A i \in 1..Len(queue) : queue[i].call # c
      /\ \A w \in Workers : worker[w] \in Busy => job[w].call # c
  BY <1>3, BusyJobs DEF ExecInv, OwnTasks
<1>5. JobsApart'
  <2>1. JobsApart
    BY DEF CollectInv
  <2>2. ASSUME NEW d \in Calls, NEW ch \in todo'[d]
        PROVE  /\ \A i \in 1..Len(queue) : ~Is(queue[i], d, ch)
               /\ \A w \in Workers : worker[w] \in Busy => ~Is(job[w], d, ch)
    <3>1. CASE d = c  BY <1>4, <3>1 DEF Is
    <3>2. CASE d # c  BY <1>2, <2>1, <2>2, <3>2 DEF JobsApart
    <3>3. QED  BY <3>1, <3>2
  <2>3. QED  BY <1>2, <2>1, <2>2 DEF JobsApart, Is
<1>6. ASSUME NEW d \in Calls, Early(d)'
      PROVE  \E D \in SUBSET Channels : Counts(d, D)'
  <2>1. Early(d)
    BY <1>1, <1>2, <1>6 DEF Early
  <2>2. PICK D \in SUBSET Channels : Counts(d, D)
    BY <2>1 DEF CollectInv, Counted
  <2>3. \A ch \in D : ch \notin todo'[d]
    BY <1>2, <1>3, <2>2 DEF Counts, Over
  <2>4. Counts(d, D)'
    BY <1>2, <2>2, <2>3 DEF Counts, Over
  <2>5. QED  BY <2>4
<1>7. Counted'
  <2>1. \A d \in Calls : results'[d] \subseteq tasks'[d]
    BY <1>2, <1>3 DEF CollectInv, Counted
  <2>2. \A d \in Calls : Early(d)' => Early(d)
    BY <1>1, <1>2 DEF Early
  <2>3. \A w \in Workers : worker'[w] = "count" /\ Early(job[w].call)'
                             => job[w].channel \in results[job[w].call]
    <3>1. \A w \in Workers : worker[w] = "count" => job[w].call \in Calls
      BY BusyJobs DEF Busy
    <3>2. QED  BY <1>2, <2>2, <3>1 DEF CollectInv, Counted
  <2>4. QED  BY <1>2, <1>6, <2>1, <2>3 DEF CollectInv, Counted, Early
<1>8. AllCollected'
  BY <1>2 DEF CollectInv, AllCollected
<1>9. QED  BY <1>5, <1>7, <1>8 DEF CollectInv

LEMMA PushCollect ==
  ASSUME CollectInv, ExecInv, NEW c \in Calls, PushJob(c)
  PROVE  CollectInv'
<1>1. PICK ch \in todo[c] :
        /\ todo' = [todo EXCEPT ![c] = todo[c] \ {ch}]
        /\ queue' = IF Len(queue) < QueueCap
                    THEN Append(queue, [call |-> c, channel |-> ch]) ELSE queue
  BY DEF PushJob
<1>2. UNCHANGED <<pc, tasks, sigs, timed_out, results, completed, worker, job>>
  BY DEF PushJob, collectorVars
<1> DEFINE j == [call |-> c, channel |-> ch]
<1>3. Is(j, c, ch) /\ j \in Jobs
  BY <1>1 DEF Is, Jobs, ExecInv, ExecTypes
<1>4. /\ \A d \in Calls : todo'[d] \subseteq todo[d]
      /\ ch \notin todo'[c]
  BY <1>1 DEF ExecInv, ExecTypes
<1>5. \A i \in 1..Len(queue') :
        \/ i \in 1..Len(queue) /\ queue'[i] = queue[i]
        \/ queue'[i] = j /\ i = Len(queue) + 1 /\ i \notin 1..Len(queue)
  <2>1. CASE queue' = queue  BY <2>1
  <2>2. CASE queue' = Append(queue, j)
    <3>1. queue \in Seq(Jobs) /\ Len(queue) \in Nat
      BY LenProperties DEF ExecInv, ExecTypes
    <3> HIDE DEF j
    <3>2. /\ Len(queue') = Len(queue) + 1 /\ queue'[Len(queue) + 1] = j
          /\ \A i \in 1..Len(queue) : queue'[i] = queue[i]
      BY <1>3, <2>2, <3>1, AppendProperties
    <3>3. QED  BY <3>1, <3>2
  <2>3. QED  BY <1>1, <2>1, <2>2
<1> HIDE DEF j
<1>6. JobsApart'
  <2>1. JobsApart
    BY DEF CollectInv
  <2>2. ASSUME NEW d \in Calls, NEW e \in todo'[d]
        PROVE  /\ \A i \in 1..Len(queue') : ~Is(queue'[i], d, e)
               /\ \A w \in Workers : worker[w] \in Busy => ~Is(job[w], d, e)
    <3>1. e \in todo[d] /\ ~(d = c /\ e = ch)
      BY <1>4, <2>2
    <3>2. ~Is(j, d, e)
      BY <1>3, <3>1 DEF Is
    <3>3. QED  BY <1>5, <2>1, <3>1, <3>2 DEF JobsApart
  <2>3. ASSUME NEW i \in 1..Len(queue')
        PROVE  /\ \A k \in 1..Len(queue') : Is(queue'[k], queue'[i].call, queue'[i].channel) => k = i
               /\ \A w \in Workers : worker[w] \in Busy => ~Is(job[w], queue'[i].call, queue'[i].channel)
    <3>1. /\ \A k \in 1..Len(queue) : ~Is(queue[k], c, ch)
          /\ \A w \in Workers : worker[w] \in Busy => ~Is(job[w], c, ch)
      BY <1>1, <2>1 DEF JobsApart
    <3>2. CASE i \in 1..Len(queue) /\ queue'[i] = queue[i]
      <4>1. ~Is(j, queue[i].call, queue[i].channel)
        BY <1>3, <3>1, <3>2 DEF Is
      <4>2. QED  BY <1>5, <2>1, <3>2, <4>1 DEF JobsApart
    <3>3. CASE queue'[i] = j /\ i = Len(queue) + 1
      <4>1. j.call = c /\ j.channel = ch
        BY <1>3 DEF Is
      <4>2. QED  BY <1>5, <3>1, <3>3, <4>1
    <3>4. QED  BY <1>5, <3>2, <3>3
  <2>4. QED  BY <1>2, <2>1, <2>2, <2>3 DEF JobsApart, Is
<1>7. ASSUME NEW d \in Calls, Early(d)'
      PROVE  \E D \in SUBSET Channels : Counts(d, D)'
  <2>1. Early(d)
    BY <1>2, <1>7 DEF Early
  <2>2. PICK D \in SUBSET Channels : Counts(d, D)
    BY <2>1 DEF CollectInv, Counted
  <2>3. j.call = d => j.channel \notin D
    BY <1>1, <1>3, <2>2 DEF Is, Counts, Over
  <2>4. Over(d, D)'
    BY <1>2, <1>4, <1>5, <2>2, <2>3 DEF Counts, Over
  <2>5. Counts(d, D)'
    BY <1>2, <2>2, <2>4 DEF Counts
  <2>6. QED  BY <2>5
<1>8. Counted'
  BY <1>2, <1>7 DEF CollectInv, Counted, Early
<1>9. AllCollected'
  BY <1>2 DEF CollectInv, AllCollected
<1>10. QED  BY <1>6, <1>8, <1>9 DEF CollectInv

LEMMA PopCollect ==
  ASSUME CollectInv, ExecInv, NEW w \in Workers, PopJob(w)
  PROVE  CollectInv'
<1>1. /\ queue # <<>> /\ worker[w] = "loop" /\ worker' = [worker EXCEPT ![w] = "build"]
      /\ job' = [job EXCEPT ![w] = Head(queue)] /\ queue' = Tail(queue)
      /\ UNCHANGED <<pc, tasks, todo, sigs, timed_out, results, completed>>
  BY DEF PopJob, Works, callVars, collectorVars
<1>2. /\ queue \in Seq(Jobs) /\ Len(queue) \in Nat /\ Len(queue) >= 1
      /\ Head(queue) = queue[1] /\ Len(queue') = Len(queue) - 1
      /\ \A i \in 1..Len(queue') : queue'[i] = queue[i + 1]
  BY <1>1, HeadTailProperties, EmptySeq, LenProperties DEF ExecInv, ExecTypes
<1>3. 1 \in 1..Len(queue) /\ \A i \in 1..Len(queue') : i + 1 \in 1..Len(queue) /\ i + 1 # 1
  BY <1>2
<1>4. \A v \in Workers : worker'[v] \in Busy =>
        \/ v # w /\ worker[v] \in Busy /\ job'[v] = job[v]
        \/ v = w /\ job'[v] = queue[1]
  BY <1>1, <1>2 DEF ExecInv, ExecTypes
<1>5. JobsApart'
  <2>1. JobsApart
    BY DEF CollectInv
  <2>2. ASSUME NEW c \in Calls, NEW ch \in todo[c]
        PROVE  /\ \A i \in 1..Len(queue') : ~Is(queue'[i], c, ch)
               /\ \A v \in Workers : worker'[v] \in Busy => ~Is(job'[v], c, ch)
    BY <1>2, <1>3, <1>4, <2>1 DEF JobsApart
  <2>3. ASSUME NEW i \in 1..Len(queue')
        PROVE  /\ \A k \in 1..Len(queue') : Is(queue'[k], queue'[i].call, queue'[i].channel) => k = i
               /\ \A v \in Workers : worker'[v] \in Busy => ~Is(job'[v], queue'[i].call, queue'[i].channel)
    <3>1. queue'[i] = queue[i + 1] /\ i + 1 \in 1..Len(queue) /\ i + 1 # 1
      BY <1>2, <1>3
    <3>2. ASSUME NEW k \in 1..Len(queue'), Is(queue'[k], queue'[i].call, queue'[i].channel)
          PROVE  k = i
      <4>1. k + 1 \in 1..Len(queue) /\ queue'[k] = queue[k + 1]
        BY <1>2, <1>3
      <4>2. k + 1 = i + 1
        BY <2>1, <3>1, <3>2, <4>1 DEF JobsApart
      <4>3. QED  BY <4>2
    <3>3. ~Is(queue[1], queue[i + 1].call, queue[i + 1].channel)
      BY <1>3, <2>1, <3>1 DEF JobsApart
    <3>4. \A v \in Workers : worker[v] \in Busy => ~Is(job[v], queue[i + 1].call, queue[i + 1].channel)
      BY <2>1, <3>1 DEF JobsApart
    <3>5. \A v \in Workers : worker'[v] \in Busy => ~Is(job'[v], queue'[i].call, queue'[i].channel)
      BY <1>4, <3>1, <3>3, <3>4
    <3>6. QED  BY <3>2, <3>5
  <2>4. ASSUME NEW u \in Workers, NEW v \in Workers, worker'[u] \in Busy, worker'[v] \in Busy,
               Is(job'[u], job'[v].call, job'[v].channel)
        PROVE  u = v
    <3>1. \A x \in Workers : worker[x] \in Busy => ~Is(job[x], queue[1].call, queue[1].channel)
      BY <1>3, <2>1 DEF JobsApart
    <3>2. \A x \in Workers : worker[x] \in Busy => ~Is(queue[1], job[x].call, job[x].channel)
      BY <3>1 DEF Is
    <3>3. QED  BY <1>4, <2>1, <2>4, <3>1, <3>2 DEF JobsApart
  <2>5. QED  BY <1>1, <2>2, <2>3, <2>4 DEF JobsApart, Is
<1>6. ASSUME NEW d \in Calls, Early(d)'
      PROVE  \E D \in SUBSET Channels : Counts(d, D)'
  <2>1. Early(d)
    BY <1>1, <1>6 DEF Early
  <2>2. PICK D \in SUBSET Channels : Counts(d, D)
    BY <2>1 DEF CollectInv, Counted
  <2>3. Over(d, D)
    BY <2>2 DEF Counts
  <2>4. Over(d, D)'
    BY <1>1, <1>2, <1>3, <1>4, <2>3 DEF Over
  <2>5. Counts(d, D)'
    BY <1>1, <2>2, <2>4 DEF Counts
  <2>6. QED  BY <2>5
<1>7. \A v \in Workers : worker'[v] = "count" => worker[v] = "count" /\ job'[v] = job[v]
  BY <1>1 DEF ExecInv, ExecTypes
<1>8. Counted'
  BY <1>1, <1>6, <1>7 DEF CollectInv, Counted, Early
<1>9. AllCollected'
  BY <1>1 DEF CollectInv, AllCollected
<1>10. QED  BY <1>5, <1>8, <1>9 DEF CollectInv

\* submit, first step: the result is in the collector, its job is not over.
LEMMA SubmitPushes ==
  ASSUME CollectInv, ExecInv, NEW w \in Workers, worker[w] = "push",
         worker' = [worker EXCEPT ![w] = "count"],
         results' = [results EXCEPT ![job[w].call] = @ \cup {job[w].channel}],
         UNCHANGED <<pc, tasks, todo, sigs, timed_out, completed, queue, job>>
  PROVE  CollectInv'
<1> DEFINE c == job[w].call
           ch == job[w].channel
<1>1. c \in Calls /\ ch \in tasks[c]
  BY BusyJobs DEF Busy
<1>2. results'[c] = results[c] \cup {ch} /\ \A d \in Calls \ {c} : results'[d] = results[d]
  BY <1>1 DEF ExecInv, ExecTypes
<1>3. \A v \in Workers : worker'[v] = IF v = w THEN "count" ELSE worker[v]
  BY DEF ExecInv, ExecTypes
<1>4. \A v \in Workers : worker'[v] \in Busy => worker[v] \in Busy
  BY <1>3 DEF Busy
<1> HIDE DEF c, ch
<1>5. JobsApart'
  BY <1>4 DEF CollectInv, JobsApart, Is
<1>6. ASSUME NEW d \in Calls, Early(d)'
      PROVE  \E D \in SUBSET Channels : Counts(d, D)'
  <2>1. Early(d)
    BY <1>6 DEF Early
  <2>2. PICK D \in SUBSET Channels : Counts(d, D)
    BY <2>1 DEF CollectInv, Counted
  <2>3. Over(d, D)'
    BY <1>4, <2>2 DEF Counts, Over
  <2>4. Counts(d, D)'
    BY <1>2, <2>2, <2>3 DEF Counts
  <2>5. QED  BY <2>4
<1>7. ASSUME NEW v \in Workers, worker'[v] = "count", Early(job[v].call)
      PROVE  job[v].channel \in results'[job[v].call]
  <2>1. CASE v = w  BY <1>2, <2>1 DEF c, ch
  <2>2. CASE v # w
    <3>1. worker[v] = "count"
      BY <1>3, <1>7, <2>2
    <3>2. job[v].call \in Calls /\ job[v].channel \in results[job[v].call]
      BY <1>7, <3>1, BusyJobs DEF CollectInv, Counted, Busy
    <3>3. QED  BY <1>2, <3>2
  <2>3. QED  BY <2>1, <2>2
<1>8. \A d \in Calls : results'[d] \subseteq tasks[d]
  BY <1>1, <1>2 DEF CollectInv, Counted
<1>9. Counted'
  BY <1>6, <1>7, <1>8 DEF CollectInv, Counted, Early
<1>10. AllCollected'
  BY DEF CollectInv, AllCollected
<1>11. QED  BY <1>5, <1>9, <1>10 DEF CollectInv

\* submit, second step: the job is over, and one more result is counted.
LEMMA SubmitCounts ==
  ASSUME CollectInv, ExecInv, NEW w \in Workers, worker[w] = "count",
         worker' = [worker EXCEPT ![w] = "loop"],
         completed' = [completed EXCEPT ![job[w].call] = @ + 1],
         job' = [job EXCEPT ![w] = NoJob],
         UNCHANGED <<pc, tasks, todo, sigs, timed_out, results, queue>>
  PROVE  CollectInv'
<1>1. PICK c \in Calls, ch \in Channels :
        c = job[w].call /\ ch = job[w].channel /\ worker[w] \in Busy
  BY BusyJobs DEF Busy
<1>2. /\ completed \in [Calls -> Nat] /\ completed' \in [Calls -> Nat]
      /\ completed'[c] = completed[c] + 1 /\ \A d \in Calls \ {c} : completed'[d] = completed[d]
  BY <1>1 DEF CollectInv, Counted
<1>3. \A v \in Workers : worker'[v] \in Busy => v # w /\ worker'[v] = worker[v] /\ job'[v] = job[v]
  BY DEF ExecInv, ExecTypes, Busy
<1>4. Is(job[w], c, ch)
  BY <1>1 DEF Is
<1>5. Early(c) => ch \in results[c]
  BY <1>1 DEF CollectInv, Counted
<1>6. JobsApart
  BY DEF CollectInv
<1>7. JobsApart'
  <2>1. \A d \in Calls : \A e \in todo[d] :
          /\ \A i \in 1..Len(queue) : ~Is(queue[i], d, e)
          /\ \A v \in Workers : worker'[v] \in Busy => ~Is(job'[v], d, e)
    BY <1>3, <1>6 DEF JobsApart
  <2>2. \A i \in 1..Len(queue) :
          /\ \A k \in 1..Len(queue) : Is(queue[k], queue[i].call, queue[i].channel) => k = i
          /\ \A v \in Workers : worker'[v] \in Busy => ~Is(job'[v], queue[i].call, queue[i].channel)
    BY <1>3, <1>6 DEF JobsApart
  <2>3. \A u, v \in Workers : worker'[u] \in Busy /\ worker'[v] \in Busy
                                /\ Is(job'[u], job'[v].call, job'[v].channel) => u = v
    BY <1>3, <1>6 DEF JobsApart
  <2>4. QED  BY <2>1, <2>2, <2>3 DEF JobsApart, Is
<1>8. ASSUME NEW d \in Calls, Early(d)'
      PROVE  \E D \in SUBSET Channels : Counts(d, D)'
  <2>1. Early(d)
    BY <1>8 DEF Early
  <2>2. PICK D \in SUBSET Channels : Counts(d, D)
    BY <2>1 DEF CollectInv, Counted
  <2>3. Over(d, D)'
    BY <1>3, <2>2 DEF Counts, Over
  <2>4. CASE d # c
    <3>1. Counts(d, D)'
      BY <1>2, <2>2, <2>3, <2>4 DEF Counts
    <3>2. QED  BY <3>1
  <2>5. CASE d = c
    <3>1. ch \notin D
      BY <1>1, <1>4, <2>2, <2>5 DEF Counts, Over, Is
    <3> DEFINE E == D \cup {ch}
    <3>2. E \in SUBSET Channels /\ E \subseteq results[c]
      BY <1>1, <1>5, <2>1, <2>2, <2>5 DEF Counts
    <3>3. IsFiniteSet(D)
      BY <2>2, FS_Subset, ExecutorAssumption
    <3>4. Cardinality(E) = Cardinality(D) + 1
      BY <3>1, <3>3, FS_AddElement
    <3>5. \A e \in E : e \notin todo[c]
      BY <1>1, <1>4, <1>6, <2>2, <2>5 DEF Counts, Over, JobsApart
    <3>6. \A i \in 1..Len(queue) : queue[i].call = c => queue[i].channel # ch
      BY <1>1, <1>4, <1>6 DEF JobsApart, Is
    <3>7. \A v \in Workers : worker'[v] \in Busy /\ job'[v].call = c => job'[v].channel # ch
      BY <1>1, <1>3, <1>4, <1>6 DEF JobsApart, Is
    <3>8. Over(c, E)'
      BY <2>3, <2>5, <3>5, <3>6, <3>7 DEF Over
    <3>9. completed'[c] = Cardinality(E)
      BY <1>2, <2>2, <2>5, <3>4 DEF Counts
    <3> HIDE DEF E
    <3>10. Counts(c, E)'
      BY <3>2, <3>8, <3>9 DEF Counts
    <3>11. QED  BY <2>5, <3>2, <3>10
  <2>6. QED  BY <2>4, <2>5
<1>9. \A v \in Workers : worker'[v] = "count" => worker[v] = "count" /\ job'[v] = job[v]
  BY <1>3 DEF Busy
<1>10. Counted'
  BY <1>2, <1>8, <1>9 DEF CollectInv, Counted, Early
<1>11. AllCollected'
  BY DEF CollectInv, AllCollected
<1>12. QED  BY <1>7, <1>10, <1>11 DEF CollectInv

\* The wait ends.  When as many results are counted as there are tasks, the set
\* that is counted is the set of tasks.
LEMMA WaitCollect ==
  ASSUME CollectInv, ExecInv, NEW c \in Calls, wait_for_all_submitted(c)
  PROVE  CollectInv'
<1>1. /\ pc[c] = "wait"
      /\ pc' = [pc EXCEPT ![c] = IF results[c] = {} THEN "done" ELSE "poll"]
      /\ timed_out' = [timed_out EXCEPT ![c] = completed[c] < Cardinality(tasks[c])]
      /\ sigs' = [sigs EXCEPT ![c] = results[c]]
      /\ results' = [results EXCEPT ![c] = {}]
      /\ UNCHANGED <<tasks, todo, completed, queue, worker, job>>
  BY DEF wait_for_all_submitted, At, workVars
<1>2. /\ \A d \in Calls \ {c} : /\ pc'[d] = pc[d] /\ timed_out'[d] = timed_out[d]
                                /\ sigs'[d] = sigs[d] /\ results'[d] = results[d]
      /\ timed_out'[c] = (completed[c] < Cardinality(tasks[c]))
      /\ sigs'[c] = results[c] /\ results'[c] = {} /\ pc'[c] \in {"done", "poll"}
  BY <1>1 DEF ExecInv, ExecTypes, CollectInv, Counted
<1>3. \A d \in Calls : Early(d)' => d # c /\ Early(d)
  BY <1>2 DEF Early
<1>4. ~(completed[c] < Cardinality(tasks[c])) => results[c] = tasks[c]
  <2>1. PICK D \in SUBSET Channels : Counts(c, D)
    BY <1>1 DEF CollectInv, Counted, Early
  <2>2. D \subseteq results[c] /\ results[c] \subseteq tasks[c] /\ completed[c] = Cardinality(D)
    BY <2>1 DEF Counts, CollectInv, Counted
  <2>3. IsFiniteSet(tasks[c])
    BY FS_Subset, ExecutorAssumption DEF ExecInv, ExecTypes
  <2>4. /\ Cardinality(D) \in Nat /\ Cardinality(tasks[c]) \in Nat
        /\ Cardinality(D) = Cardinality(tasks[c]) => D = tasks[c]
        /\ Cardinality(D) <= Cardinality(tasks[c])
    <3>1. D \in SUBSET tasks[c]
      BY <2>2
    <3>2. QED  BY <2>3, <3>1, FS_Subset, FS_CardinalityType
  <2>5. QED  BY <2>2, <2>4
<1>5. JobsApart'
  BY <1>1 DEF CollectInv, JobsApart, Is
<1>6. ASSUME NEW d \in Calls, Early(d)'
      PROVE  \E D \in SUBSET Channels : Counts(d, D)'
  <2>1. Early(d) /\ d # c
    BY <1>3, <1>6
  <2>2. PICK D \in SUBSET Channels : Counts(d, D)
    BY <2>1 DEF CollectInv, Counted
  <2>3. Counts(d, D)'
    BY <1>1, <1>2, <2>1, <2>2 DEF Counts, Over
  <2>4. QED  BY <2>3
<1>7. ASSUME NEW v \in Workers, worker[v] = "count", Early(job[v].call)'
      PROVE  job[v].channel \in results'[job[v].call]
  <2>1. job[v].call \in Calls
    BY <1>7, BusyJobs DEF Busy
  <2>2. job[v].call # c /\ Early(job[v].call)
    BY <1>1, <1>3, <1>7, <2>1 DEF Early
  <2>3. job[v].channel \in results[job[v].call]
    BY <1>7, <2>2 DEF CollectInv, Counted
  <2>4. QED  BY <1>2, <2>1, <2>2, <2>3
<1>8. timed_out' \in [Calls -> BOOLEAN] /\ \A d \in Calls : results'[d] \subseteq tasks[d]
  BY <1>1, <1>2 DEF CollectInv, Counted
<1>9. Counted'
  BY <1>1, <1>6, <1>7, <1>8 DEF CollectInv, Counted, Early
<1>10. AllCollected'
  <2>1. ASSUME NEW d \in Calls, pc'[d] = "poll", ~timed_out'[d]
        PROVE  sigs'[d] = tasks[d]
    <3>1. CASE d = c  BY <1>2, <1>4, <2>1, <3>1
    <3>2. CASE d # c  BY <1>2, <2>1, <3>2 DEF CollectInv, AllCollected
    <3>3. QED  BY <3>1, <3>2
  <2>2. QED  BY <1>1, <2>1 DEF AllCollected
<1>11. QED  BY <1>5, <1>9, <1>10 DEF CollectInv

LEMMA CollectInvNext ==
  ASSUME CollectInv, ExecInv, [Next]_vars
  PROVE  CollectInv'
<1> DEFINE Calm ==
      /\ UNCHANGED <<tasks, todo, queue, job, results, completed, sigs, timed_out>>
      /\ \A w \in Workers : worker'[w] \in Busy => worker[w] \in Busy
      /\ \A w \in Workers : worker'[w] = "count" => worker[w] = "count"
      /\ \A c \in Calls : Early(c)' => Early(c)
      /\ \A c \in Calls : pc'[c] = "poll" => pc[c] = "poll"
<1>1. Calm => CollectInv'
  BY Quiet
<1>2. CASE \E c \in Calls, r \in Requests, configured \in SUBSET Channels :
             swap(c, r.buy, r.durable, r.with_tip, configured)
  <2>1. PICK c \in Calls, r \in Requests, configured \in SUBSET Channels :
          swap(c, r.buy, r.durable, r.with_tip, configured)
    BY <1>2
  <2>2. r.buy \in BOOLEAN /\ r.durable \in BOOLEAN /\ r.with_tip \in BOOLEAN
    BY ExecutorAssumption
  <2>3. QED  BY <2>1, <2>2, SwapCollect
<1>3. ASSUME NEW c \in Calls, CallStep(c)
      PROVE  CollectInv'
  <2> USE DEF ExecInv, ExecTypes, Early, At, Return, collectorVars, workVars, Busy
  <2>1. CASE PushJob(c)  BY <2>1, PushCollect
  <2>2. CASE TipAccountFails(c)
    <3>1. Calm  BY <2>2 DEF TipAccountFails
    <3>2. QED  BY <1>1, <3>1
  <2>3. CASE NotifyWaiters(c)
    <3>1. Calm  BY <2>3 DEF NotifyWaiters
    <3>2. QED  BY <1>1, <3>1
  <2>4. CASE wait_for_all_submitted(c)  BY <2>4, WaitCollect
  <2>5. CASE PollConfirmed(c) \/ GetTransaction(c) \/ PollFails(c)
    <3>1. PICK s \in BOOLEAN : Return(c, s)
      BY <2>5 DEF PollConfirmed, GetTransaction, PollFails
    <3>2. Calm  BY <3>1
    <3>3. QED  BY <1>1, <3>2
  <2>6. CASE PollAgain(c)
    <3>1. Calm  BY <2>6 DEF PollAgain
    <3>2. QED  BY <1>1, <3>1
  <2>7. QED  BY <1>3, <2>1, <2>2, <2>3, <2>4, <2>5, <2>6 DEF CallStep
<1>4. ASSUME NEW w \in Workers, WorkerStep(w)
      PROVE  CollectInv'
  <2> USE DEF ExecInv, ExecTypes, Early, Works, callVars, collectorVars, Busy
  <2>1. CASE PopJob(w)  BY <2>1, PopCollect
  <2>2. CASE PopNothing(w) \/ AwaitNotified(w)
    <3>1. Calm  BY <2>2 DEF PopNothing, AwaitNotified
    <3>2. QED  BY <1>1, <3>1
  <2>3. CASE build_transaction(w) \/ send_transaction(w)
    <3>1. Calm  BY <2>3 DEF build_transaction, send_transaction
    <3>2. QED  BY <1>1, <3>1
  <2>4. CASE submit(w)
    <3>1. CASE worker[w] = "push"
      <4>1. /\ worker' = [worker EXCEPT ![w] = "count"]
            /\ results' = [results EXCEPT ![job[w].call] = @ \cup {job[w].channel}]
            /\ UNCHANGED <<pc, tasks, todo, sigs, timed_out, completed, queue, job>>
        BY <2>4, <3>1 DEF submit
      <4>2. QED  BY <3>1, <4>1, SubmitPushes
    <3>2. CASE worker[w] = "count"
      <4>1. /\ worker' = [worker EXCEPT ![w] = "loop"]
            /\ completed' = [completed EXCEPT ![job[w].call] = @ + 1]
            /\ job' = [job EXCEPT ![w] = NoJob]
            /\ UNCHANGED <<pc, tasks, todo, sigs, timed_out, results, queue>>
        BY <2>4, <3>2 DEF submit
      <4>2. QED  BY <3>2, <4>1, SubmitCounts
    <3>3. QED  BY <2>4, <3>1, <3>2 DEF submit
  <2>5. QED  BY <1>4, <2>1, <2>2, <2>3, <2>4 DEF WorkerStep
<1>5. CASE \E c \in Calls, ch \in Channels : ChainStep(c, ch)
  <2>1. UNCHANGED <<callVars, collectorVars, workVars>>
    BY <1>5 DEF ChainStep, Fate
  <2>2. Calm
    BY <2>1 DEF callVars, collectorVars, workVars, Early
  <2>3. QED  BY <1>1, <2>2
<1>6. CASE UNCHANGED vars
  <2>1. Calm
    BY <1>6 DEF vars, callVars, collectorVars, workVars, Early
  <2>2. QED  BY <1>1, <2>1
<1>7. QED  BY <1>2, <1>3, <1>4, <1>5, <1>6 DEF Next

\* execute_parallel's wait_for_all_submitted and ResultCollector::submit: whatever
\* the interleaving of callers and workers, a wait that ends without a timeout
\* has collected the result of every task.
THEOREM Collected == Spec => []AllCollected
<1>1. CollectInv => AllCollected
  BY DEF CollectInv
<1>2. CollectInv /\ ExecInv /\ [Next]_vars => CollectInv'
  BY CollectInvNext
<1>3. QED  BY <1>1, <1>2, CollectInvInit, ExecInvariant, PTL DEF Spec
=============================================================================
