------------------------- MODULE WorkerQueueProofs -------------------------
(***************************************************************************)
(* The safety properties of WorkerQueue for every set of keys and every    *)
(* queue bound.  Lifecycle and Wakeups are the strengthenings: what the    *)
(* client's position in start()/stop() says about running_ and about the   *)
(* thread, and where the worker can be while its queue is empty.           *)
(***************************************************************************)
EXTENDS WorkerQueue, TLAPS

Lifecycle ==
    /\ cpc \in {"idle", "notify_one"} => started = running
    /\ cpc \in {"notify_all", "join", "clear"} => ~started /\ ~running
    /\ cpc = "notify_one" => started
    /\ running => wpc \notin {"none", "exited", "joined"}
    /\ cpc = "clear" => wpc \in {"none", "joined"}
    /\ (cpc = "idle" /\ ~started) => wpc \in {"none", "joined"} /\ task_queue = << >>

Wakeups ==
    /\ wpc = "presleep" => task_queue = << >>
    /\ wpc = "asleep" /\ task_queue # << >> => cpc = "notify_one"

Backlog ==
    /\ drained <= 1
    /\ running => drained = 0
    /\ wpc \in {"acquire", "test", "presleep", "asleep", "woken"} => drained = 0

IInv == /\ TypeOK
        /\ QueueMatchesPending
        /\ NewestTaskWaits
        /\ Lifecycle
        /\ Wakeups
        /\ Backlog

\* Appending a key adds it to the queued keys and keeps them distinct.
LEMMA AppendQueue ==
    ASSUME NEW q \in Seq(Keys), NEW k \in Keys,
           \A i \in 1..Len(q) : q[i] # k,
           \A i, j \in 1..Len(q) : q[i] = q[j] => i = j
    PROVE  /\ Append(q, k) \in Seq(Keys)
           /\ Len(Append(q, k)) = Len(q) + 1
           /\ {Append(q, k)[i] : i \in 1..Len(Append(q, k))} = {q[i] : i \in 1..Len(q)} \cup {k}
           /\ \A i, j \in 1..Len(Append(q, k)) : Append(q, k)[i] = Append(q, k)[j] => i = j
<1> DEFINE p == Append(q, k)
<1>1. p \in Seq(Keys) /\ Len(p) = Len(q) + 1 /\ Len(q) \in Nat
  OBVIOUS
<1>2. \A i \in 1..Len(p) : p[i] = IF i <= Len(q) THEN q[i] ELSE k
  OBVIOUS
<1>3. {p[i] : i \in 1..Len(p)} = {q[i] : i \in 1..Len(q)} \cup {k}
  <2> HIDE DEF p
  <2>1. ASSUME NEW x \in {p[i] : i \in 1..Len(p)}
        PROVE  x \in {q[i] : i \in 1..Len(q)} \cup {k}
    BY <1>1, <1>2, <2>1
  <2>2. ASSUME NEW x \in {q[i] : i \in 1..Len(q)} \cup {k}
        PROVE  x \in {p[i] : i \in 1..Len(p)}
    <3>1. CASE x = k
      <4>1. Len(p) \in 1..Len(p) /\ p[Len(p)] = k
        BY <1>1, <1>2
      <4> QED BY <3>1, <4>1
    <3>2. CASE x \in {q[i] : i \in 1..Len(q)}
      <4>1. PICK i \in 1..Len(q) : x = q[i]
        BY <3>2
      <4>2. i \in 1..Len(p) /\ p[i] = q[i]
        BY <1>1, <1>2
      <4> QED BY <4>1, <4>2
    <3> QED BY <2>2, <3>1, <3>2
  <2> QED BY <2>1, <2>2
<1>4. \A i, j \in 1..Len(p) : p[i] = p[j] => i = j
  <2> HIDE DEF p
  <2> QED BY <1>1, <1>2
<1> QED BY <1>1, <1>3, <1>4

\* Popping the front key removes exactly that key from the queued ones.
LEMMA TailQueue ==
    ASSUME NEW q \in Seq(Keys), q # << >>,
           \A i, j \in 1..Len(q) : q[i] = q[j] => i = j
    PROVE  /\ Head(q) \in Keys
           /\ Tail(q) \in Seq(Keys)
           /\ Len(Tail(q)) = Len(q) - 1
           /\ Head(q) \in {q[i] : i \in 1..Len(q)}
           /\ {Tail(q)[i] : i \in 1..Len(Tail(q))} = {q[i] : i \in 1..Len(q)} \ {Head(q)}
           /\ \A i, j \in 1..Len(Tail(q)) : Tail(q)[i] = Tail(q)[j] => i = j
<1> DEFINE p == Tail(q)
<1>1. /\ p \in Seq(Keys) /\ Len(q) \in Nat /\ Len(q) > 0
      /\ Len(p) = Len(q) - 1 /\ Head(q) = q[1] /\ q[1] \in Keys
  OBVIOUS
<1>2. \A i \in 1..Len(p) : p[i] = q[i + 1]
  OBVIOUS
<1> HIDE DEF p
<1>3. Head(q) \in {q[i] : i \in 1..Len(q)}
  <2>1. 1 \in 1..Len(q)
    BY <1>1
  <2> QED BY <1>1, <2>1
<1>4. {p[i] : i \in 1..Len(p)} = {q[i] : i \in 1..Len(q)} \ {Head(q)}
  <2>1. ASSUME NEW x \in {p[i] : i \in 1..Len(p)}
        PROVE  x \in {q[i] : i \in 1..Len(q)} \ {Head(q)}
    <3>1. PICK i \in 1..Len(p) : x = p[i]
      BY <2>1
    <3>2. i + 1 \in 1..Len(q) /\ x = q[i + 1] /\ 1 \in 1..Len(q) /\ i + 1 # 1
      BY <1>1, <1>2, <3>1
    <3>3. q[i + 1] # q[1]
      BY <3>2
    <3> QED BY <1>1, <3>2, <3>3
  <2>2. ASSUME NEW x \in {q[i] : i \in 1..Len(q)} \ {Head(q)}
        PROVE  x \in {p[i] : i \in 1..Len(p)}
    <3>1. PICK i \in 1..Len(q) : x = q[i]
      BY <2>2
    <3>2. i # 1
      BY <1>1, <2>2, <3>1
    <3>3. i - 1 \in 1..Len(p) /\ p[i - 1] = q[i]
      BY <1>1, <1>2, <3>2
    <3> QED BY <3>1, <3>3
  <2> QED BY <2>1, <2>2
<1>5. \A i, j \in 1..Len(p) : p[i] = p[j] => i = j
  <2> SUFFICES ASSUME NEW i \in 1..Len(p), NEW j \in 1..Len(p), p[i] = p[j]
               PROVE  i = j
    OBVIOUS
  <2>1. i + 1 \in 1..Len(q) /\ j + 1 \in 1..Len(q) /\ q[i + 1] = q[j + 1]
    BY <1>1, <1>2
  <2>2. i + 1 = j + 1
    BY <2>1
  <2> QED BY <2>2
<1> QED BY <1>1, <1>3, <1>4, <1>5 DEF p

LEMMA InitIInv == Init => IInv
<1> SUFFICES ASSUME Init PROVE IInv
  OBVIOUS
<1>0. /\ running \in BOOLEAN /\ started \in BOOLEAN
      /\ ~running /\ ~started /\ started = running
  BY Zenon DEF Init
<1>1. TypeOK
  <2>1. task_queue \in Seq(Keys) /\ drained \in Nat
    BY DEF Init
  <2>2. /\ pending \in [Keys -> Contents \cup {None}]
        /\ latest \in [Keys -> Contents \cup {None}]
    BY Zenon DEF Init
  <2>3. wpc \in WorkerPcs /\ cpc \in {"idle", "notify_one", "notify_all", "join", "clear"}
    BY Zenon DEF Init, WorkerPcs
  <2> QED BY <1>0, <2>1, <2>2, <2>3, Zenon DEF TypeOK
<1>2. QueueMatchesPending
  <2>1. Queued = {}
    BY DEF Init, Queued
  <2>2. {k \in Keys : pending[k] # None} = {}
    BY DEF Init
  <2> QED BY <2>1, <2>2, QueueAssumption DEF Init, QueueMatchesPending
<1>3. NewestTaskWaits /\ Wakeups /\ Backlog
  <2>1. wpc = "none" /\ drained = 0 /\ \A k \in Keys : pending[k] = None
    BY Zenon DEF Init
  <2> QED BY <2>1 DEF NewestTaskWaits, Wakeups, Backlog
<1>4. Lifecycle
  <2>1. wpc = "none" /\ cpc = "idle" /\ task_queue = << >>
    BY Zenon DEF Init
  <2> QED BY <1>0, <2>1 DEF Lifecycle
<1> QED BY <1>1, <1>2, <1>3, <1>4 DEF IInv

\* Steps that leave queue and map alone keep what relates them.
LEMMA QueueUntouched ==
    ASSUME QueueMatchesPending, NewestTaskWaits, UNCHANGED <<task_queue, pending, latest>>
    PROVE  QueueMatchesPending' /\ NewestTaskWaits'
BY DEF QueueMatchesPending, NewestTaskWaits, Queued

LEMMA EnqueueIInv ==
    ASSUME IInv, NEW k \in Keys, NEW c \in Contents, Enqueue(k, c)
    PROVE  IInv'
<1> USE DEF IInv
<1>1. CASE Updated(k, c)
  <2>1. TypeOK' /\ Lifecycle' /\ Wakeups' /\ Backlog'
    BY <1>1 DEF Enqueue, Updated, TypeOK, Lifecycle, Wakeups, Backlog, WorkerPcs
  <2>2. {j \in Keys : pending'[j] # None} = {j \in Keys : pending[j] # None}
    BY <1>1, QueueAssumption DEF Updated, TypeOK
  <2>3. QueueMatchesPending'
    BY <1>1, <2>2 DEF Updated, QueueMatchesPending, Queued
  <2>4. NewestTaskWaits'
    BY <1>1 DEF Updated, NewestTaskWaits, TypeOK
  <2> QED BY <2>1, <2>3, <2>4
<1>2. CASE Enqueued(k, c)
  <2>1. k \notin Queued
    BY <1>2 DEF Enqueued, QueueMatchesPending
  <2>2. /\ task_queue' \in Seq(Keys)
        /\ Len(task_queue') = Len(task_queue) + 1
        /\ Queued' = Queued \cup {k}
        /\ \A i, j \in 1..Len(task_queue') : task_queue'[i] = task_queue'[j] => i = j
    BY <1>2, <2>1, AppendQueue DEF Enqueued, Queued, QueueMatchesPending, TypeOK
  <2>3. {j \in Keys : pending'[j] # None} = {j \in Keys : pending[j] # None} \cup {k}
    BY <1>2, QueueAssumption DEF Enqueued, TypeOK
  <2>4. Len(task_queue') <= kMaxQueuedTasks
    BY <1>2, <2>2, QueueAssumption DEF Enqueued, TypeOK
  <2>5. QueueMatchesPending'
    BY <2>2, <2>3, <2>4 DEF QueueMatchesPending
  <2>6. TypeOK'
    BY <1>2, <2>2 DEF Enqueue, Enqueued, TypeOK, WorkerPcs
  <2>7. NewestTaskWaits'
    BY <1>2 DEF Enqueued, NewestTaskWaits, TypeOK
  <2>8. Lifecycle' /\ Wakeups' /\ Backlog'
    BY <1>2 DEF Enqueue, Enqueued, Lifecycle, Wakeups, Backlog, MutexFree
  <2> QED BY <2>5, <2>6, <2>7, <2>8
<1> QED BY <1>1, <1>2 DEF Enqueue

LEMMA TakeIInv == ASSUME IInv, WorkerTake PROVE IInv'
<1> USE DEF IInv
<1> DEFINE key == Head(task_queue)
<1>1. /\ key \in Keys
      /\ task_queue' \in Seq(Keys)
      /\ Len(task_queue') = Len(task_queue) - 1
      /\ key \in Queued
      /\ Queued' = Queued \ {key}
      /\ \A i, j \in 1..Len(task_queue') : task_queue'[i] = task_queue'[j] => i = j
  <2>1. task_queue \in Seq(Keys) /\ task_queue # << >> /\ task_queue' = Tail(task_queue)
    BY DEF WorkerTake, TypeOK
  <2>2. \A i, j \in 1..Len(task_queue) : task_queue[i] = task_queue[j] => i = j
    BY DEF QueueMatchesPending
  <2>3. /\ key \in Keys
        /\ Tail(task_queue) \in Seq(Keys)
        /\ Len(Tail(task_queue)) = Len(task_queue) - 1
        /\ key \in Queued
        /\ {Tail(task_queue)[i] : i \in 1..Len(Tail(task_queue))} = Queued \ {key}
        /\ \A i, j \in 1..Len(Tail(task_queue)) :
               Tail(task_queue)[i] = Tail(task_queue)[j] => i = j
    BY <2>1, <2>2, TailQueue, Zenon DEF Queued
  <2> QED BY <2>1, <2>3, Zenon DEF Queued
<1>2. pending[key] # None
  BY <1>1 DEF QueueMatchesPending
<1>3. /\ pending' = [pending EXCEPT ![key] = None]
      /\ wpc' = "process"
      /\ drained' = IF running THEN 0 ELSE drained + 1
  BY <1>2 DEF WorkerTake
<1>4. {j \in Keys : pending'[j] # None} = {j \in Keys : pending[j] # None} \ {key}
  BY <1>1, <1>3 DEF TypeOK
<1>5. Len(task_queue') <= kMaxQueuedTasks
  BY <1>1, QueueAssumption DEF QueueMatchesPending, TypeOK
<1>6. QueueMatchesPending'
  BY <1>1, <1>4, <1>5 DEF QueueMatchesPending
<1>7. TypeOK'
  BY <1>1, <1>3 DEF WorkerTake, TypeOK, WorkerPcs
<1>8. NewestTaskWaits'
  BY <1>1, <1>3 DEF WorkerTake, NewestTaskWaits, TypeOK
<1>9. Lifecycle' /\ Wakeups' /\ Backlog'
  BY <1>3 DEF WorkerTake, Lifecycle, Wakeups, Backlog, TypeOK
<1> QED BY <1>6, <1>7, <1>8, <1>9

LEMMA StopClearIInv == ASSUME IInv, StopClear PROVE IInv'
<1> USE DEF IInv
<1>1. TypeOK' /\ NewestTaskWaits' /\ Lifecycle' /\ Wakeups' /\ Backlog'
  BY DEF StopClear, TypeOK, WorkerPcs, NewestTaskWaits, Lifecycle, Wakeups, Backlog
<1>2. Queued' = {} /\ {k \in Keys : pending'[k] # None} = {}
  BY DEF StopClear, Queued
<1>3. QueueMatchesPending'
  BY <1>2, QueueAssumption DEF StopClear, QueueMatchesPending
<1> QED BY <1>1, <1>3

LEMMA NextIInv == IInv /\ [Next]_vars => IInv'
<1> SUFFICES ASSUME IInv, [Next]_vars PROVE IInv'
  OBVIOUS
<1> DEFINE Rest == TypeOK' /\ Lifecycle' /\ Wakeups' /\ Backlog'
<1> USE DEF IInv
<1>1. CASE \E k \in Keys, c \in Contents : Enqueue(k, c)
  BY <1>1, EnqueueIInv
<1>2. CASE Start
  <2>1. Rest
    BY <1>2 DEF Start, TypeOK, WorkerPcs, Lifecycle, Wakeups, Backlog
  <2> QED BY <1>2, <2>1, QueueUntouched DEF Start
<1>3. CASE StopSet
  <2>1. Rest
    BY <1>3 DEF StopSet, TypeOK, WorkerPcs, Lifecycle, Wakeups, Backlog
  <2> QED BY <1>3, <2>1, QueueUntouched DEF StopSet
<1>4. CASE NotifyOne
  <2>1. Rest
    BY <1>4 DEF NotifyOne, TypeOK, WorkerPcs, Lifecycle, Wakeups, Backlog
  <2> QED BY <1>4, <2>1, QueueUntouched DEF NotifyOne
<1>5. CASE StopNotify
  <2>1. Rest
    BY <1>5 DEF StopNotify, TypeOK, WorkerPcs, Lifecycle, Wakeups, Backlog
  <2> QED BY <1>5, <2>1, QueueUntouched DEF StopNotify
<1>6. CASE StopJoin
  <2>1. Rest
    BY <1>6 DEF StopJoin, TypeOK, WorkerPcs, Lifecycle, Wakeups, Backlog
  <2> QED BY <1>6, <2>1, QueueUntouched DEF StopJoin
<1>7. CASE StopClear
  BY <1>7, StopClearIInv
<1>8. CASE WorkerLoop
  <2>1. Rest
    BY <1>8 DEF WorkerLoop, TypeOK, WorkerPcs, Lifecycle, Wakeups, Backlog
  <2> QED BY <1>8, <2>1, QueueUntouched DEF WorkerLoop
<1>9. CASE WorkerAcquire \/ WaitBegins \/ WaitBlocks \/ SpuriousWakeup
  <2>1. Rest
    BY <1>9 DEF WorkerAcquire, WaitBegins, WaitBlocks, SpuriousWakeup,
                TypeOK, WorkerPcs, Lifecycle, Wakeups, Backlog
  <2> QED BY <1>9, <2>1, QueueUntouched
          DEF WorkerAcquire, WaitBegins, WaitBlocks, SpuriousWakeup
<1>10. CASE WorkerBreak \/ WorkerProcess
  <2>1. Rest
    BY <1>10 DEF WorkerBreak, WorkerProcess, TypeOK, WorkerPcs, Lifecycle, Wakeups, Backlog
  <2> QED BY <1>10, <2>1, QueueUntouched DEF WorkerBreak, WorkerProcess
<1>11. CASE WorkerTake
  BY <1>11, TakeIInv
<1>12. CASE UNCHANGED vars
  <2>1. Rest
    BY <1>12 DEF vars, TypeOK, WorkerPcs, Lifecycle, Wakeups, Backlog
  <2> QED BY <1>12, <2>1, QueueUntouched DEF vars
<1> QED
  BY <1>1, <1>2, <1>3, <1>4, <1>5, <1>6, <1>7, <1>8, <1>9, <1>10, <1>11, <1>12
     DEF Next, ClientStep, WorkerStep

\* The inductive invariant holds in every reachable state.
THEOREM QueueInvariant == Spec => []IInv
<1>1. Init => IInv
  BY InitIInv
<1>2. IInv /\ [Next]_vars => IInv'
  BY NextIInv
<1> QED BY <1>1, <1>2, PTL DEF Spec

\* Whatever the keys and the bound: the queue is well typed, and a queued key
\* has exactly one queue node and one pending task (ScanWorker::enqueue,
\* worker_loop and stop keep task_queue_ and pending_tasks_ in step).
THEOREM QueueStaysInStep == Spec => [](TypeOK /\ QueueMatchesPending)
<1>1. IInv => TypeOK /\ QueueMatchesPending
  BY DEF IInv
<1> QED BY <1>1, QueueInvariant, PTL

\* A key that waits in the queue waits with the newest task ScanWorker::enqueue
\* accepted for it, however often it was replaced.
THEOREM NewestTaskIsKept == Spec => []NewestTaskWaits
<1>1. IInv => NewestTaskWaits
  BY DEF IInv
<1> QED BY <1>1, QueueInvariant, PTL

\* A worker never sleeps on queued work without a notification under way.
THEOREM NoWakeupLostByEnqueue == Spec => []NoTaskSleeps
<1>1. IInv => NoTaskSleeps
  BY DEF IInv, Wakeups, NoTaskSleeps
<1> QED BY <1>1, QueueInvariant, PTL

\* After ScanWorker::stop has returned no thread runs and no task is left.
THEOREM StopLeavesNothingBehind == Spec => []StopQuiesces
<1>1. IInv => StopQuiesces
  BY DEF IInv, Lifecycle, StopQuiesces
<1> QED BY <1>1, QueueInvariant, PTL

\* Once ScanWorker::stop has taken running_ down, worker_loop starts at most
\* one more task, whatever the backlog.
THEOREM BacklogIsDropped == Spec => []StopDropsBacklog
<1>1. IInv => StopDropsBacklog
  BY DEF IInv, Backlog, StopDropsBacklog
<1> QED BY <1>1, QueueInvariant, PTL
============================================================================
