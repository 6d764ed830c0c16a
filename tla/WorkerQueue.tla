---------------------------- MODULE WorkerQueue ----------------------------
(***************************************************************************)
(* The task queue of one ScanWorker (core/scan_worker.hpp): the FIFO of    *)
(* task keys, the map of pending tasks that coalesces repeated dispatches  *)
(* of a key, the mutex and condition variable between the two threads that *)
(* use them, and start() / stop().                                         *)
(*                                                                         *)
(* Two threads matter.  The CLIENT calls enqueue(), start() and stop():    *)
(* main and the event router share that role, and scheduler_state_mutex    *)
(* in main.cpp serialises them, so one program counter stands for both.    *)
(* The WORKER runs worker_loop().  A step is a critical section of mutex_, *)
(* an access to the atomic running_, or a condition-variable operation;    *)
(* running_ is not protected by the mutex, which is why the worker's       *)
(* predicate test (pc "test") and the moment it blocks (pc "presleep") are *)
(* two steps during which it holds the mutex.                              *)
(***************************************************************************)
EXTENDS Naturals, Sequences

CONSTANTS Keys,            \* identities of dispatched threads (TaskKey)
          Contents,        \* what a DispatchTask carries besides its key
          None,            \* no task held for a key
          kMaxQueuedTasks  \* bound of the queue (4096 in the code)

ASSUME QueueAssumption ==
    /\ kMaxQueuedTasks \in Nat \ {0}
    /\ None \notin Contents

VARIABLES
    running,    \* running_
    started,    \* started_
    task_queue, \* task_queue_: the keys, oldest first
    pending,    \* pending_tasks_: the task held for each queued key, or None
    wpc,        \* where the worker thread is in worker_loop
    cpc,        \* where the client is in enqueue / stop
    latest,     \* history: the last content accepted for each key
    drained     \* history: tasks taken since stop() cleared running_

vars == <<running, started, task_queue, pending, wpc, cpc, latest, drained>>

\* The worker owns mutex_ exactly while it evaluates the predicate or is
\* about to block; every other critical section is one step.
MutexFree == wpc \notin {"test", "presleep"}

Queued == {task_queue[i] : i \in 1..Len(task_queue)}

Init ==
    /\ running = FALSE
    /\ started = FALSE
    /\ task_queue = << >>
    /\ pending = [k \in Keys |-> None]
    /\ wpc = "none"
    /\ cpc = "idle"
    /\ latest = [k \in Keys |-> None]
    /\ drained = 0

----------------------------------------------------------------------------
(* The client: enqueue().                                                  *)

\* MUTANT: the queued task is kept and the newer one is lost.
Updated_KeepsOldTask(k, c) ==
    /\ pending[k] # None
    /\ latest' = [latest EXCEPT ![k] = c]
    /\ UNCHANGED <<pending, task_queue, cpc>>

Updated(k, c) ==
    /\ pending[k] # None
    /\ pending' = [pending EXCEPT ![k] = c]
    /\ latest' = [latest EXCEPT ![k] = c]
    /\ UNCHANGED <<task_queue, cpc>>

\* MUTANT: a new task is pushed and nobody is notified.
Enqueued_Silently(k, c) ==
    /\ pending[k] = None
    /\ Len(task_queue) < kMaxQueuedTasks
    /\ task_queue' = Append(task_queue, k)
    /\ pending' = [pending EXCEPT ![k] = c]
    /\ latest' = [latest EXCEPT ![k] = c]
    /\ cpc' = "idle"

Enqueued(k, c) ==
    /\ pending[k] = None
    /\ Len(task_queue) < kMaxQueuedTasks
    /\ task_queue' = Append(task_queue, k)
    /\ pending' = [pending EXCEPT ![k] = c]
    /\ latest' = [latest EXCEPT ![k] = c]
    /\ cpc' = "notify_one"

\* EnqueueResult::Stopped and QueueFull leave the worker as it was: they are
\* the cases in which this action is not enabled.
Enqueue(k, c) ==
    /\ cpc = "idle"
    /\ MutexFree
    /\ running
    /\ \/ Updated(k, c)
       \/ Enqueued(k, c)
    /\ UNCHANGED <<running, started, wpc, drained>>

\* MUTANT: the notification reaches nobody.
NotifyOne_Lost ==
    /\ cpc = "notify_one"
    /\ cpc' = "idle"
    /\ UNCHANGED <<running, started, task_queue, pending, wpc, latest, drained>>

\* cv_.notify_one() after the critical section: it reaches a thread that is
\* blocked at that moment and nobody else.
NotifyOne ==
    /\ cpc = "notify_one"
    /\ cpc' = "idle"
    /\ wpc' = IF wpc = "asleep" THEN "woken" ELSE wpc
    /\ UNCHANGED <<running, started, task_queue, pending, latest, drained>>

----------------------------------------------------------------------------
(* The client: start() and stop().                                         *)

Start ==
    /\ cpc = "idle"
    /\ ~started
    /\ wpc \in {"none", "joined"}
    /\ running' = TRUE
    /\ started' = TRUE
    /\ wpc' = "loop"
    /\ drained' = 0
    /\ UNCHANGED <<task_queue, pending, cpc, latest>>

\* stop() on a worker that never started finds nothing to join.
StopSet ==
    /\ cpc = "idle"
    /\ started' = FALSE
    /\ running' = FALSE
    /\ cpc' = "notify_all"
    /\ UNCHANGED <<task_queue, pending, wpc, latest, drained>>

StopNotify ==
    /\ cpc = "notify_all"
    /\ cpc' = "join"
    /\ wpc' = IF wpc = "asleep" THEN "woken" ELSE wpc
    /\ UNCHANGED <<running, started, task_queue, pending, latest, drained>>

\* MUTANT: stop() goes on without joining the thread.
StopJoin_Detached ==
    /\ cpc = "join"
    /\ cpc' = "clear"
    /\ UNCHANGED <<running, started, task_queue, pending, wpc, latest, drained>>

StopJoin ==
    /\ cpc = "join"
    /\ wpc \in {"none", "exited", "joined"}
    /\ cpc' = "clear"
    /\ wpc' = IF wpc = "exited" THEN "joined" ELSE wpc
    /\ UNCHANGED <<running, started, task_queue, pending, latest, drained>>

\* MUTANT: stop() swaps the queue away and forgets the map.
StopClear_KeepsMap ==
    /\ cpc = "clear"
    /\ task_queue' = << >>
    /\ cpc' = "idle"
    /\ UNCHANGED <<running, started, pending, wpc, latest, drained>>

StopClear ==
    /\ cpc = "clear"
    /\ MutexFree
    /\ task_queue' = << >>
    /\ pending' = [k \in Keys |-> None]
    /\ cpc' = "idle"
    /\ UNCHANGED <<running, started, wpc, latest, drained>>

----------------------------------------------------------------------------
(* The worker: worker_loop().                                              *)

\* MUTANT: the loop condition ignores running_ and the backlog is drained.
WorkerLoop_Drains ==
    /\ wpc = "loop"
    /\ wpc' = "acquire"
    /\ UNCHANGED <<running, started, task_queue, pending, cpc, latest, drained>>

WorkerLoop ==
    /\ wpc = "loop"
    /\ wpc' = IF running THEN "acquire" ELSE "exited"
    /\ UNCHANGED <<running, started, task_queue, pending, cpc, latest, drained>>

WorkerAcquire ==
    /\ wpc \in {"acquire", "woken"}
    /\ wpc' = "test"
    /\ UNCHANGED <<running, started, task_queue, pending, cpc, latest, drained>>

\* cv_.wait: the predicate is false, and the thread goes on to block.
WaitBegins ==
    /\ wpc = "test"
    /\ running
    /\ task_queue = << >>
    /\ wpc' = "presleep"
    /\ UNCHANGED <<running, started, task_queue, pending, cpc, latest, drained>>

WaitBlocks ==
    /\ wpc = "presleep"
    /\ wpc' = "asleep"
    /\ UNCHANGED <<running, started, task_queue, pending, cpc, latest, drained>>

SpuriousWakeup ==
    /\ wpc = "asleep"
    /\ wpc' = "woken"
    /\ UNCHANGED <<running, started, task_queue, pending, cpc, latest, drained>>

\* Predicate true because of stop(), and nothing is queued: the loop breaks.
WorkerBreak ==
    /\ wpc = "test"
    /\ ~running
    /\ task_queue = << >>
    /\ wpc' = "exited"
    /\ UNCHANGED <<running, started, task_queue, pending, cpc, latest, drained>>

\* The front key is popped; its task is moved out of pending_tasks_ and
\* processed, or the loop continues if the map does not hold the key.
WorkerTake ==
    /\ wpc = "test"
    /\ task_queue # << >>
    /\ LET key == Head(task_queue) IN
        /\ task_queue' = Tail(task_queue)
        /\ IF pending[key] # None
           THEN /\ pending' = [pending EXCEPT ![key] = None]
                /\ wpc' = "process"
                /\ drained' = IF running THEN 0 ELSE drained + 1
           ELSE /\ wpc' = "loop"
                /\ UNCHANGED <<pending, drained>>
    /\ UNCHANGED <<running, started, cpc, latest>>

\* process_dispatch_task returns or throws; ThreadCustody has what it does.
WorkerProcess ==
    /\ wpc = "process"
    /\ wpc' = "loop"
    /\ UNCHANGED <<running, started, task_queue, pending, cpc, latest, drained>>

----------------------------------------------------------------------------
WorkerStep == WorkerLoop \/ WorkerAcquire \/ WaitBegins \/ WaitBlocks
                \/ WorkerBreak \/ WorkerTake \/ WorkerProcess

ClientStep == NotifyOne \/ StopNotify \/ StopJoin \/ StopClear

Next == \/ \E k \in Keys, c \in Contents : Enqueue(k, c)
        \/ Start
        \/ StopSet
        \/ ClientStep
        \/ WorkerStep
        \/ SpuriousWakeup

\* Both threads keep running: a thread that can take its next step takes it.
\* Nothing obliges the client to call anything, and nothing obliges the
\* implementation of condition_variable to wake a waiter spuriously.
Spec == Init /\ [][Next]_vars /\ WF_vars(WorkerStep) /\ WF_vars(ClientStep)

----------------------------------------------------------------------------
(* Properties.                                                             *)

WorkerPcs == {"none", "loop", "acquire", "test", "presleep", "asleep", "woken",
              "process", "exited", "joined"}

TypeOK ==
    /\ running \in BOOLEAN
    /\ started \in BOOLEAN
    /\ task_queue \in Seq(Keys)
    /\ pending \in [Keys -> Contents \cup {None}]
    /\ latest \in [Keys -> Contents \cup {None}]
    /\ wpc \in WorkerPcs
    /\ cpc \in {"idle", "notify_one", "notify_all", "join", "clear"}
    /\ drained \in Nat

\* The queue and the map describe the same tasks: each queued key has exactly
\* one pending task and one place in the queue, and the queue is bounded.
\* worker_loop's "pending_tasks_ does not hold the key" branch is dead, and a
\* key can never be stranded in the map without a queue node.
QueueMatchesPending ==
    /\ Queued = {k \in Keys : pending[k] # None}
    /\ \A i, j \in 1..Len(task_queue) : task_queue[i] = task_queue[j] => i = j
    /\ Len(task_queue) <= kMaxQueuedTasks

\* Coalescing keeps the newest task: what waits for a key is the content the
\* last accepted enqueue() of that key carried, not the one queued first.
NewestTaskWaits ==
    \A k \in Keys : pending[k] # None => pending[k] = latest[k]

\* A worker blocks with work in its queue only while the notification for it
\* is still on its way: enqueue() cannot lose a wakeup.
NoTaskSleeps ==
    (wpc \in {"presleep", "asleep"} /\ task_queue # << >>) => cpc # "idle"

\* When stop() has returned, no worker thread is left and nothing is queued:
\* restore_all_thread_baselines runs after it on that ground.
StopQuiesces ==
    (~started /\ cpc = "idle") => /\ wpc \in {"none", "joined"}
                                  /\ task_queue = << >>

\* stop() does not drain the queue: at most one task starts after running_
\* is cleared, the one of a worker already past its loop condition.
StopDropsBacklog == drained <= 1

\* An accepted task is taken by the worker, or dropped by stop().
QueuedTaskLeaves == \A k \in Keys : pending[k] # None ~> pending[k] = None

\* stop() returns.  Reload and shutdown call it before they restore any
\* baseline (main.cpp), and the README promises both restorations.
StopReturns == cpc = "notify_all" ~> cpc = "idle"

============================================================================
