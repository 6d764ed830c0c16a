--------------------------- MODULE DispatchCursor --------------------------
(***************************************************************************)
(* The main loop's scan and dispatch, cut into slices by a budget.         *)
(*                                                                         *)
(* A full cycle lists the processes, sorts them into five lists and then   *)
(* dispatches the threads of one list after the other; between cycles a    *)
(* high-speed pass goes over the first three.  A budget may run out at     *)
(* every read: each list has a cursor that says where to go on.  Workers   *)
(* take tasks from a bounded queue and throttle repetitions.               *)
(*                                                                         *)
(* A budget is the number of reads until its deadline.  A process is its   *)
(* start time, 0 for none; a thread is the start time of its process.      *)
(***************************************************************************)
EXTENDS Naturals, FiniteSets

CONSTANTS
    Pids, Tids,     \* process and thread IDs, numbers
    Owner,          \* the process of a thread ID
    Classes,        \* initial scheduling class of each process: TOP, FG or BG
    Rules,          \* initial rule of each process: none, plain, pinned, topfore
    Budgets,        \* reads a slice may afford
    Capacity,       \* kMaxQueuedTasks
    Window,         \* min_schedule_interval_ms, in iterations of the loop
    MaxTroubles     \* changes of the system and failures

ASSUME DispatchAssumption ==
    /\ Pids \subseteq Nat \ {0} /\ Tids \subseteq Nat \ {0} /\ IsFiniteSet(Tids)
    /\ Owner \in [Tids -> Pids]
    /\ Classes \in [Pids -> {"TOP", "FG", "BG"}]
    /\ Rules \in [Pids -> {"none", "plain", "pinned", "topfore"}]
    /\ Budgets \subseteq Nat \ {0} /\ Budgets # {}
    /\ Capacity \in Nat \ {0} /\ Window \in Nat /\ MaxTroubles \in Nat

VARIABLES
    start, up, class, rule,      \* processes and threads
    needed, due,                 \* full_rescan_needed; next_full_scan is reached
    pc, mode, left,              \* the main thread, full or fast slice, budget
    cycle, phase, fast,          \* full_cycle_active, full_scan_phase, phase of a fast slice
    scanning, pids, seen,        \* FullScanState: active, what is left, current process
    baselined, found,            \* its snapshot of baselines and the lists it builds
    lists, cursor,               \* the cached lists and their cursors
    done, fastdone,              \* full_cycle_processed_tids and processed
    thread,                      \* the thread start time just read
    queue, sched, recent,        \* tasks; last_schedule_state_ and _time_
    applied,                     \* the state whose settings a thread has
    steady, accepted,            \* history of this cycle
    troubles                     \* bound: what may still happen

system == <<start, up, class, rule>>
main == <<pc, mode, left, cycle, phase, fast, done, fastdone, thread>>
scan == <<scanning, pids, seen, baselined, found>>
worker == <<queue, sched, recent, applied>>
vars == <<system, needed, due, main, scan, lists, cursor, worker, steady, accepted,
          troubles>>

Phases == 0..4
StateOf(ph) == IF ph <= 2 THEN "TOP" ELSE IF ph = 3 THEN "FG" ELSE "BG"
Least(S) == CHOOSE x \in S : \A y \in S : x <= y
ThreadsOf(p) == {t \in Tids : Owner[t] = p}
Alive(p) == {t \in ThreadsOf(p) : up[t] # 0}

NoTask == [state |-> "none", process |-> 0, thread |-> 0, rule |-> "none"]
NoCursor == [pid |-> 0, stage |-> "list", todo |-> {}, start |-> 0, rule |-> "none"]
begin_pid(p) == [NoCursor EXCEPT !.pid = p]
NoLists == [ph \in Phases |-> {}]
NotSeen == [start |-> 0, class |-> "BG", rule |-> "none"]

Init ==
    /\ start = [p \in Pids |-> 1] /\ up = [t \in Tids |-> 1]
    /\ class = Classes /\ rule = Rules
    /\ needed = TRUE /\ due = FALSE
    /\ pc = "sleep" /\ mode = "full" /\ left = 0
    /\ cycle = FALSE /\ phase = 0 /\ fast = 0
    /\ scanning = FALSE /\ pids = {} /\ seen = NotSeen
    /\ baselined = {} /\ found = NoLists
    /\ lists = NoLists /\ cursor = [ph \in Phases |-> NoCursor]
    /\ done = {} /\ fastdone = {} /\ thread = 0
    /\ queue = [t \in Tids |-> NoTask]
    /\ sched = [t \in Tids |-> "none"] /\ recent = [t \in Tids |-> 0]
    /\ applied = [t \in Tids |-> "none"]
    /\ steady = {} /\ accepted = {}
    /\ troubles = MaxTroubles

Trouble == troubles > 0 /\ troubles' = troubles - 1

\* A read of /proc fails; what is known of the process is void this cycle.
FaultOn(p) ==
    /\ Trouble
    /\ steady' = steady \ ThreadsOf(p)
NoFault == UNCHANGED <<troubles, steady>>

----------------------------------------------------------------------------
(* Processes, Android and the rest of the program.                         *)

\* A new thread is a new key for the worker's records.
Forget(T) ==
    /\ sched' = [t \in Tids |-> IF t \in T THEN "none" ELSE sched[t]]
    /\ recent' = [t \in Tids |-> IF t \in T THEN 0 ELSE recent[t]]
    /\ applied' = [t \in Tids |-> IF t \in T THEN "none" ELSE applied[t]]
    /\ steady' = steady \ T

Elsewhere == UNCHANGED <<needed, due, main, scan, lists, cursor, queue, accepted>>

\* The process ends, or its ID already belongs to another one.
ProcessReplaced(p) ==
    /\ Trouble /\ start[p] # 0
    /\ \E s \in {0, start[p] + 1} :
          /\ start' = [start EXCEPT ![p] = s]
          /\ up' = [t \in Tids |-> IF t \in ThreadsOf(p) THEN s ELSE up[t]]
    /\ Forget(ThreadsOf(p))
    /\ UNCHANGED <<class, rule>> /\ Elsewhere

ThreadChanges(t) ==
    /\ Trouble /\ start[Owner[t]] # 0
    /\ up' = [up EXCEPT ![t] = IF up[t] = 0 THEN start[Owner[t]] ELSE 0]
    /\ Forget({t})
    /\ UNCHANGED <<start, class, rule>> /\ Elsewhere

\* Android moves the process to another class; or it takes another name.
ProcessMoves(p) ==
    /\ Trouble /\ start[p] # 0
    /\ \/ \E c \in {"TOP", "FG", "BG"} \ {class[p]} :
             class' = [class EXCEPT ![p] = c] /\ UNCHANGED rule
       \/ rule[p] # "none" /\ rule' = [rule EXCEPT ![p] = "none"] /\ UNCHANGED class
    /\ steady' = steady \ ThreadsOf(p)
    /\ UNCHANGED <<start, up, sched, recent, applied>> /\ Elsewhere

\* Something else asks for a scan.
RescanRequested ==
    /\ ~needed /\ needed' = TRUE
    /\ Trouble
    /\ UNCHANGED <<system, due, main, scan, lists, cursor, worker, steady, accepted>>

RefreshDue ==
    /\ ~due /\ due' = TRUE
    /\ UNCHANGED <<system, needed, main, scan, lists, cursor, worker, steady, accepted,
                   troubles>>

----------------------------------------------------------------------------
(* An iteration of the loop.                                               *)

\* A full slice when it is asked for or due; a cycle that is not under way
\* begins anew.  Time passes for the throttle.
SliceBegins(b) ==
    LET full == needed \/ due
        begins == full /\ ~cycle
    IN /\ pc = "sleep"
       /\ needed' = FALSE
       /\ left' = b
       /\ mode' = IF full THEN "full" ELSE "fast"
       /\ pc' = IF begins \/ (full /\ scanning) THEN "scan" ELSE "dispatch"
       /\ fast' = 0 /\ fastdone' = {}
       /\ recent' = [t \in Tids |-> IF recent[t] > 0 THEN recent[t] - 1 ELSE 0]
       /\ IF begins
          THEN /\ cycle' = TRUE /\ phase' = 0 /\ done' = {}
               /\ cursor' = [ph \in Phases |-> NoCursor]
               /\ scanning' = TRUE /\ pids' = {0} /\ seen' = NotSeen /\ found' = NoLists
               /\ baselined' = {Owner[t] : t \in {u \in Tids : applied[u] # "none"}}
               /\ steady' = {t \in Tids : up[t] # 0} /\ accepted' = {}
          ELSE UNCHANGED <<cycle, phase, done, cursor, scan, steady, accepted>>
       /\ UNCHANGED <<system, due, thread, lists, queue, sched, applied, troubles>>

\* What belongs to an iteration.
Locals == mode' = "full" /\ left' = 0 /\ fast' = 0 /\ fastdone' = {} /\ thread' = 0

\* The slice is over before its work; a full one asks for the next.
Suspended ==
    /\ pc' = "sleep" /\ needed' = (needed \/ mode = "full")
    /\ Locals

----------------------------------------------------------------------------
(* advance_full_scan, as far as the lists go: ThreadCustody has the rest.  *)

\* Not yet listed: pids is {0}.  A directory that cannot be read is listed
\* again in the next slice.
ScanLists ==
    /\ pc = "scan" /\ pids = {0} /\ left > 0
    /\ \/ /\ pids' = {p \in Pids : start[p] # 0}
          /\ left' \in 0..(left - 1)
          /\ UNCHANGED <<needed, pc, mode, fast, fastdone, thread, troubles>>
       \/ /\ Trouble
          /\ Suspended /\ UNCHANGED pids
    /\ UNCHANGED <<system, due, cycle, phase, done, scanning, seen, baselined, found,
                   lists, cursor, worker, steady, accepted>>

ScanRunsOut ==
    /\ pc = "scan" /\ left = 0 /\ pids # {}
    /\ Suspended
    /\ UNCHANGED <<system, due, cycle, phase, done, scan, lists, cursor, worker,
                   steady, accepted, troubles>>

\* The state of a process and the rule its name asks for, or that it is gone.
ScanObserves ==
    LET p == Least(pids)
    IN /\ pc = "scan" /\ pids \notin {{}, {0}} /\ left > 0 /\ seen.start = 0
       /\ left' = left - 1
       /\ \/ /\ start[p] # 0
             /\ seen' = [start |-> start[p], class |-> class[p], rule |-> rule[p]]
             /\ UNCHANGED pids /\ NoFault
          \/ start[p] = 0 /\ pids' = pids \ {p} /\ UNCHANGED seen /\ NoFault
          \/ FaultOn(p) /\ start[p] # 0 /\ pids' = pids \ {p} /\ UNCHANGED seen
       /\ UNCHANGED <<system, needed, due, pc, mode, cycle, phase, fast, done, fastdone,
                      thread, scanning, baselined, found, lists, cursor, worker, accepted>>

\* MUTANT: a background process without a rule is never dispatched.
should_dispatch_background_process_Matched(p, r) == r # "none"

\* Kernel threads under the default rule, which it passes over, are left out.
should_dispatch_background_process(p, r) == r # "none" \/ p \in baselined

\* The lists a process belongs to that was observed in class c under rule r.
Belongs(p, c, r) ==
    {ph \in Phases : \/ ph = 0 /\ c = "TOP"
                     \/ ph = 1 /\ r = "pinned"
                     \/ ph = 2 /\ r = "topfore" /\ c \in {"TOP", "FG"}
                     \/ ph = 3 /\ c = "FG"
                     \/ ph = 4 /\ c = "BG" /\ should_dispatch_background_process(p, r)}

\* After its threads the process is looked at again: if it is not the one
\* observed, it is observed once more.
ScanVerifies ==
    LET p == Least(pids)
    IN /\ pc = "scan" /\ seen.start # 0 /\ left > 0
       /\ left' \in 0..(left - 1)
       /\ IF start[p] = seen.start
          THEN /\ found' = [ph \in Phases |-> IF ph \in Belongs(p, seen.class, seen.rule)
                                              THEN found[ph] \cup {p} ELSE found[ph]]
               /\ pids' = pids \ {p}
          ELSE UNCHANGED <<found, pids>>
       /\ seen' = NotSeen
       /\ UNCHANGED <<system, needed, due, pc, mode, cycle, phase, fast, done, fastdone,
                      thread, scanning, baselined, lists, cursor, worker, steady, accepted,
                      troubles>>

ScanCompletes ==
    /\ pc = "scan" /\ pids = {}
    /\ pc' = "dispatch"
    /\ lists' = found
    /\ scanning' = FALSE /\ found' = NoLists /\ baselined' = {}
    /\ UNCHANGED <<system, needed, due, mode, left, cycle, phase, fast, done, fastdone,
                   thread, pids, seen, cursor, worker, steady, accepted, troubles>>

----------------------------------------------------------------------------
(* dispatch_pids_to_workers for the list at hand.                          *)

At == IF mode = "full" THEN phase ELSE fast
Cur == cursor[At]
Moved(c) == cursor' = [cursor EXCEPT ![At] = c]
Untouched == UNCHANGED <<system, due, scan, lists>>

Listed == mode = "full" => phase < 5

\* Where the pass goes on: at the cursor's process, or after it if the list
\* has it no more.
Resume ==
    LET rest == {p \in lists[At] : p >= Cur.pid}
    IN IF rest = {} THEN 0 ELSE Least(rest)

\* The process after p, 0 for none.
After(p) ==
    LET rest == {q \in lists[At] : q > p}
    IN IF rest = {} THEN 0 ELSE Least(rest)

\* The next list, with a budget of l left; a fast slice has three.
PhaseEnds(l) ==
    IF mode = "full"
    THEN /\ phase' = phase + 1 /\ left' = l
         /\ UNCHANGED <<needed, pc, mode, fast, fastdone, thread>>
    ELSE /\ UNCHANGED phase
         /\ IF fast < 2
            THEN /\ fast' = fast + 1 /\ left' = l
                 /\ UNCHANGED <<needed, pc, mode, fastdone, thread>>
            ELSE Suspended

\* A list is entered: the cursor is where the last slice left it, or at
\* the first process.
Enters ==
    /\ pc = "dispatch" /\ Listed /\ left > 0 /\ (Cur.pid = 0 \/ Resume # Cur.pid)
    /\ IF Resume = 0 THEN Moved(NoCursor) /\ PhaseEnds(left)
       ELSE /\ Moved(begin_pid(Resume))
            /\ UNCHANGED <<needed, pc, mode, left, phase, fast, fastdone, thread>>
    /\ UNCHANGED <<cycle, done, worker, accepted>> /\ Untouched /\ NoFault

Ready == pc = "dispatch" /\ Listed /\ Cur.pid # 0 /\ Resume = Cur.pid
InProcess == Ready /\ left > 0
ThreadsDone == Cur.stage = "threads" /\ Cur.todo = {}

\* The budget is over before the next read: the cursor stays.
RunsOut ==
    /\ pc = "dispatch" /\ Listed /\ left = 0 /\ ~ThreadsDone
    /\ Suspended
    /\ UNCHANGED <<cycle, phase, done, cursor, worker, accepted>> /\ Untouched /\ NoFault

\* The next process of the list, if there is one.
Leaves(l) ==
    IF After(Cur.pid) # 0
    THEN /\ Moved(begin_pid(After(Cur.pid))) /\ left' = l
         /\ UNCHANGED <<needed, pc, mode, phase, fast, fastdone, thread>>
    ELSE Moved(NoCursor) /\ PhaseEnds(l)

\* enumerate_tids.
ListsTids ==
    LET p == Cur.pid
    IN /\ InProcess /\ Cur.stage = "list"
       /\ \/ Moved([Cur EXCEPT !.stage = "name", !.todo = Alive(p)]) /\ NoFault
          \/ FaultOn(p) /\ Alive(p) # {} /\ Moved([Cur EXCEPT !.stage = "name"])
       /\ left' \in 0..(left - 1)
       /\ UNCHANGED <<needed, pc, mode, cycle, phase, fast, done, fastdone, thread, worker,
                      accepted>> /\ Untouched

\* The name, the start time and the command line, each loaded once.
NextStage == [name |-> "start", start |-> "cmdline", cmdline |-> "threads"]

LoadsProcess ==
    LET p == Cur.pid
    IN /\ InProcess /\ Cur.stage \in DOMAIN NextStage
       /\ Moved([Cur EXCEPT !.stage = NextStage[Cur.stage],
                            !.start = IF Cur.stage = "start" THEN start[p] ELSE Cur.start,
                            !.rule = IF Cur.stage = "name" THEN rule[p] ELSE Cur.rule])
       /\ Cur.stage # "cmdline" => start[p] # 0
       /\ left' = left - 1
       /\ UNCHANGED <<needed, pc, mode, cycle, phase, fast, done, fastdone, thread, worker,
                      accepted>> /\ Untouched /\ NoFault

\* The process is dead, or its threads are done.
LeavesProcess ==
    LET p == Cur.pid
    IN /\ \/ /\ InProcess /\ Cur.stage \in {"name", "start"}
             /\ \/ start[p] = 0 /\ NoFault
                \/ start[p] # 0 /\ FaultOn(p)
             /\ Leaves(left - 1)
          \/ Ready /\ ThreadsDone /\ Leaves(left) /\ NoFault
       /\ UNCHANGED <<cycle, done, worker, accepted>> /\ Untouched

Thread == Least(Cur.todo)
Next1(t) == Moved([Cur EXCEPT !.todo = @ \ {t}])          \* tid_index stays ahead
Done == IF mode = "full" THEN done ELSE fastdone
Less == IF left > 0 THEN left - 1 ELSE 0

\* MUTANT: the thread at which the budget ended is passed over.
Hold_PassesOver == Moved([Cur EXCEPT !.todo = @ \ {Thread}])

\* --tid_index: the slice ends and the thread is still to be done.
Hold == UNCHANGED cursor

\* A thread that has been dispatched, or is dead, is passed over.
ReadsName ==
    LET t == Thread
    IN /\ InProcess /\ Cur.stage = "threads" /\ Cur.todo # {}
       /\ \/ /\ t \in Done /\ Next1(t)
             /\ NoFault /\ UNCHANGED <<needed, pc, mode, left, fast, fastdone, thread>>
          \/ /\ t \notin Done /\ Next1(t) /\ left' = left - 1
             /\ \/ up[t] = 0 /\ NoFault
                \/ up[t] # 0 /\ FaultOn(Owner[t])
             /\ UNCHANGED <<needed, pc, mode, fast, fastdone, thread>>
          \/ /\ t \notin Done /\ up[t] # 0 /\ NoFault
             /\ IF left = 1 THEN Suspended /\ Hold
                ELSE /\ pc' = "start" /\ left' = left - 1
                     /\ UNCHANGED <<needed, mode, fast, fastdone, thread, cursor>>
       /\ UNCHANGED <<cycle, phase, done, worker, accepted>> /\ Untouched

ReadsThreadStart ==
    LET t == Thread
    IN /\ pc = "start" /\ left' = Less
       /\ \/ pc' = "verify" /\ thread' = up[t] /\ up[t] # 0 /\ UNCHANGED cursor /\ NoFault
          \/ /\ pc' = "dispatch" /\ Next1(t) /\ UNCHANGED thread
             /\ \/ up[t] = 0 /\ NoFault
                \/ up[t] # 0 /\ FaultOn(Owner[t])
       /\ UNCHANGED <<needed, mode, cycle, phase, fast, done, fastdone, worker, accepted>>
       /\ Untouched

\* MUTANT: the process is not looked at again.
IsVerified_Always == TRUE

IsVerified == start[Cur.pid] = Cur.start

\* MUTANT: the cursor keeps the process it has loaded.
StartsOver_Keeps == UNCHANGED cursor

StartsOver == Moved(NoCursor)

\* Another process has the ID, or it cannot be read: start over and scan.
VerifyFails ==
    /\ pc = "verify"
    /\ \/ ~IsVerified /\ NoFault
       \/ IsVerified /\ FaultOn(Cur.pid)
    /\ StartsOver
    /\ pc' = "sleep" /\ needed' = TRUE
    /\ Locals
    /\ UNCHANGED <<cycle, phase, done, worker, accepted>> /\ Untouched

\* ScanWorker::enqueue: a task that is queued already is replaced.
Waiting == {t \in Tids : queue[t] # NoTask}

Accepts(t) == t \in Waiting \/ Cardinality(Waiting) < Capacity

\* The budget is over, or the queue is full, which asks for a scan.
HoldsThread ==
    LET t == Thread
    IN /\ pc = "verify" /\ IsVerified
       /\ Less = 0 \/ ~Accepts(t)
       /\ Hold
       /\ pc' = "sleep" /\ needed' = (needed \/ mode = "full" \/ Less > 0)
       /\ Locals
       /\ UNCHANGED <<cycle, phase, done, worker, accepted>> /\ Untouched /\ NoFault

Enqueues ==
    LET t == Thread
    IN /\ pc = "verify" /\ IsVerified
       /\ Less > 0 /\ Accepts(t)
       /\ queue' = [queue EXCEPT ![t] = [state |-> StateOf(At), process |-> Cur.start,
                                         thread |-> thread, rule |-> Cur.rule]]
       /\ IF mode = "full"
          THEN done' = done \cup {t} /\ accepted' = accepted \cup {t} /\ UNCHANGED fastdone
          ELSE fastdone' = fastdone \cup {t} /\ UNCHANGED <<done, accepted>>
       /\ Next1(t)
       /\ pc' = "dispatch" /\ left' = Less /\ thread' = 0
       /\ UNCHANGED <<needed, mode, cycle, phase, fast, sched, recent, applied>>
       /\ Untouched /\ NoFault

\* All lists are done.  A budget that ended just then leaves it to the
\* next slice.
CycleEnds ==
    /\ pc = "dispatch" /\ mode = "full" /\ phase = 5
    /\ IF left = 0 THEN Suspended /\ UNCHANGED <<due, cycle, phase, done, steady, accepted>>
       ELSE /\ pc' = "sleep" /\ Locals
            /\ cycle' = FALSE /\ phase' = 0 /\ done' = {} /\ due' = FALSE
            /\ steady' = {} /\ accepted' = {}
            /\ UNCHANGED needed
    /\ UNCHANGED <<system, scan, lists, cursor, worker, troubles>>

----------------------------------------------------------------------------
(* process_dispatch_task, as far as the throttle goes.                     *)

Effective(s, r) == IF r = "pinned" \/ (r = "topfore" /\ s = "FG") THEN "TOP" ELSE s

\* should_throttle_same_state_schedule.
Throttled(t, k) ==
    /\ sched[t] = k.state /\ recent[t] > 0
    /\ UNCHANGED <<sched, recent, applied, troubles>>

\* The window is recorded first; what follows may fail.
Scheduled(t, k) ==
    /\ ~(sched[t] = k.state /\ recent[t] > 0)
    /\ sched' = [sched EXCEPT ![t] = k.state]
    /\ recent' = [recent EXCEPT ![t] = Window]
    /\ \/ /\ applied' = [applied EXCEPT ![t] = IF k.rule = "none" THEN "none"
                                              ELSE Effective(k.state, k.rule)]
          /\ UNCHANGED troubles
       \/ Trouble /\ UNCHANGED applied

WorkerTakes(t) ==
    LET k == queue[t]
    IN /\ k # NoTask /\ queue' = [queue EXCEPT ![t] = NoTask]
       /\ IF up[t] # k.thread \/ start[Owner[t]] # k.process
          THEN UNCHANGED <<sched, recent, applied, troubles>>
          ELSE Throttled(t, k) \/ Scheduled(t, k)
       /\ UNCHANGED <<system, needed, due, main, scan, lists, cursor, steady, accepted>>

Scan == ScanLists \/ ScanRunsOut \/ ScanObserves \/ ScanVerifies \/ ScanCompletes
Dispatch == \/ Enters \/ RunsOut \/ ListsTids \/ LoadsProcess \/ LeavesProcess
            \/ ReadsName \/ ReadsThreadStart \/ VerifyFails \/ HoldsThread \/ Enqueues
            \/ CycleEnds
Begins == \E b \in Budgets : SliceBegins(b)

Next == \/ \E p \in Pids : ProcessReplaced(p) \/ ProcessMoves(p)
        \/ \E t \in Tids : ThreadChanges(t) \/ WorkerTakes(t)
        \/ RescanRequested \/ RefreshDue
        \/ Begins \/ Scan \/ Dispatch

\* The main thread and the worker keep running, the refresh interval ends,
\* and time and again a slice gets the largest of the budgets.
Ample == CHOOSE b \in Budgets : \A c \in Budgets : c <= b
Fairness ==
    /\ WF_vars(Begins) /\ WF_vars(Scan \/ Dispatch) /\ SF_vars(SliceBegins(Ample))
    /\ WF_vars(RefreshDue)
    /\ \A t \in Tids : WF_vars(WorkerTakes(t))
Spec == Init /\ [][Next]_vars /\ Fairness

----------------------------------------------------------------------------
(* Properties.                                                             *)

ClassNames == {"TOP", "FG", "BG"}
RuleNames == {"none", "plain", "pinned", "topfore"}
Cursors == [pid : Pids \cup {0}, stage : {"list", "name", "start", "cmdline", "threads"},
            todo : SUBSET Tids, start : Nat, rule : RuleNames]
Tasks == [state : ClassNames \cup {"none"}, process : Nat, thread : Nat, rule : RuleNames]

SystemOK ==
    /\ start \in [Pids -> Nat] /\ up \in [Tids -> Nat]
    /\ class \in [Pids -> ClassNames] /\ rule \in [Pids -> RuleNames]
    /\ troubles \in 0..MaxTroubles
MainOK ==
    /\ pc \in {"sleep", "scan", "dispatch", "start", "verify"} /\ mode \in {"full", "fast"}
    /\ left \in Nat /\ phase \in 0..5 /\ fast \in 0..2 /\ thread \in Nat
    /\ needed \in BOOLEAN /\ due \in BOOLEAN /\ cycle \in BOOLEAN
    /\ done \subseteq Tids /\ fastdone \subseteq Tids
    /\ steady \subseteq Tids /\ accepted \subseteq Tids
ScanOK ==
    /\ scanning \in BOOLEAN /\ pids \in (SUBSET Pids) \cup {{0}}
    /\ seen \in [start : Nat, class : ClassNames, rule : RuleNames]
    /\ baselined \subseteq Pids
    /\ found \in [Phases -> SUBSET Pids] /\ lists \in [Phases -> SUBSET Pids]
CursorOK == cursor \in [Phases -> Cursors]
WorkerOK ==
    /\ queue \in [Tids -> Tasks] /\ Cardinality(Waiting) <= Capacity
    /\ sched \in [Tids -> ClassNames \cup {"none"}] /\ recent \in [Tids -> 0..Window]
    /\ applied \in [Tids -> ClassNames \cup {"none"}]

\* The number of waiting tasks is bounded, whatever is dispatched.
TypeOK == SystemOK /\ MainOK /\ ScanOK /\ CursorOK /\ WorkerOK

\* A task names a thread together with the process it belongs to, although
\* the two start times are read at different moments, and slices apart,
\* while process and thread IDs are reused.
TaskGenuine == \A t \in Waiting : queue[t].process = queue[t].thread

\* The class whose settings a thread should have, "none" without a rule.
Entitled(t) == IF rule[Owner[t]] = "none" THEN "none"
               ELSE Effective(class[Owner[t]], rule[Owner[t]])

\* Whether a full cycle has to dispatch the thread.
Covered(t) == class[Owner[t]] # "BG" \/ rule[Owner[t]] # "none"

\* A cycle that completes has had a task accepted for every thread that
\* lived through it in one class, however its slices were cut, queues were
\* full and other processes came and went: no cursor passes over a thread.
CycleCovers ==
    [][cycle /\ ~cycle' => \A t \in steady : Covered(t) => t \in accepted]_vars

\* Every thread is scheduled again and again while it lives and is listed.
Served == \A t \in Tids : []<>(up[t] = 0 \/ ~Covered(t) \/ recent[t] = Window)

\* A thread ends up with the settings it is entitled to, and without any if
\* its rule is gone: a task that failed, was throttled or met a full queue
\* is made up for, and a background process is restored from its baseline.
Converges == \A t \in Tids : <>[](up[t] = 0 \/ applied[t] = Entitled(t))
============================================================================
