--------------------------- MODULE ThreadCustody ---------------------------
(***************************************************************************)
(* Who holds the original scheduling state of a thread, and when it is     *)
(* given back.                                                             *)
(*                                                                         *)
(* ReUperf changes four kernel attributes of a thread (affinity mask,      *)
(* cpuset, scheduler, cpuctl group), by numeric TID, and keeps in          *)
(* ThreadCache the baseline it found first.  This module models everything *)
(* that touches an attribute or the cache: ScanWorker's                    *)
(* process_dispatch_task, the event router's handler, the full scan's      *)
(* clean-up, configuration reload and shutdown, next to a kernel in which  *)
(* threads exit, IDs are reused, Android moves threads back, system calls  *)
(* fail and /proc reads may fail.                                          *)
(*                                                                         *)
(* Steps.  Each read of /proc, each system call and each critical section  *)
(* of ThreadCache::mutex_ that another thread could separate from its      *)
(* neighbours is one action, so an identity check and the call it guards   *)
(* are two.                                                                *)
(*                                                                         *)
(* Data.  A thread is its cache key (pid, tid); its identity is its start  *)
(* time, drawn from one clock, 0 while no such thread exists.  An          *)
(* attribute's value is the start time of a thread (the value the system   *)
(* gave that thread), a match result (the value that rule sets), or        *)
(* Partial (a half-finished takeover).  So an attribute of a live thread   *)
(* is untouched exactly when its value is the thread's own start time.     *)
(***************************************************************************)
EXTENDS Naturals, FiniteSets

CONSTANTS
    Pids, Threads,   \* processes, and the (pid, tid) keys of their threads
    PidOf,           \* the process of each key
    Workers, Main,   \* the ScanWorker threads, and the main thread
    WorkerOf,        \* the hash of a full identity that picks its worker
    Labels,          \* name, command line and state a task is dispatched with
    Results, Needs,  \* match results, and the dimensions each one manages
    Configs, Match,  \* configurations, and the result of each label in each
    CaptureMisses,   \* sets of attributes a capture may fail to read
    ReadFaults,      \* the readers whose /proc reads of a live thread may fail
    Monitored,       \* whether the /proc monitor delivers process events
    Scanning,        \* whether full scans run
    Drifting,        \* attributes Android sets again on its own
    Requests,        \* configurations that get loaded; None asks to shut down
    MaxStart,        \* bound: number of thread and process starts
    kShutdownRestoreAttempts,
    Partial, None, NoEntry

Dims == {"affinity", "priority", "cpuctl"}
Attrs == {"mask", "cset", "sched", "group"}
DimOf == [a \in Attrs |-> CASE a \in {"mask", "cset"} -> "affinity"
                            [] a = "sched" -> "priority"
                            [] OTHER -> "cpuctl"]
Starts == 1..MaxStart
Values == Starts \cup Results \cup {Partial}

Bases == [Attrs -> Values \cup {None}]
Jobs == [t : Threads, id : Starts, proc : Nat, label : Labels \cup {None},
         res : Results \cup {None}, base : Bases,
         man : SUBSET Dims, mode : {"none", "remove", "apply", "restore"},
         todo : SUBSET Attrs, ok : BOOLEAN]
Entries == [id : Starts, proc : Nat, label : Labels \cup {None}, result : Results,
            applied : Results \cup {None}, managed : SUBSET Dims,
            base : Bases]
Scans == [snap : [Threads -> Nat], todo : SUBSET Pids, procs : [Pids -> Nat],
          seen : [Threads -> Nat], dead : SUBSET Pids, missed : SUBSET Threads]

ASSUME CustodyAssumption ==
    /\ PidOf \in [Threads -> Pids]
    /\ Main \notin Workers
    /\ WorkerOf \in [Threads \X Starts -> Workers]
    /\ Needs \in [Results -> SUBSET Dims]
    /\ Match \in [Configs -> [Labels -> Results]]
    /\ CaptureMisses \subseteq SUBSET Attrs
    /\ Drifting \subseteq Attrs
    /\ Requests \subseteq Configs \cup {None}
    /\ ReadFaults \subseteq {"job", "scan"}
    /\ Monitored \in BOOLEAN /\ Scanning \in BOOLEAN
    /\ MaxStart \in Nat
    /\ kShutdownRestoreAttempts \in Nat \ {0}
    /\ Results \cap Nat = {} /\ Partial \notin Nat
    /\ None \notin Values /\ None \notin Scans /\ NoEntry \notin Entries

VARIABLES
    clock,     \* the last start time given out
    proc,      \* start time of each process, 0 if there is none
    id,        \* start time of each thread, 0 if there is none
    val,       \* the kernel attributes of each thread
    cache,     \* ThreadCache::cache_
    pc, job,   \* what each worker, and the main thread, is doing
    cfg,       \* the configuration in force
    phase,     \* the main thread: run, stopping, restoring, clean, incomplete
    want,      \* the configuration being loaded, None during shutdown
    left,      \* baselines restore_all_thread_baselines has not reached
    allOk,     \* its all_restored
    tries,     \* restoration attempts made
    events,    \* processes with an event waiting in the EventRouter
    scan,      \* FullScanState, None when no scan is active
    disturbed  \* history: threads whose custody was broken, see below

kernel == <<clock, proc, id, val>>
mainVars == <<cfg, phase, want, left, allOk, tries>>
vars == <<kernel, cache, pc, job, mainVars, events, scan, disturbed>>

Actors == Workers \cup {Main}
NoBase == [a \in Attrs |-> None]
NoAttrs == [a \in Attrs |-> Partial]    \* of a thread that does not exist

(***************************************************************************)
(* disturbed[t] marks the three ways the code itself gives a live thread's *)
(* baseline away; the properties below say there is no fourth:            *)
(*   - reset_for_pid, which takes no start time, erases its entry;         *)
(*   - a job whose thread has been replaced changes the replacement or     *)
(*     its cache entry, because system calls and most cache operations     *)
(*     take no start time either;                                          *)
(*   - a failed /proc read makes the code take a live thread for dead.     *)
(***************************************************************************)

HasEntry(t, g) == cache[t] # NoEntry /\ cache[t].id = g
HasBase(t) == cache[t] # NoEntry /\ cache[t].base # NoBase
LiveBase(t) == id[t] # 0 /\ HasEntry(t, id[t]) /\ HasBase(t)

Init ==
    /\ clock = 0
    /\ proc = [p \in Pids |-> 0]
    /\ id = [t \in Threads |-> 0]
    /\ val = [t \in Threads |-> NoAttrs]
    /\ cache = [t \in Threads |-> NoEntry]
    /\ pc = [w \in Actors |-> "idle"]
    /\ job = [w \in Actors |-> None]
    /\ cfg \in Configs
    /\ phase = "run" /\ want = None /\ left = {} /\ allOk = TRUE /\ tries = 0
    /\ events = {}
    /\ scan = None
    /\ disturbed = [t \in Threads |-> FALSE]

----------------------------------------------------------------------------
(* The kernel and Android.                                                 *)

Born(t) ==
    /\ clock < MaxStart
    /\ clock' = clock + 1
    /\ id' = [id EXCEPT ![t] = clock + 1]
    /\ val' = [val EXCEPT ![t] = [a \in Attrs |-> clock + 1]]
    /\ disturbed' = [disturbed EXCEPT ![t] = FALSE]
    /\ UNCHANGED <<cache, pc, job, mainVars, scan>>

Announce(p) == events' = IF Monitored THEN events \cup {p} ELSE events

ProcessStart(t) ==
    /\ proc[PidOf[t]] = 0
    /\ Born(t)
    /\ proc' = [proc EXCEPT ![PidOf[t]] = clock + 1]
    /\ Announce(PidOf[t])

ThreadStart(t) ==
    /\ proc[PidOf[t]] # 0
    /\ id[t] = 0
    /\ Born(t)
    /\ UNCHANGED <<proc, events>>

ThreadExit(t) ==
    /\ id[t] # 0
    /\ \E u \in Threads \ {t} : PidOf[u] = PidOf[t] /\ id[u] # 0
    /\ id' = [id EXCEPT ![t] = 0]
    /\ val' = [val EXCEPT ![t] = NoAttrs]
    /\ UNCHANGED <<clock, proc, cache, pc, job, mainVars, events, scan, disturbed>>

ProcessExit(p) ==
    /\ proc[p] # 0
    /\ proc' = [proc EXCEPT ![p] = 0]
    /\ id' = [t \in Threads |-> IF PidOf[t] = p THEN 0 ELSE id[t]]
    /\ val' = [t \in Threads |-> IF PidOf[t] = p THEN NoAttrs ELSE val[t]]
    /\ Announce(p)
    /\ UNCHANGED <<clock, cache, pc, job, mainVars, scan, disturbed>>

\* Android puts an attribute back to the value it wants for the thread.
SystemResets(t, a) ==
    /\ id[t] # 0 /\ a \in Drifting
    /\ val' = [val EXCEPT ![t][a] = id[t]]
    /\ UNCHANGED <<clock, proc, id, cache, pc, job, mainVars, events, scan, disturbed>>

Environment ==
    \/ \E t \in Threads : ProcessStart(t) \/ ThreadStart(t) \/ ThreadExit(t)
    \/ \E p \in Pids : ProcessExit(p)
    \/ \E t \in Threads, a \in Attrs : SystemResets(t, a)

----------------------------------------------------------------------------
(* Pieces of a job.                                                        *)

\* is_current_task_identity, as the worker can see it: a failed read of
\* /proc makes it false for a thread that is alive.
Matches(w) == id[job[w].t] = job[w].id
Mismatch(w) == ~Matches(w) \/ "job" \in ReadFaults

\* The thread the job is about is gone and its key belongs to another one.
Stale(w) == id[job[w].t] \notin {0, job[w].id}

Goto(w, there, j) == /\ pc' = [pc EXCEPT ![w] = there]
                     /\ job' = [job EXCEPT ![w] = j]
Quit(w) == Goto(w, "idle", None)

\* A cache or attribute change of job w: it is a disturbance if the thread
\* it reaches is not the one the job is about.
Blame(w) ==
    disturbed' = [disturbed EXCEPT ![job[w].t] =
                    @ \/ (Stale(w) /\ (cache' # cache \/ val' # val))]

\* erase_thread_if_identity for thread t and start time g.
EraseIfIdentity(t, g) ==
    /\ cache' = IF HasEntry(t, g) THEN [cache EXCEPT ![t] = NoEntry] ELSE cache
    /\ disturbed' = [disturbed EXCEPT ![t] = @ \/ (g = id[t] /\ LiveBase(t))]

\* A keyed cache operation: it changes whatever entry the key has.
Keyed(w, e) ==
    cache' = IF cache[job[w].t] = NoEntry THEN cache
             ELSE [cache EXCEPT ![job[w].t] = e]

\* The order in which each kind of sequence visits the attributes.
Rank == [apply   |-> [mask |-> 1, cset |-> 2, sched |-> 3, group |-> 4],
         remove  |-> [cset |-> 1, mask |-> 2, sched |-> 3, group |-> 4],
         restore |-> [group |-> 1, sched |-> 2, cset |-> 3, mask |-> 4]]
IsFirst(a, j) ==
    /\ a \in j.todo
    /\ \A b \in j.todo : Rank[j.mode][a] <= Rank[j.mode][b]

\* Where a job continues once attribute a has been dealt with: a removed
\* dimension is verified as soon as it is complete, the others at the end.
After(a, j) ==
    IF j.todo = {} \/ (j.mode = "remove" /\ \A b \in j.todo : DimOf[b] # DimOf[a])
    THEN "verify" ELSE "check"

ApplyJob(j) == [j EXCEPT !.mode = "apply", !.ok = TRUE,
                         !.todo = {a \in Attrs : DimOf[a] \in Needs[j.res]}]

----------------------------------------------------------------------------
(* A worker takes a task: process_dispatch_task.                           *)

\* The first identity check passes.  A task the throttle drops
\* (should_skip_schedule) ends here without any effect.
Take(w, t, l) ==
    /\ w \in Workers /\ pc[w] = "idle"
    /\ phase \in {"run", "stopping"}
    /\ id[t] # 0 /\ WorkerOf[<<t, id[t]>>] = w
    /\ Goto(w, "look", [t |-> t, id |-> id[t], proc |-> proc[PidOf[t]], label |-> l,
                        res |-> None, base |-> NoBase, man |-> {}, mode |-> "none",
                        todo |-> {}, ok |-> TRUE])
    /\ UNCHANGED <<kernel, cache, mainVars, events, scan, disturbed>>

\* It fails: the task waited in the queue for longer than its thread lived,
\* or /proc could not be read.
DropStale(w, t, g) ==
    /\ w \in Workers /\ pc[w] = "idle"
    /\ phase \in {"run", "stopping"}
    /\ WorkerOf[<<t, g>>] = w /\ g <= clock
    /\ id[t] # g \/ "job" \in ReadFaults
    /\ EraseIfIdentity(t, g)
    /\ UNCHANGED <<kernel, pc, job, mainVars, events, scan>>

\* ThreadCache::update.
UpdatedEntry(j, r) ==
    IF HasEntry(j.t, j.id)
    THEN [cache[j.t] EXCEPT !.label = j.label, !.result = r]
    ELSE [id |-> j.id, proc |-> j.proc, label |-> j.label, result |-> r,
          applied |-> None, managed |-> {}, base |-> NoBase]

Hit(j) == HasEntry(j.t, j.id) /\ cache[j.t].label = j.label

\* Cached result already applied.  Affinity and scheduler drift are looked
\* at on every task; cgroup drift only when its check is due.
NothingToDo(w) ==
    LET j == job[w]
        e == cache[j.t]
    IN /\ pc[w] = "look"
       /\ Hit(j) /\ e.applied = e.result
       /\ id[j.t] # 0
       /\ "affinity" \in Needs[e.result] => val[j.t]["mask"] = e.result
       /\ "priority" \in Needs[e.result] => val[j.t]["sched"] = e.result
       /\ Quit(w)
       /\ UNCHANGED <<kernel, cache, mainVars, events, scan, disturbed>>

Drifted(t, r) == \E a \in Attrs : DimOf[a] \in Needs[r] /\ val[t][a] # r

\* A cached result that is not applied or has drifted, or a fresh match that
\* update() stores; then apply_result.
Look(w) ==
    LET j == job[w]
        r == IF Hit(j) THEN cache[j.t].result ELSE Match[cfg][j.label]
    IN /\ pc[w] = "look"
       /\ Hit(j) => \/ cache[j.t].applied # r
                    \/ id[j.t] = 0 \/ Drifted(j.t, r) \/ "job" \in ReadFaults
       /\ cache' = IF Hit(j) THEN cache ELSE [cache EXCEPT ![j.t] = UpdatedEntry(j, r)]
       /\ Goto(w, IF Needs[r] = {} THEN "getbase" ELSE "capture",
               [j EXCEPT !.res = r, !.label = None])
       /\ UNCHANGED <<kernel, mainVars, events, scan>>
       /\ Blame(w)

----------------------------------------------------------------------------
(* capture_baseline_if_needed, and the plan apply_result makes.            *)

\* The attributes are read by TID from whichever thread answers.
Capture(w, missing) ==
    /\ pc[w] = "capture"
    /\ LET t == job[w].t IN
        Goto(w, "capcheck",
             [job[w] EXCEPT !.base = [a \in Attrs |->
                IF id[t] = 0 \/ a \in missing THEN None ELSE val[t][a]]])
    /\ UNCHANGED <<kernel, cache, mainVars, events, scan, disturbed>>

CaptureCheck(w) ==
    /\ pc[w] = "capcheck"
    /\ \/ Matches(w) /\ Goto(w, "capset", job[w])
       \/ Mismatch(w) /\ Goto(w, "plan", [job[w] EXCEPT !.base = NoBase])
    /\ UNCHANGED <<kernel, cache, mainVars, events, scan, disturbed>>

\* MUTANT: every capture replaces the baseline.
SetBaseline_Overwrites(w) ==
    LET j == job[w]
    IN /\ pc[w] = "capset"
       /\ Keyed(w, [cache[j.t] EXCEPT !.base = j.base])
       /\ Goto(w, "plan", [j EXCEPT !.base = NoBase])
       /\ UNCHANGED <<kernel, mainVars, events, scan>>
       /\ Blame(w)

\* ThreadCache::set_baseline: a component already held is never replaced.
SetBaseline(w) ==
    LET j == job[w]
        e == cache[j.t]
    IN /\ pc[w] = "capset"
       /\ Keyed(w, [e EXCEPT !.base = [a \in Attrs |->
                        IF e.base[a] = None THEN j.base[a] ELSE e.base[a]]])
       /\ Goto(w, "plan", [j EXCEPT !.base = NoBase])
       /\ UNCHANGED <<kernel, mainVars, events, scan>>
       /\ Blame(w)

\* get_baseline and get_managed_components: without the baseline of every
\* needed component nothing is done; dimensions no longer needed go first.
Plan(w) ==
    LET j == job[w]
        e == cache[j.t]
        gone == e.managed \ Needs[j.res]
        k == [j EXCEPT !.base = e.base, !.man = e.managed, !.mode = "remove",
                       !.todo = {a \in Attrs : DimOf[a] \in gone}]
    IN /\ pc[w] = "plan"
       /\ IF e # NoEntry /\ \A a \in Attrs : DimOf[a] \in Needs[j.res] => e.base[a] # None
          THEN Goto(w, "check", IF gone = {} THEN ApplyJob(k) ELSE k)
          ELSE Quit(w)
       /\ UNCHANGED <<kernel, cache, mainVars, events, scan, disturbed>>

\* restore_baseline for a result that manages nothing.
GetBaseline(w) ==
    LET j == job[w]
        e == cache[j.t]
    IN /\ pc[w] = "getbase"
       /\ IF HasBase(j.t)
          THEN /\ Goto(w, "check", [j EXCEPT !.base = e.base, !.mode = "restore",
                                      !.todo = {a \in Attrs : e.base[a] # None}])
               /\ UNCHANGED cache
          ELSE /\ Keyed(w, [e EXCEPT !.applied = None, !.managed = {}])
               /\ Quit(w)
       /\ UNCHANGED <<kernel, mainVars, events, scan>>
       /\ Blame(w)

----------------------------------------------------------------------------
(* The sequences: check the identity, change one attribute, go on.         *)

CheckPasses(w) ==
    /\ pc[w] = "check" /\ Matches(w)
    /\ Goto(w, "write", job[w])
    /\ UNCHANGED <<kernel, cache, mainVars, events, scan, disturbed>>

\* restore_*_baseline returns false and apply_result returns.
RemovalAborts(w) ==
    /\ pc[w] = "check" /\ Mismatch(w)
    /\ job[w].mode = "remove"
    /\ Quit(w)
    /\ UNCHANGED <<kernel, cache, mainVars, events, scan, disturbed>>

\* run_takeover_sequence breaks out; the check that follows it decides.
TakeoverBreaks(w) ==
    LET rest == {a \in job[w].todo : DimOf[a] # "affinity"}
    IN /\ pc[w] = "check" /\ Mismatch(w)
       /\ job[w].mode = "apply" /\ rest # job[w].todo
       /\ Goto(w, IF rest = {} THEN "verify" ELSE "check",
               [job[w] EXCEPT !.todo = rest, !.ok = FALSE])
       /\ UNCHANGED <<kernel, cache, mainVars, events, scan, disturbed>>

\* MUTANT: a skipped dimension counts as restored.
RestoreSkips_AsDone(w, a) ==
    LET k == [job[w] EXCEPT !.todo = {b \in @ : DimOf[b] # DimOf[a]}]
    IN /\ pc[w] = "check" /\ "job" \in ReadFaults /\ Matches(w)
       /\ w \in Workers /\ job[w].mode = "restore" /\ IsFirst(a, job[w])
       /\ Goto(w, After(a, k), k)
       /\ UNCHANGED <<kernel, cache, mainVars, events, scan, disturbed>>

\* A worker's restore_*_baseline returns false on a check that failed, and
\* the check after it passes again: the dimension is skipped.
RestoreSkips(w, a) ==
    LET k == [job[w] EXCEPT !.todo = {b \in @ : DimOf[b] # DimOf[a]}, !.ok = FALSE]
    IN /\ pc[w] = "check" /\ "job" \in ReadFaults /\ Matches(w)
       /\ w \in Workers /\ job[w].mode = "restore" /\ IsFirst(a, job[w])
       /\ Goto(w, After(a, k), k)
       /\ UNCHANGED <<kernel, cache, mainVars, events, scan, disturbed>>

\* Any other check that fails discards the entry of the job's identity.
Discards(w) ==
    /\ \/ pc[w] = "verify" /\ job[w].mode # "remove"
       \/ /\ pc[w] = "check"
          /\ \/ job[w].mode = "restore"
             \/ job[w].mode = "apply" /\ \A a \in job[w].todo : DimOf[a] # "affinity"
    /\ Mismatch(w)
    /\ EraseIfIdentity(job[w].t, job[w].id)
    /\ Quit(w)
    /\ UNCHANGED <<kernel, mainVars, events, scan>>

\* The value a job writes, and the half-way values a failure can leave: the
\* top-app parent group, or a scheduler policy without its nice value.
NewValue(j, a) == IF j.mode = "apply" THEN j.res ELSE j.base[a]
Halfway(j, a) == (j.mode = "apply" /\ a = "cset") \/ a = "sched"

\* A system call on the TID.  It reaches whichever thread has the TID now.
\* The takeover of the affinity dimension counts as done when a re-read says
\* so, the others when the call reports success.
Write(w, a) ==
    LET j == job[w]
        t == j.t
        k == [j EXCEPT !.todo = @ \ {a}]
        done(v) == IF j.mode = "apply" /\ DimOf[a] = "affinity"
                   THEN id[t] # 0 /\ v = j.res ELSE FALSE
    IN /\ pc[w] = "write" /\ IsFirst(a, j)
       /\ \/ /\ NewValue(j, a) # None /\ id[t] # 0
             /\ val' = [val EXCEPT ![t][a] = NewValue(j, a)]
             /\ Goto(w, After(a, k), k)
          \/ /\ NewValue(j, a) # None /\ id[t] # 0
             /\ Halfway(j, a) /\ val[t][a] # NewValue(j, a)
             /\ val' = [val EXCEPT ![t][a] = Partial]
             /\ Goto(w, After(a, k), [k EXCEPT !.ok = FALSE])
          \/ /\ NewValue(j, a) # None
             /\ Goto(w, After(a, k), [k EXCEPT !.ok = @ /\ done(val[t][a])])
             /\ UNCHANGED val
          \/ /\ NewValue(j, a) = None
             /\ Goto(w, After(a, k), [k EXCEPT !.ok = @ /\ DimOf[a] = "affinity"])
             /\ UNCHANGED val
       /\ UNCHANGED <<clock, proc, id, cache, mainVars, events, scan>>
       /\ Blame(w)

\* MUTANTs: a restoration settles whether its calls succeeded or not; the
\* main thread forgets a thread it could not restore.
Verify_Restored(w) ==
    /\ pc[w] = "verify"
    /\ \/ Matches(w) /\ (job[w].ok \/ job[w].mode # "remove") /\ Goto(w, "settle", job[w])
       \/ job[w].mode = "remove" /\ (Mismatch(w) \/ ~job[w].ok) /\ Quit(w)
    /\ UNCHANGED <<kernel, cache, mainVars, events, scan, disturbed>>

Verify_Forgets(w) ==
    LET j == job[w]
    IN /\ pc[w] = "verify"
       /\ \/ Matches(w) /\ (j.ok \/ j.mode = "apply") /\ Goto(w, "settle", j)
          \/ Matches(w) /\ ~j.ok /\ j.mode # "apply" /\ Quit(w)
          \/ Mismatch(w) /\ j.mode = "remove" /\ Quit(w)
       /\ UNCHANGED <<kernel, cache, mainVars, events, scan, disturbed>>

\* The check after the last change.  A sequence with a failed step keeps the
\* entry as it is, except that apply_result records the attempt.
Verify(w) ==
    LET j == job[w]
    IN /\ pc[w] = "verify"
       /\ \/ Matches(w) /\ (j.ok \/ j.mode = "apply") /\ Goto(w, "settle", j)
          \/ Matches(w) /\ ~j.ok /\ j.mode # "apply" /\ Quit(w)
          \/ Mismatch(w) /\ j.mode = "remove" /\ Quit(w)
       /\ allOk' = (allOk /\ ~(w = Main /\ ~j.ok))
       /\ UNCHANGED <<kernel, cache, cfg, phase, want, left, tries, events, scan, disturbed>>

\* set_managed_components after a removed dimension.
RemovalSettles(w) ==
    LET j == job[w]
        man == {d \in j.man : d \in Needs[j.res] \/ \E a \in j.todo : DimOf[a] = d}
        k == [j EXCEPT !.man = man]
    IN /\ pc[w] = "settle" /\ j.mode = "remove"
       /\ Keyed(w, [cache[j.t] EXCEPT !.managed = man])
       /\ Goto(w, "check", IF j.todo = {} THEN ApplyJob(k) ELSE k)
       /\ UNCHANGED <<kernel, mainVars, events, scan>>
       /\ Blame(w)

\* MUTANT: only a complete success is recorded.
ApplySettles_Success(w) ==
    LET j == job[w]
    IN /\ pc[w] = "settle" /\ j.mode = "apply"
       /\ IF j.ok THEN Keyed(w, [cache[j.t] EXCEPT !.managed = j.man \cup Needs[j.res],
                                                   !.applied = j.res])
          ELSE UNCHANGED cache
       /\ Quit(w)
       /\ UNCHANGED <<kernel, mainVars, events, scan>>
       /\ Blame(w)

\* set_managed_components for every dimension attempted, and
\* update_applied_result when all of them succeeded.
ApplySettles(w) ==
    LET j == job[w]
        e == cache[j.t]
    IN /\ pc[w] = "settle" /\ j.mode = "apply"
       /\ Keyed(w, [e EXCEPT !.managed = j.man \cup Needs[j.res],
                             !.applied = IF j.ok THEN j.res ELSE @])
       /\ Quit(w)
       /\ UNCHANGED <<kernel, mainVars, events, scan>>
       /\ Blame(w)

\* clear_baseline, clear_applied_result, clear_managed_components.
RestoreSettles(w) ==
    LET j == job[w]
    IN /\ pc[w] = "settle" /\ j.mode = "restore"
       /\ Keyed(w, [cache[j.t] EXCEPT !.base = NoBase, !.applied = None, !.managed = {}])
       /\ Quit(w)
       /\ UNCHANGED <<kernel, mainVars, events, scan>>
       /\ Blame(w)

Work(w) ==
    \/ \E t \in Threads, l \in Labels : Take(w, t, l)
    \/ \E t \in Threads, g \in Starts : DropStale(w, t, g)
    \/ NothingToDo(w) \/ Look(w)
    \/ \E missing \in CaptureMisses : Capture(w, missing)
    \/ CaptureCheck(w) \/ SetBaseline(w) \/ Plan(w) \/ GetBaseline(w)

Sequence(w) ==
    \/ CheckPasses(w) \/ RemovalAborts(w) \/ TakeoverBreaks(w) \/ Discards(w)
    \/ \E a \in Attrs : RestoreSkips(w, a) \/ Write(w, a)
    \/ Verify(w) \/ RemovalSettles(w) \/ ApplySettles(w) \/ RestoreSettles(w)

----------------------------------------------------------------------------
(* The event router's handler and the full scan.                           *)

\* reset_for_pid for every process of gone.
ResetFor(gone) ==
    /\ cache' = [t \in Threads |-> IF PidOf[t] \in gone THEN NoEntry ELSE cache[t]]
    /\ disturbed' = [t \in Threads |-> disturbed[t] \/ (PidOf[t] \in gone /\ LiveBase(t))]

\* New, recycled and dead processes all have their entries reset; the
\* dispatch that follows for a new one only queues tasks.  The handler holds
\* scheduler_state_mutex, so it runs neither during a reload nor after the
\* router has been stopped.
RouterHandles(p) ==
    /\ phase = "run"
    /\ p \in events
    /\ events' = events \ {p}
    /\ ResetFor({p})
    /\ UNCHANGED <<kernel, pc, job, mainVars, scan>>

\* An event that is dropped, or a create event for a PID already tracked.
RouterIgnores(p) ==
    /\ phase = "run"
    /\ p \in events
    /\ events' = events \ {p}
    /\ UNCHANGED <<kernel, cache, pc, job, mainVars, scan, disturbed>>

\* FullScanState::begin takes the identities in the cache, and /proc is listed.
ScanBegin ==
    /\ phase = "run" /\ Scanning /\ scan = None
    /\ scan' = [snap |-> [t \in Threads |-> IF cache[t] = NoEntry THEN 0 ELSE cache[t].id],
                todo |-> {p \in Pids : proc[p] # 0},
                procs |-> [p \in Pids |-> 0],
                seen |-> [t \in Threads |-> 0],
                dead |-> {}, missed |-> {}]
    /\ UNCHANGED <<kernel, cache, pc, job, mainVars, events, disturbed>>

\* One process of the list: gone, gone between two reads (its name reads as
\* "[dead]"), or observed with its threads.  misses are failed reads.
ScanPid(p, misses) ==
    /\ phase = "run" /\ scan # None /\ p \in scan.todo
    /\ misses = {} \/ "scan" \in ReadFaults
    /\ LET mine == {t \in Threads : PidOf[t] = p}
           found(dead) == [scan EXCEPT !.todo = @ \ {p},
                             !.dead = IF dead THEN @ \cup {p} ELSE @,
                             !.missed = IF "scan" \in ReadFaults THEN @ \cup mine ELSE @]
       IN \/ /\ proc[p] = 0 \/ "scan" \in ReadFaults
             /\ \E dead \in BOOLEAN : scan' = found(dead)
          \/ /\ proc[p] # 0
             /\ scan' = [scan EXCEPT !.todo = @ \ {p},
                           !.procs = [@ EXCEPT ![p] = proc[p]],
                           !.seen = [t \in Threads |->
                              IF t \in mine \ misses THEN id[t] ELSE @[t]]]
    /\ UNCHANGED <<kernel, cache, pc, job, mainVars, events, disturbed>>

\* MUTANT: entries made since the scan began are not spared.
Retained_NoSnapshot(t) ==
    /\ scan.procs[PidOf[t]] = cache[t].proc
    /\ scan.seen[t] = cache[t].id \/ (scan.seen[t] = 0 /\ HasBase(t))

\* ThreadCache::retain_live_threads.
Retained(t) ==
    LET e == cache[t]
        p == PidOf[t]
    IN \/ scan.snap[t] # e.id
       \/ /\ scan.procs[p] = e.proc
          /\ scan.seen[t] = e.id \/ (scan.seen[t] = 0 /\ HasBase(t))

\* retain_live_threads, then cleanup_dead_pids.
ScanFinish ==
    /\ phase = "run" /\ scan # None /\ scan.todo = {}
    /\ cache' = [t \in Threads |->
                   IF cache[t] # NoEntry /\ Retained(t) /\ PidOf[t] \notin scan.dead
                   THEN cache[t] ELSE NoEntry]
    /\ disturbed' = [t \in Threads |-> disturbed[t]
                       \/ (LiveBase(t) /\ (PidOf[t] \in scan.dead
                                            \/ (t \in scan.missed /\ ~Retained(t))))]
    /\ scan' = None
    /\ UNCHANGED <<kernel, pc, job, mainVars, events>>

----------------------------------------------------------------------------
(* The main thread: reload and shutdown.                                   *)

WorkersIdle == \A w \in Workers : pc[w] = "idle"
Baselines == {t \in Threads : HasBase(t)}

\* A new configuration has been parsed, or the loop has ended (None).
StopWorkers(c) ==
    /\ phase = "run"
    /\ phase' = "stopping" /\ want' = c
    /\ UNCHANGED <<kernel, cache, pc, job, cfg, left, allOk, tries, events, scan, disturbed>>

\* restore_all_thread_baselines begins: get_all_baselines.
RestoreBegins ==
    /\ phase = "stopping" /\ WorkersIdle
    /\ phase' = "restoring" /\ tries' = 1
    /\ left' = Baselines /\ allOk' = TRUE
    /\ UNCHANGED <<kernel, cache, pc, job, cfg, want, events, scan, disturbed>>

\* MUTANT: the outcome of the last thread stands for all.
RestorePicks_LastOnly(t) ==
    /\ phase = "restoring" /\ pc[Main] = "idle" /\ t \in left
    /\ left' = left \ {t} /\ allOk' = TRUE
    /\ Goto(Main, "check",
            [t |-> t, id |-> cache[t].id, proc |-> 0, label |-> None, res |-> None,
             base |-> cache[t].base, man |-> {}, mode |-> "restore",
             todo |-> {a \in Attrs : cache[t].base[a] # None}, ok |-> TRUE])
    /\ UNCHANGED <<kernel, cache, cfg, phase, want, tries, events, scan, disturbed>>

\* The next baseline of the list.  Nobody else changes the cache meanwhile,
\* so the copy of the list is the entry itself.
RestorePicks(t) ==
    /\ phase = "restoring" /\ pc[Main] = "idle" /\ t \in left
    /\ left' = left \ {t}
    /\ Goto(Main, "check",
            [t |-> t, id |-> cache[t].id, proc |-> 0, label |-> None, res |-> None,
             base |-> cache[t].base, man |-> {}, mode |-> "restore",
             todo |-> {a \in Attrs : cache[t].base[a] # None}, ok |-> TRUE])
    /\ UNCHANGED <<kernel, cache, cfg, phase, want, allOk, tries, events, scan, disturbed>>

Restored == phase = "restoring" /\ left = {} /\ pc[Main] = "idle"

\* MUTANT: the switch does not wait for a complete restoration.
ReloadCommits_Anyway ==
    /\ Restored /\ want # None
    /\ cfg' = want /\ phase' = "run" /\ want' = None
    /\ cache' = [t \in Threads |->
                   IF HasBase(t) THEN [cache[t] EXCEPT !.label = None, !.applied = None,
                                                       !.managed = {}]
                   ELSE NoEntry]
    /\ scan' = None
    /\ UNCHANGED <<kernel, pc, job, left, allOk, tries, events, disturbed>>

\* Control groups initialised and new workers started: the new configuration
\* is in force and the scheduling state is cleared.
ReloadCommits ==
    /\ Restored /\ want # None /\ allOk
    /\ cfg' = want /\ phase' = "run" /\ want' = None
    /\ cache' = [t \in Threads |->
                   IF HasBase(t) THEN [cache[t] EXCEPT !.label = None, !.applied = None,
                                                       !.managed = {}]
                   ELSE NoEntry]
    /\ scan' = None
    /\ UNCHANGED <<kernel, pc, job, left, allOk, tries, events, disturbed>>

\* MUTANT: rolling back empties the cache.
ReloadRollsBack_Clears ==
    /\ Restored /\ want # None
    /\ phase' \in {"run", "stopping"} /\ want' = None
    /\ cache' = [t \in Threads |-> NoEntry]
    /\ UNCHANGED <<kernel, pc, job, cfg, left, allOk, tries, events, scan, disturbed>>

\* Restoration, control groups or workers failed: the old workers go on, or,
\* when they cannot be restarted either, the program shuts down.
ReloadRollsBack ==
    /\ Restored /\ want # None
    /\ phase' \in {"run", "stopping"} /\ want' = None
    /\ UNCHANGED <<kernel, cache, pc, job, cfg, left, allOk, tries, events, scan, disturbed>>

ShutdownRetries ==
    /\ Restored /\ want = None /\ ~allOk
    /\ tries < kShutdownRestoreAttempts
    /\ tries' = tries + 1 /\ left' = Baselines /\ allOk' = TRUE
    /\ UNCHANGED <<kernel, cache, pc, job, cfg, phase, want, events, scan, disturbed>>

\* Exit code 0 and the cache cleared, or exit code 2 and the cache kept.
Exit ==
    /\ Restored /\ want = None
    /\ \/ /\ allOk
          /\ phase' = "clean"
          /\ cache' = [t \in Threads |-> NoEntry]
       \/ /\ ~allOk /\ tries = kShutdownRestoreAttempts
          /\ phase' = "incomplete"
          /\ UNCHANGED cache
    /\ UNCHANGED <<kernel, pc, job, cfg, want, left, allOk, tries, events, scan, disturbed>>

MainStep ==
    \/ \E p \in Pids : RouterHandles(p) \/ RouterIgnores(p)
    \/ ScanBegin \/ ScanFinish
    \/ \E p \in Pids, misses \in SUBSET Threads : ScanPid(p, misses)
    \/ \E c \in Requests : StopWorkers(c)
    \/ RestoreBegins
    \/ \E t \in Threads : RestorePicks(t)
    \/ ReloadCommits \/ ReloadRollsBack \/ ShutdownRetries \/ Exit

Next == \/ Environment
        \/ \E w \in Workers : Work(w)
        \/ \E w \in Actors : Sequence(w)
        \/ MainStep

Spec == Init /\ [][Next]_vars

----------------------------------------------------------------------------
(* Properties.                                                             *)

KernelOK ==
    /\ clock \in 0..MaxStart
    /\ proc \in [Pids -> 0..clock] /\ id \in [Threads -> 0..clock]
    /\ val \in [Threads -> [Attrs -> Values]]
CacheOK == cache \in [Threads -> Entries \cup {NoEntry}]
ActorsOK ==
    /\ pc \in [Actors -> {"idle", "look", "capture", "capcheck", "capset", "plan",
                          "getbase", "check", "write", "verify", "settle"}]
    /\ job \in [Actors -> Jobs \cup {None}]
MainOK ==
    /\ cfg \in Configs
    /\ phase \in {"run", "stopping", "restoring", "clean", "incomplete"}
    /\ want \in Configs \cup {None} /\ left \subseteq Threads
    /\ allOk \in BOOLEAN /\ tries \in 0..kShutdownRestoreAttempts
ScanOK == events \subseteq Pids /\ scan \in Scans \cup {None}
DisturbedOK == disturbed \in [Threads -> BOOLEAN]

TypeOK == KernelOK /\ CacheOK /\ ActorsOK /\ MainOK /\ ScanOK /\ DisturbedOK

Touched(t, a) == id[t] # 0 /\ val[t][a] # id[t]
Covered(t, a) == HasEntry(t, id[t]) /\ cache[t].base[a] = id[t]

\* Custody: whatever ReUperf has changed on a live thread, the cache holds
\* the system's own value for it, filed under that thread's identity, unless
\* the thread's custody was broken in one of the three known ways.
Custody ==
    \A t \in Threads, a \in Attrs : Touched(t, a) /\ ~disturbed[t] => Covered(t, a)

\* The same without the exception, what README.md line 11 promises: the
\* original state of a thread is saved, and restored when rules, process
\* state, configuration or the program's life cycle change.
StrictCustody == \A t \in Threads, a \in Attrs : Touched(t, a) => Covered(t, a)

\* A baseline holds what the system had set, never a value ReUperf or a
\* half-finished call put there, and never another thread's.
BaselineGenuine ==
    \A t \in Threads, a \in Attrs :
        id[t] # 0 /\ HasEntry(t, id[t]) /\ ~disturbed[t]
            => cache[t].base[a] \in {None, id[t]}

\* Every dimension ReUperf has changed is recorded as managed, even after a
\* failed or partial attempt, so that a rule that drops it restores it
\* (README.md line 82); only the job that is changing it may be ahead.
ManagedTracks ==
    \A t \in Threads, a \in Attrs : Touched(t, a) /\ ~disturbed[t] =>
        \/ HasEntry(t, id[t]) /\ DimOf[a] \in cache[t].managed
        \/ \E w \in Workers : /\ pc[w] \in {"check", "write", "verify", "settle"}
                              /\ job[w].t = t /\ job[w].id = id[t]
                              /\ job[w].mode = "apply" /\ DimOf[a] \in Needs[job[w].res]

Untouched == \A t \in Threads, a \in Attrs : Touched(t, a) => disturbed[t]

\* Exit code 0 means every thread has its own state back.
ExitClean == phase = "clean" => Untouched

\* A configuration is replaced only when nothing of the old one is left on
\* any thread (README.md line 12).
CommitClean == [][cfg' # cfg => Untouched]_vars
============================================================================
