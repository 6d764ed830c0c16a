----------------------------- MODULE ProcEvents -----------------------------
(***************************************************************************)
(* How ReUperf learns that a process came or went.                         *)
(*                                                                         *)
(* ProcMonitor reads inotify records on its own thread and passes them to  *)
(* EventRouter::add_event; the router's thread merges them per PID, waits  *)
(* a moment, sorts the batch into new, dead and recycled PIDs and calls    *)
(* main's handler.  Whatever is lost on the way (a full inotify queue, a   *)
(* full pending map, a monitor that died, a handler that threw) is to be   *)
(* made up for by a full scan, requested through full_rescan_needed; full  *)
(* scans also run periodically, in slices.                                 *)
(***************************************************************************)
EXTENDS Naturals, Sequences, FiniteSets

CONSTANTS
    Pids,
    None,                \* no event, no scan
    QueueLen,            \* the length of the kernel's inotify queue
    kMaxPendingEvents,
    MaxBirths            \* bound: number of process starts

\* What the router holds for a PID: its last event, and whether any of those
\* merged into it was a deletion.
Events == [is_create : BOOLEAN, saw_delete : BOOLEAN]

ASSUME ProcEventsAssumption ==
    /\ IsFiniteSet(Pids) /\ None \notin Pids /\ None \notin Events
    /\ QueueLen \in Nat \ {0} /\ kMaxPendingEvents \in Nat \ {0} /\ MaxBirths \in Nat

VARIABLES
    alive, births,   \* the processes that exist, and how many ever started
    inotify,         \* records in the kernel's queue
    monitor,         \* ProcMonitor: up, down (its thread ended), stopped
    pending,         \* pending_events_: the event held for each PID, or None
    dropped,         \* events_dropped_
    tracked,         \* tracked_pids_
    running,         \* EventRouter::running_
    rpc, batch,      \* the router's thread, and the batch it works on
    stopping,        \* EventRouter::stop: no, set, notified, done
    rescan,          \* full_rescan_needed
    cycle,           \* the PIDs listed by the full scan in progress, or None
    seen, leftover,  \* history: processes inspected; PIDs of inspected processes
                     \* that went, until the handler resets their cache entries
    unread,          \* history: processes whose status the handler could not read
    missed, owed     \* history: PIDs with a lost event; a scan was requested
                     \* and none has begun since

kernelVars == <<alive, births, inotify>>
routerVars == <<pending, dropped, tracked, rpc, batch>>
stopVars == <<running, stopping>>
history == <<seen, leftover, unread, missed>>
vars == <<kernelVars, monitor, routerVars, stopVars, rescan, cycle, owed, history>>

Overflow == [pid |-> None, create |-> FALSE]
NoEvents == [p \in Pids |-> None]
NoBatch == [events |-> NoEvents, new |-> {}, dead |-> {}, dropped |-> FALSE]
Held(events) == {p \in Pids : events[p] # None}

\* The router's thread owns mutex_ while it is about to block in cv_.wait;
\* every other critical section is one step.
MutexFree == rpc # "presleep"

Init ==
    /\ alive = {} /\ births = 0
    /\ inotify = <<>> /\ monitor = "up"
    /\ pending = NoEvents /\ dropped = FALSE /\ tracked = {}
    /\ running = TRUE /\ stopping = "no"
    /\ rpc = "top" /\ batch = NoBatch
    /\ rescan = TRUE /\ cycle = None
    /\ seen = {} /\ leftover = {} /\ unread = {} /\ missed = {} /\ owed = FALSE

----------------------------------------------------------------------------
(* The kernel: processes, and the queue of the /proc watch.                *)

\* A record that does not fit turns into one overflow record at the end.
\* Records made while the monitor's thread is dead are thrown away when it
\* is started again, so they count as lost at once.
Record(p, create) ==
    IF monitor = "up" /\ Len(inotify) < QueueLen
    THEN /\ inotify' = Append(inotify, [pid |-> p, create |-> create])
         /\ missed' = missed
    ELSE /\ inotify' = IF monitor = "up" /\ inotify[Len(inotify)] # Overflow
                       THEN Append(inotify, Overflow) ELSE inotify
         /\ missed' = missed \cup {p}

ProcessCreated(p) ==
    /\ p \notin alive /\ births < MaxBirths
    /\ alive' = alive \cup {p} /\ births' = births + 1
    /\ seen' = seen \ {p} /\ unread' = unread \ {p}
    /\ Record(p, TRUE)
    /\ UNCHANGED <<monitor, routerVars, stopVars, rescan, cycle, owed, leftover>>

ProcessExited(p) ==
    /\ p \in alive
    /\ alive' = alive \ {p}
    /\ leftover' = IF p \in seen THEN leftover \cup {p} ELSE leftover
    /\ Record(p, FALSE)
    /\ UNCHANGED <<births, monitor, routerVars, stopVars, rescan, cycle, owed, seen, unread>>

----------------------------------------------------------------------------
(* ProcMonitor, and EventRouter::add_event on its thread.                  *)

Request == rescan' = TRUE /\ owed' = TRUE

\* MUTANT: only the last event of a PID is remembered.
Merged_Last(old, create) == [is_create |-> create, saw_delete |-> ~create]

Merged(old, create) ==
    [is_create |-> create,
     saw_delete |-> ~create \/ (old # None /\ old.saw_delete)]

\* MUTANT: add_event does not notify.
Woken_Never == UNCHANGED rpc

\* cv_.notify_one: the router's thread takes the mutex again.
Woken == rpc' = IF rpc = "asleep" THEN "locked" ELSE rpc

\* MUTANT: the limit is tested after the event went in.
AddEvent_OneMore(p, create) ==
    IF pending[p] = None /\ Cardinality(Held(pending)) > kMaxPendingEvents
    THEN /\ dropped' = TRUE
         /\ missed' = missed \cup {p}
         /\ Woken
         /\ UNCHANGED pending
    ELSE /\ pending' = [pending EXCEPT ![p] = Merged(@, create)]
         /\ Woken
         /\ UNCHANGED <<dropped, missed>>

AddEvent(p, create) ==
    IF ~running
    THEN /\ missed' = missed \cup {p}
         /\ UNCHANGED <<pending, dropped, rpc>>
    ELSE IF pending[p] = None /\ Cardinality(Held(pending)) >= kMaxPendingEvents
         THEN /\ dropped' = TRUE
              /\ missed' = missed \cup {p}
              /\ Woken
              /\ UNCHANGED pending
         ELSE /\ pending' = [pending EXCEPT ![p] = Merged(@, create)]
              /\ Woken
              /\ UNCHANGED <<dropped, missed>>

\* monitor_loop: one record.
MonitorReads ==
    /\ monitor = "up" /\ inotify # <<>> /\ MutexFree
    /\ inotify' = Tail(inotify)
    /\ LET r == Head(inotify)
       IN IF r = Overflow
          THEN Request /\ UNCHANGED <<pending, dropped, rpc, missed>>
          ELSE AddEvent(r.pid, r.create) /\ UNCHANGED <<rescan, owed>>
    /\ UNCHANGED <<alive, births, monitor, tracked, batch, stopVars, cycle, seen, leftover,
                   unread>>

\* poll or read fails and the thread ends.
MonitorFails ==
    /\ monitor = "up"
    /\ monitor' = "down" /\ inotify' = <<>>
    /\ missed' = missed \cup ({inotify[i].pid : i \in 1..Len(inotify)} \ {None})
    /\ UNCHANGED <<alive, births, routerVars, stopVars, rescan, cycle, owed, seen, leftover,
                   unread>>

\* The main loop starts it again, with or without success.
MonitorRestarts ==
    /\ monitor = "down"
    /\ monitor' \in {"up", "down"}
    /\ Request
    /\ UNCHANGED <<kernelVars, routerVars, stopVars, cycle, history>>

----------------------------------------------------------------------------
(* EventRouter::router_loop.                                               *)

RouterLoop ==
    /\ rpc = "top"
    /\ rpc' = IF running THEN "locked" ELSE "done"
    /\ UNCHANGED <<kernelVars, monitor, pending, dropped, tracked, batch, stopVars,
                   rescan, cycle, owed, history>>

\* The predicate of cv_.wait, and the break after it.
RouterTests ==
    LET work == Held(pending) # {} \/ dropped
    IN /\ rpc = "locked"
       /\ rpc' = IF work THEN "throttle" ELSE IF running THEN "presleep" ELSE "done"
       /\ UNCHANGED <<kernelVars, monitor, pending, dropped, tracked, batch, stopVars,
                      rescan, cycle, owed, history>>

RouterBlocks ==
    /\ rpc = "presleep" /\ rpc' = "asleep"
    /\ UNCHANGED <<kernelVars, monitor, pending, dropped, tracked, batch, stopVars,
                   rescan, cycle, owed, history>>

SpuriousWakeup ==
    /\ rpc = "asleep" /\ rpc' = "locked"
    /\ UNCHANGED <<kernelVars, monitor, pending, dropped, tracked, batch, stopVars,
                   rescan, cycle, owed, history>>

\* flush_at has come, or stop() cut the wait short: the map is swapped out.
RouterFlushes ==
    /\ rpc = "throttle" /\ rpc' = "classify"
    /\ batch' = [NoBatch EXCEPT !.events = pending, !.dropped = dropped]
    /\ pending' = NoEvents /\ dropped' = FALSE
    /\ UNCHANGED <<kernelVars, monitor, tracked, stopVars, rescan, cycle, owed, history>>

\* MUTANT: a PID that is already tracked is never new.
NewPids_Untracked(events) ==
    {p \in Held(events) : events[p].is_create /\ p \notin tracked}

\* A recycled PID is new even if it is tracked.
NewPids(events) ==
    {p \in Held(events) : events[p].is_create
                            /\ (events[p].saw_delete \/ p \notin tracked)}

RouterClassifies ==
    LET events == batch.events
        dead == {p \in Held(events) : ~events[p].is_create}
    IN /\ rpc = "classify" /\ rpc' = "handle"
       /\ batch' = [batch EXCEPT !.events = NoEvents,
                                 !.new = NewPids(events), !.dead = dead]
       /\ tracked' = (tracked \cup Held(events)) \ dead
       /\ UNCHANGED <<kernelVars, monitor, pending, dropped, stopVars, rescan, cycle, owed,
                      history>>

\* Main's handler: new and recycled PIDs are reset and dispatched, dead ones
\* reset.  A live process whose status cannot be read is passed over.  A
\* dispatch that ran out of budget asks for a scan.
RouterHandles ==
    /\ rpc = "handle" /\ rpc' = "top"
    /\ batch' = NoBatch
    /\ \E fails \in SUBSET (batch.new \cap alive) :
         /\ seen' = seen \cup ((batch.new \cap alive) \ fails)
         /\ unread' = unread \cup fails
    /\ leftover' = leftover \ (batch.new \cup batch.dead)
    /\ \/ Request /\ (batch.dropped \/ batch.new # {})
       \/ UNCHANGED <<rescan, owed>> /\ ~batch.dropped
    /\ UNCHANGED <<kernelVars, monitor, pending, dropped, tracked, stopVars, cycle, missed>>

\* The handler throws before it got anywhere.
HandlerFails ==
    /\ rpc = "handle" /\ rpc' = "top"
    /\ batch.new # {} \/ batch.dead # {} \/ batch.dropped
    /\ batch' = NoBatch
    /\ Request
    /\ missed' = missed \cup batch.new \cup batch.dead
    /\ UNCHANGED <<kernelVars, monitor, pending, dropped, tracked, stopVars, cycle,
                   seen, leftover, unread>>

\* Shutdown: the monitor is stopped and joined, then EventRouter::stop.
StopSet ==
    /\ stopping = "no" /\ stopping' = "set"
    /\ monitor' = "stopped" /\ inotify' = <<>>
    /\ running' = FALSE
    /\ UNCHANGED <<alive, births, routerVars, rescan, cycle, owed, history>>

StopNotify ==
    /\ stopping = "set" /\ stopping' = "notified"
    /\ Woken
    /\ UNCHANGED <<kernelVars, monitor, pending, dropped, tracked, batch, running,
                   rescan, cycle, owed, history>>

StopJoins ==
    /\ stopping = "notified" /\ rpc = "done" /\ stopping' = "done"
    /\ pending' = NoEvents /\ tracked' = {}
    /\ UNCHANGED <<kernelVars, monitor, dropped, rpc, batch, running, rescan, cycle, owed,
                   history>>

----------------------------------------------------------------------------
(* Full scans, from the main loop.                                         *)

\* MUTANT: a cycle only begins when one was asked for.
ScanBegins_OnRequest ==
    /\ stopping = "no" /\ cycle = None /\ rescan
    /\ cycle' = alive
    /\ rescan' = TRUE /\ owed' = FALSE
    /\ UNCHANGED <<kernelVars, monitor, routerVars, stopVars, history>>

\* Requested, or next_full_scan has come.  The first slice lists /proc; the
\* cycle is not complete, so the flag is raised for the next slice.
ScanBegins ==
    /\ stopping = "no" /\ cycle = None
    /\ cycle' = alive
    /\ rescan' = TRUE /\ owed' = FALSE
    /\ UNCHANGED <<kernelVars, monitor, routerVars, stopVars, history>>

\* The slice that completes the cycle.  It takes the flag down first, along
\* with any request made since the cycle began.
ScanCompletes ==
    /\ stopping = "no" /\ cycle # None
    /\ seen' = seen \cup (cycle \cap alive)
    /\ cycle' = None /\ rescan' = FALSE
    /\ UNCHANGED <<kernelVars, monitor, routerVars, stopVars, owed, leftover, unread, missed>>

Next ==
    \/ \E p \in Pids : ProcessCreated(p) \/ ProcessExited(p)
    \/ MonitorReads \/ MonitorFails \/ MonitorRestarts
    \/ RouterLoop \/ RouterTests \/ RouterBlocks \/ SpuriousWakeup
    \/ RouterFlushes \/ RouterClassifies \/ RouterHandles \/ HandlerFails
    \/ StopSet \/ StopNotify \/ StopJoins
    \/ ScanBegins \/ ScanCompletes

\* The monitor's, the router's and the main thread run, and the main loop
\* keeps scanning: each slice resumes where the last one stopped.
Fairness ==
    /\ WF_vars(MonitorReads)
    /\ WF_vars(RouterLoop \/ RouterTests \/ RouterBlocks \/ RouterFlushes
               \/ RouterClassifies \/ RouterHandles)
    /\ WF_vars(StopNotify \/ StopJoins)
    /\ WF_vars(ScanBegins) /\ WF_vars(ScanCompletes)

Spec == Init /\ [][Next]_vars /\ Fairness

----------------------------------------------------------------------------
(* Properties.                                                             *)

EventMaps == [Pids -> Events \cup {None}]

TypeOK ==
    /\ alive \subseteq Pids /\ births \in 0..MaxBirths
    /\ inotify \in Seq([pid : Pids \cup {None}, create : BOOLEAN])
    /\ Len(inotify) <= QueueLen + 1
    /\ monitor \in {"up", "down", "stopped"}
    /\ pending \in EventMaps /\ Cardinality(Held(pending)) <= kMaxPendingEvents
    /\ dropped \in BOOLEAN /\ tracked \subseteq Pids
    /\ running \in BOOLEAN /\ stopping \in {"no", "set", "notified", "done"}
    /\ rpc \in {"top", "locked", "presleep", "asleep", "throttle", "classify",
                "handle", "done"}
    /\ batch \in [events : EventMaps, new : SUBSET Pids, dead : SUBSET Pids,
                  dropped : BOOLEAN]
    /\ rescan \in BOOLEAN /\ owed \in BOOLEAN
    /\ cycle = None \/ cycle \subseteq Pids
    /\ seen \subseteq Pids /\ leftover \subseteq Pids /\ unread \subseteq Pids
    /\ missed \subseteq Pids

\* Nothing about the processes is in flight.
Quiet ==
    /\ monitor = "up" /\ inotify = <<>> /\ Held(pending) = {}
    /\ rpc \notin {"classify", "handle"}

\* Once the dust has settled, a live process has been inspected, however its
\* events were merged with those of earlier processes with its PID, unless
\* one of them was lost on the way or the handler could not read its status
\* (CLI_memory.md line 40: events lead to an incremental dispatch of the PID,
\* without a scan).
NewProcessInspected == Quiet => alive \ seen \subseteq missed \cup unread

\* And the cache has been reset for every PID whose process went, unless one
\* of its events was lost.
DeadProcessForgotten == Quiet => leftover \subseteq missed

\* Events do not linger: the pending map is flushed again and again.
EventsFlushed == Held(pending) # {} ~> Held(pending) = {}

\* Whatever is lost, a process that stays is inspected in the end, by its
\* event or by a periodic scan, until the program stops.
EveryProcessInspected ==
    \A p \in Pids : p \in alive ~> (p \in seen \/ p \notin alive \/ ~running)

\* A scan requested to make up for lost events takes place: when no scan is
\* running or asked for, one has begun since the last request.
CompensatingScan == owed => rescan
============================================================================
