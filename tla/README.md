# A TLA+ verification of ReUperf

ReUperf is a root daemon for Android. It finds the threads of interesting
processes, matches them against rules, and takes over up to three dimensions of
their scheduling: affinity (CPU mask and cpuset), priority (policy, real-time
priority, nice) and a cpuctl limit. It promises (src/README.md, lines 11-12 and
80-91) to keep each thread's original state and to give it back when a rule,
the process state, the configuration or the program's own life changes.

That promise is kept by several threads that share a cache and act on numeric
PIDs and TIDs the kernel reuses. This project models those threads, checks the
models with TLC and proves their safety results for all instances with TLAPS.

## Inventory

| component | state | operations | interacts with |
|---|---|---|---|
| `ScanWorker` queue (`core/scan_worker.hpp`) | `task_queue_`, `pending_tasks_`, `running_`, `started_` | `start`, `stop`, `enqueue`, `worker_loop` | dispatchers on the main and the router thread |
| `ScanWorker` processing | the task in hand, throttle tables | `process_dispatch_task`, `capture_baseline_if_needed`, `apply_result`, `restore_baseline` | `ThreadCache`, the setters, `/proc` |
| `ThreadCache` (`core/thread_cache.hpp`) | per (pid, tid): identity, match result, applied result, managed dimensions, baseline | `lookup`, `update`, `set_*`, `clear_*`, `erase_thread_if_identity`, `reset_for_pid`, `retain_live_threads` | workers, router handler, main loop |
| setters (`scheduler/*.hpp`) | none (the kernel's) | apply, restore, capture, drift checks | kernel |
| full scan (`main.cpp`) | `FullScanState`, cursors, `full_rescan_needed` | `begin`, `advance_full_scan`, dispatch, `cleanup_dead_pids` | cache, workers |
| `ProcMonitor` (`core/cpuset_monitor.hpp`) | inotify descriptor, `started_` | `start`, `stop`, `monitor_loop` | `EventRouter`, rescan flag |
| `EventRouter` (`core/event_router.hpp`) | `pending_events_`, `events_dropped_`, `tracked_pids_` | `add_event`, `router_loop`, `start`, `stop` | main's handler |
| reload and shutdown (`main.cpp`) | configuration, workers, retry delay | stop, restore all, initialise groups, start, commit or roll back; bounded retry | everything |
| `CgroupInitializer` (`core/cgroup_init.hpp`) | control files, `ControlFileTransaction` | `init`: transactional writes, rollback | kernel, main's reload |
| change detection (`main.cpp`) | `ConfigFileWatcher`, `last_mtime`, `last_config_hash`, `failed_config_hash`, retry delay | watch, compare, defer | file system |
| `LauncherFinder` (`core/launcher_finder.hpp`) | a child process | run two commands with a deadline, choose a package | platform commands |
| `ConfigParser`, `ThreadMatcher` (`config/`, `core/thread_matcher.hpp`) | compiled rules, a result cache in 16 buckets | `parse`, `match`, `get_prio_value`, ... | every thread that dispatches |
| `CpuMask`, `FileUtils`, `Logger` | time-limited caches | pure or I/O | |

What is hard: jobs of two workers for two generations of one TID; a system call
that reaches the thread's successor; events that arrive late, merged or not at
all; scans that run in slices over a moving target; a restoration in which one
call of several fails; stopping threads that may be about to sleep; a
configuration file edited while it is being read; a reload that fails half-way.
`PROJECT.json` lists each hazard with its line and the properties aimed at it.

## Modules

| module | part | checked by |
|---|---|---|
| `WorkerQueue`, `WorkerQueueProofs` | a worker's queue | `worker_queue`, `worker_stop`, proofs |
| `ThreadCustody`, `MCThreadCustody`, `ThreadCustodyProofs` | thread attributes and the cache | `custody_*`, proofs |
| `ProcEvents`, `ProcEventsProofs` | monitor, router, scan requests | `proc_events`, proofs |
| `PrioritySetter`, `MCPrioritySetter`, `PrioritySetterProofs` | scheduler dimension | `priority`, proofs |
| `AffinityTakeover` | what a takeover promises (abstract) | implemented by `CpusetSetter` |
| `CpusetSetter`, `MCCpusetSetter`, `CpusetSetterProofs` | `run_takeover_sequence` | `takeover`, proofs |
| `CgroupInit`, `LauncherFinder`, composed by `ConfigReload`, `MCConfigReload`, `ConfigReloadProofs` | control files, the launcher search, start-up and reload | `reload`, proofs |
| `DispatchCursor`, `MCDispatchCursor`, `DispatchCursorProofs` | budgeted scan, dispatch, throttle | `dispatch`, proofs |
| `RuleMatch`, used by `MatcherCache`, `MCMatcherCache`, `MatcherCacheProofs` | parser, matcher, group values; the matcher's cache | `matching`, proofs |

Each module names its bounds in its constants. Definitions called `X_Something`
and marked MUTANT are plausible mistakes in `X`; replacing `X` by one of them
makes the named property fail. Every `TypeOK` is proved; it is also a property of a
run where it says more than types.

### WorkerQueue

One worker's queue. A step is a critical section of `mutex_`, an access to the
atomic `running_`, or an operation on the condition variable. The client
(`cpc`) stands for main and router, which `scheduler_state_mutex` serialises;
the worker (`wpc`) runs `worker_loop`. `running_` is not protected by the mutex,
so testing the predicate (`test`) and blocking (`presleep`) are two steps.
`latest` and `drained` are history.

Runs: `worker_queue` (three keys, two contents, a queue of two, so that
coalescing, refusal and restarts all happen): queue and map agree, the waiting
task is the newest, no task is slept over, `stop()` quiesces and drops the
backlog except for at most one task, and every queued task leaves the queue.
Fairness: the worker's and the client's pending steps are taken (threads run);
nobody is forced to call `enqueue`, `start` or `stop`. `worker_stop` shows that
`stop()` need not return: it clears `running_` and notifies without the mutex,
between the worker's predicate test and its going to sleep.

### ThreadCustody

Everything that touches a thread's attributes or the cache: workers, the event
handler, the full scan's clean-up, reload, rollback, shutdown, and a kernel in
which threads exit, IDs are reused, Android resets attributes, calls fail and
reads of `/proc` may fail. A worker (or the main thread, while it restores)
has a program counter and a `job`; every read, system call and cache critical
section is an action of its own, so an identity check and the call it guards are
two steps.

Data abstraction: the value of an attribute is the start time of the thread
whose own value it is, or the match result that sets it, or `Partial`. An
attribute of a live thread is untouched exactly when it equals the thread's own
start time. A task's name, command line and state are one label; a
configuration maps labels to results, a result to the dimensions it manages. The
identity reads of `is_current_task_identity` are one step; a failed read is the
disjunct `Mismatch` under `ReadFaults`. A takeover is its net effect (mask, then
cpuset, each done, not done, or left half-way) with an identity check before
each. A TID belongs to one process for good; a TID that moves to another process
is covered only as a thread that is gone.

`disturbed[t]` records the three ways the code itself breaks a live thread's
custody: `reset_for_pid` without a start time, a job of a dead thread acting
on its successor, and a live thread taken for dead after a failed read.
`Custody` says there is no fourth; `StrictCustody` is the promise itself and
is checked where none of the three can happen. The third includes
`cleanup_dead_pids` (main.cpp:1291), which drops the entries of PIDs found dead
earlier in the scan, whoever has them by then: such a loss is counted, not ruled
out.

| run | instance | properties |
|---|---|---|
| `custody_reuse` | one key, two generations on two workers, process events, drifting scheduler | `Custody`, `BaselineGenuine`, `ManagedTracks` |
| `custody_lifecycle` | one thread, all dimensions, three labels, two configurations, reload, rollback and shutdown at any time, an unreadable cpuctl path | `StrictCustody`, `ExitClean`, `CommitClean` |
| `custody_scan` | two threads of one process, thread exit and reuse, full scans, shutdown | `Custody`, `ExitClean` |
| `custody_faults` | one thread and its successor, every `/proc` read of jobs and scans may fail, shutdown | `Custody` |

Two more configurations end with a counterexample to `StrictCustody` each:
`CustodyEvents.cfg` (process events alone: the create event resets a thread a
scan has already managed, main.cpp:959) and `CustodyMiss.cfg` (failed reads
alone: a live thread's baseline is discarded, against the comment at
thread_cache.hpp:253-254).

Bounds: `MaxStart` starts (two generations are what it takes for one to meet
the other's leftovers), two worker threads (one per generation), two restoration
attempts in place of three (one retry), three rules that add, keep and remove
dimensions. These runs stop by themselves when nobody starts anything, so
deadlock is not checked.

### ProcEvents

How the program learns of processes: the inotify queue, `ProcMonitor`'s thread
with overflow, failure and restart, `add_event` and its limit, `router_loop`
with its wait, throttle, batch and classification, main's handler and its
failure, and the full scan as a cycle of slices fed by `full_rescan_needed`.
History variables: `seen` (inspected), `leftover` (gone, not reset yet),
`missed` (some event of this PID was lost), `unread` (its status could not be
read, so the handler passed over a live process, main.cpp:970-971), `owed` (a scan
was requested and none has begun since).

`proc_events` (two PIDs, a queue of two, a pending limit of one, two starts: a
PID is reused, merged and dropped): a live process whose events arrived and whose
status could be read has been inspected, a dead one forgotten, the map is flushed again and again, and every
process that stays is inspected in the end. Fairness: monitor, router and main
thread run, and scans begin periodically and complete; the main loop does both
unconditionally, each slice resuming at the cursor of the last. A scan's own reads
are taken to succeed for a process that stays.
`ProcEventsCompensate.cfg` ends with a counterexample: a request raised during a
cycle is consumed by that cycle, which listed `/proc` before the loss
(main.cpp:1259); only the next periodic scan makes up for it, although
event_router.hpp:122 announces a compensating scan. The same module shows why `missed` is needed in the safety
properties: a lost delete leaves the PID in `tracked_pids_` and its next
create event counts as a repetition.

### PrioritySetter

The scheduler dimension call by call: three reads of a capture, two calls of an
apply, two of a restoration, each of which may fail, with changes by the system
in between. `priority` takes the ends of every value range (1, 98, 99, 100, 139,
-1, -2, -3). `PriorityRestore.cfg` ends with a counterexample to the unrestricted
`RestoreExact`: a real-time thread's nice value is neither captured nor restored
(priority_setter.hpp:39), though a rule may change it and README.md:86 promises
it back. `PriorityTorn.cfg` ends with one to `BaselineAlwaysRestorable`: a change
between the reading of policy and priority (priority_setter.hpp:25-45) leaves a
baseline, such as FIFO with priority 0, that the kernel refuses. `BaselineRestorable`,
which the run checks, says that no other capture does.

### AffinityTakeover and CpusetSetter

`AffinityTakeover` is the promise: a takeover changes the thread that has the TID
at most once per identity check, writes nothing but the target's mask and the
target or parent group, and reports success only if it has read both attributes
back since its last change. `CpusetSetter` is `run_takeover_sequence` with every
identity check, call, retry and read-back as a step, the readiness cache that all
workers share, and a kernel with four cpusets in which a move leaves the thread
the group's CPUs or what its mask had of them. `ImplementsTakeover` is the refinement
(`INSTANCE AffinityTakeover WITH seen <- Seen`): `Seen` is what the two flags mean
in the attempt at hand, empty while an attempt still makes changes.

Run `takeover`: the background group has no CPU of the target, the foreground
group one, so every answer of the kernel occurs; two attempts as in the code, two
tries of a move (one retry); three disturbances, enough to replace the
thread, lose and restore the group, and fail a call. `AtMostOneStray`: after a
replacement at most one call reaches the stranger, in the retry loop too.
`TakesOver` (liveness): undisturbed, a live thread ends up in the target with its
mask. Fairness: the worker goes on, the thread is dispatched again (the main loop
does so every cycle, see `DispatchCursor`), and readiness entries expire (they
have a time to live). The comment at cpuset_setter.hpp:136-138 bounds the reuse
window "to one syscall"; it is one effective call, yet the window spans all
retries with their pauses, since `move_to_cpuset_cgroup` does not check again.

### ConfigReload, CgroupInit and LauncherFinder

`ConfigReload` is `main()`'s start-up and reload. It instantiates `CgroupInit`
(the control-file transaction: one file per step, snapshot, commit or rollback in
reverse order) and `LauncherFinder` (two commands in a child process with a
deadline, SIGTERM, SIGKILL and reaping, and the choice of a package). Their
program counters are sub-steps of main's. The watch, the modification time, the
hash and the content are read by four steps with writes to the file in between.
Hash and content are one value. Failures use up `faults`, in all three modules.
Every control file is taken to come with its directory: a kernel that lacks an
optional one, which the code skips (cgroup_init.hpp:202-207 and 299), is left out.

Whether a cpuset group is in use is read as well (`ReadsReadiness`), and `read_file`
has `""` for a file it cannot open: a group in use then counts as unused and is
written without a snapshot. `misread` has these groups.

Run `reload`: two configurations that share a cpuset group and a limit group and
leave different limits to be inherited, a third content that does not parse, one
that disables the program and a missing file; two writes and two failures, so
that a rollback can fail as well and an edit can meet a retry.

* `InForce`: between two iterations the workers run the configuration in force
  and its control files hold its values, whichever reload failed wherever.
* `InitAtomic`: `init` is all or nothing, groups in use at its beginning included.
  A rollback write that fails is excused; of a misread group every file has its old
  value or the one asked for, and every other group is as it was.
* `ChildHandled`: no signal after the child was reaped, no child left behind
  unless `waitpid` fails.
* `NotHeldUp`, `FileWins` (liveness): a content is held up by no other content's
  failure, even if the retry timer never expires; and if it does expire, the
  file's configuration wins in the end.

`ReloadMisread.cfg` checks the promise of src/README.md:12 ("控制文件更新失败时回滚旧值":
when an update of the control files fails, the old values are rolled back) without the
exception for misread groups, as `OldValuesBack`, and ends with a counterexample: the
reading of a group in use fails (cgroup_init.hpp:261-264, file_utils.hpp:188-191), its
CPUs are written (284), `init` fails at the next step, and the rollback knows nothing of
that file. `InForce` survives it, because a failed reload
applies the old configuration again.

Fairness: the main thread runs and a child's deadline passes; nothing is assumed
of the child. That the main thread runs includes that the workers' `stop()` returns,
which `worker_stop` shows it may not: `FileWins` is about the reloads for which it
does. Two known exceptions are constants of the model: two writes within
the same second where the second one is missed by inotify (`SameSecond`), and a
write between parsing the file at start-up and the first reading of its hash
(`BootWrites`, main.cpp:868 and 1042-1049). With either one TRUE, `FileWins` fails:
the start-up hash is that of a content that was never loaded.
`execute_command`'s child is a shell in a process group of its own; members of the
group other than the leader are not modelled. After a termination `main` ends
("exit"), so deadlock is not checked.

### DispatchCursor

The main loop's slices: a budget may run out at every read; `enumerate_pids`,
`advance_full_scan` and `dispatch_pids_to_workers` go on at their cursors. A full
cycle goes through five lists, a high-speed slice through three, and both share
the cursors. Workers take from a queue of one, throttle, and may fail after the
throttle was recorded. Processes are replaced, threads start and exit, Android
moves processes, rules are lost by a change of name; the scan goes by the name and
the class it has observed, though it files the process only after its threads.

Run `dispatch`: two processes with three threads, each in two of the lists, slices
of one, two or four reads.

* `TaskGenuine`: a queued task pairs a thread with the process it belongs to,
  though the two start times are read slices apart.
* `CycleCovers`: a cycle that completes has had a task accepted for every thread
  that lived through it in one class.
* `Served`, `Converges` (liveness): every listed thread is scheduled again and
  again, and ends up with the settings it is entitled to, none if its rule is gone.

Fairness: main and worker run, the refresh interval ends, and a slice gets the
largest budget again and again (strong fairness on `SliceBegins(Ample)`: a budget
is wall-clock time, and no load is assumed to last for ever). Four
reads carry one thread past its name, its start time and the check of its process
with time to spare. `DispatchBudget.cfg` allows no more than three and ends with a counterexample to `Served`: with a `scan_batch_size` of
at most three and a `scan_batch_yield_us` as long as the budget (config.md:63-65
allows it) the same reads are repeated for ever, because a thread interrupted
after its first read starts over in the next slice (main.cpp:601-604).

### RuleMatch and MatcherCache

`RuleMatch` holds pure functions: what `ConfigParser` keeps of a file, what
`ThreadMatcher` compiles and matches, what `CgroupInitializer` writes for it. A
regular expression is given by the names it is found in. Lists of rules are
functions on the places in the file: a rule that the parser or the compiler drops
leaves a gap where the code's vectors close up, the order is the same, and a place is
the `source_rule_index` that names a group. Numbers are what `get<int>()` makes of
the file's (config_parser.hpp:289, 359, 479 and 488): one beyond the range of `int` is
narrowed before the range checks see it, which is left to the abstraction of the JSON
text.

`MatcherCache` runs them: several threads, one bucket (the sixteen do not interact)
and reloads. The look-up and the storing are critical sections; between them the
match is computed and, at its end, the clock is read, so an answer may wait for the
lock with a stamp that grows old, and two askers may compute the same answer. The
bucket maps keys to entries with an age, which stops at the TTL: the code sweeps what
has reached it before it looks for the oldest. Entries of equal age may be evicted in
either order. The TTL is the file's, as `parse_timing` bounds it, and may be zero. The
key is taken to identify its parts: names that contain the separator `#|#` are left
out.

Run `matching`: three files that take every branch of the parser, with TTLs of two,
one and zero units, nine queries, two askers, a bucket of two. `AnswerRight` states
the answer in the words of the user's file, independent of the compiled rules and of
the cache. `AnswerApplicable` ties three components together: the groups an answer
names exist, with the CPUs and limits of its own rule and of no earlier file, and its
priority is one the setter accepts. `TypeOK` is the bucket's limit.

## Further counterexamples

`CustodyEvents.cfg`, `CustodyMiss.cfg` (module `MCThreadCustody`),
`ProcEventsCompensate.cfg` (`ProcEvents`), `PriorityRestore.cfg`, `PriorityTorn.cfg`
(`MCPrioritySetter`), `ReloadMisread.cfg` (`MCConfigReload`) and `DispatchBudget.cfg`
(`MCDispatchCursor`) each end with a counterexample, described at their modules. They document behaviour of the code
that falls short of a stronger promise; the properties of the passing runs are
stated so that nothing else does.

## What is proved

Eight proof modules, each for every value of its module's constants (sets of
threads, keys, groups, files and configurations, limits, numbers of attempts, and
the bounds themselves). Each states an inductive invariant `IInv`, shows
`Init => IInv` and that every action keeps it, and draws the properties from it.
TLC confirms each `IInv` as an invariant of its module's instances (in
`MatcherCacheProofs` all but `GroupsRight`, which quantifies over every earlier state
of the groups).

**`WorkerQueueProofs`** (`QueueInvariant`). `IInv` conjoins types, that queued keys
are distinct and are exactly the keys of the map, that the map holds the latest
content, and, for each position of the two threads, what must be true there (a
sleeping worker implies an empty queue or a notification still to come; a joined
worker has ended). The last part makes the others inductive: `NoTaskSleeps`
alone does not survive the worker's step from test to sleep. All five safety
properties of the run follow: `QueueStaysInStep`, `NewestTaskIsKept`,
`NoWakeupLostByEnqueue`, `StopLeavesNothingBehind`, `BacklogIsDropped`.
Assumption: a positive limit; `None` is no content.

**`PrioritySetterProofs`**. All five safety properties of `priority`, for every rule
value, real-time priority and nice value. The invariant adds to the types what a
call in progress relies on: `Capturing` and `Held` (a baseline, half-read or
finished, agrees with the thread as it was unless the capture was torn),
`Progress` (what the first of two system calls has achieved before the second;
`RestoreExactFair` alone says nothing of that state) and `Applied`. The lemma
`Policies` is the agreement of the two value tables in the code, `set_priority`'s
and `expected_policy_for_priority`'s, for every integer. Assumption: the ranges of
the system's own values.

**`CpusetSetterProofs`** (`TakeoverInvariant`). `AtMostOneStray` is not inductive: it
needs that a call is only made on an identity check of its own (`Checked`), that
start times only grow (`Clock`), and hence that a TID that has passed to another
thread never satisfies a check again (`Identities`). From the same invariant
`TakeoverRefines` shows, action by action, that the sequence implements
`AffinityTakeover`, which promises no progress and so states no fairness. Assumptions: groups have CPUs, the parent group has
the target's; at least one attempt and one try.

**`DispatchCursorProofs`** (`DispatchInvariant`). For `TaskGenuine`: start times are
read in the order cursor, thread, process again (`Loaded`, `Reading`) and only
grow, so equal ends force an equal middle. For `CycleCovers`: `Pending` is the work
a cycle still has ahead, `Listing` and `Ahead` say that a thread which has lived
through the cycle is in it or was accepted, `Shape` that nobody but the cycle
moves its cursors. Assumption beyond the types: finitely many TIDs (a cursor
picks the least).

**`ThreadCustodyProofs`** (`CustodyInvariant`). `Safe(t)` gathers what is promised of a
live undisturbed thread. `WorkerOf` gives all jobs of an identity to one worker,
and restoration begins when the workers are idle (`Exclusion`), so a thread has at
most one job of its own; a step of any other job leaves it alone or disturbs it.
`OwnJob` says what the own job knows: from lookup to settlement, the baseline and
the managed dimensions it works from are those of the entry. `ScanTracks` is why
clean-up drops no live entry, `Restoring` why `allOk` means what it says.
From it: `OriginalsAreKept`, `BaselinesAreGenuine`, `ChangesAreRecorded`,
`CleanExitRestoresAll` and the action property `ReloadIsClean`. `PromiseIsKept`
removes the exception for disturbed threads: if there are no process events, no
`/proc` read fails, and an ID passes to a new thread only when no job and no scan in
progress speaks of the old one (`FreshIds`, a condition on the kernel's steps),
`StrictCustody` holds, with full scans, reloads, rollbacks and shutdown at any time.
`CustodyEvents.cfg` and `CustodyMiss.cfg` show that the first two conditions
cannot be dropped, `custody_reuse` reaches states in which the third fails.
Assumptions beyond the types: at least one restoration attempt, and that the
markers `None`, `Partial` and `NoEntry` are none of the values they stand beside.

**`ProcEventsProofs`** (`EventInvariant`). The events of a PID none of which was lost
form a chain: tracked set, batch, pending map, inotify queue, process. Creations
and deletions alternate along it (`Chained`), and merging keeps as much of that as
classification needs. With `Awaited` and `Recalled` (a process not inspected, or
gone and not forgotten, has an event on its way, unless its status was `unread`) it yields
`NewProcessesAreInspected`, `DeadProcessesAreForgotten` and, with the limits,
`EventTypesHold`. Assumption: finitely many PIDs, positive limits.

**`ConfigReloadProofs`** (`ReloadInvariant`). Three layers: what `init()` has written
and can still take back (`Written`, `Undo`; of a misread group only `OldOrNew`, that
no file has a third value), which configuration's values the files
hold at each stage of a start-up, reload or rollback (`Stage`), and the child of
the launcher query (`ChildKept`). From them `NoMixture`, `InitIsAtomic` and
`ChildrenAreReaped`; `ReloadTypesHold` adds the limits of the retry delay.
`CgroupAssumption`: a plan is a sequence of groups, each with a value for every one
of its files, none of them a word that stands for absence.

**`MatcherCacheProofs`** (`MatcherInvariant`). `CacheRight` and `AskRight`: every entry
and every computed answer is what the matcher would compute anew, for the file in
force, for a query with the entry's key. The step that needs it is a hit, where the
entry may come from another query: `MatchByKey` shows that the key holds all of a
query that `match_impl` looks at. A reload keeps it because it happens when no asker
holds an answer, and empties the bucket. `GroupsRight`: the groups are what `init`
makes of the file in force and of some earlier groups. The bucket's limit
(`BucketIsBounded`) is counted through sweep, eviction and insertion.

From there the argument is about `RuleMatch`, for any file. `RulesOfFile` and
`ThreadsOfFile`: the compiled rules that match are the file's that do, so their first
ones agree; `ClassesOfFile`: of a class the parser keeps, state by state, the mask the
file names if it is usable, else none. That gives `AnswersAreRight`. For
`AnswersAreApplicable`: a mask in an answer means that some rule needs a cpuset, so its
group was made; `RangesReadBack`, the kernel reads from `CpuMask::to_string` the set it
was made of; `RuleByName`, names of kept rules are unique, so a limit group has the
limits of its own rule. Least elements come from the well-founded order of the
numbers, not from an induction. Assumptions (`MatcherAssumption`, `FileAssumption`):
rules have positive places, CPUs are numbers, a mask has a name, the empty name is no
directory, `None` is no limit, and the TTL is a number.

Only model-checked:

* all liveness properties (`QueuedTaskLeaves`, `EventsFlushed`,
  `EveryProcessInspected`, `TakesOver`, `NotHeldUp`, `FileWins`, `Served`,
  `Converges`): liveness under fairness is out of the prover's reach;
* what `worker_stop` and the further counterexamples show, which are facts about
  single behaviours.

Every invariant and every action property of the passing runs, and the refinement of
`AffinityTakeover`, is a theorem.

## Not modelled

* How the state of a process is inferred from cgroup paths (main.cpp:460-487,
  `FileUtils`' path cache). ReUperf moves threads to `/top-app/...` itself, so the
  code keeps the last state while a path is its own; an Android move that a drift
  repair overwrites before a scan sees it is then never noticed. Whether that
  happens depends on timing against Android, which no bound here represents.
  `DispatchCursor` takes the observed class for the real one.
* Exceptions inside a task. Baselines that grow old: a thread's own values are
  fixed for its life in `ThreadCustody`.
* Parsing of log and timing fields, the JSON text, regular expressions, the
  formats of `/proc`; `FileUtils`' time-limited caches.
* Kernel threads, which the default rule passes over in the background.
* Logging, packaging and installation: output and build only.

## Plan

What is left is breadth: the inference of a process's state from its cgroup path,
exceptions inside a task, and `FileUtils`' caches, each listed above with the reason
it is not modelled yet.
