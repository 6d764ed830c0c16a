---------------------------- MODULE ConfigReload ---------------------------
(***************************************************************************)
(* main(): start-up and the reload half of its loop.                       *)
(*                                                                         *)
(* The file is watched by inotify and, as a fallback, by its modification  *)
(* time and hash, which are read one after the other and before it is      *)
(* parsed, while somebody may write it at any moment.  A reload stops the  *)
(* workers, restores the threads (ThreadCustody has the detail), applies   *)
(* the control files (CgroupInit) and starts new workers, or goes back to  *)
(* the old ones.  A content that failed is retried with a growing delay.   *)
(*                                                                         *)
(* Hash and content are one (FNV collisions are left out), and a write     *)
(* always gets a new modification time unless SameSecond.                  *)
(***************************************************************************)
EXTENDS Naturals, Sequences

CONSTANTS
    Configs, Groups, Plan, Kind, Want,          \* see CgroupInit
    Outputs, KindOf, Default, kTermPolls,       \* see LauncherFinder
    Contents,       \* what the file may hold: configurations, "bad", "off", "missing"
    SameSecond,     \* whether two writes may share a modification time
    BootWrites,     \* whether the file may change while the program starts
    InitialDelay, MaxDelay,
    MaxWrites, MaxFaults

ASSUME ReloadAssumption ==
    /\ Configs # {} /\ Configs \cap {"bad", "off", "missing"} = {}
    /\ Contents \subseteq Configs \cup {"bad", "off", "missing"}
    /\ SameSecond \in BOOLEAN /\ BootWrites \in BOOLEAN
    /\ InitialDelay \in Nat \ {0} /\ MaxDelay \in Nat /\ InitialDelay <= MaxDelay
    /\ MaxWrites \in Nat /\ MaxFaults \in Nat /\ kTermPolls \in Nat

\* A configuration's groups have a value for each of their files, and none
\* of the words that stand for a file's absence is such a value.
ASSUME CgroupAssumption ==
    /\ Kind \in [Groups -> {"cpuset", "limit"}]
    /\ \A c \in Configs :
         /\ Plan[c] \in Seq(Groups)
         /\ \A k \in DOMAIN Plan[c] : LET g == Plan[c][k] IN
              /\ DOMAIN Want[c][g] = IF Kind[g] = "cpuset" THEN {"cpus", "mems", "exclusive"}
                                     ELSE {"uclamp", "shares"}
              /\ \A f \in DOMAIN Want[c][g] :
                   Want[c][g][f] \notin {"none", "absent", "empty"}

VARIABLES
    content, mtime, writes,           \* the file
    event, watching,                  \* inotify: something is queued, watch alive
    pc, booting,                      \* the main thread
    changed, cur_mtime, cur_hash,     \* what this iteration has read
    last_mtime, last_config_hash,
    failed_config_hash, deferred, delay,
    cfg, new,                         \* configuration in force, and being loaded
    workers,                          \* configuration of the running workers, or "none"
    \* CgroupInit
    ctl, ipc, icfg, gi, fi, ready, failed, saved, order, result, rolled, misread, before,
    \* LauncherFinder
    lpc, child, late, polls, command, output, launcher, lost, misfired,
    faults

file == <<content, mtime, writes>>
inotify == <<event, watching>>
readings == <<changed, cur_mtime, cur_hash>>
memory == <<last_mtime, last_config_hash, failed_config_hash, deferred, delay>>
force == <<cfg, new, workers>>
cgroups == <<ctl, ipc, icfg, gi, fi, ready, failed, saved, order, result, rolled, misread, before>>
finder == <<lpc, child, late, polls, command, output, launcher, lost, misfired>>
vars == <<file, inotify, pc, booting, readings, memory, force, cgroups, finder, faults>>

Cgroups == INSTANCE CgroupInit
Finder == INSTANCE LauncherFinder

Init ==
    /\ content \in Configs /\ mtime = 1 /\ writes = 0
    /\ event = FALSE /\ watching = FALSE
    /\ pc = "parse" /\ booting = TRUE
    /\ changed = FALSE /\ cur_mtime = 0 /\ cur_hash = "missing"
    /\ last_mtime = 0 /\ last_config_hash = "missing"
    /\ failed_config_hash = "missing" /\ deferred = FALSE /\ delay = InitialDelay
    /\ cfg = content /\ new = content /\ workers = "none"
    /\ faults = MaxFaults
    /\ Cgroups!Init /\ Finder!Init /\ icfg = content

Fault == faults > 0 /\ faults' = faults - 1

----------------------------------------------------------------------------
(* The file, the watch and the clock.                                      *)

UserWrites(c) ==
    /\ writes < MaxWrites /\ writes' = writes + 1
    /\ ~booting \/ BootWrites
    /\ c # content /\ content' = c
    /\ mtime' \in IF SameSecond THEN {mtime, mtime + 1} ELSE {mtime + 1}
    /\ event' = watching
    /\ UNCHANGED <<watching, pc, booting, readings, memory, force, cgroups, finder, faults>>

\* The watch is lost, with what was queued; or the queue overflows, which
\* counts as a change.
WatchBreaks ==
    /\ Fault /\ watching
    /\ \/ watching' = FALSE /\ event' = FALSE
       \/ event' = TRUE /\ UNCHANGED watching
    /\ UNCHANGED <<file, pc, booting, readings, memory, force, cgroups, finder>>

\* next_config_retry is reached.
TimerExpires ==
    /\ deferred /\ deferred' = FALSE
    /\ UNCHANGED <<file, inotify, pc, booting, readings, last_mtime, last_config_hash,
                   failed_config_hash, delay, force, cgroups, finder, faults>>

----------------------------------------------------------------------------
(* Detecting a change: one iteration of the loop.                          *)

\* ConfigFileWatcher::check_and_clear.  A watch that is gone is made anew,
\* which brings back none of the events missed.
ChecksWatch ==
    /\ pc = "idle" /\ pc' = "stat"
    /\ changed' = event /\ event' = FALSE
    /\ \/ watching' = TRUE /\ UNCHANGED faults
       \/ ~watching /\ Fault /\ UNCHANGED watching
    /\ UNCHANGED <<file, booting, cur_mtime, cur_hash, memory, force, cgroups, finder>>

ReadsMtime ==
    /\ pc = "stat" /\ pc' = "hash"
    /\ cur_mtime' = IF content = "missing" THEN 0 ELSE mtime
    /\ UNCHANGED <<file, inotify, booting, changed, cur_hash, memory, force, cgroups,
                   finder, faults>>

ReadsHash ==
    /\ pc = "hash" /\ pc' = "decide"
    /\ cur_hash' = content
    /\ UNCHANGED <<file, inotify, booting, changed, cur_mtime, memory, force, cgroups,
                   finder, faults>>

Fallback == \/ cur_mtime # last_mtime /\ cur_mtime > 0
            \/ cur_hash # last_config_hash /\ cur_hash # "missing"

\* MUTANT: a failure defers whatever comes next.
RetryDeferred_Always == deferred

RetryDeferred == cur_hash # "missing" /\ cur_hash = failed_config_hash /\ deferred

\* The iteration ends; what it has read is forgotten.
IterationEnds ==
    /\ pc' = "idle"
    /\ changed' = FALSE /\ cur_mtime' = 0 /\ cur_hash' = "missing"

Decides ==
    /\ pc = "decide"
    /\ IF (changed \/ Fallback) /\ ~RetryDeferred
       THEN pc' = "parse" /\ UNCHANGED readings
       ELSE IterationEnds
    /\ UNCHANGED <<file, inotify, booting, memory, force, cgroups, finder, faults>>

----------------------------------------------------------------------------
(* Loading: at start-up, and again for every change.                       *)

\* ConfigParser::parse reads the file as it is now.  A configuration that
\* disables the scheduler ends the program.
Parses ==
    /\ pc = "parse"
    /\ \/ /\ content \in Configs
          /\ new' = content /\ cfg' = IF booting THEN content ELSE cfg
          /\ pc' = "launcher"
          /\ Finder!Begin
       \/ /\ content \notin Configs
          /\ pc' = IF booting \/ content = "off" THEN "exit" ELSE "fail"
          /\ UNCHANGED <<new, cfg, finder, faults>>
    /\ UNCHANGED <<file, inotify, booting, readings, memory, workers, cgroups>>

\* LauncherFinder::find, then the new matcher, setters and workers, whose
\* construction may throw.
FindsLauncher ==
    /\ pc = "launcher"
    /\ \/ Finder!Next /\ UNCHANGED pc
       \/ /\ lpc = "idle" /\ Finder!Left
          /\ \/ pc' = (IF booting THEN "init" ELSE "stop") /\ UNCHANGED faults
             \/ pc' = (IF booting THEN "exit" ELSE "fail") /\ Fault
    /\ UNCHANGED <<file, inotify, booting, readings, memory, force, cgroups>>

StopsOldWorkers ==
    /\ pc = "stop" /\ pc' = "restore"
    /\ workers' = "none"
    /\ UNCHANGED <<file, inotify, booting, readings, memory, cfg, new, cgroups,
                   finder, faults>>

\* restore_all_thread_baselines.
Restores ==
    /\ pc = "restore"
    /\ \/ pc' = "init" /\ UNCHANGED faults
       \/ pc' = "undo_start" /\ Fault
    /\ UNCHANGED <<file, inotify, booting, readings, memory, force, cgroups, finder>>

\* CgroupInitializer::init for the new configuration, or again for the old.
InitsCgroups ==
    /\ pc \in {"init", "undo_init"}
    /\ \/ ipc = "idle" /\ result = "none" /\ UNCHANGED pc
          /\ Cgroups!Begin(IF pc = "init" THEN new ELSE cfg)
       \/ Cgroups!Next /\ UNCHANGED pc
       \/ /\ result # "none"
          /\ pc' = IF result = "ok" THEN (IF pc = "init" THEN "start" ELSE "undo_start")
                   ELSE IF booting \/ pc = "undo_init" THEN "exit" ELSE "undo_init"
          /\ Cgroups!Left
    /\ UNCHANGED <<file, inotify, booting, readings, memory, force, finder>>

\* MUTANT: the old workers go on without the old control files.
StartsWorkers_NoUndo ==
    /\ pc = "start"
    /\ \/ workers' = new /\ pc' = "commit" /\ UNCHANGED faults
       \/ Fault /\ pc' = (IF booting THEN "exit" ELSE "undo_start") /\ UNCHANGED workers
    /\ UNCHANGED <<file, inotify, booting, readings, memory, cfg, new, cgroups, finder>>

\* start_all_workers, which stops the ones already started when one fails.
StartsWorkers ==
    /\ pc = "start"
    /\ \/ workers' = new /\ pc' = "commit" /\ UNCHANGED faults
       \/ Fault /\ pc' = (IF booting THEN "exit" ELSE "undo_init") /\ UNCHANGED workers
    /\ UNCHANGED <<file, inotify, booting, readings, memory, cfg, new, cgroups, finder>>

RestartsOldWorkers ==
    /\ pc = "undo_start"
    /\ \/ workers' = cfg /\ pc' = "fail" /\ UNCHANGED faults
       \/ Fault /\ pc' = "exit" /\ UNCHANGED workers
    /\ UNCHANGED <<file, inotify, booting, readings, memory, cfg, new, cgroups, finder>>

----------------------------------------------------------------------------
(* What is remembered.                                                     *)

\* The new configuration is in force, and the values read before it was
\* parsed are the ones to compare with.
Commits ==
    /\ pc = "commit" /\ ~booting /\ IterationEnds
    /\ cfg' = new
    /\ last_mtime' = cur_mtime /\ last_config_hash' = cur_hash
    /\ failed_config_hash' = "missing" /\ delay' = InitialDelay /\ deferred' = FALSE
    /\ UNCHANGED <<file, inotify, booting, new, workers, cgroups, finder, faults>>

\* Start-up: the watch, then the values to compare with, long after parse.
BootWatches ==
    /\ pc = "commit" /\ booting /\ pc' = "boot_mtime"
    /\ \/ watching' = TRUE /\ UNCHANGED faults
       \/ Fault /\ UNCHANGED watching
    /\ UNCHANGED <<file, event, booting, readings, memory, force, cgroups, finder>>

BootReadsMtime ==
    /\ pc = "boot_mtime" /\ pc' = "boot_hash"
    /\ last_mtime' = IF content = "missing" THEN 0 ELSE mtime
    /\ UNCHANGED <<file, inotify, booting, readings, last_config_hash, failed_config_hash,
                   deferred, delay, force, cgroups, finder, faults>>

BootReadsHash ==
    /\ pc = "boot_hash" /\ pc' = "idle" /\ booting' = FALSE
    /\ last_config_hash' = content
    /\ UNCHANGED <<file, inotify, readings, last_mtime, failed_config_hash, deferred, delay,
                   force, cgroups, finder, faults>>

\* MUTANT: the failed content counts as seen.
Fails_Remembers ==
    /\ pc = "fail" /\ IterationEnds
    /\ last_mtime' = cur_mtime /\ last_config_hash' = cur_hash
    /\ new' = cfg
    /\ UNCHANGED <<file, inotify, booting, cfg, workers, failed_config_hash, deferred, delay,
                   cgroups, finder, faults>>

Smaller(a, b) == IF a < b THEN a ELSE b
NextDelay == IF failed_config_hash = cur_hash THEN Smaller(delay * 2, MaxDelay)
             ELSE InitialDelay

\* Keeping the old configuration: the content is put off, unless the file
\* could not even be read.
Fails ==
    /\ pc = "fail" /\ IterationEnds
    /\ new' = cfg
    /\ IF cur_hash # "missing"
       THEN failed_config_hash' = cur_hash /\ delay' = NextDelay /\ deferred' = TRUE
       ELSE UNCHANGED <<failed_config_hash, delay, deferred>>
    /\ UNCHANGED <<file, inotify, booting, last_mtime, last_config_hash, cfg, workers,
                   cgroups, finder, faults>>

Main == \/ ChecksWatch \/ ReadsMtime \/ ReadsHash \/ Decides
        \/ Parses \/ StopsOldWorkers \/ Restores \/ InitsCgroups
        \/ StartsWorkers \/ RestartsOldWorkers \/ Commits \/ Fails
        \/ BootWatches \/ BootReadsMtime \/ BootReadsHash

Next == \/ \E c \in Contents : UserWrites(c)
        \/ WatchBreaks \/ TimerExpires
        \/ Main \/ FindsLauncher

\* The main thread keeps going and a child's deadline passes; nothing is
\* assumed of the child itself nor of the retry timer.
FinderGoesOn == FindsLauncher /\ (pc' # pc \/ lpc' # lpc \/ polls' # polls \/ late' # late)
Fairness == WF_vars(Main) /\ WF_vars(FinderGoesOn)
Spec == Init /\ [][Next]_vars /\ Fairness

----------------------------------------------------------------------------
(* Properties.                                                             *)

TypeOK ==
    /\ content \in Contents \cup Configs /\ writes \in 0..MaxWrites /\ mtime \in 1..(writes + 1)
    /\ event \in BOOLEAN /\ watching \in BOOLEAN /\ (event => watching)
    /\ pc \in {"idle", "stat", "hash", "decide", "parse", "launcher", "stop", "restore",
               "init", "undo_init", "start", "undo_start", "commit", "fail", "exit",
               "boot_mtime", "boot_hash"}
    /\ cfg \in Configs /\ new \in Configs /\ workers \in Configs \cup {"none"}
    /\ delay \in InitialDelay..MaxDelay
    /\ DOMAIN ctl = Cgroups!Files
    /\ ipc \in {"idle", "group", "write", "rollback"}
    /\ lpc \in {"idle", "spawn", "poll", "reap", "term", "grace", "kill", "wait", "choose"}
    /\ polls \in 0..kTermPolls

\* Between two iterations the workers run the configuration in force and
\* its groups hold the values it asks for, whatever reloads were tried and
\* wherever they failed: no mixture of old and new.
InForce == pc = "idle" => workers = cfg /\ Cgroups!Applied(cfg)

\* init() is all or nothing: if it returns true every file has its value,
\* limits that are not configured the inherited one; if it returns false and
\* its rollback could write, every group that was in use is as it was, but
\* for one whose readiness could not be read: that one's files have their
\* old values or the ones asked for, and no third.
InitAtomic ==
    [][ipc # "idle" /\ ipc' = "idle" =>
        IF result' = "ok" THEN Cgroups!Applied(icfg)'
        ELSE rolled' => (Cgroups!Preserved)']_vars

\* "When updating the control files fails, the old values are rolled back"
\* (README.md line 12): unless a write of the rollback itself fails, init()
\* returns false only with every group that was in use as it was.
OldValuesBack ==
    [][ipc # "idle" /\ ipc' = "idle" /\ result' = "failed" /\ rolled' =>
        \A x \in Cgroups!Files : Cgroups!WasInUse(x)' => ctl'[x] = before'[x]]_vars

\* execute_command leaves no child behind, except when waitpid fails, and
\* signals a process group only while its leader has not been reaped.
ChildHandled ==
    /\ ~misfired
    /\ lpc \in {"idle", "spawn", "choose"} => child = "none" \/ lost

Settled == cfg = content \/ content \in {"bad", "missing"}
Ended == pc = "exit"

\* A new content is not held up by the failure of another one: without any
\* assumption on the retry timer, the file's configuration comes into force,
\* unless that very content has failed.
NotHeldUp == <>[](Ended \/ Settled \/ content = failed_config_hash)

\* If the retry timer expires, the file's configuration comes into force
\* once failures stop, a hanging platform command included, or a content
\* that disables the scheduler ends the program.
FileWins == WF_vars(TimerExpires) => <>[](Ended \/ Settled)
============================================================================
