--------------------------- MODULE PrioritySetter ---------------------------
(***************************************************************************)
(* The scheduler dimension of one thread: how PrioritySetter captures its  *)
(* policy, real-time priority and nice value, sets the value of a rule,    *)
(* checks for drift, and restores what it captured.  Each of these is      *)
(* several system calls; the system may change the thread between any two  *)
(* of them, and each may fail.                                             *)
(*                                                                         *)
(* The kernel (external): a policy change keeps the nice value, which a    *)
(* real-time policy merely leaves unused, and a priority that does not go  *)
(* with the policy is refused.                                             *)
(***************************************************************************)
EXTENDS Integers

CONSTANTS
    Prios,      \* values get_prio_value returns for the rules in use
    RtPrios,    \* real-time priorities the system itself gives
    Nices,      \* nice values the system itself gives
    None

Fair == {"NORMAL", "BATCH", "IDLE"}    \* the policies with a nice value
Realtime == {"FIFO", "RR"}

SchedStates == [policy : Fair \cup Realtime, prio : 0..99, nice : -20..19]

ASSUME PriorityAssumption ==
    /\ Prios \subseteq Int
    /\ RtPrios \subseteq 1..99
    /\ Nices \subseteq -20..19
    /\ None \notin SchedStates

VARIABLES
    sched,      \* the thread's policy, prio and nice in the kernel
    base,       \* its captured baseline, or None
    pc, goal,   \* the call in progress, and the value it sets
    did,        \* the last call that succeeded: none, applied, restored
    orig,       \* history: the thread's state when the capture began
    torn,       \* history: the system changed it during the capture
    calm        \* history: the system has not changed it since the last
                \* apply or restore began

vars == <<sched, base, pc, goal, did, orig, torn, calm>>

Accepted(policy, prio) == IF policy \in Realtime THEN prio \in 1..99 ELSE prio = 0

States == {s \in [policy : Fair \cup Realtime, prio : RtPrios \cup {0}, nice : Nices] :
              Accepted(s.policy, s.prio)}

Init ==
    /\ sched \in States
    /\ base = None /\ pc = "idle" /\ goal = 0 /\ did = "none"
    /\ orig = sched /\ torn = FALSE /\ calm = TRUE

SystemSets(s) ==
    /\ s # sched
    /\ sched' = s
    /\ torn' = (torn \/ pc \in {"readprio", "readnice"})
    /\ calm' = FALSE
    /\ UNCHANGED <<base, pc, goal, did, orig>>

----------------------------------------------------------------------------
(* capture_scheduler_baseline.                                             *)

CaptureBegins ==
    /\ pc = "idle" /\ base = None
    /\ base' = [policy |-> sched.policy, prio |-> 0, nice |-> 0]
    /\ pc' = "readprio"
    /\ orig' = sched /\ torn' = FALSE /\ did' = "none"
    /\ UNCHANGED <<sched, goal, calm>>

\* MUTANT: the priority is not read.
CapturePrio_Unread ==
    /\ pc = "readprio"
    /\ pc' = IF base.policy \in Fair THEN "readnice" ELSE "idle"
    /\ UNCHANGED <<sched, base, goal, did, orig, torn, calm>>

CapturePrio ==
    /\ pc = "readprio"
    /\ base' = [base EXCEPT !.prio = sched.prio]
    /\ pc' = IF base.policy \in Fair THEN "readnice" ELSE "idle"
    /\ UNCHANGED <<sched, goal, did, orig, torn, calm>>

CaptureNice ==
    /\ pc = "readnice"
    /\ base' = [base EXCEPT !.nice = sched.nice]
    /\ pc' = "idle"
    /\ UNCHANGED <<sched, goal, did, orig, torn, calm>>

CaptureFails ==
    /\ pc \in {"readprio", "readnice"}
    /\ base' = None /\ pc' = "idle"
    /\ UNCHANGED <<sched, goal, did, orig, torn, calm>>

----------------------------------------------------------------------------
(* set_priority, expected_policy_for_priority and is_sched_changed.        *)

\* MUTANT: the policies of -2 and -3 are mixed up.
PolicyFor_Swapped(v) ==
    CASE v \in 1..98 -> "FIFO"
      [] v \in 100..139 \cup {-1} -> "NORMAL"
      [] v = -2 -> "IDLE"
      [] v = -3 -> "BATCH"
      [] OTHER -> None

\* The policy set_priority asks for, None for a value it does not know.
PolicyFor(v) ==
    CASE v \in 1..98 -> "FIFO"
      [] v \in 100..139 \cup {-1} -> "NORMAL"
      [] v = -2 -> "BATCH"
      [] v = -3 -> "IDLE"
      [] OTHER -> None

expected_policy_for_priority(v) ==
    CASE v \in 1..98 -> "FIFO"
      [] v \in 100..139 \cup {-1} -> "NORMAL"
      [] v = -2 -> "BATCH"
      [] v = -3 -> "IDLE"
      [] OTHER -> None

\* get_current_sched: a nice value counts from 120.
CurrentPrio == IF sched.policy \in Fair THEN sched.nice + 120 ELSE sched.prio

\* MUTANT: the policy alone decides.
is_sched_changed_PolicyOnly(v) ==
    expected_policy_for_priority(v) # None /\ sched.policy # expected_policy_for_priority(v)

is_sched_changed(v) ==
    \/ /\ expected_policy_for_priority(v) # None
       /\ sched.policy # expected_policy_for_priority(v)
    \/ v \in 1..98 \cup 100..139 /\ CurrentPrio # v

\* A rule with value 0 does not manage the priority; the others are applied
\* once a baseline is held.
ApplyBegins(v) ==
    /\ pc = "idle" /\ base # None /\ v # 0
    /\ pc' = "setsched" /\ goal' = v /\ did' = "none" /\ calm' = TRUE
    /\ UNCHANGED <<sched, base, orig, torn>>

SetPolicy ==
    /\ pc = "setsched"
    /\ PolicyFor(goal) # None
    /\ sched' = [sched EXCEPT !.policy = PolicyFor(goal),
                              !.prio = IF goal \in 1..98 THEN goal ELSE 0]
    /\ IF goal \in 100..139 THEN pc' = "setnice" /\ UNCHANGED did
                            ELSE pc' = "idle" /\ did' = "applied"
    /\ UNCHANGED <<base, goal, orig, torn, calm>>

\* MUTANT: the offset is off by one.
SetNice_OffByOne ==
    /\ pc = "setnice"
    /\ sched' = [sched EXCEPT !.nice = goal - 119]
    /\ pc' = "idle" /\ did' = "applied"
    /\ UNCHANGED <<base, goal, orig, torn, calm>>

SetNice ==
    /\ pc = "setnice"
    /\ sched' = [sched EXCEPT !.nice = goal - 120]
    /\ pc' = "idle" /\ did' = "applied"
    /\ UNCHANGED <<base, goal, orig, torn, calm>>

----------------------------------------------------------------------------
(* restore_scheduler, and clear_baseline when it succeeded.                *)

RestoreBegins ==
    /\ pc = "idle" /\ base # None
    /\ pc' = "resched" /\ did' = "none" /\ calm' = TRUE
    /\ UNCHANGED <<sched, base, goal, orig, torn>>

\* MUTANT: the nice value is given back to no thread.
RestorePolicy_NoNice ==
    /\ pc = "resched"
    /\ Accepted(base.policy, base.prio)
    /\ sched' = [sched EXCEPT !.policy = base.policy, !.prio = base.prio]
    /\ pc' = "idle" /\ did' = "restored" /\ base' = None
    /\ UNCHANGED <<goal, orig, torn, calm>>

RestorePolicy ==
    /\ pc = "resched"
    /\ Accepted(base.policy, base.prio)
    /\ sched' = [sched EXCEPT !.policy = base.policy, !.prio = base.prio]
    /\ IF base.policy \in Fair
       THEN pc' = "renice" /\ UNCHANGED <<did, base>>
       ELSE pc' = "idle" /\ did' = "restored" /\ base' = None
    /\ UNCHANGED <<goal, orig, torn, calm>>

RestoreNice ==
    /\ pc = "renice"
    /\ sched' = [sched EXCEPT !.nice = base.nice]
    /\ pc' = "idle" /\ did' = "restored" /\ base' = None
    /\ UNCHANGED <<goal, orig, torn, calm>>

\* A system call fails, or set_priority does not know the value.
CallFails ==
    /\ pc \in {"setsched", "setnice", "resched", "renice"}
    /\ pc' = "idle"
    /\ UNCHANGED <<sched, base, goal, did, orig, torn, calm>>

Next ==
    \/ \E s \in States : SystemSets(s)
    \/ CaptureBegins \/ CapturePrio \/ CaptureNice \/ CaptureFails
    \/ \E v \in Prios : ApplyBegins(v)
    \/ SetPolicy \/ SetNice
    \/ RestoreBegins \/ RestorePolicy \/ RestoreNice \/ CallFails

Spec == Init /\ [][Next]_vars

----------------------------------------------------------------------------
(* Properties.                                                             *)

TypeOK ==
    /\ sched \in SchedStates /\ Accepted(sched.policy, sched.prio)
    /\ base = None \/ base \in SchedStates
    /\ pc \in {"idle", "readprio", "readnice", "setsched", "setnice", "resched", "renice"}
    /\ goal \in Int /\ did \in {"none", "applied", "restored"}
    /\ orig \in SchedStates /\ torn \in BOOLEAN /\ calm \in BOOLEAN

Restored == did = "restored" /\ calm /\ ~torn

\* README.md line 86: a restoration gives back the original policy, priority
\* and nice value.
RestoreExact == Restored => sched = orig

\* What restore_scheduler does achieve, whatever was applied or failed in
\* between: policy and priority, and the nice value of threads that were not
\* real-time.
RestoreExactFair ==
    Restored => /\ sched.policy = orig.policy /\ sched.prio = orig.prio
                /\ orig.policy \in Fair => sched.nice = orig.nice

\* Every baseline is one the kernel accepts, so that restoring it can succeed.
\* It is not: policy and priority are read by two calls, and a change by the
\* system in between pairs the old policy with the new priority.
BaselineAlwaysRestorable == base # None /\ pc = "idle" => Accepted(base.policy, base.prio)

\* What holds: a baseline is one the kernel accepts unless the system changed
\* the thread in the middle of its capture.
BaselineRestorable ==
    base # None /\ pc = "idle" /\ ~torn => Accepted(base.policy, base.prio)

\* An applied value does not count as drifted: otherwise every dispatch would
\* apply it again.
AppliedIsStable == did = "applied" /\ calm => ~is_sched_changed(goal)

\* And a later change by the system that matters to the rule is noticed: if
\* no drift is reported the thread runs as the rule says.
DriftIsNoticed ==
    did = "applied" /\ pc = "idle" /\ ~is_sched_changed(goal) =>
        /\ sched.policy = PolicyFor(goal)
        /\ goal \in 1..98 => sched.prio = goal
        /\ goal \in 100..139 => sched.nice = goal - 120
============================================================================
