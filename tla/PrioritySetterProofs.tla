------------------------ MODULE PrioritySetterProofs ------------------------
(***************************************************************************)
(* The properties of PrioritySetter for every set of rule values and of    *)
(* system values.  The strengthening says what each call in progress       *)
(* relies on: Capturing ties a half-read baseline to the thread as it was, *)
(* Held the finished baseline, Progress what the first of two system calls *)
(* has already achieved.                                                   *)
(***************************************************************************)
EXTENDS PrioritySetter, TLAPS

InCall ==
    /\ pc # "idle" => base # None /\ did = "none"
    /\ did = "restored" => base = None
    /\ Accepted(orig.policy, orig.prio)

Capturing ==
    ~torn => /\ pc \in {"readprio", "readnice"} => sched = orig
             /\ pc = "readprio" => base.policy = orig.policy
             /\ pc = "readnice" => /\ base.policy = orig.policy
                                   /\ base.prio = orig.prio

Held ==
    ~torn /\ base # None /\ pc \notin {"readprio", "readnice"} =>
        /\ base.policy = orig.policy /\ base.prio = orig.prio
        /\ orig.policy \in Fair => base.nice = orig.nice

Progress ==
    /\ pc = "renice" => base.policy \in Fair
    /\ pc = "renice" /\ calm => sched.policy = base.policy /\ sched.prio = base.prio
    /\ pc = "setnice" => goal \in 100..139 /\ PolicyFor(goal) # None
    /\ pc = "setnice" /\ calm => sched.policy = "NORMAL"

\* What a rule's value asks for.
Carried(v) ==
    /\ sched.policy = PolicyFor(v)
    /\ v \in 1..98 => sched.prio = v
    /\ v \in 100..139 => sched.nice = v - 120

Applied ==
    did = "applied" => PolicyFor(goal) # None /\ (calm => Carried(goal))

IInv == /\ TypeOK
        /\ InCall
        /\ Capturing
        /\ Held
        /\ Progress
        /\ Applied
        /\ RestoreExactFair

\* The two tables of the code, the one set_priority follows and the one the
\* drift check follows, agree; and what each range of values gives.
LEMMA Policies ==
    ASSUME NEW v \in Int
    PROVE  /\ expected_policy_for_priority(v) = PolicyFor(v)
           /\ v \in 1..98 => PolicyFor(v) = "FIFO"
           /\ v \in 100..139 => PolicyFor(v) = "NORMAL"
           /\ PolicyFor(v) # None =>
                 PolicyFor(v) \in Fair \cup Realtime /\ (v \notin 1..98 => PolicyFor(v) \in Fair)
<1>1. CASE v \in 1..98
  BY <1>1 DEF PolicyFor, expected_policy_for_priority, Fair, Realtime
<1>2. CASE v \in 100..139 \cup {-1}
  BY <1>2 DEF PolicyFor, expected_policy_for_priority, Fair, Realtime
<1>3. CASE v \in {-2, -3}
  BY <1>3 DEF PolicyFor, expected_policy_for_priority, Fair, Realtime
<1>4. CASE v \notin 1..98 \cup 100..139 \cup {-1, -2, -3}
  BY <1>4 DEF PolicyFor, expected_policy_for_priority, Fair, Realtime
<1> QED BY <1>1, <1>2, <1>3, <1>4

\* The system only gives threads states that set_priority's types cover.
LEMMA SystemStates ==
    ASSUME NEW s \in States
    PROVE  s \in SchedStates /\ Accepted(s.policy, s.prio)
<1>1. /\ s \in [policy : Fair \cup Realtime, prio : RtPrios \cup {0}, nice : Nices]
      /\ Accepted(s.policy, s.prio)
  BY Zenon DEF States
<1>2. RtPrios \cup {0} \subseteq 0..99 /\ Nices \subseteq -20..19
  BY PriorityAssumption
<1> QED BY <1>1, <1>2 DEF SchedStates

LEMMA Initially == Init => IInv
<1> SUFFICES ASSUME Init PROVE IInv
  OBVIOUS
<1>1. sched \in SchedStates /\ Accepted(sched.policy, sched.prio)
  BY SystemStates DEF Init
<1>2. TypeOK
  <2>1. torn \in BOOLEAN /\ calm \in BOOLEAN
    BY Zenon DEF Init
  <2> QED BY <1>1, <2>1 DEF Init, TypeOK
<1>3. InCall /\ Capturing /\ Held
  BY <1>1 DEF Init, InCall, Capturing, Held
<1>4. Progress /\ Applied /\ RestoreExactFair
  BY DEF Init, Progress, Applied, RestoreExactFair, Restored
<1> QED BY <1>2, <1>3, <1>4 DEF IInv

LEMMA Inductive == IInv /\ [Next]_vars => IInv'
<1> SUFFICES ASSUME IInv, [Next]_vars PROVE IInv'
  OBVIOUS
<1> USE DEF IInv
<1>1. ASSUME NEW s \in States, SystemSets(s) PROVE IInv'
  <2>1. s \in SchedStates /\ Accepted(s.policy, s.prio)
    BY SystemStates
  <2>2. TypeOK'
    <3>1. torn' \in BOOLEAN /\ calm' \in BOOLEAN
      BY <1>1, Zenon DEF SystemSets, TypeOK
    <3> QED BY <1>1, <2>1, <3>1 DEF SystemSets, TypeOK
  <2>3. InCall' /\ Capturing' /\ Held'
    BY <1>1 DEF SystemSets, InCall, Capturing, Held
  <2>4. Progress' /\ Applied' /\ RestoreExactFair'
    BY <1>1 DEF SystemSets, Progress, Applied, RestoreExactFair, Restored
  <2> QED BY <2>2, <2>3, <2>4
<1>2. ASSUME CaptureBegins PROVE IInv'
  <2>1. base' \in SchedStates /\ base' # None
    BY <1>2, PriorityAssumption DEF CaptureBegins, TypeOK, SchedStates
  <2>2. TypeOK'
    BY <1>2, <2>1 DEF CaptureBegins, TypeOK
  <2>3. InCall' /\ Capturing' /\ Held'
    BY <1>2, <2>1 DEF CaptureBegins, TypeOK, InCall, Capturing, Held
  <2>4. Progress' /\ Applied' /\ RestoreExactFair'
    BY <1>2 DEF CaptureBegins, Progress, Applied, RestoreExactFair, Restored
  <2> QED BY <2>2, <2>3, <2>4
<1>3. ASSUME CapturePrio PROVE IInv'
  <2>1. base \in SchedStates
    BY <1>3 DEF CapturePrio, TypeOK, InCall
  <2>2. base' \in SchedStates /\ base' # None
    BY <1>3, <2>1, PriorityAssumption DEF CapturePrio, TypeOK, SchedStates
  <2>3. TypeOK'
    BY <1>3, <2>2 DEF CapturePrio, TypeOK
  <2>4. base'.policy = base.policy /\ base'.prio = sched.prio
    BY <1>3, <2>1 DEF CapturePrio, SchedStates
  <2>5. InCall' /\ Capturing' /\ Held'
    BY <1>3, <2>2, <2>4 DEF CapturePrio, InCall, Capturing, Held
  <2>6. Progress' /\ Applied' /\ RestoreExactFair'
    BY <1>3 DEF CapturePrio, InCall, Progress, Applied, RestoreExactFair, Restored
  <2> QED BY <2>3, <2>5, <2>6
<1>4. ASSUME CaptureNice PROVE IInv'
  <2>1. base \in SchedStates
    BY <1>4 DEF CaptureNice, TypeOK, InCall
  <2>2. base' \in SchedStates /\ base' # None
    BY <1>4, <2>1, PriorityAssumption DEF CaptureNice, TypeOK, SchedStates
  <2>3. TypeOK'
    BY <1>4, <2>2 DEF CaptureNice, TypeOK
  <2>4. /\ base'.policy = base.policy /\ base'.prio = base.prio
        /\ base'.nice = sched.nice
    BY <1>4, <2>1 DEF CaptureNice, SchedStates
  <2>5. InCall' /\ Capturing' /\ Held'
    BY <1>4, <2>2, <2>4 DEF CaptureNice, InCall, Capturing, Held
  <2>6. Progress' /\ Applied' /\ RestoreExactFair'
    BY <1>4 DEF CaptureNice, InCall, Progress, Applied, RestoreExactFair, Restored
  <2> QED BY <2>3, <2>5, <2>6
<1>5. ASSUME CaptureFails PROVE IInv'
  BY <1>5 DEF CaptureFails, TypeOK, InCall, Capturing, Held, Progress, Applied, Carried,
              RestoreExactFair, Restored
<1>6. ASSUME NEW v \in Prios, ApplyBegins(v) PROVE IInv'
  <2>1. TypeOK'
    BY <1>6, PriorityAssumption DEF ApplyBegins, TypeOK
  <2> QED
    BY <1>6, <2>1 DEF ApplyBegins, InCall, Capturing, Held, Progress, Applied,
                      RestoreExactFair, Restored
<1>7. ASSUME SetPolicy PROVE IInv'
  <2>1. /\ PolicyFor(goal) # None /\ goal \in Int
        /\ PolicyFor(goal) \in Fair \cup Realtime
        /\ goal \in 1..98 => PolicyFor(goal) = "FIFO"
        /\ goal \in 100..139 => PolicyFor(goal) = "NORMAL"
        /\ goal \notin 1..98 => PolicyFor(goal) \in Fair
    BY <1>7, Policies DEF SetPolicy, TypeOK
  <2>2. /\ sched' \in SchedStates
        /\ sched'.policy = PolicyFor(goal)
        /\ sched'.prio = IF goal \in 1..98 THEN goal ELSE 0
    <3> DEFINE q == PolicyFor(goal)
               n == IF goal \in 1..98 THEN goal ELSE 0
    <3>1. q \in Fair \cup Realtime /\ n \in 0..99
      BY <2>1
    <3>2. sched' = [sched EXCEPT !.policy = q, !.prio = n] /\ sched \in SchedStates
      BY <1>7 DEF SetPolicy, TypeOK
    <3> HIDE DEF q, n
    <3>3. sched' \in SchedStates /\ sched'.policy = q /\ sched'.prio = n
      BY <3>1, <3>2 DEF SchedStates
    <3> QED BY <3>3 DEF q, n
  <2>3. TypeOK'
    <3>1. Accepted(sched'.policy, sched'.prio)
      BY <2>1, <2>2 DEF Accepted, Fair, Realtime
    <3> QED BY <1>7, <2>2, <3>1 DEF SetPolicy, TypeOK
  <2>4. InCall' /\ Capturing' /\ Held'
    BY <1>7 DEF SetPolicy, InCall, Capturing, Held
  <2>5. Progress' /\ Applied' /\ RestoreExactFair'
    <3>1. PolicyFor(goal)' = PolicyFor(goal)
      BY <1>7 DEF SetPolicy, PolicyFor
    <3> QED
      BY <1>7, <2>1, <2>2, <3>1
      DEF SetPolicy, InCall, Progress, Applied, Carried, RestoreExactFair, Restored
  <2> QED BY <2>3, <2>4, <2>5
<1>8. ASSUME SetNice PROVE IInv'
  <2>1. /\ goal \in 100..139
        /\ sched' \in SchedStates
        /\ sched'.policy = sched.policy /\ sched'.prio = sched.prio
        /\ sched'.nice = goal - 120
    BY <1>8 DEF SetNice, Progress, TypeOK, SchedStates
  <2>2. TypeOK'
    BY <1>8, <2>1 DEF SetNice, TypeOK
  <2>3. InCall' /\ Capturing' /\ Held'
    BY <1>8 DEF SetNice, InCall, Capturing, Held
  <2>4. PolicyFor(goal) = "NORMAL" /\ PolicyFor(goal)' = PolicyFor(goal)
    BY <1>8, <2>1, Policies DEF SetNice, PolicyFor
  <2>5. PolicyFor(goal) # None
    BY <1>8 DEF Progress, SetNice
  <2> QED
    BY <1>8, <2>1, <2>2, <2>3, <2>4, <2>5
    DEF SetNice, Progress, Applied, Carried, RestoreExactFair, Restored
<1>9. ASSUME RestoreBegins PROVE IInv'
  BY <1>9 DEF RestoreBegins, TypeOK, InCall, Capturing, Held, Progress, Applied,
              RestoreExactFair, Restored
<1>10. ASSUME RestorePolicy PROVE IInv'
  <2>1. base \in SchedStates /\ base # None
    BY <1>10 DEF RestorePolicy, TypeOK, InCall
  <2>2. /\ sched' \in SchedStates
        /\ sched'.policy = base.policy /\ sched'.prio = base.prio
    BY <1>10, <2>1 DEF RestorePolicy, TypeOK, SchedStates
  <2>3. TypeOK'
    BY <1>10, <2>1, <2>2 DEF RestorePolicy, TypeOK
  <2>4. InCall' /\ Capturing' /\ Held'
    BY <1>10, <2>1 DEF RestorePolicy, InCall, Capturing, Held
  <2>5. Progress' /\ Applied'
    BY <1>10, <2>2 DEF RestorePolicy, InCall, Progress, Applied
  <2>6. RestoreExactFair'
    BY <1>10, <2>1, <2>2 DEF RestorePolicy, InCall, Held, RestoreExactFair, Restored
  <2> QED BY <2>3, <2>4, <2>5, <2>6
<1>11. ASSUME RestoreNice PROVE IInv'
  <2>1. base \in SchedStates /\ base # None
    BY <1>11 DEF RestoreNice, TypeOK, InCall
  <2>2. /\ sched' \in SchedStates
        /\ sched'.policy = sched.policy /\ sched'.prio = sched.prio
        /\ sched'.nice = base.nice
    BY <1>11, <2>1 DEF RestoreNice, TypeOK, SchedStates
  <2>3. TypeOK'
    BY <1>11, <2>2 DEF RestoreNice, TypeOK
  <2>4. InCall' /\ Capturing' /\ Held' /\ Progress' /\ Applied'
    BY <1>11 DEF RestoreNice, InCall, Capturing, Held, Progress, Applied
  <2>5. RestoreExactFair'
    BY <1>11, <2>1, <2>2 DEF RestoreNice, Held, Progress, RestoreExactFair, Restored
  <2> QED BY <2>3, <2>4, <2>5
<1>12. ASSUME CallFails PROVE IInv'
  BY <1>12 DEF CallFails, TypeOK, InCall, Capturing, Held, Progress, Applied,
               RestoreExactFair, Restored
<1>13. CASE UNCHANGED vars
  BY <1>13 DEF vars, TypeOK, InCall, Capturing, Held, Progress, Applied, Carried, PolicyFor,
               RestoreExactFair, Restored, Accepted
<1> QED
  BY <1>1, <1>2, <1>3, <1>4, <1>5, <1>6, <1>7, <1>8, <1>9, <1>10, <1>11, <1>12, <1>13
  DEF Next

LEMMA Invariance == Spec => []IInv
BY Initially, Inductive, PTL DEF Spec

\* The state of the thread and of its baseline is always well formed: the
\* kernel never holds a priority that does not go with the policy.
THEOREM TypeCorrect == Spec => []TypeOK
<1>1. IInv => TypeOK
  BY DEF IInv
<1> QED BY <1>1, Invariance, PTL

\* restore_scheduler gives back policy and priority, and the nice value of a
\* thread that was not real-time, whatever rules were applied and whatever
\* calls failed since capture_scheduler_baseline.
THEOREM RestoresWhatItCaptured == Spec => []RestoreExactFair
<1>1. IInv => RestoreExactFair
  BY DEF IInv
<1> QED BY <1>1, Invariance, PTL

\* A baseline that capture_scheduler_baseline read undisturbed is one that
\* sched_setscheduler accepts in restore_scheduler.
THEOREM CapturesAreRestorable == Spec => []BaselineRestorable
<1>1. IInv => BaselineRestorable
  BY DEF IInv, Held, InCall, BaselineRestorable
<1> QED BY <1>1, Invariance, PTL

\* is_sched_changed does not report what set_priority has just done, for
\* every value it accepts, so a dispatch does not apply it over and over.
THEOREM ApplyingSettles == Spec => []AppliedIsStable
<1>1. IInv => AppliedIsStable
  <2> SUFFICES ASSUME IInv, did = "applied", calm PROVE ~is_sched_changed(goal)
    BY DEF AppliedIsStable
  <2>1. goal \in Int /\ sched \in SchedStates /\ Carried(goal)
    BY DEF IInv, TypeOK, Applied
  <2>2. sched.policy = expected_policy_for_priority(goal)
    BY <2>1, Policies DEF Carried
  <2>3. ASSUME goal \in 1..98 \cup 100..139 PROVE CurrentPrio = goal
    BY <2>1, <2>3, Policies DEF Carried, CurrentPrio, Fair, SchedStates
  <2> QED BY <2>2, <2>3 DEF is_sched_changed
<1> QED BY <1>1, Invariance, PTL

\* When is_sched_changed reports nothing after a successful set_priority, the
\* thread runs with the policy, priority or nice value of its rule.
THEOREM DriftDetected == Spec => []DriftIsNoticed
<1>1. IInv => DriftIsNoticed
  <2> SUFFICES ASSUME IInv, did = "applied", ~is_sched_changed(goal)
               PROVE  Carried(goal)
    BY DEF DriftIsNoticed, Carried
  <2>1. goal \in Int /\ sched \in SchedStates /\ PolicyFor(goal) # None
    BY DEF IInv, TypeOK, Applied
  <2>2. sched.policy = PolicyFor(goal)
    BY <2>1, Policies DEF is_sched_changed
  <2>3. ASSUME goal \in 1..98 \cup 100..139 PROVE CurrentPrio = goal
    BY <2>3 DEF is_sched_changed
  <2> QED
    BY <2>1, <2>2, <2>3, Policies DEF Carried, CurrentPrio, Fair, SchedStates
<1> QED BY <1>1, Invariance, PTL
============================================================================
