---------------------------- MODULE CpusetSetter ---------------------------
(***************************************************************************)
(* CpusetSetter::apply_with_result for one thread: run_takeover_sequence   *)
(* with its identity checks, the retry loop of move_to_cpuset_cgroup and   *)
(* the shared cache of is_group_ready, next to a kernel in which the       *)
(* thread is replaced, Android moves it, groups vanish and calls fail.     *)
(*                                                                         *)
(* Time is left out: a cached readiness may expire at any moment.  Every   *)
(* disturbance (anything the code has no hand in) uses up budget, the      *)
(* bound of the model.                                                     *)
(***************************************************************************)
EXTENDS Naturals, Sequences

CONSTANTS
    GroupCpus,     \* the CPUs of each cpuset: the system's own, "parent"
                   \* (/dev/cpuset/top-app) and "target" (its ReUperf_<mask>)
    max_attempts, cpuset_retry_count,
    Budget         \* bound: disturbances

Groups == DOMAIN GroupCpus
SystemGroups == Groups \ {"target"}
Expected == GroupCpus["target"]

ASSUME CpusetAssumption ==
    /\ {"target", "parent"} \subseteq Groups
    /\ \A g \in Groups : GroupCpus[g] # {}
    /\ Expected \subseteq GroupCpus["parent"]
    /\ max_attempts \in Nat \ {0} /\ cpuset_retry_count \in Nat \ {0} /\ Budget \in Nat

VARIABLES
    id, cset, mask,   \* the thread that has the TID
    ready,            \* the target group exists and is configured
    check,            \* its entry in group_checks_
    pc,               \* what the takeover does next
    step,             \* position in Operations
    owner,            \* start time the task was dispatched with, 0 if none
    attempt, retry,
    cpuset_verified, affinity_verified,
    outcome,          \* success() of the last takeover
    budget,
    fresh, landed, strays   \* history, for AffinityTakeover

thread == <<id, cset, mask>>
history == <<fresh, landed, strays>>
flags == <<cpuset_verified, affinity_verified>>
vars == <<thread, ready, check, pc, step, owner, attempt, retry, flags, outcome,
          budget, history>>

Operations == <<"affinity", "target", "affinity", "parent", "affinity", "target",
                "affinity", "verify">>

Init ==
    /\ id = 1 /\ cset \in SystemGroups /\ mask = GroupCpus[cset]
    /\ ready = TRUE /\ check = "unknown"
    /\ pc = "idle" /\ step = 1 /\ owner = 0 /\ attempt = 1 /\ retry = 1
    /\ cpuset_verified = FALSE /\ affinity_verified = FALSE
    /\ outcome = "none" /\ budget = Budget
    /\ fresh = FALSE /\ landed = 0 /\ strays = 0

----------------------------------------------------------------------------
(* The kernel and Android.                                                 *)

Disturbs == budget > 0 /\ budget' = budget - 1

\* The masks a move to group g can leave: the group's CPUs, or what the
\* thread had of them.
MasksAfterMove(g) ==
    {GroupCpus[g]} \cup {m \in {mask \cap GroupCpus[g]} : m # {}}

ThreadExits ==
    /\ Disturbs /\ id # 0
    /\ id' = 0
    /\ UNCHANGED <<cset, mask, ready>>

\* A new thread gets the TID, in the cpuset of the thread that created it.
ThreadReplaced(g) ==
    /\ Disturbs
    /\ id' = Budget + 2 - budget
    /\ cset' = g /\ mask' = GroupCpus[g]
    /\ g = "target" => ready
    /\ UNCHANGED ready

AndroidMoves(g) ==
    /\ Disturbs /\ id # 0 /\ g \in SystemGroups
    /\ cset' = g /\ mask' \in MasksAfterMove(g)
    /\ UNCHANGED <<id, ready>>

\* The target group is removed or made again; its threads go to the parent.
GroupChanges ==
    /\ Disturbs
    /\ ready' = ~ready
    /\ IF cset = "target" THEN cset' = "parent" /\ mask' \in MasksAfterMove("parent")
       ELSE UNCHANGED <<cset, mask>>
    /\ UNCHANGED id

Environment ==
    /\ \/ ThreadExits \/ GroupChanges
       \/ \E g \in Groups : ThreadReplaced(g) \/ AndroidMoves(g)
    /\ UNCHANGED <<check, pc, step, owner, attempt, retry, flags, outcome, history>>

\* MUTANT: a group found unready is remembered for good.
EntryExpires_ReadyOnly == check = "ready" /\ check' = "unknown"

\* The entry is older than cpuset_group_check_ttl_ms, or another worker's
\* retries failed; another worker looked the group up.
EntryExpires == check # "unknown" /\ check' = "unknown"
Readiness == IF ready THEN "ready" ELSE "unready"
OtherWorkerChecks == check = "unknown" /\ check' = Readiness

GroupCache ==
    /\ EntryExpires \/ OtherWorkerChecks
    /\ UNCHANGED <<thread, ready, pc, step, owner, attempt, retry, flags, outcome,
                   budget, history>>

----------------------------------------------------------------------------
(* The takeover.                                                           *)

Begin ==
    /\ pc = "idle" /\ id # 0
    /\ pc' = "identity" /\ step' = 1 /\ owner' = id /\ attempt' = 1
    /\ cpuset_verified' = FALSE /\ affinity_verified' = FALSE /\ outcome' = "none"
    /\ fresh' = FALSE /\ landed' = 0 /\ strays' = 0
    /\ UNCHANGED <<thread, ready, check, retry, budget>>

\* MUTANT: no identity check before the recovery's calls.
Proceed_Unchecked(next) ==
    step' = next /\ pc' = IF next \in 4..6 THEN Operations[next] ELSE "identity"

\* On to the next operation, behind its identity check.
Proceed(next) == step' = next /\ pc' = "identity"

\* identity_operation: a thread that was replaced, or cannot be read, ends
\* the takeover.
Identity ==
    /\ pc = "identity"
    /\ \/ /\ id = owner
          /\ pc' = Operations[step]
          /\ fresh' = TRUE
          /\ UNCHANGED budget
       \/ /\ IF id = owner THEN Disturbs ELSE UNCHANGED budget
          /\ pc' = "report"
          /\ UNCHANGED fresh
    /\ UNCHANGED <<thread, ready, check, step, owner, attempt, retry, flags, outcome,
                   landed, strays>>

\* A call took effect on the thread that has the TID.
Landed ==
    /\ fresh' = FALSE
    /\ landed' = landed + 1
    /\ strays' = IF id = owner THEN strays ELSE strays + 1

\* A call had none: the kernel refuses it, or fails for a reason of its own.
Refused(possible) ==
    /\ IF possible THEN Disturbs ELSE UNCHANGED budget
    /\ fresh' = FALSE
    /\ UNCHANGED <<thread, landed, strays>>

\* sched_setaffinity keeps the mask within the cpuset.  Its result is
\* recorded and otherwise ignored.
SetAffinity ==
    LET within == Expected \cap GroupCpus[cset]
        possible == id # 0 /\ within # {}
    IN /\ pc = "affinity"
       /\ \/ /\ possible
             /\ mask' = within
             /\ Landed
             /\ UNCHANGED <<id, cset, budget>>
          \/ Refused(possible)
       /\ Proceed(step + 1)
       /\ UNCHANGED <<ready, check, owner, attempt, retry, flags, outcome>>

\* Where run_takeover_sequence goes after move_target_operation.
MoveDone(ok) == Proceed(IF step = 2 /\ ok THEN 7 ELSE step + 1)

\* is_group_ready: the cached answer, or a look at the group's files.
IsGroupReady ==
    LET found == IF check # "unknown" THEN check ELSE Readiness
    IN /\ pc = "target"
       /\ check' = found
       /\ IF found = "ready"
          THEN pc' = "move" /\ retry' = 1 /\ UNCHANGED <<step, fresh>>
          ELSE MoveDone(FALSE) /\ fresh' = FALSE /\ UNCHANGED retry
       /\ UNCHANGED <<thread, ready, owner, attempt, flags, outcome, budget, landed, strays>>

MoveTo(g) ==
    /\ cset' = g /\ mask' \in MasksAfterMove(g)
    /\ Landed
    /\ UNCHANGED <<id, budget>>

RetryLeft == retry < cpuset_retry_count

\* move_to_cpuset_cgroup: the write is tried cpuset_retry_count times, with
\* a pause and no identity check in between, and invalidate_group follows.
MoveToCpuset ==
    LET possible == id # 0 /\ ready
    IN /\ pc = "move"
       /\ \/ /\ possible /\ MoveTo("target")
             /\ MoveDone(TRUE)
             /\ UNCHANGED <<check, retry>>
          \/ /\ RetryLeft
             /\ IF possible THEN Disturbs ELSE UNCHANGED budget
             /\ retry' = retry + 1
             /\ UNCHANGED <<thread, history, check, pc, step>>
          \/ /\ ~RetryLeft
             /\ Refused(possible)
             /\ MoveDone(FALSE)
             /\ check' = "unknown"
             /\ UNCHANGED retry
       /\ UNCHANGED <<ready, owner, attempt, flags, outcome>>

MoveToParent ==
    /\ pc = "parent"
    /\ \/ id # 0 /\ MoveTo("parent")
       \/ Refused(id # 0)
    /\ Proceed(step + 1)
    /\ UNCHANGED <<ready, check, owner, attempt, retry, flags, outcome>>

\* MUTANT: a verification once passed is not repeated.
VerifyCpuset_Sticky ==
    /\ pc = "verify" /\ pc' = "verify_affinity"
    /\ cpuset_verified' = (cpuset_verified \/ (id # 0 /\ cset = "target"))
    /\ fresh' = FALSE
    /\ UNCHANGED <<thread, ready, check, step, owner, attempt, retry, affinity_verified,
                   outcome, budget, landed, strays>>

VerifyCpuset ==
    /\ pc = "verify" /\ pc' = "verify_affinity"
    /\ \/ cpuset_verified' = (id # 0 /\ cset = "target") /\ UNCHANGED budget
       \/ cpuset_verified' = FALSE /\ Disturbs
    /\ fresh' = FALSE
    /\ UNCHANGED <<thread, ready, check, step, owner, attempt, retry, affinity_verified,
                   outcome, landed, strays>>

\* is_affinity_changed, and the end of the attempt.
VerifyAffinity ==
    /\ pc = "verify_affinity"
    /\ \/ affinity_verified' = (id # 0 /\ mask = Expected) /\ UNCHANGED budget
       \/ affinity_verified' = FALSE /\ Disturbs
    /\ IF attempt < max_attempts /\ ~(cpuset_verified /\ affinity_verified')
       THEN Proceed(1) /\ attempt' = attempt + 1
       ELSE pc' = "report" /\ UNCHANGED <<step, attempt>>
    /\ UNCHANGED <<thread, ready, check, owner, retry, cpuset_verified, outcome, history>>

Report ==
    /\ pc = "report" /\ pc' = "idle"
    /\ outcome' = IF cpuset_verified /\ affinity_verified THEN "success" ELSE "failure"
    /\ owner' = 0 /\ fresh' = FALSE
    /\ UNCHANGED <<thread, ready, check, step, attempt, retry, flags, budget,
                   landed, strays>>

Takeover ==
    \/ Begin \/ Identity \/ SetAffinity \/ IsGroupReady \/ MoveToCpuset \/ MoveToParent
    \/ VerifyCpuset \/ VerifyAffinity \/ Report

Next == Environment \/ GroupCache \/ Takeover

\* A worker goes on with its takeover, the thread is dispatched again and
\* again, and readiness entries do not outlive their time to live.
Fairness == WF_vars(Takeover) /\ WF_vars(EntryExpires /\ GroupCache)

Spec == Init /\ [][Next]_vars /\ Fairness

----------------------------------------------------------------------------
(* Properties.                                                             *)

TypeOK ==
    /\ id \in Nat /\ cset \in Groups /\ mask \in (SUBSET GroupCpus[cset]) \ {{}}
    /\ ready \in BOOLEAN /\ check \in {"unknown", "ready", "unready"}
    /\ pc \in {"idle", "identity", "affinity", "target", "move", "parent", "verify",
               "verify_affinity", "report"}
    /\ step \in DOMAIN Operations /\ owner \in Nat
    /\ attempt \in 1..max_attempts /\ retry \in 1..cpuset_retry_count
    /\ cpuset_verified \in BOOLEAN /\ affinity_verified \in BOOLEAN
    /\ outcome \in {"none", "success", "failure"} /\ budget \in 0..Budget
    /\ fresh \in BOOLEAN /\ landed \in Nat /\ strays \in Nat

\* What the flags stand for: read back in this attempt, after its changes.
Seen ==
    CASE pc = "verify_affinity" -> IF cpuset_verified THEN {"cset"} ELSE {}
      [] pc = "report" /\ cpuset_verified /\ affinity_verified -> {"cset", "mask"}
      [] OTHER -> {}

Abstract == INSTANCE AffinityTakeover WITH seen <- Seen

\* run_takeover_sequence implements the promise of AffinityTakeover: at most
\* one effective call per identity check, no other values than the target's
\* and the parent group, success only if both attributes were read back
\* after the last change, in one attempt.
ImplementsTakeover == Abstract!Spec

\* A takeover whose thread is replaced touches the replacement at most once,
\* retries and the second attempt included.
AtMostOneStray == strays <= 1

\* Once nothing disturbs it any more, a live thread with a usable target
\* group ends up in the group with the group's mask, whatever cpuset it
\* came from and whatever the readiness cache believed.
TakesOver ==
    <>[](budget = 0 /\ id # 0 /\ ready) => <>[](cset = "target" /\ mask = Expected)
============================================================================
