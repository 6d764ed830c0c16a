------------------------- MODULE CpusetSetterProofs ------------------------
(***************************************************************************)
(* The takeover implements AffinityTakeover and touches a replacement at   *)
(* most once, for every set of groups, every number of attempts and        *)
(* retries and every number of disturbances.                               *)
(*                                                                         *)
(* Places ties the operation to its place in the sequence, Checked says    *)
(* that a call is only ever made on an identity check of its own, and      *)
(* Identities is why one stray is the last: start times only grow, so a    *)
(* TID that has passed to another thread never satisfies a check again.    *)
(***************************************************************************)
EXTENDS CpusetSetter, TLAPS

Calls == {"affinity", "target", "move", "parent", "verify"}

Places ==
    /\ pc = "affinity" => step \in {1, 3, 5, 7}
    /\ pc \in {"target", "move"} => step \in {2, 6}
    /\ pc = "parent" => step = 4
    /\ pc = "verify" => step = 8

Checked ==
    /\ fresh <=> pc \in Calls
    /\ pc = "idle" <=> owner = 0
    /\ pc \in Calls \cup {"identity"} => ~(cpuset_verified /\ affinity_verified)

Clock == id + budget <= Budget + 1 /\ owner + budget <= Budget + 1

Identities == strays = 0 \/ (strays = 1 /\ (owner # 0 => ~fresh /\ id # owner))

IInv == TypeOK /\ Places /\ Checked /\ Clock /\ Identities

\* Whatever mask a move to a group leaves has CPUs, all of them the group's.
LEMMA MaskAfterMove ==
    ASSUME NEW g \in Groups, NEW m \in MasksAfterMove(g)
    PROVE  m \in (SUBSET GroupCpus[g]) \ {{}}
BY CpusetAssumption DEF MasksAfterMove

\* The operation at each place of the sequence.
LEMMA OperationAt ==
    ASSUME NEW s \in DOMAIN Operations
    PROVE  /\ s \in 1..8
           /\ Operations[s] = CASE s \in {1, 3, 5, 7} -> "affinity"
                                [] s \in {2, 6} -> "target"
                                [] s = 4 -> "parent"
                                [] OTHER -> "verify"
<1>1. s \in 1..8
  BY DEF Operations
<1>2. s = 1 \/ s = 2 \/ s = 3 \/ s = 4 \/ s = 5 \/ s = 6 \/ s = 7 \/ s = 8
  BY <1>1
<1> QED BY <1>1, <1>2 DEF Operations

LEMMA Parameters ==
    /\ Budget \in Nat /\ 1 \in 1..max_attempts /\ 1 \in 1..cpuset_retry_count
    /\ "target" \in Groups /\ "parent" \in Groups /\ 1 \in DOMAIN Operations
<1>1. 1 \in DOMAIN Operations
  BY DEF Operations
<1> QED BY <1>1, CpusetAssumption

LEMMA SmallerSum == \A i, b, c, n \in Nat : i + b <= n /\ c <= b => i + c <= n
OBVIOUS

\* A TID is left alone, freed, or given to a thread younger than any before.
LEMMA NewestStart ==
    \A i, j, o, n \in Nat, b \in Nat \ {0} :
       i + b <= n + 1 /\ o + b <= n + 1 /\ (j = 0 \/ j = i \/ j = n + 2 - b)
          => /\ j + (b - 1) <= n + 1 /\ o + (b - 1) <= n + 1
             /\ o # 0 /\ i # o => j # o
OBVIOUS

\* Time goes on: a budget that shrinks keeps every start time in the past.
LEMMA ClockKept ==
    ASSUME TypeOK, Clock, budget' \in 0..Budget, budget' <= budget, UNCHANGED <<id, owner>>
    PROVE  Clock'
<1>1. id \in Nat /\ owner \in Nat /\ budget \in Nat /\ budget' \in Nat /\ Budget + 1 \in Nat
  BY Parameters DEF TypeOK
<1>2. id + budget' <= Budget + 1 /\ owner + budget' <= Budget + 1
  BY <1>1, SmallerSum, Zenon DEF Clock
<1> QED BY <1>2 DEF Clock

LEMMA InitIInv == Init => IInv
<1> SUFFICES ASSUME Init PROVE IInv
  OBVIOUS
<1>1. cset \in Groups /\ mask \in (SUBSET GroupCpus[cset]) \ {{}}
  BY CpusetAssumption DEF Init, SystemGroups
<1>2. /\ ready \in BOOLEAN /\ cpuset_verified \in BOOLEAN /\ affinity_verified \in BOOLEAN
      /\ fresh \in BOOLEAN /\ ~fresh
  BY Zenon DEF Init
<1>3. TypeOK
  BY <1>1, <1>2, Parameters DEF Init, TypeOK
<1>4. Places /\ Checked /\ Clock /\ Identities
  <2>1. Clock
    BY Parameters DEF Init, Clock
  <2>2. pc = "idle" /\ owner = 0 /\ strays = 0
    BY DEF Init
  <2> QED BY <1>2, <2>1, <2>2 DEF Places, Checked, Identities, Calls
<1> QED BY <1>3, <1>4 DEF IInv

LEMMA EnvironmentIInv == ASSUME IInv, Environment PROVE IInv'
<1> USE DEF IInv
<1>1. UNCHANGED <<check, pc, step, owner, attempt, retry, flags, outcome, history>>
  BY DEF Environment
<1>2. budget > 0 /\ budget' = budget - 1 /\ budget \in 0..Budget /\ budget' \in 0..Budget
  BY Parameters DEF Environment, ThreadExits, GroupChanges, ThreadReplaced, AndroidMoves,
                    Disturbs, TypeOK
<1>3. id' \in Nat /\ (id' = 0 \/ id' = id \/ id' = Budget + 2 - budget)
  BY <1>2, Parameters DEF Environment, ThreadExits, GroupChanges, ThreadReplaced, AndroidMoves, TypeOK
<1>4. ready' \in BOOLEAN
  BY DEF Environment, ThreadExits, GroupChanges, ThreadReplaced, AndroidMoves, TypeOK
<1>5. cset' \in Groups /\ mask' \in (SUBSET GroupCpus[cset']) \ {{}}
  <2>1. CASE ThreadExits
    BY <2>1 DEF ThreadExits, TypeOK
  <2>2. CASE GroupChanges
    <3>1. CASE cset = "target"
      <4>1. "parent" \in Groups
        BY CpusetAssumption
      <4> QED BY <2>2, <3>1, <4>1, MaskAfterMove DEF GroupChanges
    <3>2. CASE cset # "target"
      BY <2>2, <3>2 DEF GroupChanges, TypeOK
    <3> QED BY <3>1, <3>2
  <2>3. ASSUME NEW g \in Groups, ThreadReplaced(g)
        PROVE  cset' \in Groups /\ mask' \in (SUBSET GroupCpus[cset']) \ {{}}
    BY <2>3, CpusetAssumption DEF ThreadReplaced
  <2>4. ASSUME NEW g \in Groups, AndroidMoves(g)
        PROVE  cset' \in Groups /\ mask' \in (SUBSET GroupCpus[cset']) \ {{}}
    BY <2>4, MaskAfterMove DEF AndroidMoves
  <2> QED BY <2>1, <2>2, <2>3, <2>4 DEF Environment
<1>6. TypeOK'
  BY <1>1, <1>2, <1>3, <1>4, <1>5 DEF TypeOK, flags, history
<1>7. Places' /\ Checked'
  BY <1>1 DEF Places, Checked, flags, history
<1>8. Clock' /\ Identities'
  <2>1. /\ id \in Nat /\ id' \in Nat /\ owner \in Nat /\ Budget \in Nat
        /\ budget \in Nat \ {0} /\ owner' = owner
    BY <1>1, <1>2, <1>3, Parameters DEF TypeOK
  <2>2. /\ id' + (budget - 1) <= Budget + 1 /\ owner + (budget - 1) <= Budget + 1
        /\ owner # 0 /\ id # owner => id' # owner
    BY <1>3, <2>1, NewestStart, Zenon DEF Clock
  <2>3. Clock'
    BY <1>2, <2>1, <2>2, Zenon DEF Clock
  <2>4. UNCHANGED <<strays, fresh>>
    BY <1>1 DEF history
  <2> QED BY <2>1, <2>2, <2>3, <2>4, Zenon DEF Identities
<1> QED BY <1>6, <1>7, <1>8

LEMMA GroupCacheIInv == ASSUME IInv, GroupCache PROVE IInv'
<1>1. TypeOK'
  BY DEF IInv, GroupCache, EntryExpires, OtherWorkerChecks, Readiness, TypeOK, thread, flags,
         history
<1>2. Places' /\ Checked' /\ Clock' /\ Identities'
  BY DEF IInv, GroupCache, Places, Checked, Clock, Identities, thread, flags, history
<1> QED BY <1>1, <1>2 DEF IInv

\* What a call leaves of the history: a stray only ever follows a clean record.
LEMMA LandedIdentities ==
    ASSUME IInv, pc \in Calls, Landed, UNCHANGED <<id, owner, budget>>
    PROVE  Clock' /\ Identities' /\ fresh' = FALSE /\ landed' \in Nat /\ strays' \in Nat
<1>1. fresh /\ owner # 0
  BY DEF IInv, Checked, Calls
<1>2. strays = 0
  BY <1>1 DEF IInv, Identities
<1> QED BY <1>1, <1>2 DEF IInv, Clock, Identities, Landed, TypeOK

\* A call without effect leaves it as it was.
LEMMA RefusedIdentities ==
    ASSUME IInv, NEW possible, Refused(possible), UNCHANGED owner
    PROVE  Clock' /\ Identities' /\ fresh' = FALSE /\ budget' \in 0..Budget
<1>1. budget' \in 0..Budget /\ budget' <= budget
  BY Parameters DEF Refused, Disturbs, IInv, TypeOK
<1>2. UNCHANGED <<id, owner>>
  BY DEF Refused, thread
<1>3. Clock'
  BY <1>1, <1>2, ClockKept DEF IInv
<1> QED BY <1>1, <1>3 DEF Refused, IInv, Identities, thread

LEMMA BeginIInv == ASSUME IInv, Begin PROVE IInv'
<1>1. TypeOK'
  BY Parameters DEF IInv, Begin, TypeOK, thread
<1>2. Places' /\ Checked' /\ Clock' /\ Identities'
  BY DEF IInv, Begin, Places, Checked, Clock, Identities, TypeOK, thread, Calls
<1> QED BY <1>1, <1>2 DEF IInv

LEMMA IdentityIInv == ASSUME IInv, Identity PROVE IInv'
<1> USE DEF IInv
<1>1. /\ pc = "identity" /\ ~fresh /\ owner # 0
      /\ UNCHANGED <<thread, ready, check, step, owner, attempt, retry, flags, outcome,
                     landed, strays>>
  BY DEF Identity, Checked, Calls
<1>2. budget' \in 0..Budget /\ budget' <= budget
  BY Parameters DEF Identity, Disturbs, TypeOK
<1>3. Clock'
  BY <1>1, <1>2, ClockKept DEF thread
<1>4. CASE id = owner /\ pc' = Operations[step] /\ fresh' = TRUE
  <2>1. /\ pc' \in Calls \ {"move"}
        /\ pc' = "affinity" => step \in {1, 3, 5, 7}
        /\ pc' = "target" => step \in {2, 6}
        /\ pc' = "parent" => step = 4
        /\ pc' = "verify" => step = 8
    BY <1>4, OperationAt DEF TypeOK, Calls
  <2>2. TypeOK'
    BY <1>1, <1>2, <1>4, <2>1 DEF TypeOK, Calls, thread, flags
  <2>3. Places' /\ Checked'
    BY <1>1, <1>4, <2>1 DEF Places, Checked, Calls, flags
  <2>4. strays = 0
    BY <1>1, <1>4 DEF Identities
  <2> QED BY <1>1, <1>3, <2>2, <2>3, <2>4 DEF Identities
<1>5. CASE pc' = "report" /\ UNCHANGED fresh
  <2>1. TypeOK'
    BY <1>1, <1>2, <1>5 DEF TypeOK, thread, flags
  <2>2. Places' /\ Checked' /\ Identities'
    BY <1>1, <1>5 DEF Places, Checked, Identities, Calls, thread, flags
  <2> QED BY <1>3, <2>1, <2>2
<1> QED BY <1>4, <1>5 DEF Identity

\* A move to group g that takes effect.
LEMMA MoveToIInv ==
    ASSUME IInv, pc \in Calls, NEW g \in Groups, MoveTo(g), UNCHANGED owner
    PROVE  /\ Clock' /\ Identities' /\ fresh' = FALSE /\ landed' \in Nat /\ strays' \in Nat
           /\ UNCHANGED <<id, budget>> /\ cset' \in Groups
           /\ mask' \in (SUBSET GroupCpus[cset']) \ {{}}
BY LandedIdentities, MaskAfterMove DEF MoveTo

LEMMA SetAffinityIInv == ASSUME IInv, SetAffinity PROVE IInv'
<1> USE DEF IInv
<1>1. /\ pc = "affinity" /\ pc' = "identity" /\ step' = step + 1
      /\ UNCHANGED <<ready, check, owner, attempt, retry, flags, outcome>>
  BY DEF SetAffinity, Proceed
<1>2. step' \in DOMAIN Operations /\ owner # 0 /\ pc \in Calls
  BY <1>1 DEF Places, Checked, Calls, Operations
<1>3. /\ Clock' /\ Identities' /\ fresh' = FALSE /\ landed' \in Nat /\ strays' \in Nat
      /\ UNCHANGED <<id, cset>> /\ budget' \in 0..Budget
      /\ mask' \in (SUBSET GroupCpus[cset]) \ {{}}
  <2> DEFINE within == Expected \cap GroupCpus[cset]
             possible == id # 0 /\ within # {}
  <2>1. CASE possible /\ mask' = within /\ Landed /\ UNCHANGED <<id, cset, budget>>
    BY <1>1, <1>2, <2>1, LandedIdentities DEF TypeOK
  <2>2. CASE Refused(possible)
    <3> HIDE DEF possible
    <3>1. Clock' /\ Identities' /\ fresh' = FALSE /\ budget' \in 0..Budget
      BY <1>1, <2>2, RefusedIdentities
    <3> QED BY <2>2, <3>1 DEF Refused, TypeOK, thread
  <2> QED BY <2>1, <2>2 DEF SetAffinity
<1>4. TypeOK'
  BY <1>1, <1>2, <1>3 DEF TypeOK, flags
<1>5. Places' /\ Checked'
  BY <1>1, <1>2, <1>3 DEF Places, Checked, Calls, flags
<1> QED BY <1>3, <1>4, <1>5

\* The end of move_target_operation, with or without an effect.
LEMMA MoveDonePlace ==
    ASSUME Places, pc \in {"target", "move"}, NEW ok \in BOOLEAN, MoveDone(ok)
    PROVE  pc' = "identity" /\ step' \in DOMAIN Operations
BY DEF Places, MoveDone, Proceed, Operations

LEMMA IsGroupReadyIInv == ASSUME IInv, IsGroupReady PROVE IInv'
<1> USE DEF IInv
<1>1. /\ pc = "target" /\ owner # 0 /\ fresh /\ check' \in {"unknown", "ready", "unready"}
      /\ UNCHANGED <<thread, ready, owner, attempt, flags, outcome, budget, landed, strays>>
  BY DEF IsGroupReady, Readiness, Checked, Calls, TypeOK
<1>2. CASE pc' = "move" /\ retry' = 1 /\ UNCHANGED <<step, fresh>>
  <2>1. TypeOK'
    BY <1>1, <1>2, Parameters DEF TypeOK, thread, flags
  <2>2. Places' /\ Checked' /\ Clock' /\ Identities'
    BY <1>1, <1>2 DEF Places, Checked, Clock, Identities, Calls, thread, flags
  <2> QED BY <2>1, <2>2
<1>3. CASE MoveDone(FALSE) /\ fresh' = FALSE /\ UNCHANGED retry
  <2>1. pc' = "identity" /\ step' \in DOMAIN Operations
    BY <1>1, <1>3, MoveDonePlace
  <2>2. TypeOK'
    BY <1>1, <1>3, <2>1 DEF TypeOK, thread, flags
  <2>3. Places' /\ Checked' /\ Clock' /\ Identities'
    BY <1>1, <1>3, <2>1 DEF Places, Checked, Clock, Identities, Calls, thread, flags
  <2> QED BY <2>2, <2>3
<1> QED BY <1>2, <1>3 DEF IsGroupReady

LEMMA MoveToCpusetIInv == ASSUME IInv, MoveToCpuset PROVE IInv'
<1> USE DEF IInv
<1> DEFINE possible == id # 0 /\ ready
<1>1. /\ pc = "move" /\ owner # 0 /\ fresh
      /\ UNCHANGED <<ready, owner, attempt, flags, outcome>>
  BY DEF MoveToCpuset, Checked, Calls
<1>2. CASE possible /\ MoveTo("target") /\ MoveDone(TRUE) /\ UNCHANGED <<check, retry>>
  <2>1. pc' = "identity" /\ step' \in DOMAIN Operations
    BY <1>1, <1>2, MoveDonePlace
  <2>2. /\ Clock' /\ Identities' /\ fresh' = FALSE /\ landed' \in Nat /\ strays' \in Nat
        /\ UNCHANGED <<id, budget>> /\ cset' \in Groups
        /\ mask' \in (SUBSET GroupCpus[cset']) \ {{}}
    BY <1>1, <1>2, MoveToIInv, Parameters DEF Calls
  <2>3. TypeOK'
    BY <1>1, <1>2, <2>1, <2>2 DEF TypeOK, flags
  <2>4. Places' /\ Checked'
    BY <1>1, <2>1, <2>2 DEF Places, Checked, Calls, flags
  <2> QED BY <2>2, <2>3, <2>4
<1>3. CASE /\ RetryLeft
           /\ IF possible THEN Disturbs ELSE UNCHANGED budget
           /\ retry' = retry + 1
           /\ UNCHANGED <<thread, history, check, pc, step>>
  <2>1. budget' \in 0..Budget /\ budget' <= budget
    BY <1>3, Parameters DEF Disturbs, TypeOK
  <2>2. retry' \in 1..cpuset_retry_count
    BY <1>3, CpusetAssumption DEF RetryLeft, TypeOK
  <2>3. Clock'
    BY <1>1, <1>3, <2>1, ClockKept DEF thread
  <2>4. TypeOK'
    BY <1>1, <1>3, <2>1, <2>2 DEF TypeOK, thread, flags, history
  <2>5. Places' /\ Checked' /\ Identities'
    BY <1>1, <1>3 DEF Places, Checked, Identities, Calls, thread, flags, history
  <2> QED BY <2>3, <2>4, <2>5
<1>4. CASE /\ ~RetryLeft /\ Refused(possible) /\ MoveDone(FALSE)
           /\ check' = "unknown" /\ UNCHANGED retry
  <2> HIDE DEF possible
  <2>1. pc' = "identity" /\ step' \in DOMAIN Operations
    BY <1>1, <1>4, MoveDonePlace
  <2>2. Clock' /\ Identities' /\ fresh' = FALSE /\ budget' \in 0..Budget
    BY <1>1, <1>4, RefusedIdentities
  <2>3. TypeOK'
    BY <1>1, <1>4, <2>1, <2>2 DEF Refused, TypeOK, thread, flags
  <2>4. Places' /\ Checked'
    BY <1>1, <2>1, <2>2 DEF Places, Checked, Calls, flags
  <2> QED BY <2>2, <2>3, <2>4
<1> QED BY <1>2, <1>3, <1>4 DEF MoveToCpuset

LEMMA MoveToParentIInv == ASSUME IInv, MoveToParent PROVE IInv'
<1> USE DEF IInv
<1>1. /\ pc = "parent" /\ pc' = "identity" /\ step' = step + 1
      /\ UNCHANGED <<ready, check, owner, attempt, retry, flags, outcome>>
  BY DEF MoveToParent, Proceed
<1>2. step' \in DOMAIN Operations /\ owner # 0 /\ pc \in Calls
  BY <1>1 DEF Places, Checked, Calls, Operations
<1>3. /\ Clock' /\ Identities' /\ fresh' = FALSE /\ landed' \in Nat /\ strays' \in Nat
      /\ UNCHANGED id /\ budget' \in 0..Budget /\ cset' \in Groups
      /\ mask' \in (SUBSET GroupCpus[cset']) \ {{}}
  <2> DEFINE possible == id # 0
  <2>1. CASE MoveTo("parent")
    BY <1>1, <1>2, <2>1, MoveToIInv, Parameters DEF TypeOK
  <2>2. CASE Refused(possible)
    <3> HIDE DEF possible
    <3>1. Clock' /\ Identities' /\ fresh' = FALSE /\ budget' \in 0..Budget
      BY <1>1, <2>2, RefusedIdentities
    <3> QED BY <2>2, <3>1 DEF Refused, TypeOK, thread
  <2> QED BY <2>1, <2>2 DEF MoveToParent
<1>4. TypeOK'
  BY <1>1, <1>2, <1>3 DEF TypeOK, flags
<1>5. Places' /\ Checked'
  BY <1>1, <1>2, <1>3 DEF Places, Checked, Calls, flags
<1> QED BY <1>3, <1>4, <1>5

LEMMA VerifyCpusetIInv == ASSUME IInv, VerifyCpuset PROVE IInv'
<1> USE DEF IInv
<1>1. /\ pc = "verify" /\ pc' = "verify_affinity" /\ fresh' = FALSE /\ owner # 0
      /\ UNCHANGED <<thread, ready, check, step, owner, attempt, retry, affinity_verified,
                     outcome, landed, strays>>
  BY DEF VerifyCpuset, Checked
<1>2. budget' \in 0..Budget /\ budget' <= budget
  BY Parameters DEF VerifyCpuset, Disturbs, TypeOK
<1>b. cpuset_verified' \in BOOLEAN
  BY Zenon DEF VerifyCpuset
<1>3. Clock'
  BY <1>1, <1>2, ClockKept DEF thread
<1>4. TypeOK'
  BY <1>1, <1>2, <1>b DEF TypeOK, thread
<1>5. Places' /\ Checked' /\ Identities'
  BY <1>1 DEF Places, Checked, Identities, Calls, thread
<1> QED BY <1>3, <1>4, <1>5

LEMMA VerifyAffinityIInv == ASSUME IInv, VerifyAffinity PROVE IInv'
<1> USE DEF IInv
<1>1. /\ pc = "verify_affinity" /\ ~fresh /\ owner # 0
      /\ UNCHANGED <<thread, ready, check, owner, retry, cpuset_verified, outcome, history>>
  BY DEF VerifyAffinity, Checked, Calls
<1>2. budget' \in 0..Budget /\ budget' <= budget
  BY Parameters DEF VerifyAffinity, Disturbs, TypeOK
<1>b. affinity_verified' \in BOOLEAN
  BY Zenon DEF VerifyAffinity
<1>3. Clock'
  BY <1>1, <1>2, ClockKept DEF thread
<1>4. /\ pc' \in {"identity", "report"} /\ step' \in DOMAIN Operations
      /\ attempt' \in 1..max_attempts
      /\ pc' = "identity" => ~(cpuset_verified /\ affinity_verified')
  BY Parameters, CpusetAssumption DEF VerifyAffinity, Proceed, TypeOK
<1>5. TypeOK'
  BY <1>1, <1>2, <1>4, <1>b DEF TypeOK, thread, history
<1>6. Places' /\ Checked' /\ Identities'
  BY <1>1, <1>4 DEF Places, Checked, Identities, Calls, thread, history
<1> QED BY <1>3, <1>5, <1>6

LEMMA ReportIInv == ASSUME IInv, Report PROVE IInv'
<1> USE DEF IInv
<1>1. /\ pc' = "idle" /\ owner' = 0 /\ fresh' = FALSE
      /\ outcome' \in {"none", "success", "failure"}
      /\ UNCHANGED <<thread, ready, check, step, attempt, retry, flags, budget, landed, strays>>
  BY DEF Report
<1>2. TypeOK'
  BY <1>1 DEF TypeOK, thread, flags
<1>3. Clock'
  BY <1>1, Parameters DEF Clock, TypeOK, thread
<1>4. Places' /\ Checked' /\ Identities'
  BY <1>1 DEF Places, Checked, Identities, Calls
<1> QED BY <1>2, <1>3, <1>4

LEMMA NextIInv == IInv /\ [Next]_vars => IInv'
<1> SUFFICES ASSUME IInv, [Next]_vars PROVE IInv'
  OBVIOUS
<1>1. CASE Next
  BY <1>1, EnvironmentIInv, GroupCacheIInv, BeginIInv, IdentityIInv, SetAffinityIInv,
     IsGroupReadyIInv, MoveToCpusetIInv, MoveToParentIInv, VerifyCpusetIInv,
     VerifyAffinityIInv, ReportIInv DEF Next, Takeover
<1>2. CASE UNCHANGED vars
  <2>1. TypeOK'
    BY <1>2 DEF IInv, vars, TypeOK, thread, flags, history
  <2>2. Places' /\ Checked' /\ Clock' /\ Identities'
    BY <1>2 DEF IInv, vars, Places, Checked, Clock, Identities, thread, flags, history
  <2> QED BY <2>1, <2>2 DEF IInv
<1> QED BY <1>1, <1>2

\* The inductive invariant holds in every reachable state.
THEOREM TakeoverInvariant == Spec => []IInv
<1>1. Init => IInv
  BY InitIInv
<1>2. IInv /\ [Next]_vars => IInv'
  BY NextIInv
<1> QED BY <1>1, <1>2, PTL DEF Spec

\* However often run_takeover_sequence retries, a takeover whose thread was
\* replaced has touched the replacement at most once.
THEOREM OneStrayAtMost == Spec => []AtMostOneStray
<1>1. IInv => AtMostOneStray
  BY DEF IInv, Identities, AtMostOneStray
<1> QED BY <1>1, TakeoverInvariant, PTL

\* What the flags stand for, by the place of the takeover.
LEMMA SeenAt ==
    ASSUME TypeOK
    PROVE  /\ pc = "verify_affinity" => Seen = IF cpuset_verified THEN {"cset"} ELSE {}
           /\ pc = "report" => Seen = IF cpuset_verified /\ affinity_verified
                                      THEN {"cset", "mask"} ELSE {}
           /\ pc \notin {"verify_affinity", "report"} => Seen = {}
BY DEF Seen

LEMMA SeenAtNext ==
    ASSUME TypeOK'
    PROVE  /\ pc' = "verify_affinity" => Seen' = IF cpuset_verified' THEN {"cset"} ELSE {}
           /\ pc' = "report" => Seen' = IF cpuset_verified' /\ affinity_verified'
                                        THEN {"cset", "mask"} ELSE {}
           /\ pc' \notin {"verify_affinity", "report"} => Seen' = {}
BY DEF Seen

\* The initial states are initial states of AffinityTakeover.
LEMMA InitRefines == Init => Abstract!Init
<1> SUFFICES ASSUME Init PROVE Abstract!Init
  OBVIOUS
<1>1. id \in Nat /\ cset \in DOMAIN GroupCpus /\ mask \subseteq GroupCpus[cset]
  BY DEF Init, SystemGroups, Groups
<1>2. Seen = {} /\ owner = 0 /\ landed = 0 /\ strays = 0 /\ outcome = "none"
  BY DEF Init, Seen
<1>3. fresh = FALSE
  BY Zenon DEF Init
<1> QED BY <1>1, <1>2, <1>3 DEF Abstract!Init

\* Steps that leave everything AffinityTakeover sees alone.
LEMMA Stutters ==
    ASSUME UNCHANGED <<thread, owner, history, outcome>>, Seen' = Seen
    PROVE  UNCHANGED Abstract!vars
BY DEF Abstract!vars, thread, history

LEMMA EnvironmentRefines ==
    ASSUME IInv, Environment PROVE [Abstract!Next]_(Abstract!vars)
<1>1. UNCHANGED <<owner, fresh, landed, strays, outcome>>
  BY DEF Environment, history
<1>2. Seen' = Seen
  BY DEF Environment, flags, Seen
<1>3. CASE UNCHANGED thread
  BY <1>1, <1>2, <1>3, Stutters DEF history
<1>4. CASE thread' # thread
  BY <1>1, <1>2, <1>4 DEF Abstract!Next, Abstract!System, Abstract!thread, thread
<1> QED BY <1>3, <1>4

LEMMA GroupCacheRefines ==
    ASSUME GroupCache PROVE [Abstract!Next]_(Abstract!vars)
<1>1. UNCHANGED <<thread, owner, history, outcome>> /\ Seen' = Seen
  BY DEF GroupCache, flags, Seen
<1> QED BY <1>1, Stutters

\* A call that took effect is a Change: it had an identity check of its own.
LEMMA LandedRefines ==
    ASSUME IInv, pc \in Calls, pc' = "identity", TypeOK', Landed, id # 0,
           UNCHANGED <<id, owner, outcome>>,
           \/ cset' = cset /\ mask' = Expected \cap GroupCpus[cset]
           \/ cset' \in {"target", "parent"} /\ mask' \subseteq GroupCpus[cset']
    PROVE  Abstract!Next
<1>1. owner # 0 /\ fresh
  BY DEF IInv, Checked, Calls
<1>2. Seen' = {}
  BY SeenAtNext
<1>3. /\ fresh' = FALSE /\ landed' = landed + 1
      /\ strays' = IF id = owner THEN strays ELSE strays + 1
  BY Zenon DEF Landed
<1> QED BY <1>1, <1>2, <1>3 DEF Abstract!Next, Abstract!Change, Abstract!Expected, Expected

\* A call without effect, or an observation that came to nothing, is a Lapse.
LEMMA LapseRefines ==
    ASSUME IInv, owner # 0, TypeOK', fresh' = FALSE, Seen' = {},
           UNCHANGED <<thread, owner, landed, strays, outcome>>
    PROVE  Abstract!Next
BY DEF Abstract!Next, Abstract!Lapse, Abstract!thread, thread

LEMMA BeginRefines == ASSUME IInv, IInv', Begin PROVE Abstract!Next
<1>1. owner = 0 /\ Seen' = {}
  BY SeenAtNext DEF IInv, Checked, Begin
<1> QED BY <1>1 DEF Begin, Abstract!Next, Abstract!Begin, Abstract!thread, thread

LEMMA IdentityRefines ==
    ASSUME IInv, IInv', Identity PROVE [Abstract!Next]_(Abstract!vars)
<1>1. owner # 0 /\ Seen = {}
  BY SeenAt DEF IInv, Checked, Identity
<1>2. UNCHANGED <<thread, owner, landed, strays, outcome, flags>>
  BY DEF Identity
<1>3. CASE id = owner /\ pc' = Operations[step] /\ fresh' = TRUE
  <2>1. pc' \notin {"verify_affinity", "report"}
    BY <1>3, OperationAt DEF IInv, TypeOK
  <2>2. Seen' = {}
    BY <2>1, SeenAtNext DEF IInv
  <2> QED BY <1>1, <1>2, <1>3, <2>2 DEF Abstract!Next, Abstract!Check, Abstract!thread, thread
<1>4. CASE pc' = "report" /\ UNCHANGED fresh
  <2>1. ~(cpuset_verified' /\ affinity_verified')
    BY <1>2 DEF IInv, Checked, Identity, flags
  <2>2. Seen' = {}
    BY <1>4, <2>1, SeenAtNext DEF IInv
  <2> QED BY <1>1, <1>2, <1>4, <2>2, Stutters DEF history
<1> QED BY <1>3, <1>4 DEF Identity

LEMMA SetAffinityRefines == ASSUME IInv, IInv', SetAffinity PROVE Abstract!Next
<1>1. /\ pc = "affinity" /\ pc \in Calls /\ pc' = "identity" /\ owner # 0
      /\ UNCHANGED <<owner, outcome>> /\ Seen' = {}
  BY SeenAtNext DEF IInv, Checked, Calls, SetAffinity, Proceed
<1> DEFINE within == Expected \cap GroupCpus[cset]
           possible == id # 0 /\ within # {}
<1>2. CASE possible /\ mask' = within /\ Landed /\ UNCHANGED <<id, cset, budget>>
  BY <1>1, <1>2, LandedRefines DEF IInv
<1>3. CASE Refused(possible)
  <2>1. fresh' = FALSE /\ UNCHANGED <<thread, landed, strays>>
    BY <1>3, Zenon DEF Refused
  <2> QED BY <1>1, <2>1, LapseRefines DEF IInv
<1> QED BY <1>2, <1>3 DEF SetAffinity

LEMMA IsGroupReadyRefines ==
    ASSUME IInv, IInv', IsGroupReady PROVE [Abstract!Next]_(Abstract!vars)
<1>1. /\ pc = "target" /\ owner # 0 /\ Seen = {}
      /\ UNCHANGED <<thread, owner, landed, strays, outcome>>
  BY SeenAt DEF IInv, Checked, IsGroupReady
<1>2. CASE pc' = "move" /\ UNCHANGED fresh
  <2>1. Seen' = {}
    BY <1>2, SeenAtNext DEF IInv
  <2> QED BY <1>1, <1>2, <2>1, Stutters DEF history
<1>3. CASE MoveDone(FALSE) /\ fresh' = FALSE
  <2>1. Seen' = {}
    BY <1>3, SeenAtNext DEF IInv, MoveDone, Proceed
  <2> QED BY <1>1, <1>3, <2>1, LapseRefines DEF IInv
<1> QED BY <1>2, <1>3 DEF IsGroupReady

\* A move that took effect.
LEMMA MoveToRefines ==
    ASSUME IInv, IInv', pc \in Calls, pc' = "identity", id # 0, NEW g \in {"target", "parent"},
           MoveTo(g), UNCHANGED <<owner, outcome>>
    PROVE  Abstract!Next
<1>1. g \in Groups
  BY Parameters
<1>2. cset' = g /\ mask' \subseteq GroupCpus[cset']
  BY <1>1, MaskAfterMove DEF MoveTo
<1> QED BY <1>2, LandedRefines DEF MoveTo, IInv

LEMMA MoveToCpusetRefines ==
    ASSUME IInv, IInv', MoveToCpuset PROVE [Abstract!Next]_(Abstract!vars)
<1>1. /\ pc = "move" /\ pc \in Calls /\ owner # 0 /\ Seen = {}
      /\ UNCHANGED <<owner, outcome>>
  BY SeenAt DEF IInv, Checked, Calls, MoveToCpuset
<1> DEFINE possible == id # 0 /\ ready
<1>2. CASE possible /\ MoveTo("target") /\ MoveDone(TRUE)
  BY <1>1, <1>2, MoveToRefines DEF MoveDone, Proceed
<1>3. CASE UNCHANGED <<thread, history, pc, step>>
  <2>1. Seen' = {}
    BY <1>1, <1>3, SeenAtNext DEF IInv
  <2> QED BY <1>1, <1>3, <2>1, Stutters
<1>4. CASE Refused(possible) /\ MoveDone(FALSE)
  <2>1. fresh' = FALSE /\ UNCHANGED <<thread, landed, strays>>
    BY <1>4, Zenon DEF Refused
  <2>2. Seen' = {}
    BY <1>4, SeenAtNext DEF IInv, MoveDone, Proceed
  <2> QED BY <1>1, <2>1, <2>2, LapseRefines DEF IInv
<1> QED BY <1>2, <1>3, <1>4 DEF MoveToCpuset

LEMMA MoveToParentRefines == ASSUME IInv, IInv', MoveToParent PROVE Abstract!Next
<1>1. /\ pc = "parent" /\ pc \in Calls /\ pc' = "identity" /\ owner # 0
      /\ UNCHANGED <<owner, outcome>> /\ Seen' = {}
  BY SeenAtNext DEF IInv, Checked, Calls, MoveToParent, Proceed
<1>2. CASE id # 0 /\ MoveTo("parent")
  BY <1>1, <1>2, MoveToRefines
<1>3. CASE Refused(id # 0)
  <2>1. fresh' = FALSE /\ UNCHANGED <<thread, landed, strays>>
    BY <1>3, Zenon DEF Refused
  <2> QED BY <1>1, <2>1, LapseRefines DEF IInv
<1> QED BY <1>2, <1>3 DEF MoveToParent

LEMMA VerifyCpusetRefines == ASSUME IInv, IInv', VerifyCpuset PROVE Abstract!Next
<1>1. /\ pc = "verify" /\ pc' = "verify_affinity" /\ owner # 0 /\ Seen = {}
      /\ UNCHANGED <<thread, owner, outcome, landed, strays>>
  BY SeenAt DEF IInv, Checked, VerifyCpuset
<1>2. fresh' = FALSE /\ (cpuset_verified' => cset = "target")
  BY Zenon DEF VerifyCpuset
<1>3. CASE cpuset_verified'
  <2>1. Seen' = {"cset"}
    BY <1>1, <1>3, SeenAtNext DEF IInv
  <2> QED BY <1>1, <1>2, <1>3, <2>1
          DEF Abstract!Next, Abstract!Observe, Abstract!thread, thread
<1>4. CASE ~cpuset_verified'
  <2>1. Seen' = {}
    BY <1>1, <1>4, SeenAtNext DEF IInv
  <2> QED BY <1>1, <1>2, <2>1, LapseRefines DEF IInv
<1> QED BY <1>3, <1>4

LEMMA VerifyAffinityRefines == ASSUME IInv, IInv', VerifyAffinity PROVE Abstract!Next
<1>1. /\ pc = "verify_affinity" /\ owner # 0
      /\ UNCHANGED <<thread, owner, outcome, landed, strays, cpuset_verified>>
      /\ pc' \in {"identity", "report"}
  BY DEF IInv, Checked, VerifyAffinity, Proceed, history
<1>2. fresh' = FALSE
  BY <1>1 DEF IInv, Checked, Calls, TypeOK
<1>3. affinity_verified' => mask = Expected
  BY Zenon DEF VerifyAffinity
<1>4. CASE pc' = "report" /\ cpuset_verified /\ affinity_verified'
  <2>1. Seen = {"cset"}
    BY <1>1, <1>4, SeenAt DEF IInv
  <2>2. Seen' = Seen \cup {"mask"}
    BY <1>1, <1>4, <2>1, SeenAtNext DEF IInv
  <2> QED BY <1>1, <1>2, <1>3, <1>4, <2>2
          DEF Abstract!Next, Abstract!Observe, Abstract!Expected, Expected,
              Abstract!thread, thread
<1>5. CASE ~(pc' = "report" /\ cpuset_verified /\ affinity_verified')
  <2>1. Seen' = {}
    BY <1>1, <1>5, SeenAtNext DEF IInv
  <2> QED BY <1>1, <1>2, <2>1, LapseRefines DEF IInv
<1> QED BY <1>4, <1>5

LEMMA ReportRefines == ASSUME IInv, IInv', Report PROVE Abstract!Next
<1>1. /\ owner # 0 /\ Seen' = {}
      /\ Seen = IF cpuset_verified /\ affinity_verified THEN {"cset", "mask"} ELSE {}
  BY SeenAt, SeenAtNext DEF IInv, Checked, Report
<1>2. fresh' = FALSE
  BY Zenon DEF Report
<1>3. outcome' = IF Seen = {"cset", "mask"} THEN "success" ELSE "failure"
  BY <1>1 DEF Report
<1> QED BY <1>1, <1>2, <1>3 DEF Report, Abstract!Next, Abstract!Report, Abstract!thread, thread

LEMMA NextRefines ==
    ASSUME IInv, IInv', [Next]_vars PROVE [Abstract!Next]_(Abstract!vars)
<1>1. CASE Environment \/ GroupCache
  BY <1>1, EnvironmentRefines, GroupCacheRefines
<1>2. CASE Takeover
  BY <1>2, BeginRefines, IdentityRefines, SetAffinityRefines, IsGroupReadyRefines,
     MoveToCpusetRefines, MoveToParentRefines, VerifyCpusetRefines,
     VerifyAffinityRefines, ReportRefines DEF Takeover
<1>3. CASE UNCHANGED vars
  <2>1. UNCHANGED <<thread, owner, history, outcome>> /\ Seen' = Seen
    BY <1>3 DEF vars, flags, Seen
  <2> QED BY <2>1, Stutters
<1> QED BY <1>1, <1>2, <1>3 DEF Next

\* run_takeover_sequence, with its retries, its second attempt and its shared
\* readiness cache, does nothing that AffinityTakeover does not allow.
THEOREM TakeoverRefines == Spec => ImplementsTakeover
<1>1. Init => Abstract!Init
  BY InitRefines
<1>2. IInv /\ IInv' /\ [Next]_vars => [Abstract!Next]_(Abstract!vars)
  BY NextRefines
<1> QED BY <1>1, <1>2, TakeoverInvariant, PTL DEF Spec, ImplementsTakeover, Abstract!Spec
============================================================================
