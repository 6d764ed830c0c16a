------------------------ MODULE DispatchCursorProofs -----------------------
(***************************************************************************)
(* Two promises of the sliced dispatch, for every set of processes and     *)
(* threads and every choice of budgets: a task never pairs a thread with a *)
(* process that is not its own, and a completed cycle has passed over no   *)
(* thread.                                                                 *)
(*                                                                         *)
(* For the first, Loaded, Reading and ThreadsFollow say that start times   *)
(* are read in the order cursor, thread, process again, and only grow, so  *)
(* that equal ends force an equal middle.  For the second, Pending is the  *)
(* work a cycle still has ahead: Listing and Ahead say that a thread which *)
(* has lived through the cycle is in it or has been accepted, and Shape    *)
(* that nobody but the cycle moves its cursors.                            *)
(***************************************************************************)
EXTENDS DispatchCursor, FiniteSetTheorems, WellFoundedInduction, TLAPS

ThreadsFollow == \A t \in Tids : up[t] \in {0, start[Owner[t]]}

\* A cursor's process, its threads, and its start time once loaded.
Genuine(c) ==
    /\ c.stage # "list" => c.pid # 0
    /\ c.stage = "list" => c.todo = {}
    /\ \A t \in c.todo : Owner[t] = c.pid
    /\ c.stage \in {"cmdline", "threads"} =>
          c.start # 0 /\ (start[c.pid] = 0 \/ c.start <= start[c.pid])
Loaded == \A ph \in Phases : Genuine(cursor[ph])

Reading ==
    /\ pc \in {"start", "verify"} => Listed /\ Cur.stage = "threads" /\ Cur.todo # {}
    /\ pc = "verify" => /\ Cur.start <= thread
                        /\ start[Cur.pid] = 0 \/ thread <= start[Cur.pid]

Shape ==
    /\ pc = "scan" => cycle /\ scanning
    /\ scanning => cycle /\ pc \in {"sleep", "scan"} /\ phase = 0
    /\ pc # "sleep" => (cycle <=> mode = "full")
    /\ cycle /\ pc = "sleep" => needed
    /\ cycle => \A ph \in Phases : ph > phase => cursor[ph] = NoCursor
    /\ scanning => cursor[0] = NoCursor
    /\ done = accepted

\* The list in which a cycle looks for a process of its class.
ListOf(p) == CASE class[p] = "TOP" -> 0 [] class[p] = "FG" -> 3 [] OTHER -> 4

\* The threads a cycle has to dispatch.
Owed == {t \in steady : Covered(t)}

\* While the lists are built: a process is still to be looked at, or it is in
\* its list; the one at hand is seen in its class and under its rule.
Listing ==
    /\ seen.start # 0 => pids \notin {{}, {0}}
    /\ scanning => \A t \in Owed :
         LET p == Owner[t]
         IN /\ pids = {0} \/ p \in pids \/ p \in found[ListOf(p)]
            /\ seen.start # 0 /\ p = Least(pids) /\ start[p] = seen.start
                 => seen.class = class[p] /\ seen.rule = rule[p]

\* Where the cycle has not been yet: a later list, a later process of the list
\* at hand, or a thread of the process at hand.
Pending(t) ==
    LET p == Owner[t]
        c == cursor[ListOf(p)]
    IN \/ phase < ListOf(p)
       \/ phase = ListOf(p) /\ (c.pid < p \/ (c.pid = p /\ (c.stage = "list" \/ t \in c.todo)))

Alives == cycle => \A t \in steady : up[t] # 0

Ahead ==
    cycle /\ ~scanning =>
       \A t \in Owed : Owner[t] \in lists[ListOf(Owner[t])] /\ (t \in accepted \/ Pending(t))

IInv == /\ TypeOK
        /\ ThreadsFollow /\ Loaded /\ Reading /\ TaskGenuine
        /\ Shape /\ Listing /\ Alives /\ Ahead

----------------------------------------------------------------------------
(* The least element, the phases and the empty records.                    *)

\* Every set of numbers that is not empty has a least element.
LEMMA LeastOf ==
    ASSUME NEW S, S \subseteq Nat, S # {}
    PROVE  Least(S) \in S /\ \A y \in S : Least(S) <= y
<1>1. PICK x \in S : \A y \in S : ~ (<<y, x>> \in OpToRel(<, Nat))
  BY NatLessThanWellFounded, WFMin, Zenon
<1>2. \A y \in S : x <= y
  <2>1. \A y \in S : ~ (y < x)
    BY <1>1, Zenon DEF OpToRel
  <2> QED BY <2>1
<1> QED BY <1>2 DEF Least

LEMMA Params ==
    /\ Pids \subseteq Nat \ {0} /\ Tids \subseteq Nat \ {0} /\ IsFiniteSet(Tids)
    /\ Pids \cup {0} \subseteq Nat
    /\ \A t \in Tids : Owner[t] \in Pids
    /\ Capacity \in Nat \ {0} /\ Window \in Nat /\ MaxTroubles \in Nat
    /\ \A b \in Budgets : b \in Nat \ {0}
BY DispatchAssumption

LEMMA Empties ==
    /\ NoCursor \in Cursors /\ NoTask \in Tasks /\ NoLists \in [Phases -> SUBSET Pids]
    /\ NotSeen \in [start : Nat, class : ClassNames, rule : RuleNames]
    /\ NotSeen.start = 0
    /\ NoCursor.pid = 0 /\ NoCursor.stage = "list" /\ NoCursor.todo = {} /\ NoCursor.start = 0
    /\ \A p \in Pids : begin_pid(p) \in Cursors /\ begin_pid(p).pid = p
                       /\ begin_pid(p).stage = "list" /\ begin_pid(p).todo = {}
BY DEF NoCursor, Cursors, NoTask, Tasks, NoLists, NotSeen, ClassNames, RuleNames, begin_pid

\* The list at hand, when there is one.
LEMMA AtPhase == ASSUME MainOK, Listed PROVE At \in Phases
BY DEF MainOK, Listed, At, Phases

\* The cursor at hand, and its list.
LEMMA CurType ==
    ASSUME TypeOK, Listed
    PROVE  /\ At \in Phases /\ Cur \in Cursors /\ lists[At] \subseteq Pids
           /\ lists[At] \subseteq Nat \ {0} /\ Cur.pid \in Pids \cup {0} /\ Cur.pid \in Nat
           /\ Cur.todo \subseteq Tids
<1>1. At \in Phases
  BY AtPhase DEF TypeOK
<1>2. Cur \in Cursors /\ lists[At] \subseteq Pids
  BY <1>1 DEF TypeOK, ScanOK, CursorOK, Cur
<1>3. Cur.pid \in Pids \cup {0} /\ Cur.todo \subseteq Tids
  BY <1>2 DEF Cursors
<1>4. Pids \subseteq Nat \ {0} /\ Pids \cup {0} \subseteq Nat
  BY Params
<1>5. lists[At] \subseteq Nat \ {0} /\ Cur.pid \in Nat
  BY <1>2, <1>3, <1>4
<1> QED BY <1>1, <1>2, <1>3, <1>5

\* Resume and After are processes of the list.
LEMMA ResumeOf ==
    ASSUME TypeOK, Listed
    PROVE  /\ Resume \in lists[At] \cup {0}
           /\ Resume = 0 => \A p \in lists[At] : p < Cur.pid
           /\ Resume # 0 => Resume >= Cur.pid
           /\ Resume # 0 => \A p \in lists[At] : p >= Cur.pid => Resume <= p
<1>2. Cur.pid \in Nat /\ lists[At] \subseteq Nat \ {0}
  BY CurType
<1> DEFINE rest == {p \in lists[At] : p >= Cur.pid}
<1>3. CASE rest = {}
  <2>1. Resume = 0
    BY <1>3 DEF Resume
  <2> QED BY <1>2, <1>3, <2>1
<1>4. CASE rest # {}
  <2>1. rest \subseteq Nat
    BY <1>2
  <2>2. Resume = Least(rest)
    BY <1>4 DEF Resume
  <2>3. Resume \in rest /\ \A y \in rest : Resume <= y
    BY <1>4, <2>1, <2>2, LeastOf
  <2> QED BY <1>2, <2>3
<1> QED BY <1>3, <1>4

LEMMA AfterOf ==
    ASSUME TypeOK, Listed, NEW p \in Nat
    PROVE  /\ After(p) \in lists[At] \cup {0}
           /\ After(p) = 0 => \A q \in lists[At] : q <= p
           /\ After(p) # 0 => After(p) > p /\ \A q \in lists[At] : q > p => After(p) <= q
<1>1. At \in Phases /\ lists[At] \subseteq Nat \ {0}
  BY AtPhase, Params DEF TypeOK, ScanOK
<1> DEFINE rest == {q \in lists[At] : q > p}
<1>3. CASE rest = {}
  <2>1. After(p) = 0
    BY <1>3 DEF After
  <2> QED BY <1>1, <1>3, <2>1
<1>4. CASE rest # {}
  <2>1. rest \subseteq Nat
    BY <1>1
  <2>2. After(p) = Least(rest)
    BY <1>4 DEF After
  <2>3. After(p) \in rest /\ \A y \in rest : After(p) <= y
    BY <1>4, <2>1, <2>2, LeastOf
  <2> QED BY <1>1, <2>3
<1> QED BY <1>3, <1>4

----------------------------------------------------------------------------
(* Type correctness.                                                       *)

LEMMA InitTypes == Init => TypeOK
<1> SUFFICES ASSUME Init PROVE TypeOK
  OBVIOUS
<1>1. SystemOK
  BY DispatchAssumption DEF Init, SystemOK, ClassNames, RuleNames
<1>2. MainOK
  <2>1. needed \in BOOLEAN /\ due \in BOOLEAN /\ cycle \in BOOLEAN
    BY Zenon DEF Init
  <2> QED BY <2>1 DEF Init, MainOK
<1>3. ScanOK
  <2>1. scanning \in BOOLEAN
    BY Zenon DEF Init
  <2> QED BY <2>1, Empties DEF Init, ScanOK
<1>4. CursorOK
  BY Empties DEF Init, CursorOK
<1>5. WorkerOK
  <2>1. Waiting = {}
    BY DEF Init, Waiting
  <2>2. Cardinality(Waiting) <= Capacity
    BY <2>1, FS_EmptySet, Params
  <2> QED BY <2>2, Empties, Params DEF Init, WorkerOK, ClassNames
<1> QED BY <1>1, <1>2, <1>3, <1>4, <1>5 DEF TypeOK

\* Moving the cursor at hand moves no other.
LEMMA MovedType ==
    ASSUME TypeOK, Listed, NEW c \in Cursors, Moved(c)
    PROVE  CursorOK'
BY CurType DEF TypeOK, CursorOK, Moved

LEMMA ForgetType ==
    ASSUME WorkerOK, MainOK, NEW T, Forget(T), UNCHANGED queue
    PROVE  WorkerOK' /\ steady' \subseteq Tids
<1>1. 0 \in 0..Window
  BY Params
<1>2. recent' \in [Tids -> 0..Window]
  BY <1>1 DEF WorkerOK, Forget
<1>3. /\ sched' \in [Tids -> ClassNames \cup {"none"}]
      /\ applied' \in [Tids -> ClassNames \cup {"none"}]
  BY DEF WorkerOK, Forget
<1>4. Waiting' = Waiting /\ steady' \subseteq Tids
  BY DEF Waiting, Forget, MainOK
<1> QED BY <1>2, <1>3, <1>4 DEF WorkerOK

LEMMA TroubleType ==
    ASSUME SystemOK, Trouble PROVE troubles' \in 0..MaxTroubles
<1>1. MaxTroubles \in Nat
  BY Params
<1> QED BY <1>1 DEF SystemOK, Trouble

LEMMA SystemTypes ==
    ASSUME TypeOK,
           \/ \E p \in Pids : ProcessReplaced(p) \/ ProcessMoves(p)
           \/ \E t \in Tids : ThreadChanges(t)
           \/ RescanRequested \/ RefreshDue
    PROVE  TypeOK'
<1> USE DEF TypeOK
<1>1. CursorOK' /\ ScanOK'
  BY DEF ProcessReplaced, ProcessMoves, ThreadChanges, RescanRequested, RefreshDue, Elsewhere,
         scan, CursorOK, ScanOK
<1>2. ASSUME NEW p \in Pids, ProcessReplaced(p) PROVE TypeOK'
  <2>1. start' \in [Pids -> Nat] /\ up' \in [Tids -> Nat]
    BY <1>2, Params DEF ProcessReplaced, SystemOK
  <2>2. WorkerOK' /\ steady' \subseteq Tids
    BY <1>2, ForgetType DEF ProcessReplaced, Elsewhere
  <2>3. SystemOK' /\ MainOK'
    BY <1>2, <2>1, <2>2, TroubleType DEF ProcessReplaced, SystemOK, MainOK, Elsewhere, main
  <2> QED BY <1>1, <2>2, <2>3
<1>3. ASSUME NEW t \in Tids, ThreadChanges(t) PROVE TypeOK'
  <2>1. start' \in [Pids -> Nat] /\ up' \in [Tids -> Nat]
    BY <1>3, Params DEF ThreadChanges, SystemOK
  <2>2. WorkerOK' /\ steady' \subseteq Tids
    BY <1>3, ForgetType DEF ThreadChanges, Elsewhere
  <2>3. SystemOK' /\ MainOK'
    BY <1>3, <2>1, <2>2, TroubleType DEF ThreadChanges, SystemOK, MainOK, Elsewhere, main
  <2> QED BY <1>1, <2>2, <2>3
<1>4. ASSUME NEW p \in Pids, ProcessMoves(p) PROVE TypeOK'
  <2>1. class' \in [Pids -> ClassNames] /\ rule' \in [Pids -> RuleNames]
    BY <1>4 DEF ProcessMoves, SystemOK, ClassNames, RuleNames
  <2>2. SystemOK'
    BY <1>4, <2>1, TroubleType DEF ProcessMoves, SystemOK
  <2>3. MainOK' /\ WorkerOK'
    BY <1>4 DEF ProcessMoves, MainOK, WorkerOK, Waiting, Elsewhere, main
  <2> QED BY <1>1, <2>2, <2>3
<1>5. CASE RescanRequested
  <2>1. SystemOK' /\ WorkerOK'
    BY <1>5, TroubleType DEF RescanRequested, system, SystemOK, worker, WorkerOK, Waiting
  <2>2. MainOK'
    BY <1>5 DEF RescanRequested, MainOK, main
  <2> QED BY <1>1, <2>1, <2>2
<1>6. CASE RefreshDue
  <2>1. SystemOK' /\ WorkerOK'
    BY <1>6 DEF RefreshDue, system, SystemOK, worker, WorkerOK, Waiting
  <2>2. MainOK'
    BY <1>6 DEF RefreshDue, MainOK, main
  <2> QED BY <1>1, <2>1, <2>2
<1> QED BY <1>2, <1>3, <1>4, <1>5, <1>6

\* A slice that begins.
LEMMA SliceTypes == ASSUME TypeOK, NEW b \in Budgets, SliceBegins(b) PROVE TypeOK'
<1> USE DEF TypeOK
<1> DEFINE full == needed \/ due
           begins == full /\ ~cycle
<1>1. SystemOK'
  BY DEF SliceBegins, SystemOK, system
<1>2. WorkerOK'
  <2>1. recent' \in [Tids -> 0..Window]
    BY Params DEF SliceBegins, WorkerOK
  <2> QED BY <2>1 DEF SliceBegins, WorkerOK, Waiting
<1>3. MainOK' /\ ScanOK' /\ CursorOK'
  <2>0. needed' \in BOOLEAN /\ due' \in BOOLEAN
    BY Zenon DEF SliceBegins, MainOK
  <2>1. /\ left' \in Nat
        /\ mode' \in {"full", "fast"} /\ fast' \in 0..2 /\ fastdone' \subseteq Tids
        /\ pc' \in {"scan", "dispatch"} /\ thread' \in Nat /\ lists' \in [Phases -> SUBSET Pids]
    BY Params DEF SliceBegins, MainOK, ScanOK
  <2>2. CASE begins
    <3>0. cycle' \in BOOLEAN /\ scanning' \in BOOLEAN
      BY <2>2, Zenon DEF SliceBegins
    <3>1. /\ phase' \in 0..5 /\ done' \subseteq Tids
          /\ pids' = {0} /\ seen' = NotSeen /\ found' = NoLists
          /\ accepted' \subseteq Tids /\ steady' \subseteq Tids
          /\ cursor' = [ph \in Phases |-> NoCursor]
      BY <2>2 DEF SliceBegins
    <3>2. baselined' \subseteq Pids
      BY <2>2, Params DEF SliceBegins
    <3> QED BY <2>0, <2>1, <3>0, <3>1, <3>2, Empties DEF MainOK, ScanOK, CursorOK
  <2>3. CASE ~begins
    <3>1. UNCHANGED <<cycle, phase, done, cursor, scan, steady, accepted>>
      BY <2>3 DEF SliceBegins
    <3> QED BY <2>0, <2>1, <3>1 DEF MainOK, ScanOK, CursorOK, scan
  <2> QED BY <2>2, <2>3
<1> QED BY <1>1, <1>2, <1>3

LEMMA FaultType ==
    ASSUME TypeOK, \/ NoFault
                   \/ \E p \in Pids \cup {0} : FaultOn(p)
    PROVE  troubles' \in 0..MaxTroubles /\ steady' \subseteq Tids
BY TroubleType DEF TypeOK, SystemOK, MainOK, FaultOn, NoFault

LEMMA SuspendedType ==
    ASSUME MainOK, Suspended
    PROVE  /\ pc' = "sleep" /\ mode' = "full" /\ left' = 0 /\ fast' = 0 /\ fastdone' = {}
           /\ thread' = 0 /\ needed' \in BOOLEAN /\ needed' = (needed \/ mode = "full")
BY Zenon DEF MainOK, Suspended, Locals

\* The process a scan is at.
LEMMA ScanAt ==
    ASSUME TypeOK, pids \notin {{}, {0}}
    PROVE  pids \subseteq Pids /\ Least(pids) \in pids /\ Least(pids) \in Pids
           /\ \A p \in pids : Least(pids) <= p
<1>1. pids \subseteq Pids /\ pids # {}
  BY DEF TypeOK, ScanOK
<1>2. pids \subseteq Nat
  BY <1>1, Params
<1> QED BY <1>1, <1>2, LeastOf

LEMMA ScanTypes == ASSUME TypeOK, Listing, Scan PROVE TypeOK'
<1> USE DEF TypeOK
<1>0. 0 \in Nat /\ \A n \in Nat : n > 0 => (n - 1 \in Nat /\ 0..(n - 1) \subseteq Nat)
  OBVIOUS
<1>1. CASE ScanLists
  <2>1. CursorOK' /\ WorkerOK' /\ pids' \in (SUBSET Pids) \cup {{0}}
    BY <1>1 DEF ScanLists, CursorOK, worker, WorkerOK, Waiting, ScanOK
  <2>2. SystemOK'
    BY <1>1, TroubleType DEF ScanLists, SystemOK, system
  <2>3. MainOK'
    <3>1. CASE Suspended
      BY <1>1, <3>1, SuspendedType DEF ScanLists, MainOK
    <3>2. CASE ~Suspended
      BY <1>0, <1>1, <3>2 DEF ScanLists, MainOK
    <3> QED BY <3>1, <3>2
  <2>4. ScanOK'
    BY <1>1, <2>1 DEF ScanLists, ScanOK
  <2> QED BY <2>1, <2>2, <2>3, <2>4
<1>2. CASE ScanRunsOut
  <2>1. CursorOK' /\ WorkerOK' /\ SystemOK' /\ ScanOK'
    BY <1>2 DEF ScanRunsOut, CursorOK, worker, WorkerOK, Waiting, ScanOK, scan, SystemOK, system
  <2>2. MainOK'
    BY <1>2, SuspendedType DEF ScanRunsOut, MainOK
  <2> QED BY <2>1, <2>2
<1>3. CASE ScanObserves
  <2> DEFINE p == Least(pids)
  <2>1. p \in Pids /\ pids \subseteq Pids
    BY <1>3, ScanAt DEF ScanObserves
  <2>2. troubles' \in 0..MaxTroubles /\ steady' \subseteq Tids
    BY <1>3, <2>1, FaultType DEF ScanObserves
  <2>3. /\ pids' \in (SUBSET Pids) \cup {{0}}
        /\ seen' \in [start : Nat, class : ClassNames, rule : RuleNames]
    BY <1>3, <2>1 DEF ScanObserves, ScanOK, SystemOK
  <2> HIDE DEF p
  <2>4. CursorOK' /\ WorkerOK' /\ SystemOK' /\ ScanOK'
    BY <1>3, <2>2, <2>3 DEF ScanObserves, CursorOK, worker, WorkerOK, Waiting, ScanOK,
                            SystemOK, system
  <2>5. MainOK'
    BY <1>0, <1>3, <2>2 DEF ScanObserves, MainOK
  <2> QED BY <2>4, <2>5
<1>4. CASE ScanVerifies
  <2> DEFINE p == Least(pids)
  <2>1. p \in Pids /\ pids \subseteq Pids
    BY <1>4, ScanAt DEF ScanVerifies, Listing
  <2>2. found' \in [Phases -> SUBSET Pids] /\ pids' \in (SUBSET Pids) \cup {{0}}
    BY <1>4, <2>1 DEF ScanVerifies, ScanOK
  <2>3. CursorOK' /\ WorkerOK' /\ SystemOK' /\ ScanOK'
    BY <1>4, <2>2, Empties DEF ScanVerifies, CursorOK, worker, WorkerOK, Waiting, ScanOK,
                               SystemOK, system
  <2>4. MainOK'
    BY <1>0, <1>4 DEF ScanVerifies, MainOK
  <2> QED BY <2>3, <2>4
<1>5. CASE ScanCompletes
  <2>0. scanning' \in BOOLEAN
    BY <1>5, Zenon DEF ScanCompletes
  <2>1. CursorOK' /\ WorkerOK' /\ SystemOK'
    BY <1>5 DEF ScanCompletes, CursorOK, worker, WorkerOK, Waiting, SystemOK, system
  <2>2. ScanOK'
    BY <1>5, <2>0, Empties DEF ScanCompletes, ScanOK
  <2>3. MainOK'
    BY <1>5 DEF ScanCompletes, MainOK
  <2> QED BY <2>1, <2>2, <2>3
<1> QED BY <1>1, <1>2, <1>3, <1>4, <1>5 DEF Scan

\* The part of MainOK that belongs to a slice.
SliceOK ==
    /\ pc \in {"sleep", "scan", "dispatch", "start", "verify"} /\ mode \in {"full", "fast"}
    /\ left \in Nat /\ phase \in 0..5 /\ fast \in 0..2 /\ thread \in Nat
    /\ needed \in BOOLEAN /\ fastdone \subseteq Tids

LEMMA SuspendedSlice ==
    ASSUME MainOK, Suspended, UNCHANGED phase PROVE SliceOK'
BY SuspendedType DEF MainOK, SliceOK

LEMMA PhaseEndsSlice ==
    ASSUME MainOK, Listed, pc = "dispatch", NEW l \in Nat, PhaseEnds(l) PROVE SliceOK'
<1>1. CASE mode = "full"
  BY <1>1 DEF MainOK, Listed, PhaseEnds, SliceOK
<1>2. CASE mode # "full" /\ fast < 2
  BY <1>2 DEF MainOK, PhaseEnds, SliceOK
<1>3. CASE mode # "full" /\ ~(fast < 2)
  BY <1>3, SuspendedSlice DEF PhaseEnds
<1> QED BY <1>1, <1>2, <1>3

LEMMA LeavesSlice ==
    ASSUME TypeOK, Listed, pc = "dispatch", NEW l \in Nat, Leaves(l)
    PROVE  SliceOK' /\ CursorOK'
<1>0. MainOK
  BY DEF TypeOK
<1>1. CASE After(Cur.pid) # 0
  <2>1. Cur.pid \in Nat /\ lists[At] \subseteq Pids
    BY CurType
  <2>2. After(Cur.pid) \in Pids
    BY <1>1, <2>1, AfterOf
  <2>3. begin_pid(After(Cur.pid)) \in Cursors
    BY <2>2, Empties
  <2>4. Moved(begin_pid(After(Cur.pid)))
    BY <1>1 DEF Leaves
  <2>5. CursorOK'
    BY <2>3, <2>4, MovedType
  <2>6. SliceOK'
    BY <1>0, <1>1 DEF Leaves, MainOK, SliceOK
  <2> QED BY <2>5, <2>6
<1>2. CASE After(Cur.pid) = 0
  <2>1. Moved(NoCursor) /\ PhaseEnds(l)
    BY <1>2 DEF Leaves
  <2> QED BY <1>0, <2>1, PhaseEndsSlice, MovedType, Empties
<1> QED BY <1>1, <1>2

\* What a step of the dispatch leaves alone, unless it enqueues.
LEMMA DispatchType ==
    ASSUME TypeOK, SliceOK', CursorOK', Untouched, UNCHANGED <<cycle, done, accepted, worker>>,
           troubles' \in 0..MaxTroubles /\ steady' \subseteq Tids
    PROVE  TypeOK'
<1>1. SystemOK' /\ ScanOK' /\ WorkerOK'
  BY DEF TypeOK, SystemOK, ScanOK, WorkerOK, Waiting, Untouched, system, scan, worker
<1>2. MainOK'
  BY DEF TypeOK, MainOK, SliceOK, Untouched
<1> QED BY <1>1, <1>2 DEF TypeOK

LEMMA LessType == ASSUME left \in Nat PROVE Less \in Nat
BY DEF Less

\* Dropping threads from the cursor, or moving it on in its process.
LEMMA CursorWith ==
    ASSUME NEW c \in Cursors, NEW T \in SUBSET Tids,
           NEW st \in {"list", "name", "start", "cmdline", "threads"}
    PROVE  /\ [c EXCEPT !.stage = st] \in Cursors
           /\ [c EXCEPT !.stage = st, !.todo = T] \in Cursors
           /\ [c EXCEPT !.todo = T] \in Cursors
BY DEF Cursors

\* The thread at hand is one of the cursor's.
LEMMA ThreadOf ==
    ASSUME TypeOK, Listed, Cur.todo # {}
    PROVE  Thread \in Cur.todo /\ Thread \in Tids /\ Owner[Thread] \in Pids
<1>1. Cur.todo \subseteq Tids
  BY CurType
<1>2. Cur.todo \subseteq Nat
  BY <1>1, Params
<1>3. Thread \in Cur.todo
  BY <1>2, LeastOf DEF Thread
<1> QED BY <1>1, <1>3, Params

LEMMA NextThread ==
    ASSUME TypeOK, Listed, NEW t, Next1(t)
    PROVE  CursorOK'
<1>1. Cur \in Cursors /\ Cur.todo \ {t} \in SUBSET Tids
  BY CurType
<1>2. [Cur EXCEPT !.todo = Cur.todo \ {t}] \in Cursors
  BY <1>1 DEF Cursors
<1> QED BY <1>2, MovedType DEF Next1

LEMMA WaitingFinite == IsFiniteSet(Waiting) /\ Cardinality(Waiting) \in Nat
<1>1. IsFiniteSet(Tids) /\ Waiting \in SUBSET Tids
  BY Params DEF Waiting
<1>2. IsFiniteSet(Waiting)
  BY <1>1, FS_Subset
<1> QED BY <1>2, FS_CardinalityType

LEMMA StateNames == \A ph \in Phases : StateOf(ph) \in ClassNames
BY DEF StateOf, ClassNames

\* A task accepted for a thread: the queue keeps to its capacity.
LEMMA EnqueueType ==
    ASSUME WorkerOK, NEW t \in Tids, Accepts(t), NEW k \in Tasks, k # NoTask,
           queue' = [queue EXCEPT ![t] = k], UNCHANGED <<sched, recent, applied>>
    PROVE  WorkerOK'
<1>1. queue' \in [Tids -> Tasks]
  BY DEF WorkerOK
<1>2. Waiting' = Waiting \cup {t}
  BY DEF WorkerOK, Waiting
<1>3. Cardinality(Waiting \cup {t}) = IF t \in Waiting THEN Cardinality(Waiting)
                                      ELSE Cardinality(Waiting) + 1
  BY WaitingFinite, FS_AddElement
<1>4. Capacity \in Nat
  BY Params
<1>5. Cardinality(Waiting \cup {t}) <= Capacity
  BY <1>3, <1>4, WaitingFinite DEF WorkerOK, Accepts
<1> QED BY <1>1, <1>2, <1>5 DEF WorkerOK

LEMMA TakeType ==
    ASSUME WorkerOK, NEW t \in Tids, queue' = [queue EXCEPT ![t] = NoTask]
    PROVE  queue' \in [Tids -> Tasks] /\ Cardinality(Waiting') <= Capacity
<1>1. queue' \in [Tids -> Tasks]
  BY Empties DEF WorkerOK
<1>2. Waiting' \in SUBSET Waiting
  BY DEF WorkerOK, Waiting
<1>3. Cardinality(Waiting') <= Cardinality(Waiting) /\ Cardinality(Waiting') \in Nat
  BY <1>2, WaitingFinite, FS_Subset, FS_CardinalityType
<1>4. Capacity \in Nat /\ Cardinality(Waiting) \in Nat /\ Cardinality(Waiting) <= Capacity
  BY Params, WaitingFinite DEF WorkerOK
<1>5. \A a, b, c \in Nat : a <= b /\ b <= c => a <= c
  OBVIOUS
<1> QED BY <1>1, <1>3, <1>4, <1>5, Zenon

LEMMA WorkerTypes == ASSUME TypeOK, NEW t \in Tids, WorkerTakes(t) PROVE TypeOK'
<1> USE DEF TypeOK
<1> DEFINE k == queue[t]
<1>1. k \in Tasks /\ queue' = [queue EXCEPT ![t] = NoTask]
  BY DEF WorkerTakes, WorkerOK
<1>2. queue' \in [Tids -> Tasks] /\ Cardinality(Waiting') <= Capacity
  BY <1>1, TakeType
<1>3. Window \in 0..Window /\ k.state \in ClassNames \cup {"none"} /\ k.rule \in RuleNames
  BY <1>1, Params DEF Tasks
<1>4. /\ sched' \in [Tids -> ClassNames \cup {"none"}] /\ recent' \in [Tids -> 0..Window]
      /\ applied' \in [Tids -> ClassNames \cup {"none"}] /\ troubles' \in 0..MaxTroubles
  <2>1. CASE UNCHANGED <<sched, recent, applied, troubles>>
    BY <2>1 DEF WorkerOK, SystemOK
  <2>2. CASE Scheduled(t, k)
    <3>1. Effective(k.state, k.rule) \in ClassNames \cup {"none"}
      BY <1>3 DEF Effective, ClassNames
    <3>2. applied' \in [Tids -> ClassNames \cup {"none"}]
      BY <2>2, <3>1 DEF Scheduled, WorkerOK
    <3>3. troubles' \in 0..MaxTroubles
      BY <2>2, TroubleType DEF Scheduled, SystemOK
    <3> HIDE DEF k
    <3>4. sched' \in [Tids -> ClassNames \cup {"none"}] /\ recent' \in [Tids -> 0..Window]
      BY <1>3, <2>2 DEF Scheduled, WorkerOK
    <3> QED BY <3>2, <3>3, <3>4
  <2> QED BY <2>1, <2>2 DEF WorkerTakes, Throttled
<1>5. WorkerOK'
  BY <1>2, <1>4 DEF WorkerOK
<1>6. SystemOK' /\ MainOK' /\ ScanOK' /\ CursorOK'
  BY <1>4 DEF WorkerTakes, SystemOK, MainOK, ScanOK, CursorOK, system, main, scan
<1> QED BY <1>5, <1>6

\* A failed read of the thread's process.
LEMMA OwnerFault ==
    ASSUME TypeOK, Listed, Cur.todo # {}, NoFault \/ FaultOn(Owner[Thread])
    PROVE  troubles' \in 0..MaxTroubles /\ steady' \subseteq Tids
BY ThreadOf, FaultType

LEMMA DispatchTypes == ASSUME TypeOK, Reading, Dispatch PROVE TypeOK'
<1>0. MainOK /\ left \in Nat /\ left + 0 \in Nat /\ (left > 0 => left - 1 \in Nat)
      /\ \A n \in Nat : n > 0 => 0..(n - 1) \subseteq Nat
  BY DEF TypeOK, MainOK
<1>1. CASE Enters
  <2>1. Listed /\ NoFault /\ pc = "dispatch"
    BY <1>1 DEF Enters
  <2>2. SliceOK' /\ CursorOK'
    <3>1. CASE Resume = 0
      <4>1. Moved(NoCursor) /\ PhaseEnds(left)
        BY <1>1, <3>1 DEF Enters
      <4> QED BY <1>0, <2>1, <4>1, PhaseEndsSlice, MovedType, Empties
    <3>2. CASE Resume # 0
      <4>1. Resume \in Pids
        BY <2>1, <3>2, ResumeOf, CurType
      <4>2. Moved(begin_pid(Resume)) /\ begin_pid(Resume) \in Cursors
        BY <1>1, <3>2, <4>1, Empties DEF Enters
      <4>3. CursorOK'
        BY <2>1, <4>2, MovedType
      <4>4. SliceOK'
        BY <1>0, <1>1, <3>2 DEF Enters, MainOK, SliceOK
      <4> QED BY <4>3, <4>4
    <3> QED BY <3>1, <3>2
  <2>3. troubles' \in 0..MaxTroubles /\ steady' \subseteq Tids
    BY <2>1, FaultType
  <2> QED BY <1>1, <2>2, <2>3, DispatchType DEF Enters
<1>2. CASE RunsOut
  <2>1. SliceOK' /\ CursorOK'
    BY <1>0, <1>2, SuspendedSlice DEF RunsOut, TypeOK, CursorOK
  <2>2. troubles' \in 0..MaxTroubles /\ steady' \subseteq Tids
    BY <1>2, FaultType DEF RunsOut
  <2> QED BY <1>2, <2>1, <2>2, DispatchType DEF RunsOut
<1>3. CASE ListsTids
  <2>1. Listed /\ Cur \in Cursors /\ Cur.pid \in Pids \cup {0}
    BY <1>3, CurType DEF ListsTids, InProcess, Ready
  <2>2. Alive(Cur.pid) \in SUBSET Tids
    BY DEF Alive, ThreadsOf
  <2>3. CursorOK'
    BY <1>3, <2>1, <2>2, CursorWith, MovedType DEF ListsTids
  <2>4. SliceOK'
    BY <1>0, <1>3 DEF ListsTids, InProcess, MainOK, SliceOK
  <2>5. troubles' \in 0..MaxTroubles /\ steady' \subseteq Tids
    BY <1>3, <2>1, FaultType DEF ListsTids
  <2> QED BY <1>3, <2>3, <2>4, <2>5, DispatchType DEF ListsTids
<1>4. CASE LoadsProcess
  <2>1. Listed /\ Cur \in Cursors /\ Cur.pid \in Pids
    BY <1>4, CurType DEF LoadsProcess, InProcess, Ready
  <2> DEFINE c == [Cur EXCEPT !.stage = NextStage[Cur.stage],
                       !.start = IF Cur.stage = "start" THEN start[Cur.pid] ELSE Cur.start,
                       !.rule = IF Cur.stage = "name" THEN rule[Cur.pid] ELSE Cur.rule]
  <2>2. NextStage[Cur.stage] \in {"list", "name", "start", "cmdline", "threads"}
    BY <1>4 DEF LoadsProcess, NextStage
  <2>3. start[Cur.pid] \in Nat /\ rule[Cur.pid] \in RuleNames
    BY <2>1 DEF TypeOK, SystemOK
  <2>4. c \in Cursors
    BY <2>1, <2>2, <2>3 DEF Cursors
  <2>5. Moved(c)
    BY <1>4 DEF LoadsProcess
  <2> HIDE DEF c
  <2>6. CursorOK'
    BY <2>1, <2>4, <2>5, MovedType
  <2>7. SliceOK'
    BY <1>0, <1>4 DEF LoadsProcess, InProcess, MainOK, SliceOK
  <2>8. troubles' \in 0..MaxTroubles /\ steady' \subseteq Tids
    BY <1>4, FaultType DEF LoadsProcess
  <2> QED BY <1>4, <2>6, <2>7, <2>8, DispatchType DEF LoadsProcess
<1>5. CASE LeavesProcess
  <2>1. Listed /\ pc = "dispatch" /\ Cur.pid \in Pids \cup {0}
    BY <1>5, CurType DEF LeavesProcess, InProcess, Ready
  <2>2. SliceOK' /\ CursorOK'
    BY <1>0, <1>5, <2>1, LeavesSlice DEF LeavesProcess, InProcess
  <2>3. troubles' \in 0..MaxTroubles /\ steady' \subseteq Tids
    BY <1>5, <2>1, FaultType DEF LeavesProcess
  <2> QED BY <1>5, <2>2, <2>3, DispatchType DEF LeavesProcess
<1>6. CASE ReadsName
  <2>1. Listed /\ Cur.todo # {}
    BY <1>6 DEF ReadsName, InProcess, Ready
  <2>2. CursorOK'
    BY <1>6, <2>1, NextThread DEF ReadsName, Hold, TypeOK, CursorOK
  <2>3. SliceOK'
    <3>1. CASE Suspended
      BY <1>0, <1>6, <3>1, SuspendedSlice DEF ReadsName
    <3>2. CASE ~Suspended
      BY <1>0, <1>6, <3>2 DEF ReadsName, InProcess, MainOK, SliceOK
    <3> QED BY <3>1, <3>2
  <2>4. troubles' \in 0..MaxTroubles /\ steady' \subseteq Tids
    BY <1>6, <2>1, OwnerFault DEF ReadsName
  <2> QED BY <1>6, <2>2, <2>3, <2>4, DispatchType DEF ReadsName
<1>7. CASE ReadsThreadStart
  <2>1. Listed /\ Cur.todo # {}
    BY <1>7 DEF ReadsThreadStart, Reading
  <2>2. CursorOK'
    BY <1>7, <2>1, NextThread DEF ReadsThreadStart, TypeOK, CursorOK
  <2>3. up[Thread] \in Nat /\ Less \in Nat
    BY <1>0, <2>1, ThreadOf, LessType DEF TypeOK, SystemOK
  <2>4. SliceOK'
    BY <1>0, <1>7, <2>3 DEF ReadsThreadStart, MainOK, SliceOK
  <2>5. troubles' \in 0..MaxTroubles /\ steady' \subseteq Tids
    BY <1>7, <2>1, OwnerFault DEF ReadsThreadStart
  <2> QED BY <1>7, <2>2, <2>4, <2>5, DispatchType DEF ReadsThreadStart
<1>8. CASE VerifyFails
  <2>1. Listed /\ Cur.pid \in Pids \cup {0}
    BY <1>8, CurType DEF VerifyFails, Reading
  <2>2. CursorOK'
    BY <1>8, <2>1, MovedType, Empties DEF VerifyFails, StartsOver
  <2>3. needed' \in BOOLEAN
    BY <1>8, Zenon DEF VerifyFails
  <2>4. SliceOK'
    BY <1>0, <1>8, <2>3 DEF VerifyFails, Locals, MainOK, SliceOK
  <2>5. troubles' \in 0..MaxTroubles /\ steady' \subseteq Tids
    BY <1>8, <2>1, FaultType DEF VerifyFails
  <2> QED BY <1>8, <2>2, <2>4, <2>5, DispatchType DEF VerifyFails
<1>9. CASE HoldsThread
  <2>1. needed' \in BOOLEAN
    BY <1>9, Zenon DEF HoldsThread
  <2>2. SliceOK' /\ CursorOK'
    BY <1>0, <1>9, <2>1 DEF HoldsThread, Hold, Locals, MainOK, SliceOK, TypeOK, CursorOK
  <2>3. troubles' \in 0..MaxTroubles /\ steady' \subseteq Tids
    BY <1>9, FaultType DEF HoldsThread
  <2> QED BY <1>9, <2>2, <2>3, DispatchType DEF HoldsThread
<1>10. CASE Enqueues
  <2> DEFINE t == Thread
             k == [state |-> StateOf(At), process |-> Cur.start, thread |-> thread,
                   rule |-> Cur.rule]
  <2>1. Listed /\ Cur.todo # {}
    BY <1>10 DEF Enqueues, Reading
  <2>2. t \in Tids /\ At \in Phases /\ Cur \in Cursors
    BY <2>1, ThreadOf, CurType
  <2>3. StateOf(At) \in ClassNames /\ thread \in Nat /\ Cur.start \in Nat /\ Cur.rule \in RuleNames
    BY <1>0, <2>2, StateNames DEF MainOK, Cursors
  <2>4. k \in Tasks /\ k # NoTask
    BY <2>3 DEF Tasks, NoTask, ClassNames
  <2>5. queue' = [queue EXCEPT ![t] = k] /\ Accepts(t) /\ UNCHANGED <<sched, recent, applied>>
    BY <1>10 DEF Enqueues
  <2> HIDE DEF k
  <2>6. WorkerOK'
    BY <2>2, <2>4, <2>5, EnqueueType DEF TypeOK
  <2>7. CursorOK'
    BY <1>10, <2>1, NextThread DEF Enqueues
  <2>8. SystemOK' /\ ScanOK'
    BY <1>10 DEF Enqueues, TypeOK, SystemOK, ScanOK, Untouched, NoFault, system, scan
  <2>9. MainOK'
    BY <1>0, <1>10, <2>2, LessType DEF Enqueues, MainOK, Untouched, NoFault
  <2> QED BY <2>6, <2>7, <2>8, <2>9 DEF TypeOK
<1>11. CASE CycleEnds
  <2>1. SystemOK' /\ ScanOK' /\ CursorOK' /\ WorkerOK'
    BY <1>11 DEF CycleEnds, TypeOK, SystemOK, ScanOK, CursorOK, WorkerOK, Waiting, system, scan,
                 worker
  <2>2. MainOK'
    <3>1. CASE left = 0
      BY <1>0, <1>11, <3>1, SuspendedType DEF CycleEnds, MainOK
    <3>2. CASE left # 0
      <4>1. cycle' \in BOOLEAN /\ due' \in BOOLEAN /\ needed' \in BOOLEAN
        BY <1>0, <1>11, <3>2, Zenon DEF CycleEnds, MainOK
      <4> QED BY <1>0, <1>11, <3>2, <4>1 DEF CycleEnds, Locals, MainOK
    <3> QED BY <3>1, <3>2
  <2> QED BY <2>1, <2>2 DEF TypeOK
<1> QED BY <1>1, <1>2, <1>3, <1>4, <1>5, <1>6, <1>7, <1>8, <1>9, <1>10, <1>11 DEF Dispatch

----------------------------------------------------------------------------
(* A task is genuine.                                                      *)

Paired == ThreadsFollow /\ Loaded /\ Reading /\ TaskGenuine

\* An ID gets a later process, or is free for good.
StartsGrow == \A p \in Pids : start'[p] = 0 \/ (start[p] # 0 /\ start[p] <= start'[p])

LEMMA GenuineGrows ==
    ASSUME TypeOK, TypeOK', StartsGrow
    PROVE  \A c \in Cursors : Genuine(c) => Genuine(c)'
<1> SUFFICES ASSUME NEW c \in Cursors, Genuine(c) PROVE Genuine(c)'
  OBVIOUS
<1>1. CASE c.stage \in {"cmdline", "threads"}
  <2>1. c.pid \in Pids /\ c.start \in Nat
    BY <1>1 DEF Genuine, Cursors
  <2>2. start[c.pid] \in Nat /\ start'[c.pid] \in Nat
    BY <2>1 DEF TypeOK, SystemOK
  <2>3. start'[c.pid] = 0 \/ (start[c.pid] # 0 /\ start[c.pid] <= start'[c.pid])
    BY <2>1 DEF StartsGrow
  <2>4. \A a, b, d \in Nat : a <= b /\ b <= d => a <= d
    OBVIOUS
  <2>5. start'[c.pid] = 0 \/ c.start <= start'[c.pid]
    BY <1>1, <2>1, <2>2, <2>3, <2>4, Zenon DEF Genuine
  <2> QED BY <1>1, <2>5 DEF Genuine
<1>2. CASE c.stage \notin {"cmdline", "threads"}
  BY <1>2 DEF Genuine
<1> QED BY <1>1, <1>2

\* While neither the main thread nor its cursors move.
LEMMA OthersPaired ==
    ASSUME TypeOK, TypeOK', StartsGrow, Loaded, Reading, UNCHANGED <<main, cursor>>
    PROVE  Loaded' /\ Reading'
<1>1. Loaded'
  <2>1. \A ph \in Phases : cursor[ph] \in Cursors /\ cursor'[ph] = cursor[ph]
    BY DEF TypeOK, CursorOK
  <2> QED BY <2>1, GenuineGrows DEF Loaded
<1>2. UNCHANGED <<Cur, Listed>> /\ UNCHANGED <<pc, thread>>
  BY DEF main, Cur, At, Listed
<1>3. CASE pc = "verify"
  <2>1. Listed /\ Cur.stage = "threads"
    BY <1>3 DEF Reading
  <2>2. At \in Phases /\ Cur \in Cursors
    BY <2>1, CurType
  <2>3. Genuine(Cur)
    BY <2>2 DEF Loaded, Cur
  <2>4. Cur.pid \in Pids
    BY <2>1, <2>2, <2>3 DEF Genuine, Cursors
  <2>5. start[Cur.pid] \in Nat /\ start'[Cur.pid] \in Nat /\ thread \in Nat
    BY <2>4 DEF TypeOK, SystemOK, MainOK
  <2>6. start'[Cur.pid] = 0 \/ (start[Cur.pid] # 0 /\ start[Cur.pid] <= start'[Cur.pid])
    BY <2>4 DEF StartsGrow
  <2>7. \A a, b, d \in Nat : a <= b /\ b <= d => a <= d
    OBVIOUS
  <2>8. start'[Cur.pid] = 0 \/ thread <= start'[Cur.pid]
    BY <1>3, <2>5, <2>6, <2>7, Zenon DEF Reading
  <2> QED BY <1>1, <1>2, <2>8 DEF Reading
<1>4. CASE pc # "verify"
  BY <1>1, <1>2, <1>4 DEF Reading
<1> QED BY <1>3, <1>4

LEMMA SystemPaired ==
    ASSUME TypeOK, TypeOK', Paired,
           \/ \E p \in Pids : ProcessReplaced(p) \/ ProcessMoves(p)
           \/ \E t \in Tids : ThreadChanges(t) \/ WorkerTakes(t)
           \/ RescanRequested \/ RefreshDue
    PROVE  Paired'
<1>1. UNCHANGED <<main, cursor>>
  BY DEF ProcessReplaced, ProcessMoves, ThreadChanges, WorkerTakes, RescanRequested, RefreshDue,
         Elsewhere
<1>2. StartsGrow
  <2>1. CASE UNCHANGED start
    <3>1. \A p \in Pids : start[p] \in Nat
      BY DEF TypeOK, SystemOK
    <3> QED BY <2>1, <3>1 DEF StartsGrow
  <2>2. ASSUME NEW p \in Pids, ProcessReplaced(p) PROVE StartsGrow
    <3>1. \A q \in Pids : start[q] \in Nat
      BY DEF TypeOK, SystemOK
    <3>2. PICK s \in {0, start[p] + 1} : start' = [start EXCEPT ![p] = s]
      BY <2>2 DEF ProcessReplaced
    <3>3. start[p] # 0
      BY <2>2 DEF ProcessReplaced
    <3> QED BY <3>1, <3>2, <3>3 DEF StartsGrow, TypeOK, SystemOK
  <2> QED BY <2>1, <2>2 DEF ProcessMoves, ThreadChanges, WorkerTakes, RescanRequested, RefreshDue,
                            system
<1>3. Loaded' /\ Reading'
  BY <1>1, <1>2, OthersPaired DEF Paired
<1>4. ThreadsFollow'
  <2>1. CASE UNCHANGED <<start, up>>
    BY <2>1 DEF Paired, ThreadsFollow
  <2>2. ASSUME NEW p \in Pids, ProcessReplaced(p) PROVE ThreadsFollow'
    BY <2>2, Params DEF ProcessReplaced, ThreadsOf, Paired, ThreadsFollow, TypeOK, SystemOK
  <2>3. ASSUME NEW t \in Tids, ThreadChanges(t) PROVE ThreadsFollow'
    BY <2>3, Params DEF ThreadChanges, Paired, ThreadsFollow, TypeOK, SystemOK
  <2> QED BY <2>1, <2>2, <2>3 DEF ProcessMoves, WorkerTakes, RescanRequested, RefreshDue, system
<1>5. TaskGenuine'
  <2>1. CASE UNCHANGED queue
    BY <2>1 DEF Paired, TaskGenuine, Waiting
  <2>2. ASSUME NEW t \in Tids, WorkerTakes(t) PROVE TaskGenuine'
    <3>1. queue' = [queue EXCEPT ![t] = NoTask] /\ queue \in [Tids -> Tasks]
      BY <2>2 DEF WorkerTakes, TypeOK, WorkerOK
    <3> QED BY <3>1 DEF Paired, TaskGenuine, Waiting
  <2> QED BY <2>1, <2>2 DEF ProcessReplaced, ProcessMoves, ThreadChanges, RescanRequested,
                            RefreshDue, Elsewhere, worker
<1> QED BY <1>3, <1>4, <1>5 DEF Paired

LEMMA LoopPaired ==
    ASSUME TypeOK, TypeOK', Paired, (\E b \in Budgets : SliceBegins(b)) \/ Scan
    PROVE  Paired'
<1>1. UNCHANGED <<start, up, queue>>
  BY DEF SliceBegins, Scan, ScanLists, ScanRunsOut, ScanObserves, ScanVerifies, ScanCompletes,
         system, worker
<1>2. pc' \in {"sleep", "scan", "dispatch"}
  BY DEF SliceBegins, Scan, ScanLists, ScanRunsOut, ScanObserves, ScanVerifies, ScanCompletes,
         Suspended
<1>3. cursor' \in {cursor, [ph \in Phases |-> NoCursor]}
  BY DEF SliceBegins, Scan, ScanLists, ScanRunsOut, ScanObserves, ScanVerifies, ScanCompletes
<1>4. Genuine(NoCursor)
  BY Empties DEF Genuine
<1>5. Loaded'
  BY <1>1, <1>3, <1>4 DEF Paired, Loaded, Genuine
<1>6. ThreadsFollow' /\ Reading' /\ TaskGenuine'
  BY <1>1, <1>2 DEF Paired, ThreadsFollow, Reading, TaskGenuine, Waiting
<1> QED BY <1>5, <1>6 DEF Paired

\* A cursor that moves to a genuine place.
LEMMA MovedLoaded ==
    ASSUME TypeOK, Listed, Loaded, UNCHANGED start, NEW c \in Cursors, Genuine(c), Moved(c)
    PROVE  Loaded'
<1>1. At \in Phases /\ cursor' = [cursor EXCEPT ![At] = c]
  BY CurType DEF Moved
<1>2. \A ph \in Phases : cursor'[ph] = IF ph = At THEN c ELSE cursor[ph]
  BY <1>1 DEF TypeOK, CursorOK
<1> QED BY <1>2 DEF Loaded, Genuine

LEMMA FreshGenuine == Genuine(NoCursor) /\ \A p \in Pids : Genuine(begin_pid(p))
BY Empties, Params DEF Genuine

LEMMA NextThreadLoaded ==
    ASSUME TypeOK, Listed, Loaded, UNCHANGED start, NEW t, Next1(t) PROVE Loaded'
<1>1. At \in Phases /\ Cur \in Cursors /\ Genuine(Cur)
  BY CurType DEF Loaded, Cur
<1>2. [Cur EXCEPT !.todo = Cur.todo \ {t}] \in Cursors
  BY <1>1 DEF Cursors
<1>3. Genuine([Cur EXCEPT !.todo = Cur.todo \ {t}])
  BY <1>1 DEF Genuine, Cursors
<1> QED BY <1>2, <1>3, MovedLoaded DEF Next1

LEMMA PhaseEndsPc ==
    ASSUME pc = "dispatch", NEW l, PhaseEnds(l) PROVE pc' \in {"dispatch", "sleep"}
BY DEF PhaseEnds, Suspended

LEMMA LeavesPaired ==
    ASSUME TypeOK, Listed, Loaded, UNCHANGED start, pc = "dispatch", NEW l, Leaves(l)
    PROVE  Loaded' /\ pc' \in {"dispatch", "sleep"}
<1>1. Cur.pid \in Nat /\ lists[At] \subseteq Pids
  BY CurType
<1>2. CASE After(Cur.pid) # 0
  <2>1. After(Cur.pid) \in Pids
    BY <1>1, <1>2, AfterOf
  <2>2. Moved(begin_pid(After(Cur.pid))) /\ pc' = "dispatch"
    BY <1>2 DEF Leaves
  <2>3. begin_pid(After(Cur.pid)) \in Cursors /\ Genuine(begin_pid(After(Cur.pid)))
    BY <2>1, Empties, FreshGenuine
  <2> QED BY <2>2, <2>3, MovedLoaded
<1>3. CASE After(Cur.pid) = 0
  BY <1>3, MovedLoaded, FreshGenuine, Empties, PhaseEndsPc DEF Leaves
<1> QED BY <1>2, <1>3

LEMMA DispatchPaired == ASSUME TypeOK, TypeOK', Paired, Dispatch PROVE Paired'
<1>1. UNCHANGED <<start, up>> /\ (Enqueues \/ UNCHANGED queue)
  BY DEF Dispatch, Enters, RunsOut, ListsTids, LoadsProcess, LeavesProcess, ReadsName,
         ReadsThreadStart, VerifyFails, HoldsThread, CycleEnds, Enqueues, Untouched, system, worker
<1>2. ThreadsFollow'
  BY <1>1 DEF Paired, ThreadsFollow
<1>3. Listed => At \in Phases /\ Cur \in Cursors /\ Genuine(Cur)
  BY CurType DEF Paired, Loaded, Cur
<1>4. ASSUME UNCHANGED queue PROVE TaskGenuine'
  BY <1>4 DEF Paired, TaskGenuine, Waiting
<1>5. ASSUME pc' \notin {"start", "verify"} PROVE Reading'
  BY <1>5 DEF Reading
<1> USE DEF Paired
<1>6. CASE Enters
  <2>1. Listed /\ pc = "dispatch" /\ UNCHANGED queue
    BY <1>6 DEF Enters, worker
  <2>2. CASE Resume = 0
    BY <1>1, <1>6, <2>1, <2>2, PhaseEndsPc, MovedLoaded, FreshGenuine, Empties, <1>2, <1>4, <1>5
       DEF Enters
  <2>3. CASE Resume # 0
    <3>1. Resume \in Pids /\ Moved(begin_pid(Resume)) /\ pc' = "dispatch"
      BY <1>6, <2>1, <2>3, ResumeOf, CurType DEF Enters
    <3>2. begin_pid(Resume) \in Cursors /\ Genuine(begin_pid(Resume))
      BY <3>1, FreshGenuine, Empties
    <3>3. Loaded'
      BY <1>1, <2>1, <3>1, <3>2, MovedLoaded
    <3> QED BY <1>2, <1>4, <1>5, <2>1, <3>1, <3>3
  <2> QED BY <2>2, <2>3
<1>7. CASE RunsOut
  BY <1>1, <1>2, <1>4, <1>5, <1>7 DEF RunsOut, Suspended, Loaded, Genuine, worker
<1>8. CASE ListsTids
  <2>1. Listed /\ Cur.pid # 0 /\ Cur.stage = "list" /\ pc' = "dispatch" /\ UNCHANGED queue
    BY <1>8 DEF ListsTids, InProcess, Ready, worker
  <2>2. Alive(Cur.pid) \in SUBSET Tids /\ \A t \in Alive(Cur.pid) : Owner[t] = Cur.pid
    BY DEF Alive, ThreadsOf
  <2>3. [Cur EXCEPT !.stage = "name", !.todo = Alive(Cur.pid)] \in Cursors
        /\ [Cur EXCEPT !.stage = "name"] \in Cursors
    BY <1>3, <2>1, <2>2, CursorWith
  <2>4. Genuine([Cur EXCEPT !.stage = "name", !.todo = Alive(Cur.pid)])
    BY <1>3, <2>1, <2>2 DEF Genuine, Cursors
  <2>5. Genuine([Cur EXCEPT !.stage = "name"])
    BY <1>3, <2>1 DEF Genuine, Cursors
  <2>6. Loaded'
    BY <1>1, <1>8, <2>1, <2>3, <2>4, <2>5, MovedLoaded DEF ListsTids
  <2> QED BY <1>2, <1>4, <1>5, <2>1, <2>6
<1>9. CASE LoadsProcess
  <2> DEFINE c == [Cur EXCEPT !.stage = NextStage[Cur.stage],
                       !.start = IF Cur.stage = "start" THEN start[Cur.pid] ELSE Cur.start,
                       !.rule = IF Cur.stage = "name" THEN rule[Cur.pid] ELSE Cur.rule]
  <2>1. /\ Listed /\ Cur.pid # 0 /\ pc' = "dispatch" /\ UNCHANGED queue
        /\ Cur.stage \in {"name", "start", "cmdline"} /\ Moved(c)
        /\ Cur.stage # "cmdline" => start[Cur.pid] # 0
    BY <1>9 DEF LoadsProcess, InProcess, Ready, NextStage, worker
  <2>2. Cur.pid \in Pids
    BY <1>3, <2>1 DEF Cursors
  <2>3. start[Cur.pid] \in Nat /\ rule[Cur.pid] \in RuleNames
    BY <2>2 DEF TypeOK, SystemOK
  <2>4. NextStage[Cur.stage] \in {"start", "cmdline", "threads"}
        /\ (Cur.stage = "name" => NextStage[Cur.stage] = "start")
    BY <2>1 DEF NextStage
  <2>5. c \in Cursors
    BY <1>3, <2>1, <2>3, <2>4 DEF Cursors
  <2>6. c.stage = NextStage[Cur.stage] /\ c.pid = Cur.pid /\ c.todo = Cur.todo
        /\ c.start = IF Cur.stage = "start" THEN start[Cur.pid] ELSE Cur.start
    BY <1>3, <2>1 DEF Cursors
  <2> HIDE DEF c
  <2>7. Genuine(c)
    BY <1>3, <2>1, <2>3, <2>4, <2>6 DEF Genuine
  <2>8. Loaded'
    BY <1>1, <2>1, <2>5, <2>7, MovedLoaded
  <2> QED BY <1>2, <1>4, <1>5, <2>1, <2>8
<1>10. CASE LeavesProcess
  <2>1. Listed /\ pc = "dispatch" /\ UNCHANGED queue /\ \E l : Leaves(l)
    BY <1>10 DEF LeavesProcess, InProcess, Ready, worker
  <2>2. Loaded' /\ pc' \in {"dispatch", "sleep"}
    BY <1>1, <2>1, LeavesPaired
  <2> QED BY <1>2, <1>4, <1>5, <2>1, <2>2
<1>11. CASE ReadsName
  <2>1. Listed /\ Cur.stage = "threads" /\ Cur.todo # {} /\ UNCHANGED queue /\ pc = "dispatch"
    BY <1>11 DEF ReadsName, InProcess, Ready, worker
  <2>2. Loaded'
    BY <1>1, <1>11, <2>1, NextThreadLoaded DEF ReadsName, Hold, Loaded, Genuine
  <2>3. CASE pc' = "start"
    <3>1. UNCHANGED <<cursor, mode, phase, fast>>
      BY <1>11, <2>1, <2>3 DEF ReadsName, Suspended
    <3> QED BY <1>2, <1>4, <2>1, <2>2, <2>3, <3>1 DEF Reading, Cur, At, Listed
  <2>4. CASE pc' # "start"
    <3>1. pc' # "verify"
      BY <1>11, <2>1 DEF ReadsName, Suspended
    <3> QED BY <1>2, <1>4, <1>5, <2>1, <2>2, <2>4, <3>1
  <2> QED BY <2>3, <2>4
<1>12. CASE ReadsThreadStart
  <2>1. Listed /\ Cur.stage = "threads" /\ Cur.todo # {} /\ UNCHANGED queue
    BY <1>12 DEF ReadsThreadStart, Reading, worker
  <2>2. Loaded'
    BY <1>1, <1>12, <2>1, NextThreadLoaded DEF ReadsThreadStart, Loaded, Genuine
  <2>3. CASE pc' = "verify"
    <3>1. UNCHANGED <<cursor, mode, phase, fast>> /\ thread' = up[Thread] /\ up[Thread] # 0
      BY <1>12, <2>3 DEF ReadsThreadStart
    <3>2. Thread \in Tids /\ Owner[Thread] = Cur.pid /\ Cur.pid \in Pids
      BY <1>3, <2>1, ThreadOf DEF Genuine
    <3>3. thread' = start[Cur.pid] /\ start[Cur.pid] # 0 /\ start[Cur.pid] \in Nat
      BY <3>1, <3>2 DEF ThreadsFollow, TypeOK, SystemOK
    <3>4. Cur.start <= start[Cur.pid]
      BY <1>3, <2>1, <3>3 DEF Genuine
    <3>5. Cur' = Cur /\ Listed'
      BY <2>1, <3>1 DEF Cur, At, Listed
    <3>6. start'[Cur.pid] = start[Cur.pid] /\ start[Cur.pid] <= start[Cur.pid]
      BY <1>1, <3>3
    <3>7. Reading'
      BY <2>1, <2>3, <3>3, <3>4, <3>5, <3>6 DEF Reading
    <3> QED BY <1>2, <1>4, <2>1, <2>2, <3>7
  <2>4. CASE pc' # "verify"
    <3>1. pc' = "dispatch"
      BY <1>12, <2>4 DEF ReadsThreadStart
    <3> QED BY <1>2, <1>4, <1>5, <2>1, <2>2, <3>1
  <2> QED BY <2>3, <2>4
<1>13. CASE VerifyFails
  <2>1. Listed /\ pc' = "sleep" /\ UNCHANGED queue /\ Moved(NoCursor)
    BY <1>13 DEF VerifyFails, Reading, StartsOver, worker
  <2>2. Loaded'
    BY <1>1, <2>1, MovedLoaded, FreshGenuine, Empties
  <2> QED BY <1>2, <1>4, <1>5, <2>1, <2>2
<1>14. CASE HoldsThread
  BY <1>1, <1>2, <1>4, <1>5, <1>14 DEF HoldsThread, Hold, Loaded, Genuine, worker
<1>15. CASE Enqueues
  <2>1. Listed /\ Cur.stage = "threads" /\ Cur.todo # {} /\ pc' = "dispatch" /\ Next1(Thread)
    BY <1>15 DEF Enqueues, Reading
  <2>2. Loaded'
    BY <1>1, <2>1, NextThreadLoaded
  <2>3. thread = Cur.start
    <3>1. Cur.start # 0 /\ Cur.start \in Nat /\ thread \in Nat
      BY <1>3, <2>1 DEF Genuine, Cursors, TypeOK, MainOK
    <3>2. start[Cur.pid] = Cur.start /\ Cur.start <= thread
          /\ (start[Cur.pid] = 0 \/ thread <= start[Cur.pid])
      BY <1>15 DEF Enqueues, IsVerified, Reading
    <3>3. Cur.start <= thread /\ thread <= Cur.start
      BY <3>1, <3>2
    <3> QED BY <3>1, <3>3
  <2>4. Thread \in Tids /\ queue \in [Tids -> Tasks]
    BY <2>1, ThreadOf DEF TypeOK, WorkerOK
  <2>5. queue'[Thread].process = Cur.start /\ queue'[Thread].thread = thread
        /\ \A t \in Tids \ {Thread} : queue'[t] = queue[t]
    BY <1>15, <2>4 DEF Enqueues
  <2>6. TaskGenuine'
    BY <2>3, <2>4, <2>5 DEF TaskGenuine, Waiting
  <2> QED BY <1>2, <1>5, <2>1, <2>2, <2>6
<1>16. CASE CycleEnds
  <2>1. pc' = "sleep" /\ UNCHANGED <<queue, cursor>>
    BY <1>16 DEF CycleEnds, Suspended, worker
  <2> QED BY <1>1, <1>2, <1>4, <1>5, <2>1 DEF Loaded, Genuine
<1> QED BY <1>6, <1>7, <1>8, <1>9, <1>10, <1>11, <1>12, <1>13, <1>14, <1>15, <1>16 DEF Dispatch

----------------------------------------------------------------------------
(* The cycle's cursors are moved by nobody else.                           *)

\* A step of the dispatch other than the end of a cycle moves the cursor at
\* hand, ends its list at most, and leaves a full slice asking for the next.
Framed ==
    /\ Listed /\ At \in Phases /\ UNCHANGED <<cycle, scan, lists, system>>
    /\ pc \in {"dispatch", "start", "verify"} /\ pc' # "scan"
    /\ pc' = "sleep" /\ mode = "full" => needed'
    /\ pc' # "sleep" => mode' = mode
    /\ phase' \in {phase, phase + 1}
    /\ \A ph \in Phases : ph # At => cursor'[ph] = cursor[ph]
    /\ Enqueues \/ UNCHANGED <<done, accepted>>
    /\ steady' \subseteq steady

LEMMA MovedFrame ==
    ASSUME TypeOK, Listed, NEW c, Moved(c) \/ UNCHANGED cursor
    PROVE  \A ph \in Phases : ph # At => cursor'[ph] = cursor[ph]
BY DEF Moved, TypeOK, CursorOK

LEMMA PhaseEndsFrame ==
    ASSUME pc = "dispatch", NEW l, PhaseEnds(l)
    PROVE  /\ pc' # "scan" /\ (pc' = "sleep" /\ mode = "full" => needed')
           /\ (pc' # "sleep" => mode' = mode) /\ phase' \in {phase, phase + 1}
BY DEF PhaseEnds, Suspended

LEMMA FaultFrame == ASSUME NEW p, FaultOn(p) \/ NoFault PROVE steady' \subseteq steady
BY DEF FaultOn, NoFault

LEMMA DispatchFrame == ASSUME TypeOK, Reading, Dispatch, ~CycleEnds PROVE Framed
<1>1. Listed
  BY DEF Dispatch, Enters, RunsOut, ListsTids, LoadsProcess, LeavesProcess, ReadsName,
         ReadsThreadStart, VerifyFails, HoldsThread, Enqueues, InProcess, Ready, Reading
<1>2. At \in Phases /\ UNCHANGED <<cycle, scan, lists, system>>
  BY <1>1, CurType DEF Dispatch, Enters, RunsOut, ListsTids, LoadsProcess, LeavesProcess, ReadsName,
         ReadsThreadStart, VerifyFails, HoldsThread, Enqueues, Untouched
<1>3. pc \in {"dispatch", "start", "verify"}
  BY DEF Dispatch, Enters, RunsOut, ListsTids, LoadsProcess, LeavesProcess, ReadsName,
         ReadsThreadStart, VerifyFails, HoldsThread, Enqueues, InProcess, Ready
<1>4. Enqueues \/ UNCHANGED <<done, accepted>>
  BY DEF Dispatch, Enters, RunsOut, ListsTids, LoadsProcess, LeavesProcess, ReadsName,
         ReadsThreadStart, VerifyFails, HoldsThread
<1>5. \E c : Moved(c) \/ UNCHANGED cursor
  BY DEF Dispatch, Enters, RunsOut, ListsTids, LoadsProcess, LeavesProcess, Leaves, ReadsName,
         ReadsThreadStart, VerifyFails, HoldsThread, Enqueues, Next1, Hold, StartsOver
<1>6. \E p : FaultOn(p) \/ NoFault
  BY DEF Dispatch, Enters, RunsOut, ListsTids, LoadsProcess, LeavesProcess, ReadsName,
         ReadsThreadStart, VerifyFails, HoldsThread, Enqueues
<1>7. /\ pc' # "scan" /\ (pc' = "sleep" /\ mode = "full" => needed')
      /\ (pc' # "sleep" => mode' = mode) /\ phase' \in {phase, phase + 1}
  <2>1. CASE Enters
    BY <2>1, PhaseEndsFrame DEF Enters
  <2>2. CASE LeavesProcess
    <3>1. pc = "dispatch" /\ \E l : Leaves(l)
      BY <2>2 DEF LeavesProcess, InProcess, Ready
    <3> QED BY <3>1, PhaseEndsFrame DEF Leaves
  <2>3. CASE RunsOut \/ ListsTids \/ LoadsProcess \/ ReadsName
    BY <2>3 DEF RunsOut, ListsTids, LoadsProcess, ReadsName, InProcess, Ready, Suspended
  <2>4. CASE ReadsThreadStart \/ VerifyFails \/ HoldsThread \/ Enqueues
    BY <2>4 DEF ReadsThreadStart, VerifyFails, HoldsThread, Enqueues
  <2> QED BY <2>1, <2>2, <2>3, <2>4 DEF Dispatch
<1>8. steady' \subseteq steady /\ \A ph \in Phases : ph # At => cursor'[ph] = cursor[ph]
  BY <1>1, <1>5, <1>6, FaultFrame, MovedFrame
<1> QED BY <1>1, <1>2, <1>3, <1>4, <1>7, <1>8 DEF Framed

LEMMA DispatchShape == ASSUME TypeOK, Reading, Shape, Dispatch PROVE Shape'
<1>1. CASE CycleEnds
  <2>1. /\ pc = "dispatch" /\ mode = "full" /\ ~scanning /\ pc' = "sleep"
        /\ UNCHANGED <<scanning, cursor>> /\ done' = accepted'
    BY <1>1 DEF CycleEnds, Shape, Suspended, scan
  <2>2. cycle' => needed' /\ UNCHANGED phase /\ cycle
    BY <1>1 DEF CycleEnds, Suspended
  <2> QED BY <2>1, <2>2 DEF Shape
<1>2. CASE ~CycleEnds
  <2>1. Framed
    BY <1>2, DispatchFrame
  <2>2. ~scanning /\ ~scanning' /\ (cycle <=> mode = "full") /\ cycle' = cycle
    BY <2>1 DEF Framed, Shape, scan
  <2>3. done' = accepted'
    <3>1. CASE Enqueues
      BY <2>2, <3>1 DEF Enqueues, Shape
    <3>2. CASE UNCHANGED <<done, accepted>>
      BY <3>2 DEF Shape
    <3> QED BY <2>1, <3>1, <3>2 DEF Framed
  <2>4. cycle' => \A ph \in Phases : ph > phase' => cursor'[ph] = NoCursor
    <3> SUFFICES ASSUME cycle', NEW ph \in Phases, ph > phase' PROVE cursor'[ph] = NoCursor
      OBVIOUS
    <3>1. At = phase /\ phase \in 0..5 /\ cycle
      BY <2>2 DEF At, TypeOK, MainOK
    <3>2. ph > phase /\ ph # phase
      BY <2>1, <3>1 DEF Framed, Phases
    <3> QED BY <2>1, <3>1, <3>2 DEF Framed, Shape
  <2> QED BY <2>1, <2>2, <2>3, <2>4 DEF Framed, Shape
<1> QED BY <1>1, <1>2

LEMMA LoopShape ==
    ASSUME TypeOK, Shape, (\E b \in Budgets : SliceBegins(b)) \/ Scan PROVE Shape'
<1>1. ASSUME NEW b \in Budgets, SliceBegins(b) PROVE Shape'
  <2>1. CASE (needed \/ due) /\ ~cycle
    <3>1. /\ pc' = "scan" /\ cycle' /\ scanning' /\ mode' = "full" /\ phase' = 0
          /\ cursor' = [ph \in Phases |-> NoCursor] /\ done' = accepted'
      BY <1>1, <2>1 DEF SliceBegins
    <3> QED BY <3>1 DEF Shape, Phases
  <2>2. CASE ~((needed \/ due) /\ ~cycle)
    <3>1. /\ UNCHANGED <<cycle, phase, done, cursor, scanning, accepted>> /\ pc = "sleep"
          /\ mode' = IF needed \/ due THEN "full" ELSE "fast"
          /\ pc' = IF (needed \/ due) /\ scanning THEN "scan" ELSE "dispatch"
      BY <1>1, <2>2 DEF SliceBegins, scan
    <3>2. cycle => needed
      BY <3>1 DEF Shape
    <3> QED BY <2>2, <3>1, <3>2 DEF Shape
  <2> QED BY <2>1, <2>2
<1>2. CASE ScanLists \/ ScanRunsOut
  BY <1>2 DEF ScanLists, ScanRunsOut, Suspended, Shape, scan
<1>3. CASE ScanObserves \/ ScanVerifies \/ ScanCompletes
  BY <1>3 DEF ScanObserves, ScanVerifies, ScanCompletes, Shape
<1> QED BY <1>1, <1>2, <1>3 DEF Scan

LEMMA SystemShape ==
    ASSUME TypeOK, Shape,
           \/ \E p \in Pids : ProcessReplaced(p) \/ ProcessMoves(p)
           \/ \E t \in Tids : ThreadChanges(t) \/ WorkerTakes(t)
           \/ RescanRequested \/ RefreshDue
    PROVE  Shape'
<1>1. UNCHANGED <<main, scan, cursor, accepted>>
  BY DEF ProcessReplaced, ProcessMoves, ThreadChanges, WorkerTakes, RescanRequested, RefreshDue,
         Elsewhere
<1>2. RescanRequested \/ UNCHANGED needed
  BY DEF ProcessReplaced, ProcessMoves, ThreadChanges, WorkerTakes, RefreshDue, Elsewhere
<1>3. CASE RescanRequested
  BY <1>1, <1>3 DEF RescanRequested, Shape, main, scan
<1>4. CASE UNCHANGED needed
  BY <1>1, <1>4 DEF Shape, main, scan
<1> QED BY <1>2, <1>3, <1>4

----------------------------------------------------------------------------
(* A cycle passes over no thread.                                          *)

Coverage == Listing /\ Alives /\ Ahead

LEMMA ListNames == \A p \in Pids : ListOf(p) \in Phases /\ ListOf(p) < 5
BY DEF ListOf, Phases

\* A steady thread's process is as it was when the cycle began.
LEMMA SystemKeeps ==
    ASSUME TypeOK,
           \/ \E p \in Pids : ProcessReplaced(p) \/ ProcessMoves(p)
           \/ \E t \in Tids : ThreadChanges(t) \/ WorkerTakes(t)
           \/ RescanRequested \/ RefreshDue
    PROVE  \A t \in steady' :
              /\ t \in steady /\ t \in Tids /\ up'[t] = up[t] /\ start'[Owner[t]] = start[Owner[t]]
              /\ class'[Owner[t]] = class[Owner[t]] /\ rule'[Owner[t]] = rule[Owner[t]]
<1>1. steady \subseteq Tids /\ \A t \in Tids : Owner[t] \in Pids
  BY Params DEF TypeOK, MainOK
<1>2. ASSUME NEW p \in Pids, ProcessReplaced(p) \/ ProcessMoves(p)
      PROVE  /\ steady' = steady \ ThreadsOf(p)
             /\ \A t \in Tids : Owner[t] # p =>
                  /\ up'[t] = up[t] /\ start'[Owner[t]] = start[Owner[t]]
                  /\ class'[Owner[t]] = class[Owner[t]] /\ rule'[Owner[t]] = rule[Owner[t]]
  BY <1>1, <1>2 DEF ProcessReplaced, ProcessMoves, Forget, ThreadsOf, TypeOK, SystemOK
<1>3. ASSUME NEW u \in Tids, ThreadChanges(u)
      PROVE  /\ steady' = steady \ {u} /\ UNCHANGED <<start, class, rule>>
             /\ \A t \in Tids : t # u => up'[t] = up[t]
  BY <1>3 DEF ThreadChanges, Forget, TypeOK, SystemOK
<1>4. CASE UNCHANGED <<system, steady>>
  BY <1>1, <1>4 DEF system
<1>5. ASSUME NEW p \in Pids, ProcessReplaced(p) \/ ProcessMoves(p)
      PROVE  \A t \in steady' :
              /\ t \in steady /\ t \in Tids /\ up'[t] = up[t] /\ start'[Owner[t]] = start[Owner[t]]
              /\ class'[Owner[t]] = class[Owner[t]] /\ rule'[Owner[t]] = rule[Owner[t]]
  BY <1>1, <1>2, <1>5 DEF ThreadsOf
<1> QED BY <1>1, <1>3, <1>4, <1>5 DEF WorkerTakes, RescanRequested, RefreshDue

\* What is owed and where it is looked for only depends on the process.
LEMMA KeptOwed ==
    ASSUME NEW t \in steady', t \in steady,
           class'[Owner[t]] = class[Owner[t]], rule'[Owner[t]] = rule[Owner[t]]
    PROVE  /\ t \in Owed' => t \in Owed
           /\ ListOf(Owner[t])' = ListOf(Owner[t])
BY DEF Owed, Covered, ListOf

LEMMA SystemCovers ==
    ASSUME TypeOK, Coverage,
           \/ \E p \in Pids : ProcessReplaced(p) \/ ProcessMoves(p)
           \/ \E t \in Tids : ThreadChanges(t) \/ WorkerTakes(t)
           \/ RescanRequested \/ RefreshDue
    PROVE  Coverage'
<1>1. UNCHANGED <<main, scan, lists, cursor, accepted>>
  BY DEF ProcessReplaced, ProcessMoves, ThreadChanges, WorkerTakes, RescanRequested, RefreshDue,
         Elsewhere
<1>2. UNCHANGED <<cycle, phase, scanning, pids, seen, found>>
  BY <1>1 DEF main, scan
<1>3. Alives'
  BY <1>2, SystemKeeps DEF Coverage, Alives
<1>4. ASSUME NEW t \in Owed' PROVE t \in Owed /\ ListOf(Owner[t])' = ListOf(Owner[t])
  BY SystemKeeps, KeptOwed DEF Owed
<1>5. Listing'
  <2>1. \A t \in Owed' : /\ class'[Owner[t]] = class[Owner[t]] /\ rule'[Owner[t]] = rule[Owner[t]]
                         /\ start'[Owner[t]] = start[Owner[t]]
    BY SystemKeeps DEF Owed
  <2> QED BY <1>2, <1>4, <2>1 DEF Coverage, Listing
<1>6. Ahead'
  BY <1>1, <1>2, <1>4 DEF Coverage, Ahead, Pending
<1> QED BY <1>3, <1>5, <1>6 DEF Coverage

LEMMA SliceCovers ==
    ASSUME TypeOK, Coverage, NEW b \in Budgets, SliceBegins(b) PROVE Coverage'
<1>1. UNCHANGED <<system, lists>>
  BY DEF SliceBegins
<1>2. CASE (needed \/ due) /\ ~cycle
  <2>1. /\ scanning' /\ pids' = {0} /\ seen' = NotSeen
        /\ steady' = {t \in Tids : up[t] # 0}
    BY <1>2 DEF SliceBegins
  <2> QED BY <1>1, <2>1, Empties DEF Coverage, Listing, Alives, Ahead, system
<1>3. CASE ~((needed \/ due) /\ ~cycle)
  <2>1. UNCHANGED <<cycle, phase, cursor, scanning, pids, seen, found, steady, accepted>>
    BY <1>3 DEF SliceBegins, scan
  <2> QED BY <1>1, <2>1 DEF Coverage, Listing, Alives, Ahead, Pending, Owed, Covered, ListOf, system
<1> QED BY <1>2, <1>3

\* The process of an owed thread is alive.
LEMMA OwedAlive ==
    ASSUME TypeOK, ThreadsFollow, Alives, cycle, NEW t \in Owed
    PROVE  /\ t \in Tids /\ Owner[t] \in Pids /\ up[t] # 0 /\ start[Owner[t]] # 0
           /\ Owner[t] # 0 /\ ListOf(Owner[t]) \in Phases
<1>1. t \in steady /\ t \in Tids
  BY DEF Owed, TypeOK, MainOK
<1>2. up[t] # 0 /\ Owner[t] \in Pids /\ Owner[t] # 0
  BY <1>1, Params DEF Alives
<1> QED BY <1>1, <1>2, ListNames DEF ThreadsFollow

\* A covered process belongs to the list of its class.
LEMMA CoveredBelongs ==
    ASSUME TypeOK, NEW t \in Owed, Owner[t] \in Pids
    PROVE  ListOf(Owner[t]) \in Belongs(Owner[t], class[Owner[t]], rule[Owner[t]])
<1>1. class[Owner[t]] \in ClassNames /\ Covered(t)
  BY DEF TypeOK, SystemOK, Owed
<1> QED BY <1>1 DEF ListOf, Belongs, Phases, Covered, should_dispatch_background_process, ClassNames

LEMMA ScanCovers ==
    ASSUME TypeOK, ThreadsFollow, Shape, Coverage, Scan PROVE Coverage'
<1>1. cycle /\ scanning /\ phase = 0 /\ cursor[0] = NoCursor /\ pc = "scan"
  BY DEF Scan, ScanLists, ScanRunsOut, ScanObserves, ScanVerifies, ScanCompletes, Shape
<1>2. UNCHANGED <<system, cycle, phase, cursor, accepted>>
  BY DEF Scan, ScanLists, ScanRunsOut, ScanObserves, ScanVerifies, ScanCompletes
<1>3. steady' \subseteq steady
  BY FaultFrame DEF Scan, ScanLists, ScanRunsOut, ScanObserves, ScanVerifies, ScanCompletes
<1>4. Alives'
  BY <1>2, <1>3 DEF Coverage, Alives, system
<1>5. ASSUME NEW t \in Owed'
      PROVE  t \in Owed /\ t \in steady' /\ ListOf(Owner[t])' = ListOf(Owner[t])
  BY <1>2, <1>3 DEF Owed, Covered, ListOf, system
<1>6. \A t \in Owed : /\ t \in Tids /\ Owner[t] \in Pids /\ up[t] # 0 /\ start[Owner[t]] # 0
                      /\ Owner[t] # 0 /\ ListOf(Owner[t]) \in Phases
  BY <1>1, OwedAlive DEF Coverage
<1>7. UNCHANGED <<start, class, rule>>
  BY <1>2 DEF system
<1> USE DEF Coverage
<1>8. CASE ScanLists \/ ScanRunsOut
  <2>1. UNCHANGED <<scanning, seen, found>>
    BY <1>8 DEF ScanLists, ScanRunsOut, scan
  <2>2. CASE UNCHANGED pids
    BY <1>1, <1>4, <1>5, <1>7, <2>1, <2>2 DEF Listing, Ahead
  <2>3. CASE pids = {0} /\ pids' = {p \in Pids : start[p] # 0}
    <3>1. seen.start = 0
      BY <2>3 DEF Listing
    <3>2. Listing'
      BY <1>5, <1>6, <2>1, <2>3, <3>1 DEF Listing
    <3> QED BY <1>1, <1>4, <2>1, <3>2 DEF Ahead
  <2> QED BY <1>8, <2>2, <2>3 DEF ScanLists, ScanRunsOut, scan
<1>9. CASE ScanObserves
  <2> DEFINE p == Least(pids)
  <2>1. /\ pids \notin {{}, {0}} /\ seen.start = 0 /\ UNCHANGED <<scanning, found>>
        /\ \/ /\ seen' = [start |-> start[p], class |-> class[p], rule |-> rule[p]]
              /\ start[p] # 0 /\ UNCHANGED pids
           \/ start[p] = 0 /\ pids' = pids \ {p} /\ UNCHANGED seen
           \/ FaultOn(p) /\ pids' = pids \ {p} /\ UNCHANGED seen
    BY <1>9 DEF ScanObserves
  <2>2. CASE UNCHANGED pids /\ seen' = [start |-> start[p], class |-> class[p], rule |-> rule[p]]
    BY <1>1, <1>4, <1>5, <1>7, <2>1, <2>2 DEF Listing, Ahead
  <2>3. CASE pids' = pids \ {p} /\ UNCHANGED seen /\ (start[p] = 0 \/ FaultOn(p))
    <3>1. \A t \in Owed' : Owner[t] # p
      BY <1>5, <1>6, <2>3 DEF FaultOn, ThreadsOf
    <3> HIDE DEF p
    <3>2. Listing'
      BY <1>1, <1>5, <2>1, <2>3, <3>1 DEF Listing
    <3> QED BY <1>1, <1>4, <2>1, <3>2 DEF Ahead
  <2> QED BY <2>1, <2>2, <2>3
<1>10. CASE ScanVerifies
  <2> DEFINE p == Least(pids)
  <2>1. seen.start # 0 /\ seen' = NotSeen /\ UNCHANGED scanning
    BY <1>10 DEF ScanVerifies
  <2>2. pids \notin {{}, {0}} /\ seen'.start = 0
    BY <2>1, Empties DEF Listing
  <2>3. CASE start[p] = seen.start
    <3>1. /\ found' = [ph \in Phases |-> IF ph \in Belongs(p, seen.class, seen.rule)
                                         THEN found[ph] \cup {p} ELSE found[ph]]
          /\ pids' = pids \ {p}
      BY <1>10, <2>3 DEF ScanVerifies
    <3>2. ASSUME NEW t \in Owed'
          PROVE  Owner[t] \in pids' \/ Owner[t] \in found'[ListOf(Owner[t])]
      <4>1. t \in Owed /\ Owner[t] \in Pids /\ ListOf(Owner[t]) \in Phases
        BY <1>5, <1>6
      <4>2. CASE Owner[t] = p
        <5>1. seen.class = class[Owner[t]] /\ seen.rule = rule[Owner[t]]
          BY <1>1, <2>1, <2>3, <4>1, <4>2 DEF Listing
        <5>2. ListOf(Owner[t]) \in Belongs(p, seen.class, seen.rule)
          BY <4>1, <4>2, <5>1, CoveredBelongs
        <5> HIDE DEF p
        <5> QED BY <3>1, <4>1, <4>2, <5>2
      <4>3. CASE Owner[t] # p
        <5>1. Owner[t] \in pids \/ Owner[t] \in found[ListOf(Owner[t])]
          BY <1>1, <2>2, <4>1 DEF Listing
        <5> HIDE DEF p
        <5> QED BY <3>1, <4>1, <4>3, <5>1
      <4> QED BY <4>2, <4>3
    <3>3. Listing'
      BY <1>5, <2>2, <3>2 DEF Listing
    <3> QED BY <1>1, <1>4, <2>1, <3>3 DEF Ahead
  <2>4. CASE start[p] # seen.start
    <3>1. UNCHANGED <<found, pids>>
      BY <1>10, <2>4 DEF ScanVerifies
    <3>2. Listing'
      BY <1>1, <1>5, <2>2, <3>1 DEF Listing
    <3> QED BY <1>1, <1>4, <2>1, <3>2 DEF Ahead
  <2> QED BY <2>3, <2>4
<1>11. CASE ScanCompletes
  <2>1. pids = {} /\ lists' = found /\ ~scanning' /\ UNCHANGED <<pids, seen>>
    BY <1>11 DEF ScanCompletes
  <2>2. Listing'
    BY <2>1 DEF Listing
  <2>3. ASSUME NEW t \in Owed'
        PROVE  Owner[t] \in lists'[ListOf(Owner[t])'] /\ Pending(t)'
    <3>1. t \in Owed /\ ListOf(Owner[t])' = ListOf(Owner[t])
      BY <1>5
    <3>2. Owner[t] \in found[ListOf(Owner[t])]
      BY <1>1, <2>1, <3>1 DEF Listing
    <3>3. ListOf(Owner[t]) \in 0..4 /\ Owner[t] \in Pids
      BY <1>6, <3>1 DEF Phases
    <3>4. NoCursor.pid < Owner[t]
      <4>1. Owner[t] \in Nat /\ Owner[t] # 0
        BY <3>3, Params
      <4> QED BY <4>1, Empties
    <3>5. 0 < ListOf(Owner[t]) \/ (0 = ListOf(Owner[t]) /\ cursor[0].pid < Owner[t])
      BY <1>1, <3>3, <3>4
    <3>6. Pending(t)'
      BY <1>1, <1>2, <3>1, <3>5 DEF Pending
    <3> QED BY <2>1, <3>1, <3>2, <3>6
  <2>4. Ahead'
    BY <2>3 DEF Ahead
  <2> QED BY <1>4, <2>2, <2>4
<1> QED BY <1>8, <1>9, <1>10, <1>11 DEF Scan

\* A later list stays ahead, or becomes the one at hand, from its beginning.
LEMMA LaterPending ==
    ASSUME TypeOK, Shape, Framed, cycle, NEW t \in Tids, phase < ListOf(Owner[t])
    PROVE  Pending(t)'
<1> DEFINE n == ListOf(Owner[t])
<1>1. Owner[t] \in Pids /\ n \in Phases /\ n \in 0..4 /\ phase \in 0..5
  BY Params, ListNames DEF TypeOK, MainOK, Phases
<1>2. n' = n
  BY DEF Framed, system, ListOf
<1> HIDE DEF n
<1>3. At = phase
  BY DEF Shape, Framed, At
<1>4. cursor'[n] = NoCursor
  <2>1. n # At /\ n > phase /\ phase < n
    BY <1>1, <1>3 DEF n
  <2>2. cursor[n] = NoCursor
    BY <1>1, <2>1 DEF Shape
  <2> QED BY <1>1, <2>1, <2>2 DEF Framed
<1>5. phase' < n \/ phase' = n
  <2>1. phase < n
    BY DEF n
  <2> QED BY <1>1, <2>1 DEF Framed
<1>6. NoCursor.pid < Owner[t]
  <2>1. Owner[t] \in Nat /\ Owner[t] # 0
    BY <1>1, Params
  <2> QED BY <2>1, Empties
<1>7. phase' < n' \/ (phase' = n' /\ cursor'[n'].pid < Owner[t])
  BY <1>2, <1>4, <1>5, <1>6
<1> QED BY <1>7 DEF Pending, n

\* In the list at hand.
Here(t, c) ==
    c.pid < Owner[t] \/ (c.pid = Owner[t] /\ (c.stage = "list" \/ t \in c.todo))

LEMMA HerePending ==
    ASSUME TypeOK, Framed, cycle, Shape, NEW t \in Tids, phase = ListOf(Owner[t])
    PROVE  /\ At = phase /\ (Pending(t) => Here(t, Cur))
           /\ \A c : UNCHANGED phase /\ Moved(c) /\ Here(t, c) => Pending(t)'
           /\ UNCHANGED <<phase, cursor>> /\ Pending(t) => Pending(t)'
<1>1. At = phase /\ At \in Phases
  BY DEF Shape, Framed, At
<1>2. Owner[t] \in Pids /\ phase \in 0..5
  BY Params DEF TypeOK, MainOK
<1>3. ListOf(Owner[t])' = ListOf(Owner[t])
  BY DEF Framed, system, ListOf
<1>4. ~(phase < ListOf(Owner[t]))
  BY <1>2
<1>5. Pending(t) => Here(t, Cur)
  BY <1>1, <1>4 DEF Pending, Here, Cur
<1>6. ASSUME UNCHANGED phase, NEW c, Moved(c), Here(t, c) PROVE Pending(t)'
  <2>1. cursor'[At] = c
    BY <1>1, <1>6 DEF Moved, TypeOK, CursorOK
  <2> QED BY <1>1, <1>3, <1>6, <2>1 DEF Pending, Here
<1>7. UNCHANGED <<phase, cursor>> /\ Pending(t) => Pending(t)'
  BY <1>3 DEF Pending
<1> QED BY <1>1, <1>5, <1>6, <1>7

\* A process with an owed thread is in the list and not before the cursor:
\* the pass neither ends the list nor goes beyond it.
LEMMA GoesOn ==
    ASSUME TypeOK, Listed, NEW p \in lists[At], Cur.pid < p
    PROVE  After(Cur.pid) # 0 /\ After(Cur.pid) <= p /\ After(Cur.pid) \in Pids
<1>1. Cur.pid \in Nat /\ lists[At] \subseteq Pids /\ lists[At] \subseteq Nat \ {0}
  BY CurType
<1>2. After(Cur.pid) # 0
  BY <1>1, AfterOf
<1> QED BY <1>1, <1>2, AfterOf

LEMMA FreshHere ==
    ASSUME NEW t \in Tids, NEW q \in Pids, q <= Owner[t] PROVE Here(t, begin_pid(q))
<1>1. q \in Nat /\ Owner[t] \in Nat
  BY Params
<1>2. q < Owner[t] \/ q = Owner[t]
  BY <1>1
<1> QED BY <1>2, Empties DEF Here

\* A thread that is passed over has been accepted, is dead, or is void.
LEMMA NextThreadHere ==
    ASSUME TypeOK, Listed, NEW t, Here(t, Cur), t # Thread
    PROVE  Here(t, [Cur EXCEPT !.todo = Cur.todo \ {Thread}])
<1>1. Cur \in Cursors
  BY CurType
<1> QED BY <1>1 DEF Here, Cursors

LEMMA DispatchCovers ==
    ASSUME TypeOK, Paired, Shape, Coverage, Dispatch PROVE Coverage'
<1>1. CASE CycleEnds
  <2>1. UNCHANGED <<scan, lists, system, cursor>> /\ ~scanning
    BY <1>1 DEF CycleEnds, Shape
  <2>2. CASE ~cycle'
    BY <2>1, <2>2 DEF Coverage, Listing, Alives, Ahead, scan
  <2>3. CASE cycle'
    <3>1. UNCHANGED <<cycle, phase, steady, accepted>>
      BY <1>1, <2>3 DEF CycleEnds
    <3> QED BY <2>1, <3>1 DEF Coverage, Listing, Alives, Ahead, Pending, Owed, Covered, ListOf,
                              scan, system
  <2> QED BY <2>2, <2>3
<1>2. CASE ~CycleEnds
  <2>1. Framed /\ Listed /\ ~scanning /\ ~scanning' /\ UNCHANGED <<system, cycle, lists, pids, seen>>
    BY <1>2, DispatchFrame DEF Paired, Framed, Shape, scan
  <2>2. Listing' /\ Alives'
    BY <2>1 DEF Coverage, Listing, Alives, Framed, system
  <2>3. ASSUME NEW t \in Owed'
        PROVE  t \in Owed /\ t \in steady' /\ ListOf(Owner[t])' = ListOf(Owner[t])
    BY <2>1 DEF Owed, Covered, ListOf, Framed, system
  <2> SUFFICES ASSUME cycle, NEW t \in Owed' PROVE t \in accepted' \/ Pending(t)'
    BY <2>1, <2>2, <2>3 DEF Coverage, Ahead
  <2>4. /\ t \in Tids /\ Owner[t] \in Pids /\ up[t] # 0 /\ start[Owner[t]] # 0 /\ t \in steady'
        /\ Owner[t] \in lists[ListOf(Owner[t])] /\ (t \in accepted \/ Pending(t))
    BY <2>1, <2>3, OwedAlive DEF Paired, Coverage, Ahead
  <2>5. accepted \subseteq accepted'
    BY <2>1 DEF Framed, Enqueues
  <2>6. CASE t \in accepted
    BY <2>5, <2>6
  <2>7. CASE phase < ListOf(Owner[t])
    BY <2>1, <2>4, <2>7, LaterPending
  <2>8. ASSUME t \notin accepted, ~(phase < ListOf(Owner[t])) PROVE t \in accepted' \/ Pending(t)'
    <3>1. phase = ListOf(Owner[t])
      BY <2>4, <2>8 DEF Pending
    <3>2. At = phase /\ Here(t, Cur) /\ mode = "full"
      BY <2>1, <2>4, <2>8, <3>1, HerePending DEF Shape, Framed
    <3>3. \A c : UNCHANGED phase /\ Moved(c) /\ Here(t, c) => Pending(t)'
      BY <2>1, <2>4, <3>1, HerePending
    <3>4. UNCHANGED <<phase, cursor>> => Pending(t)'
      BY <2>1, <2>4, <2>8, <3>1, HerePending
    <3>5. /\ Cur \in Cursors /\ Cur.pid \in Nat /\ Owner[t] \in Nat /\ Owner[t] # 0
          /\ Owner[t] \in lists[At] /\ lists[At] \subseteq Pids
      BY <2>1, <2>4, <3>1, <3>2, CurType, Params
    <3>6. ASSUME NEW l, Leaves(l), Cur.pid # Owner[t] PROVE Pending(t)'
      <4>1. Cur.pid < Owner[t]
        BY <3>2, <3>6 DEF Here
      <4>2. After(Cur.pid) # 0 /\ After(Cur.pid) <= Owner[t] /\ After(Cur.pid) \in Pids
        BY <2>1, <3>5, <4>1, GoesOn
      <4>3. Moved(begin_pid(After(Cur.pid))) /\ UNCHANGED phase
        BY <3>6, <4>2 DEF Leaves
      <4> QED BY <2>4, <3>3, <4>2, <4>3, FreshHere
    <3>7. ASSUME Next1(Thread), UNCHANGED phase, t # Thread PROVE Pending(t)'
      BY <2>1, <3>2, <3>3, <3>7, NextThreadHere DEF Next1
    <3>8. CASE Enters
      <4>1. Resume # 0 /\ Resume <= Owner[t]
        <5>1. Owner[t] >= Cur.pid /\ ~(Owner[t] < Cur.pid)
          BY <3>2, <3>5 DEF Here
        <5> QED BY <2>1, <3>5, <5>1, ResumeOf
      <4>2. Resume \in Pids /\ Moved(begin_pid(Resume)) /\ UNCHANGED phase
        BY <2>1, <3>5, <3>8, <4>1, ResumeOf DEF Enters
      <4> QED BY <2>4, <3>3, <4>1, <4>2, FreshHere
    <3>9. CASE RunsOut \/ HoldsThread
      BY <3>4, <3>9 DEF RunsOut, HoldsThread, Hold
    <3>10. CASE ListsTids
      <4>1. UNCHANGED phase /\ Cur.stage = "list"
        BY <3>10 DEF ListsTids
      <4>2. CASE Moved([Cur EXCEPT !.stage = "name", !.todo = Alive(Cur.pid)])
        <5>1. Here(t, [Cur EXCEPT !.stage = "name", !.todo = Alive(Cur.pid)])
          BY <2>4, <3>2, <3>5 DEF Here, Cursors, Alive, ThreadsOf
        <5> QED BY <3>3, <4>1, <4>2, <5>1
      <4>3. CASE FaultOn(Cur.pid) /\ Moved([Cur EXCEPT !.stage = "name"])
        <5>1. Owner[t] # Cur.pid
          BY <2>4, <4>3 DEF FaultOn, ThreadsOf
        <5>2. Here(t, [Cur EXCEPT !.stage = "name"])
          BY <3>2, <3>5, <5>1 DEF Here, Cursors
        <5> QED BY <3>3, <4>1, <4>3, <5>2
      <4> QED BY <3>10, <4>2, <4>3 DEF ListsTids
    <3>11. CASE LoadsProcess
      <4> DEFINE c == [Cur EXCEPT !.stage = NextStage[Cur.stage],
                       !.start = IF Cur.stage = "start" THEN start[Cur.pid] ELSE Cur.start,
                       !.rule = IF Cur.stage = "name" THEN rule[Cur.pid] ELSE Cur.rule]
      <4>1. Moved(c) /\ UNCHANGED phase /\ Cur.stage # "list"
        BY <3>11 DEF LoadsProcess, NextStage
      <4>2. c.pid = Cur.pid /\ c.todo = Cur.todo
        BY <3>5 DEF Cursors
      <4> HIDE DEF c
      <4>3. Here(t, c)
        BY <3>2, <4>1, <4>2 DEF Here
      <4> QED BY <3>3, <4>1, <4>3
    <3>12. CASE LeavesProcess
      <4>1. Cur.pid # Owner[t]
        <5>1. CASE start[Cur.pid] = 0
          BY <2>4, <5>1
        <5>2. CASE FaultOn(Cur.pid)
          BY <2>4, <5>2 DEF FaultOn, ThreadsOf
        <5>3. CASE ThreadsDone
          BY <3>2, <3>5, <5>3 DEF ThreadsDone, Here
        <5> QED BY <3>12, <5>1, <5>2, <5>3 DEF LeavesProcess
      <4>2. \E l : Leaves(l)
        BY <3>12 DEF LeavesProcess
      <4> QED BY <3>6, <4>1, <4>2
    <3>13. CASE ReadsName
      <4>1. UNCHANGED phase
        BY <3>13 DEF ReadsName
      <4>2. UNCHANGED cursor
            \/ (Next1(Thread) /\ (Thread \in Done \/ up[Thread] = 0 \/ FaultOn(Owner[Thread])))
        BY <3>13 DEF ReadsName, Hold
      <4>3. ASSUME Thread \in Done \/ up[Thread] = 0 \/ FaultOn(Owner[Thread]) PROVE t # Thread
        BY <2>4, <2>8, <3>2, <4>3 DEF Done, Shape, FaultOn, ThreadsOf
      <4> QED BY <3>4, <3>7, <4>1, <4>2, <4>3
    <3>14. CASE ReadsThreadStart
      <4>1. UNCHANGED phase
        BY <3>14 DEF ReadsThreadStart
      <4>2. UNCHANGED cursor \/ (Next1(Thread) /\ (up[Thread] = 0 \/ FaultOn(Owner[Thread])))
        BY <3>14 DEF ReadsThreadStart
      <4>3. ASSUME up[Thread] = 0 \/ FaultOn(Owner[Thread]) PROVE t # Thread
        BY <2>4, <4>3 DEF FaultOn, ThreadsOf
      <4> QED BY <3>4, <3>7, <4>1, <4>2, <4>3
    <3>15. CASE VerifyFails
      <4>1. Moved(NoCursor) /\ UNCHANGED phase
        BY <3>15 DEF VerifyFails, StartsOver
      <4>2. NoCursor.pid < Owner[t]
        BY <3>5, Empties
      <4> QED BY <3>3, <4>1, <4>2 DEF Here
    <3>16. CASE Enqueues
      <4>1. Next1(Thread) /\ UNCHANGED phase /\ accepted' = accepted \cup {Thread}
        BY <3>2, <3>16 DEF Enqueues
      <4> QED BY <3>7, <4>1
    <3> QED BY <1>2, <3>8, <3>9, <3>10, <3>11, <3>12, <3>13, <3>14, <3>15, <3>16 DEF Dispatch
  <2> QED BY <2>6, <2>7, <2>8
<1> QED BY <1>1, <1>2

----------------------------------------------------------------------------
(* The invariant and what follows from it.                                 *)

LEMMA InitIInv == Init => IInv
<1> SUFFICES ASSUME Init PROVE IInv
  OBVIOUS
<1>1. TypeOK
  BY InitTypes
<1>2. ThreadsFollow
  BY Params DEF Init, ThreadsFollow
<1>3. Loaded
  BY FreshGenuine DEF Init, Loaded
<1>4. Reading /\ TaskGenuine
  BY DEF Init, Reading, TaskGenuine, Waiting
<1>5. Shape
  BY DEF Init, Shape
<1>6. Listing /\ Alives /\ Ahead
  BY Empties DEF Init, Listing, Alives, Ahead
<1> QED BY <1>1, <1>2, <1>3, <1>4, <1>5, <1>6 DEF IInv

LEMMA NextIInv == IInv /\ [Next]_vars => IInv'
<1> SUFFICES ASSUME IInv, [Next]_vars PROVE IInv'
  OBVIOUS
<1>1. TypeOK /\ Paired /\ Shape /\ Coverage
  BY DEF IInv, Paired, Coverage
<1>2. ASSUME TypeOK', Paired', Shape', Coverage' PROVE IInv'
  BY <1>2 DEF IInv, Paired, Coverage
<1>3. CASE \/ \E p \in Pids : ProcessReplaced(p) \/ ProcessMoves(p)
           \/ \E t \in Tids : ThreadChanges(t) \/ WorkerTakes(t)
           \/ RescanRequested \/ RefreshDue
  <2>1. TypeOK'
    BY <1>1, <1>3, SystemTypes, WorkerTypes
  <2> QED BY <1>1, <1>2, <1>3, <2>1, SystemPaired, SystemShape, SystemCovers
<1>4. ASSUME NEW b \in Budgets, SliceBegins(b) PROVE IInv'
  <2>1. TypeOK'
    BY <1>1, <1>4, SliceTypes
  <2> QED BY <1>1, <1>2, <1>4, <2>1, LoopPaired, LoopShape, SliceCovers
<1>5. CASE Scan
  <2>1. TypeOK'
    BY <1>1, <1>5, ScanTypes DEF Coverage
  <2>2. ThreadsFollow
    BY <1>1 DEF Paired
  <2> QED BY <1>1, <1>2, <1>5, <2>1, <2>2, LoopPaired, LoopShape, ScanCovers
<1>6. CASE Dispatch
  <2>0. Reading
    BY <1>1 DEF Paired
  <2>1. TypeOK'
    BY <1>1, <1>6, <2>0, DispatchTypes
  <2> QED BY <1>1, <1>2, <1>6, <2>0, <2>1, DispatchPaired, DispatchShape, DispatchCovers
<1>7. CASE UNCHANGED vars
  <2>1. UNCHANGED <<start, up, class, rule, needed, due, pc, mode, left, cycle, phase, fast,
                    scanning, pids, seen, baselined, found, lists, cursor, done, fastdone, thread,
                    queue, sched, recent, applied, steady, accepted, troubles>>
    BY <1>7 DEF vars, system, main, scan, worker
  <2>2. TypeOK'
    BY <1>1, <2>1 DEF TypeOK, SystemOK, MainOK, ScanOK, CursorOK, WorkerOK, Waiting
  <2>3. Paired'
    BY <1>1, <2>1 DEF Paired, ThreadsFollow, Loaded, Genuine, Reading, Listed, Cur, At, TaskGenuine,
                      Waiting
  <2>4. Shape'
    BY <1>1, <2>1 DEF Shape
  <2>5. Coverage'
    BY <1>1, <2>1 DEF Coverage, Listing, Alives, Ahead, Pending, Owed, Covered, ListOf
  <2> QED BY <1>2, <2>2, <2>3, <2>4, <2>5
<1> QED BY <1>3, <1>4, <1>5, <1>6, <1>7 DEF Next, Begins

\* What the two promises rest on holds throughout; with it, never more than
\* Capacity tasks wait, whatever the slices and the workers do.
THEOREM DispatchInvariant == Spec => [](TypeOK /\ IInv)
<1>1. Init => IInv
  BY InitIInv
<1>2. IInv /\ [Next]_vars => IInv'
  BY NextIInv
<1>3. IInv => TypeOK /\ IInv
  BY DEF IInv
<1> QED BY <1>1, <1>2, <1>3, PTL DEF Spec

\* Every task in the queue names a thread together with the very process it
\* belongs to, although dispatch_pids_to_workers reads the two start times at
\* different moments, and slices apart, while the IDs are reused.
THEOREM TasksAreGenuine == Spec => []TaskGenuine
<1>1. IInv => TaskGenuine
  BY DEF IInv
<1> QED BY <1>1, DispatchInvariant, PTL

\* A full cycle that completes has had a task accepted for every covered
\* thread that lived through it, however its slices were cut, queues were
\* full and other processes came and went.
THEOREM CycleIsComplete == Spec => CycleCovers
<1>1. ASSUME IInv, [Next]_vars, cycle, ~cycle', NEW t \in steady, Covered(t)
      PROVE  t \in accepted
  <2>1. CycleEnds
    <3>1. UNCHANGED cycle \/ CycleEnds
      <4>1. CASE Dispatch
        BY <1>1, <4>1, DispatchFrame DEF IInv, Framed
      <4>2. CASE Scan
        BY <4>2 DEF Scan, ScanLists, ScanRunsOut, ScanObserves, ScanVerifies, ScanCompletes
      <4>3. CASE Begins
        BY <1>1, <4>3 DEF Begins, SliceBegins
      <4> QED BY <1>1, <4>1, <4>2, <4>3 DEF Next, vars, main, Elsewhere, ProcessReplaced, ProcessMoves,
              ThreadChanges, WorkerTakes, RescanRequested, RefreshDue
    <3> QED BY <1>1, <3>1
  <2>2. phase = 5 /\ ~scanning /\ t \in Owed
    BY <1>1, <2>1 DEF CycleEnds, IInv, Shape, Owed
  <2>3. Owner[t] \in Pids
    BY <1>1, Params DEF IInv, TypeOK, MainOK
  <2>4. ListOf(Owner[t]) \in 0..4
    BY <2>3, ListNames DEF Phases
  <2>5. ~Pending(t)
    BY <2>2, <2>4 DEF Pending
  <2> QED BY <1>1, <2>2, <2>5 DEF IInv, Ahead
<1>2. IInv /\ [Next]_vars
        => [cycle /\ ~cycle' => \A t \in steady : Covered(t) => t \in accepted]_vars
  BY <1>1
<1> QED BY <1>2, DispatchInvariant, PTL DEF Spec, CycleCovers
============================================================================
