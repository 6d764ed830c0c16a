-------------------------- MODULE ProcEventsProofs --------------------------
(***************************************************************************)
(* What the router's merging and sorting preserves, for every number of    *)
(* processes and every size of the two queues.                             *)
(*                                                                         *)
(* The events of a PID none of which was lost form a chain: the PIDs       *)
(* tracked, then the batch, then the pending map, then the records of the  *)
(* inotify queue, and last the process itself.  Creations and deletions    *)
(* alternate along it, and merging keeps as much of that as the router     *)
(* needs to tell a new process from one it knows.                          *)
(***************************************************************************)
EXTENDS ProcEvents, FiniteSetTheorems, TLAPS

Records == [pid : Pids \cup {None}, create : BOOLEAN]
Batches == [events : EventMaps, new : SUBSET Pids, dead : SUBSET Pids, dropped : BOOLEAN]

\* The records of a PID in a queue.
Mine(q, p) == {i \in 1..Len(q) : q[i].pid = p}

\* Creations and deletions take turns in q, from the processes of set from
\* to those of set to.
InTurn(q, p, from, to) ==
    /\ Mine(q, p) = {} => (p \in from <=> p \in to)
    /\ \A i \in Mine(q, p) : (\A k \in Mine(q, p) : i <= k) => (q[i].create <=> p \notin from)
    /\ \A i \in Mine(q, p) : (\A k \in Mine(q, p) : k <= i) => (q[i].create <=> p \in to)
    /\ \A i, k \in Mine(q, p) :
         i < k /\ (\A m \in Mine(q, p) : m <= i \/ k <= m) => (q[i].create <=> ~q[k].create)

\* The processes that exist as of the last event in the batch, and as of the
\* last event in the pending map.
Last(events, before) ==
    {p \in Pids : IF events[p] # None THEN events[p].is_create ELSE p \in before}
Sorted == Last(batch.events, tracked)
Latest == Last(pending, Sorted)

\* An event without a deletion is the creation of a process not known before.
Fresh(events, p, before) ==
    events[p] # None /\ ~events[p].saw_delete => events[p].is_create /\ p \notin before

Chained(p) ==
    /\ Fresh(batch.events, p, tracked) /\ Fresh(pending, p, Sorted)
    /\ InTurn(inotify, p, Latest, alive)

\* A process not inspected yet, nor passed over by the handler, has an event
\* on its way, and so has one that went and is not forgotten.
Awaited(p) ==
    p \in alive \ (seen \cup unread) =>
        Mine(inotify, p) # {} \/ pending[p] # None \/ batch.events[p] # None \/ p \in batch.new
Recalled(p) ==
    p \in leftover =>
        \/ \E i \in Mine(inotify, p) : ~inotify[i].create
        \/ pending[p] # None /\ pending[p].saw_delete
        \/ batch.events[p] # None /\ batch.events[p].saw_delete
        \/ p \in batch.new \cup batch.dead

\* The queue ends with the overflow record once it is over its length.
QueueOK ==
    /\ Len(inotify) > QueueLen => inotify[Len(inotify)] = Overflow
    /\ \A i \in 1..Len(inotify) : inotify[i].pid = None => inotify[i] = Overflow

BatchOK ==
    /\ rpc \notin {"classify", "handle"} => batch = NoBatch
    /\ rpc = "classify" => batch.new = {} /\ batch.dead = {}
    /\ rpc = "handle" => batch.events = NoEvents

StopOK ==
    /\ running <=> stopping = "no"
    /\ stopping # "no" => monitor = "stopped"

Kept(p) == Chained(p) /\ Awaited(p) /\ Recalled(p)

IInv ==
    /\ TypeOK /\ QueueOK /\ BatchOK /\ StopOK
    /\ monitor # "stopped" => \A p \in Pids \ missed : Kept(p)

----------------------------------------------------------------------------
(* Queues.                                                                 *)

LEMMA Params ==
    /\ IsFiniteSet(Pids) /\ None \notin Pids /\ None \notin Events
    /\ QueueLen \in Nat /\ QueueLen >= 1 /\ kMaxPendingEvents \in Nat /\ kMaxPendingEvents >= 1
    /\ MaxBirths \in Nat
BY ProcEventsAssumption

LEMMA Appended ==
    ASSUME NEW q \in Seq(Records), NEW r \in Records
    PROVE  LET s == Append(q, r)
           IN /\ s \in Seq(Records) /\ Len(s) = Len(q) + 1 /\ s[Len(q) + 1] = r /\ Len(q) \in Nat
              /\ \A i \in 1..Len(q) : s[i] = q[i]
OBVIOUS

LEMMA TailOf ==
    ASSUME NEW q \in Seq(Records), q # <<>>
    PROVE  LET s == Tail(q)
           IN /\ s \in Seq(Records) /\ Len(s) = Len(q) - 1 /\ Head(q) = q[1] /\ Len(q) \in Nat
              /\ Len(q) >= 1 /\ Head(q) \in Records
              /\ \A i \in 1..Len(q) - 1 : s[i] = q[i + 1]
OBVIOUS

\* s is q and one more record.
Extends(s, q, r) ==
    Len(s) = Len(q) + 1 /\ s[Len(q) + 1] = r /\ \A i \in 1..Len(q) : s[i] = q[i]

LEMMA MineThen ==
    ASSUME NEW q \in Seq(Records), NEW r, NEW p, NEW s, Extends(s, q, r)
    PROVE  /\ r.pid = p => Mine(s, p) = Mine(q, p) \cup {Len(q) + 1}
           /\ r.pid # p => Mine(s, p) = Mine(q, p)
           /\ \A i \in Mine(q, p) : s[i] = q[i] /\ i \in 1..Len(q)
           /\ s[Len(q) + 1] = r /\ Len(q) \in Nat
<1> DEFINE n == Len(q)
<1>1. n \in Nat /\ Len(s) = n + 1 /\ s[n + 1] = r /\ \A i \in 1..n : s[i] = q[i]
  BY DEF Extends
<1> HIDE DEF n
<1>2. Mine(q, p) = {i \in 1..n : q[i].pid = p} /\ Mine(s, p) = {i \in 1..Len(s) : s[i].pid = p}
  BY DEF Mine, n
<1>3. 1..(n + 1) = (1..n) \cup {n + 1}
  BY <1>1
<1>4. \A i : i \in Mine(s, p) <=> (i \in 1..n /\ q[i].pid = p) \/ (i = n + 1 /\ r.pid = p)
  BY <1>1, <1>2, <1>3
<1> QED BY <1>1, <1>2, <1>4 DEF n

LEMMA MineSkips ==
    ASSUME NEW q \in Seq(Records), NEW r \in Records, NEW p, NEW s, Extends(s, q, r), r.pid # p
    PROVE  Mine(s, p) = Mine(q, p) /\ \A i \in Mine(q, p) : s[i] = q[i]
<1>1. \A i \in Mine(q, p) : s[i] = q[i]
  BY DEF Extends, Mine
<1>2. Mine(s, p) = Mine(q, p)
  <2> DEFINE n == Len(q)
  <2>1. n \in Nat /\ Len(s) = n + 1 /\ s[n + 1] = r /\ \A i \in 1..n : s[i] = q[i]
    BY DEF Extends
  <2> HIDE DEF n
  <2>2. 1..(n + 1) = (1..n) \cup {n + 1}
    BY <2>1
  <2> QED BY <2>1, <2>2 DEF Mine, n
<1> QED BY <1>1, <1>2

LEMMA MineAppended ==
    ASSUME NEW q \in Seq(Records), NEW r \in Records, NEW p
    PROVE  LET s == Append(q, r)
           IN /\ r.pid = p => Mine(s, p) = Mine(q, p) \cup {Len(q) + 1}
              /\ r.pid # p => Mine(s, p) = Mine(q, p)
              /\ \A i \in Mine(q, p) : s[i] = q[i] /\ i \in 1..Len(q)
              /\ s[Len(q) + 1] = r /\ Len(q) \in Nat
<1> DEFINE s == Append(q, r)
<1>1. Extends(s, q, r)
  BY Appended DEF Extends
<1> HIDE DEF s
<1>2. /\ r.pid = p => Mine(s, p) = Mine(q, p) \cup {Len(q) + 1}
      /\ r.pid # p => Mine(s, p) = Mine(q, p)
      /\ \A i \in Mine(q, p) : s[i] = q[i] /\ i \in 1..Len(q)
      /\ s[Len(q) + 1] = r /\ Len(q) \in Nat
  BY <1>1, MineThen
<1> QED BY <1>2 DEF s

LEMMA TurnAppended ==
    ASSUME NEW q \in Seq(Records), NEW r \in Records, NEW p, NEW from, NEW to, NEW new,
           r.pid = p, p \in to <=> ~r.create, p \in new <=> r.create, InTurn(q, p, from, to)
    PROVE  InTurn(Append(q, r), p, from, new)
<1> DEFINE s == Append(q, r)
           n == Len(q)
           M == Mine(q, p)
<1>1. /\ Mine(s, p) = M \cup {n + 1} /\ n \in Nat /\ s[n + 1] = r
      /\ \A i \in M : s[i] = q[i] /\ i \in 1..n
  BY MineAppended
<1>2. /\ M = {} => (p \in from <=> p \in to)
      /\ \A i \in M : (\A k \in M : i <= k) => (q[i].create <=> p \notin from)
      /\ \A i \in M : (\A k \in M : k <= i) => (q[i].create <=> p \in to)
      /\ \A i, k \in M :
           i < k /\ (\A m \in M : m <= i \/ k <= m) => (q[i].create <=> ~q[k].create)
  BY DEF InTurn
<1> HIDE DEF s, n, M
<1>3. ASSUME NEW i \in M \cup {n + 1}, \A k \in M \cup {n + 1} : i <= k
      PROVE  s[i].create <=> p \notin from
  <2>1. CASE M = {}
    BY <1>1, <1>2, <1>3, <2>1
  <2>2. CASE M # {}
    <3>1. i \in M
      BY <1>1, <1>3, <2>2
    <3> QED BY <1>1, <1>2, <1>3, <3>1
  <2> QED BY <2>1, <2>2
<1>4. ASSUME NEW i \in M \cup {n + 1}, \A k \in M \cup {n + 1} : k <= i
      PROVE  s[i].create <=> p \in new
  <2>1. i = n + 1
    BY <1>1, <1>4
  <2> QED BY <1>1, <2>1
<1>5. ASSUME NEW i \in M \cup {n + 1}, NEW k \in M \cup {n + 1}, i < k,
             \A m \in M \cup {n + 1} : m <= i \/ k <= m
      PROVE  s[i].create <=> ~s[k].create
  <2>1. i \in M
    BY <1>1, <1>5
  <2>2. CASE k \in M
    BY <1>1, <1>2, <1>5, <2>1, <2>2
  <2>3. CASE k = n + 1
    <3>1. \A m \in M : m <= i
      BY <1>1, <1>5, <2>3
    <3> QED BY <1>1, <1>2, <2>1, <2>3, <3>1
  <2> QED BY <2>2, <2>3
<1>6. M \cup {n + 1} # {}
  OBVIOUS
<1>7. InTurn(s, p, from, new)
  BY <1>1, <1>3, <1>4, <1>5, <1>6 DEF InTurn
<1> QED BY <1>7 DEF s

LEMMA TurnAppendedOther ==
    ASSUME NEW q \in Seq(Records), NEW r \in Records, NEW p, NEW from, NEW to,
           r.pid # p, InTurn(q, p, from, to)
    PROVE  InTurn(Append(q, r), p, from, to)
<1> DEFINE s == Append(q, r)
<1>1. Mine(s, p) = Mine(q, p) /\ \A i \in Mine(q, p) : s[i] = q[i]
  BY MineAppended
<1> HIDE DEF s
<1>2. InTurn(s, p, from, to)
  BY <1>1 DEF InTurn
<1> QED BY <1>2 DEF s

LEMMA MineTail ==
    ASSUME NEW q \in Seq(Records), q # <<>>, NEW p
    PROVE  LET s == Tail(q)
           IN /\ \A i \in Mine(s, p) : i \in Nat /\ i >= 1 /\ i + 1 \in Mine(q, p) /\ s[i] = q[i + 1]
              /\ \A k \in Mine(q, p) : k \in Nat /\ k >= 1 /\ (k # 1 => k - 1 \in Mine(s, p))
              /\ 1 \in Mine(q, p) <=> Head(q).pid = p
              /\ Head(q) = q[1]
<1> DEFINE s == Tail(q)
           n == Len(q)
<1>1. n \in Nat /\ n >= 1 /\ Len(s) = n - 1 /\ Head(q) = q[1] /\ \A i \in 1..(n - 1) : s[i] = q[i + 1]
  BY TailOf
<1>2. \A k : k \in Mine(q, p) <=> k \in 1..n /\ q[k].pid = p
  BY DEF Mine
<1>3. \A k : k \in Mine(s, p) <=> k \in 1..(n - 1) /\ s[k].pid = p
  BY <1>1 DEF Mine
<1> HIDE DEF s, n
<1>4. \A i \in Mine(s, p) : i \in Nat /\ i >= 1 /\ i + 1 \in Mine(q, p) /\ s[i] = q[i + 1]
  BY <1>1, <1>2, <1>3
<1>5. ASSUME NEW k \in Mine(q, p) PROVE k \in Nat /\ k >= 1 /\ (k # 1 => k - 1 \in Mine(s, p))
  <2>1. k \in 1..n /\ q[k].pid = p
    BY <1>2
  <2>2. k # 1 => k - 1 \in 1..(n - 1) /\ (k - 1) + 1 = k
    BY <1>1, <2>1
  <2> QED BY <1>1, <1>3, <2>1, <2>2
<1>6. 1 \in Mine(q, p) <=> Head(q).pid = p
  BY <1>1, <1>2
<1> QED BY <1>1, <1>4, <1>5, <1>6 DEF s

LEMMA TurnTail ==
    ASSUME NEW q \in Seq(Records), q # <<>>, NEW p, NEW from, NEW to, NEW next,
           Head(q).pid = p, p \in next <=> Head(q).create, InTurn(q, p, from, to)
    PROVE  (Head(q).create <=> p \notin from) /\ InTurn(Tail(q), p, next, to)
<1> DEFINE s == Tail(q)
           M == Mine(q, p)
           N == Mine(s, p)
<1>1. /\ \A i \in N : i \in Nat /\ i >= 1 /\ i + 1 \in M /\ s[i] = q[i + 1]
      /\ \A k \in M : k \in Nat /\ k >= 1 /\ (k # 1 => k - 1 \in N)
      /\ 1 \in M /\ Head(q) = q[1]
  BY MineTail
<1>2. /\ \A i \in M : (\A k \in M : i <= k) => (q[i].create <=> p \notin from)
      /\ \A i \in M : (\A k \in M : k <= i) => (q[i].create <=> p \in to)
      /\ \A i, k \in M :
           i < k /\ (\A m \in M : m <= i \/ k <= m) => (q[i].create <=> ~q[k].create)
  BY DEF InTurn
<1> HIDE DEF s, M, N
<1>3. Head(q).create <=> p \notin from
  BY <1>1, <1>2
<1>4. ASSUME N = {} PROVE p \in next <=> p \in to
  <2>1. \A k \in M : k <= 1
    BY <1>1, <1>4
  <2> QED BY <1>1, <1>2, <2>1
<1>5. ASSUME NEW i \in N, \A k \in N : i <= k PROVE s[i].create <=> p \notin next
  <2>1. i \in Nat /\ i >= 1 /\ i + 1 \in M /\ s[i] = q[i + 1]
    BY <1>1
  <2>2. \A m \in M : m <= 1 \/ i + 1 <= m
    <3> SUFFICES ASSUME NEW m \in M, m # 1 PROVE i + 1 <= m
      BY <1>1
    <3>1. m \in Nat /\ m - 1 \in N
      BY <1>1
    <3>2. i <= m - 1
      BY <1>5, <3>1
    <3> QED BY <2>1, <3>1, <3>2
  <2>3. q[1].create <=> ~q[i + 1].create
    BY <1>1, <1>2, <2>1, <2>2
  <2> QED BY <1>1, <2>1, <2>3
<1>6. ASSUME NEW i \in N, \A k \in N : k <= i PROVE s[i].create <=> p \in to
  <2>1. i \in Nat /\ i >= 1 /\ i + 1 \in M /\ s[i] = q[i + 1]
    BY <1>1
  <2>2. \A m \in M : m <= i + 1
    <3> SUFFICES ASSUME NEW m \in M, m # 1 PROVE m <= i + 1
      BY <2>1
    <3>1. m \in Nat /\ m - 1 \in N
      BY <1>1
    <3>2. m - 1 <= i
      BY <1>6, <3>1
    <3> QED BY <2>1, <3>1, <3>2
  <2> QED BY <1>2, <2>1, <2>2
<1>7. ASSUME NEW i \in N, NEW k \in N, i < k, \A m \in N : m <= i \/ k <= m
      PROVE  s[i].create <=> ~s[k].create
  <2>1. /\ i \in Nat /\ i >= 1 /\ i + 1 \in M /\ s[i] = q[i + 1]
        /\ k \in Nat /\ k >= 1 /\ k + 1 \in M /\ s[k] = q[k + 1]
    BY <1>1
  <2>2. \A m \in M : m <= i + 1 \/ k + 1 <= m
    <3> SUFFICES ASSUME NEW m \in M, m # 1 PROVE m <= i + 1 \/ k + 1 <= m
      BY <2>1
    <3>1. m \in Nat /\ m - 1 \in N
      BY <1>1
    <3>2. m - 1 <= i \/ k <= m - 1
      BY <1>7, <3>1
    <3> QED BY <2>1, <3>1, <3>2
  <2>3. i + 1 < k + 1
    BY <1>7, <2>1
  <2> QED BY <1>2, <2>1, <2>2, <2>3
<1>8. InTurn(s, p, next, to)
  BY <1>4, <1>5, <1>6, <1>7 DEF InTurn, N
<1> QED BY <1>3, <1>8 DEF s

LEMMA TurnTailOther ==
    ASSUME NEW q \in Seq(Records), q # <<>>, NEW p, NEW from, NEW to,
           Head(q).pid # p, InTurn(q, p, from, to)
    PROVE  InTurn(Tail(q), p, from, to)
<1> DEFINE s == Tail(q)
           M == Mine(q, p)
           N == Mine(s, p)
<1>1. /\ \A i \in N : i \in Nat /\ i >= 1 /\ i + 1 \in M /\ s[i] = q[i + 1]
      /\ \A k \in M : k \in Nat /\ k - 1 \in N
  BY MineTail
<1>2. /\ M = {} => (p \in from <=> p \in to)
      /\ \A i \in M : (\A k \in M : i <= k) => (q[i].create <=> p \notin from)
      /\ \A i \in M : (\A k \in M : k <= i) => (q[i].create <=> p \in to)
      /\ \A i, k \in M :
           i < k /\ (\A m \in M : m <= i \/ k <= m) => (q[i].create <=> ~q[k].create)
  BY DEF InTurn
<1> HIDE DEF s, M, N
<1>3. N = {} => (p \in from <=> p \in to)
  BY <1>1, <1>2
<1>4. ASSUME NEW i \in N, \A k \in N : i <= k PROVE s[i].create <=> p \notin from
  <2>1. i \in Nat /\ i + 1 \in M /\ s[i] = q[i + 1]
    BY <1>1
  <2>2. \A m \in M : i + 1 <= m
    <3> SUFFICES ASSUME NEW m \in M PROVE i + 1 <= m
      OBVIOUS
    <3>1. m \in Nat /\ m - 1 \in N
      BY <1>1
    <3>2. i <= m - 1
      BY <1>4, <3>1
    <3> QED BY <2>1, <3>1, <3>2
  <2> QED BY <1>2, <2>1, <2>2
<1>5. ASSUME NEW i \in N, \A k \in N : k <= i PROVE s[i].create <=> p \in to
  <2>1. i \in Nat /\ i + 1 \in M /\ s[i] = q[i + 1]
    BY <1>1
  <2>2. \A m \in M : m <= i + 1
    <3> SUFFICES ASSUME NEW m \in M PROVE m <= i + 1
      OBVIOUS
    <3>1. m \in Nat /\ m - 1 \in N
      BY <1>1
    <3>2. m - 1 <= i
      BY <1>5, <3>1
    <3> QED BY <2>1, <3>1, <3>2
  <2> QED BY <1>2, <2>1, <2>2
<1>6. ASSUME NEW i \in N, NEW k \in N, i < k, \A m \in N : m <= i \/ k <= m
      PROVE  s[i].create <=> ~s[k].create
  <2>1. /\ i \in Nat /\ i + 1 \in M /\ s[i] = q[i + 1]
        /\ k \in Nat /\ k + 1 \in M /\ s[k] = q[k + 1]
    BY <1>1
  <2>2. \A m \in M : m <= i + 1 \/ k + 1 <= m
    <3> SUFFICES ASSUME NEW m \in M PROVE m <= i + 1 \/ k + 1 <= m
      OBVIOUS
    <3>1. m \in Nat /\ m - 1 \in N
      BY <1>1
    <3>2. m - 1 <= i \/ k <= m - 1
      BY <1>6, <3>1
    <3> QED BY <2>1, <3>1, <3>2
  <2>3. i + 1 < k + 1
    BY <1>6, <2>1
  <2> QED BY <1>2, <2>1, <2>2, <2>3
<1>7. InTurn(s, p, from, to)
  BY <1>3, <1>4, <1>5, <1>6 DEF InTurn, N
<1> QED BY <1>7 DEF s

LEMMA TurnSame ==
    ASSUME NEW q, NEW p, NEW from, NEW to, NEW f, NEW t, InTurn(q, p, from, to),
           p \in f <=> p \in from, p \in t <=> p \in to
    PROVE  InTurn(q, p, f, t)
BY DEF InTurn

----------------------------------------------------------------------------
(* Event maps.                                                             *)

LEMMA EventTypes ==
    ASSUME NEW m \in EventMaps, NEW p \in Pids
    PROVE  /\ m[p] # None => m[p] \in Events /\ m[p].is_create \in BOOLEAN
                                             /\ m[p].saw_delete \in BOOLEAN
           /\ p \in Held(m) <=> m[p] # None
BY DEF EventMaps, Events, Held

LEMMA NothingHeld ==
    /\ NoEvents \in EventMaps /\ Held(NoEvents) = {} /\ Cardinality(Held(NoEvents)) = 0
    /\ \A p \in Pids : NoEvents[p] = None
    /\ \A S \in SUBSET Pids : Last(NoEvents, S) = S
<1>1. /\ NoEvents \in EventMaps /\ Held(NoEvents) = {}
      /\ \A p \in Pids : NoEvents[p] = None
  BY DEF NoEvents, EventMaps, Held
<1>2. \A S \in SUBSET Pids : Last(NoEvents, S) = S
  BY <1>1 DEF Last
<1> QED BY <1>1, <1>2, FS_EmptySet

LEMMA NoBatchFields ==
    /\ NoBatch \in Batches /\ NoBatch.events = NoEvents /\ NoBatch.new = {} /\ NoBatch.dead = {}
BY NothingHeld DEF NoBatch, Batches

LEMMA MergedType ==
    ASSUME NEW old, NEW c \in BOOLEAN, old # None => old.saw_delete \in BOOLEAN
    PROVE  /\ Merged(old, c) \in Events /\ Merged(old, c) # None
           /\ Merged(old, c).is_create <=> c
           /\ Merged(old, c).saw_delete <=> ~c \/ (old # None /\ old.saw_delete)
<1>1. (~c \/ (old # None /\ old.saw_delete)) \in BOOLEAN
  BY Zenon
<1>2. Merged(old, c) \in Events
  BY <1>1 DEF Merged, Events
<1> QED BY <1>2, Params DEF Merged

\* The pending map grows by one entry at most.
LEMMA HeldAdded ==
    ASSUME NEW m \in EventMaps, NEW p \in Pids, NEW e \in Events, NEW n \in EventMaps,
           n[p] = e, \A q \in Pids : q # p => n[q] = m[q]
    PROVE  /\ Cardinality(Held(m)) \in Nat
           /\ m[p] # None => Held(n) = Held(m)
           /\ m[p] = None => Cardinality(Held(n)) = Cardinality(Held(m)) + 1
<1>2. e # None
  BY Params
<1>3. Held(n) = Held(m) \cup {p} /\ (p \in Held(m) <=> m[p] # None)
  BY <1>2 DEF Held
<1>4. IsFiniteSet(Held(m)) /\ Cardinality(Held(m)) \in Nat
  <2>1. Held(m) \subseteq Pids
    BY DEF Held
  <2>2. IsFiniteSet(Held(m))
    BY <2>1, Params, FS_Subset
  <2> QED BY <2>2, FS_CardinalityType
<1>5. p \notin Held(m) => Cardinality(Held(m) \cup {p}) = Cardinality(Held(m)) + 1
  BY <1>4, FS_AddElement
<1>6. m[p] # None => Held(n) = Held(m)
  BY <1>3
<1> QED BY <1>3, <1>4, <1>5, <1>6

\* What the state is made of.
LEMMA Types ==
    ASSUME TypeOK
    PROVE  /\ inotify \in Seq(Records) /\ Len(inotify) \in Nat /\ batch \in Batches
           /\ batch.events \in EventMaps /\ batch.new \subseteq Pids /\ batch.dead \subseteq Pids
           /\ pending \in EventMaps /\ Cardinality(Held(pending)) <= kMaxPendingEvents
           /\ tracked \subseteq Pids /\ Sorted \subseteq Pids /\ Latest \subseteq Pids
BY DEF TypeOK, Records, Batches, Sorted, Latest, Last

----------------------------------------------------------------------------
(* The steps that leave the chain alone.                                   *)

LEMMA KeptSame ==
    ASSUME NEW p \in Pids, Kept(p), UNCHANGED <<inotify, pending, batch, tracked, alive>>,
           p \in leftover' => p \in leftover,
           p \in seen \cup unread => p \in seen' \cup unread'
    PROVE  Kept(p)'
<1>1. Sorted' = Sorted /\ Latest' = Latest
  BY DEF Sorted, Latest, Last
<1>2. Chained(p)'
  BY <1>1 DEF Kept, Chained, Fresh, InTurn, Mine
<1>3. Awaited(p)' /\ Recalled(p)'
  BY DEF Kept, Awaited, Recalled, Mine
<1> QED BY <1>2, <1>3 DEF Kept

LEMMA QuietSteps ==
    ASSUME IInv,
           \/ MonitorRestarts \/ RouterLoop \/ RouterTests \/ RouterBlocks \/ SpuriousWakeup
           \/ StopNotify \/ ScanBegins \/ ScanCompletes \/ UNCHANGED vars
    PROVE  IInv'
<1>1. /\ UNCHANGED <<inotify, pending, batch, tracked, alive, births, dropped, leftover, missed>>
      /\ UNCHANGED <<running, unread>> /\ seen \subseteq seen'
  BY DEF IInv, MonitorRestarts, RouterLoop, RouterTests, RouterBlocks, SpuriousWakeup, StopNotify,
         ScanBegins, ScanCompletes, vars, kernelVars, routerVars, stopVars, history
<1>2. /\ monitor' \in {"up", "down", "stopped"} /\ (monitor' = "stopped" <=> monitor = "stopped")
      /\ stopping' \in {"no", "set", "notified", "done"} /\ (stopping' = "no" <=> stopping = "no")
  BY DEF IInv, TypeOK, MonitorRestarts, RouterLoop, RouterTests, RouterBlocks, SpuriousWakeup,
         StopNotify, ScanBegins, ScanCompletes, vars, kernelVars, routerVars, stopVars, history
<1>3. /\ rpc' \in {"top", "locked", "presleep", "asleep", "throttle", "classify", "handle", "done"}
      /\ rpc' \in {"classify", "handle"} \/ rpc \in {"classify", "handle"} => rpc' = rpc
  BY DEF IInv, TypeOK, MonitorRestarts, RouterLoop, RouterTests, RouterBlocks, SpuriousWakeup,
         StopNotify, Woken, ScanBegins, ScanCompletes, vars, kernelVars, routerVars, stopVars,
         history
<1>4. /\ rescan' \in BOOLEAN /\ owed' \in BOOLEAN /\ (cycle' = None \/ cycle' \subseteq Pids)
      /\ seen' \subseteq Pids
  BY DEF IInv, TypeOK, MonitorRestarts, Request, RouterLoop, RouterTests, RouterBlocks,
         SpuriousWakeup, StopNotify, ScanBegins, ScanCompletes, vars, kernelVars, routerVars,
         stopVars, history
<1>5. TypeOK'
  BY <1>1, <1>2, <1>3, <1>4 DEF IInv, TypeOK
<1>6. QueueOK' /\ BatchOK' /\ StopOK'
  BY <1>1, <1>2, <1>3 DEF IInv, QueueOK, BatchOK, StopOK
<1>7. monitor' # "stopped" => \A p \in Pids \ missed' : Kept(p)'
  BY <1>1, <1>2, KeptSame DEF IInv
<1> QED BY <1>5, <1>6, <1>7 DEF IInv

\* Once the monitor is stopped there is nothing left to show but types.
LEMMA StopSteps ==
    ASSUME IInv, StopSet \/ StopJoins PROVE IInv'
<1>1. monitor' = "stopped" /\ stopping' # "no" /\ running' = FALSE
  BY DEF IInv, TypeOK, StopOK, StopSet, StopJoins
<1>2. inotify' = inotify \/ inotify' = <<>>
  BY DEF StopSet, StopJoins, kernelVars
<1>3. Len(<<>>) = 0 /\ <<>> \in Seq(Records) /\ QueueLen \in Nat
  BY Params
<1>4. QueueOK'
  BY <1>2, <1>3 DEF IInv, QueueOK
<1>5. BatchOK' /\ StopOK'
  BY <1>1 DEF IInv, BatchOK, StopOK, StopSet, StopJoins, routerVars
<1>6. TypeOK'
  <2>1. inotify' \in Seq([pid : Pids \cup {None}, create : BOOLEAN]) /\ Len(inotify') <= QueueLen + 1
    <3>1. CASE inotify' = inotify
      BY <3>1 DEF IInv, TypeOK
    <3>2. CASE inotify' = <<>>
      <4>1. <<>> \in Seq([pid : Pids \cup {None}, create : BOOLEAN]) /\ Len(<<>>) <= QueueLen + 1
        BY <1>3
      <4> QED BY <3>2, <4>1
    <3> QED BY <1>2, <3>1, <3>2
  <2>2. pending' \in EventMaps /\ Cardinality(Held(pending)) <= kMaxPendingEvents
        /\ Cardinality(Held(pending))' <= kMaxPendingEvents
    <3>1. CASE pending' = pending
      BY <3>1 DEF IInv, TypeOK
    <3>2. CASE pending' = NoEvents
      <4>1. Cardinality(Held(NoEvents)) <= kMaxPendingEvents
        BY NothingHeld, Params
      <4>2. Cardinality(Held(pending))' = Cardinality(Held(NoEvents))
        BY <3>2
      <4> QED BY <3>2, <4>1, <4>2, NothingHeld DEF IInv, TypeOK
    <3> QED BY <3>1, <3>2 DEF StopSet, StopJoins, routerVars
  <2> QED BY <2>1, <2>2 DEF IInv, TypeOK, StopSet, StopJoins, kernelVars, routerVars, stopVars,
                            history
<1> QED BY <1>1, <1>4, <1>5, <1>6 DEF IInv

----------------------------------------------------------------------------
(* The router moves the chain along.                                       *)

LEMMA FlushStep ==
    ASSUME IInv, RouterFlushes PROVE IInv'
<1>1. /\ rpc = "throttle" /\ rpc' = "classify" /\ pending' = NoEvents /\ dropped' = FALSE
      /\ batch' = [NoBatch EXCEPT !.events = pending, !.dropped = dropped]
      /\ UNCHANGED <<alive, births, inotify, monitor, tracked, running, stopping, rescan, cycle>>
      /\ UNCHANGED <<owed, seen, leftover, unread, missed>>
  BY DEF RouterFlushes, kernelVars, stopVars, history
<1>2. TypeOK /\ pending \in EventMaps /\ batch = NoBatch /\ tracked \subseteq Pids
  BY <1>1, Types DEF IInv, BatchOK
<1>3. /\ batch' \in Batches /\ batch'.events = pending /\ batch'.new = {} /\ batch'.dead = {}
  BY <1>1, <1>2, NoBatchFields DEF Batches, TypeOK
<1>4. TypeOK'
  <2>1. Cardinality(Held(NoEvents)) <= kMaxPendingEvents
    BY NothingHeld, Params
  <2>2. Cardinality(Held(pending))' <= kMaxPendingEvents /\ pending' \in EventMaps
    BY <1>1, <2>1, NothingHeld
  <2> QED BY <1>1, <1>2, <1>3, <2>2 DEF TypeOK, Batches
<1>5. QueueOK' /\ BatchOK' /\ StopOK'
  BY <1>1, <1>3 DEF IInv, QueueOK, BatchOK, StopOK
<1>6. Sorted = tracked /\ Sorted' = Latest /\ Latest' = Latest
  <2>1. Sorted = tracked
    BY <1>2, NothingHeld, NoBatchFields DEF Sorted
  <2>2. Sorted' = Latest
    BY <1>1, <1>3, <2>1 DEF Sorted, Latest, Last
  <2>3. Latest' = Last(NoEvents, Latest)
    BY <1>1, <2>2 DEF Latest, Last
  <2>4. Latest \subseteq Pids
    BY <1>2, Types
  <2> QED BY <2>1, <2>2, <2>3, <2>4, NothingHeld
<1>7. ASSUME NEW p \in Pids, Kept(p) PROVE Kept(p)'
  <2>1. NoEvents[p] = None /\ batch.events[p] = None /\ p \notin batch.new \cup batch.dead
    BY <1>2, NothingHeld, NoBatchFields
  <2>2. Chained(p)'
    <3>1. Fresh(batch.events, p, tracked)'
      BY <1>1, <1>3, <1>6, <1>7 DEF Kept, Chained, Fresh
    <3>2. Fresh(pending, p, Sorted)'
      BY <1>1, <2>1 DEF Fresh
    <3>3. InTurn(inotify, p, Latest, alive)'
      BY <1>1, <1>6, <1>7 DEF Kept, Chained, InTurn, Mine
    <3> QED BY <3>1, <3>2, <3>3 DEF Chained
  <2>3. Awaited(p)' /\ Recalled(p)'
    BY <1>1, <1>3, <1>7, <2>1 DEF Kept, Awaited, Recalled, Mine
  <2> QED BY <2>2, <2>3 DEF Kept
<1> QED BY <1>1, <1>4, <1>5, <1>7 DEF IInv

LEMMA ClassifyStep ==
    ASSUME IInv, RouterClassifies PROVE IInv'
<1> DEFINE ev == batch.events
           dead == {p \in Held(ev) : ~ev[p].is_create}
           new == NewPids(ev)
<1>1. /\ rpc = "classify" /\ rpc' = "handle"
      /\ batch' = [batch EXCEPT !.events = NoEvents, !.new = new, !.dead = dead]
      /\ tracked' = (tracked \cup Held(ev)) \ dead
      /\ UNCHANGED <<alive, births, inotify, monitor, pending, dropped, running, stopping, rescan>>
      /\ UNCHANGED <<cycle, owed, seen, leftover, unread, missed>>
  BY DEF RouterClassifies, kernelVars, stopVars, history
<1>2. TypeOK /\ batch \in Batches /\ ev \in EventMaps /\ tracked \subseteq Pids
      /\ batch.new = {} /\ batch.dead = {} /\ Sorted \subseteq Pids
  BY <1>1, Types DEF IInv, BatchOK
<1>3. \A p \in Pids : /\ ev[p] # None => ev[p].is_create \in BOOLEAN /\ ev[p].saw_delete \in BOOLEAN
                      /\ p \in Held(ev) <=> ev[p] # None
  BY <1>2, EventTypes
<1>4. /\ Held(ev) \subseteq Pids /\ dead \subseteq Pids /\ new \subseteq Pids
      /\ \A p \in Pids : p \in dead <=> ev[p] # None /\ ~ev[p].is_create
      /\ \A p \in Pids : p \in new <=> ev[p] # None /\ ev[p].is_create
                                          /\ (ev[p].saw_delete \/ p \notin tracked)
  BY <1>3 DEF NewPids, Held
<1> HIDE DEF dead, new
<1>5. batch' \in Batches /\ batch'.events = NoEvents /\ batch'.new = new /\ batch'.dead = dead
  BY <1>1, <1>2, <1>4, NothingHeld DEF Batches
<1>6. TypeOK'
  <2>1. tracked' \subseteq Pids
    BY <1>1, <1>2, <1>4
  <2> QED BY <1>1, <1>2, <1>5, <2>1 DEF TypeOK, Batches
<1>7. QueueOK' /\ BatchOK' /\ StopOK'
  BY <1>1, <1>5 DEF IInv, QueueOK, BatchOK, StopOK
<1>8. tracked' = Sorted /\ Sorted' = Sorted /\ Latest' = Latest
  <2>1. \A p \in Pids : p \in tracked' <=> p \in Sorted
    BY <1>1, <1>3, <1>4 DEF Sorted, Last
  <2>2. tracked' = Sorted
    BY <1>1, <1>2, <1>4, <2>1
  <2>3. Sorted' = Last(NoEvents, tracked')
    BY <1>5 DEF Sorted, Last
  <2>4. Sorted' = Sorted
    BY <1>2, <2>2, <2>3, NothingHeld
  <2> QED BY <1>1, <2>2, <2>4 DEF Latest, Last
<1>9. ASSUME NEW p \in Pids, Kept(p) PROVE Kept(p)'
  <2>1. NoEvents[p] = None
    BY NothingHeld
  <2>2. Chained(p)'
    <3>1. Fresh(batch.events, p, tracked)'
      BY <1>5, <2>1 DEF Fresh
    <3>2. Fresh(pending, p, Sorted)'
      BY <1>1, <1>8, <1>9 DEF Kept, Chained, Fresh
    <3>3. InTurn(inotify, p, Latest, alive)'
      BY <1>1, <1>8, <1>9 DEF Kept, Chained, InTurn, Mine
    <3> QED BY <3>1, <3>2, <3>3 DEF Chained
  <2>3. Recalled(p)'
    <3>1. ev[p] # None /\ ev[p].saw_delete => p \in new \cup dead
      BY <1>3, <1>4
    <3> QED BY <1>1, <1>2, <1>5, <1>9, <3>1 DEF Kept, Recalled, Mine
  \* The last event on its way is a creation: the process is taken for new.
  <2>4. Awaited(p)'
    <3> SUFFICES ASSUME p \in alive \ (seen \cup unread), Mine(inotify, p) = {}, pending[p] = None
                 PROVE  p \in new
      BY <1>1, <1>5, <2>1 DEF Awaited, Mine
    <3>1. ev[p] # None
      BY <1>2, <1>9 DEF Kept, Awaited
    <3>2. p \in Latest
      BY <1>9 DEF Kept, Chained, InTurn
    <3>3. ev[p].is_create
      BY <3>1, <3>2 DEF Latest, Sorted, Last
    <3>4. ev[p].saw_delete \/ p \notin tracked
      BY <1>9, <3>1 DEF Kept, Chained, Fresh
    <3> QED BY <1>4, <3>1, <3>3, <3>4
  <2> QED BY <2>2, <2>3, <2>4 DEF Kept
<1> QED BY <1>1, <1>6, <1>7, <1>9 DEF IInv

LEMMA HandleSteps ==
    ASSUME IInv, RouterHandles \/ HandlerFails PROVE IInv'
<1>1. /\ rpc = "handle" /\ rpc' = "top" /\ batch' = NoBatch
      /\ UNCHANGED <<alive, births, inotify, monitor, pending, dropped, tracked, running, stopping>>
      /\ UNCHANGED cycle
  BY DEF RouterHandles, HandlerFails, kernelVars, stopVars
<1>2. TypeOK /\ batch.events = NoEvents /\ batch.new \subseteq Pids /\ batch.dead \subseteq Pids
  BY <1>1, Types DEF IInv, BatchOK
<1>3. /\ seen' \subseteq Pids /\ leftover' \subseteq Pids /\ missed' \subseteq Pids
      /\ rescan' \in BOOLEAN /\ owed' \in BOOLEAN /\ missed \subseteq missed' /\ seen \subseteq seen'
      /\ leftover' \subseteq leftover /\ unread \subseteq unread' /\ unread' \subseteq Pids
      /\ \A p \in Pids \ missed' : p \in batch.new \cup batch.dead => p \notin leftover'
      /\ \A p \in Pids \ missed' : p \in batch.new /\ p \in alive => p \in seen' \cup unread'
  BY <1>2 DEF TypeOK, RouterHandles, HandlerFails, Request
<1>4. TypeOK'
  <2>1. batch' \in [events : EventMaps, new : SUBSET Pids, dead : SUBSET Pids, dropped : BOOLEAN]
    BY <1>1, NoBatchFields DEF Batches
  <2> QED BY <1>1, <1>2, <1>3, <2>1 DEF TypeOK
<1>5. QueueOK' /\ BatchOK' /\ StopOK'
  BY <1>1 DEF IInv, QueueOK, BatchOK, StopOK
<1>6. batch'.events = batch.events
  BY <1>1, <1>2, NoBatchFields
<1>7. Sorted' = Sorted /\ Latest' = Latest
  BY <1>1, <1>6 DEF Sorted, Latest, Last
<1>8. ASSUME NEW p \in Pids \ missed', Kept(p) PROVE Kept(p)'
  <2>1. batch.events[p] = None
    BY <1>2, NothingHeld
  <2>2. Chained(p)'
    BY <1>1, <1>6, <1>7, <1>8 DEF Kept, Chained, Fresh, InTurn, Mine
  <2>3. Awaited(p)'
    BY <1>1, <1>3, <1>8, <2>1 DEF Kept, Awaited, Mine
  <2>4. Recalled(p)'
    BY <1>1, <1>3, <1>8, <2>1 DEF Kept, Recalled, Mine
  <2> QED BY <2>2, <2>3, <2>4 DEF Kept
<1> QED BY <1>1, <1>3, <1>4, <1>5, <1>8 DEF IInv

----------------------------------------------------------------------------
(* The queue: records come and are read.                                   *)

\* A record of p that does not fit makes p one of the missed; no other PID's
\* records change.
LEMMA Recorded ==
    ASSUME IInv, NEW p \in Pids, NEW c \in BOOLEAN, Record(p, c)
    PROVE  /\ inotify' \in Seq(Records) /\ Len(inotify') <= QueueLen + 1 /\ QueueOK'
           /\ missed \subseteq missed' /\ missed' \subseteq missed \cup {p}
           /\ \/ inotify' = Append(inotify, [pid |-> p, create |-> c])
              \/ p \in missed' /\ inotify' = Append(inotify, Overflow)
              \/ p \in missed' /\ inotify' = inotify
<1>1. inotify \in Seq(Records) /\ Len(inotify) \in Nat /\ Len(inotify) <= QueueLen + 1
      /\ QueueOK /\ QueueLen \in Nat /\ QueueLen >= 1 /\ p # None
  BY Types, Params DEF IInv, TypeOK
<1> DEFINE n == Len(inotify)
           r == [pid |-> p, create |-> c]
<1>2. r \in Records /\ Overflow \in Records /\ r.pid = p
  BY DEF Records, Overflow
<1>3. CASE monitor = "up" /\ n < QueueLen
  <2>1. inotify' = Append(inotify, r) /\ missed' = missed
    BY <1>3 DEF Record
  <2>2. /\ Append(inotify, r) \in Seq(Records) /\ Len(Append(inotify, r)) = n + 1
        /\ Append(inotify, r)[n + 1] = r /\ \A i \in 1..n : Append(inotify, r)[i] = inotify[i]
    BY <1>1, <1>2, Appended
  <2> DEFINE s == Append(inotify, r)
  <2> HIDE DEF s
  <2>3. Len(s) <= QueueLen /\ Len(s) <= QueueLen + 1
    BY <1>1, <1>3, <2>2 DEF s
  <2>4. \A i \in 1..Len(s) : s[i].pid = None => s[i] = Overflow
    <3>1. \A i \in 1..(n + 1) : i = n + 1 \/ i \in 1..n
      BY <1>1
    <3> QED BY <1>1, <1>2, <2>2, <3>1 DEF QueueOK, s
  <2>5. QueueOK'
    <3>1. ~(Len(s) > QueueLen)
      BY <1>1, <2>2, <2>3 DEF s
    <3>2. inotify' = s
      BY <2>1 DEF s
    <3> QED BY <2>4, <3>1, <3>2 DEF QueueOK
  <2> QED BY <2>1, <2>2, <2>3, <2>5 DEF s
<1>4. CASE ~(monitor = "up" /\ n < QueueLen) /\ monitor = "up" /\ inotify[n] # Overflow
  <2>1. inotify' = Append(inotify, Overflow) /\ missed' = missed \cup {p}
    BY <1>4 DEF Record
  <2>2. /\ Append(inotify, Overflow) \in Seq(Records) /\ Len(Append(inotify, Overflow)) = n + 1
        /\ Append(inotify, Overflow)[n + 1] = Overflow
        /\ \A i \in 1..n : Append(inotify, Overflow)[i] = inotify[i]
    BY <1>1, <1>2, Appended
  <2> DEFINE s == Append(inotify, Overflow)
  <2> HIDE DEF s
  <2>3. n <= QueueLen
    BY <1>1, <1>4 DEF QueueOK
  <2>4. Len(s) <= QueueLen + 1 /\ s[Len(s)] = Overflow
    BY <1>1, <2>2, <2>3 DEF s
  <2>5. \A i \in 1..Len(s) : s[i].pid = None => s[i] = Overflow
    <3>1. \A i \in 1..(n + 1) : i = n + 1 \/ i \in 1..n
      BY <1>1
    <3> QED BY <1>1, <2>2, <3>1 DEF QueueOK, s
  <2>6. QueueOK'
    <3>1. inotify' = s
      BY <2>1 DEF s
    <3> QED BY <2>4, <2>5, <3>1 DEF QueueOK
  <2> QED BY <2>1, <2>2, <2>4, <2>6 DEF s
<1>5. CASE ~(monitor = "up" /\ n < QueueLen) /\ ~(monitor = "up" /\ inotify[n] # Overflow)
  <2>1. inotify' = inotify /\ missed' = missed \cup {p}
    BY <1>5 DEF Record
  <2> QED BY <1>1, <2>1 DEF QueueOK
<1> QED BY <1>3, <1>4, <1>5

LEMMA ProcessSteps ==
    ASSUME IInv, NEW p \in Pids, ProcessCreated(p) \/ ProcessExited(p)
    PROVE  IInv'
<1>1. PICK c \in BOOLEAN :
        /\ Record(p, c) /\ (p \in alive <=> ~c) /\ (p \in alive' <=> c)
        /\ \A q \in Pids : q # p => (q \in alive' <=> q \in alive) /\ (q \in seen' <=> q \in seen)
                                    /\ (q \in unread' <=> q \in unread)
                                    /\ (q \in leftover' => q \in leftover)
        /\ c => leftover' = leftover
        /\ alive' \subseteq Pids /\ seen' \subseteq Pids /\ leftover' \subseteq Pids
        /\ unread' \subseteq Pids
        /\ births' \in 0..MaxBirths
  <2>1. CASE ProcessCreated(p)
    <3>1. births' \in 0..MaxBirths
      <4>1. births \in Nat /\ births < MaxBirths /\ MaxBirths \in Nat
        BY <2>1, Params DEF ProcessCreated, IInv, TypeOK
      <4>2. births + 1 \in 0..MaxBirths
        BY <4>1
      <4> QED BY <2>1, <4>2 DEF ProcessCreated
    <3> QED BY <2>1, <3>1 DEF ProcessCreated, IInv, TypeOK
  <2>2. CASE ProcessExited(p)
    BY <2>2 DEF ProcessExited, IInv, TypeOK
  <2> QED BY <2>1, <2>2
<1>2. /\ UNCHANGED <<monitor, pending, dropped, tracked, rpc, batch, running, stopping, rescan>>
      /\ UNCHANGED <<cycle, owed>>
  BY DEF ProcessCreated, ProcessExited, routerVars, stopVars
<1> DEFINE r == [pid |-> p, create |-> c]
<1>3. /\ inotify' \in Seq(Records) /\ Len(inotify') <= QueueLen + 1 /\ QueueOK'
      /\ missed \subseteq missed' /\ missed' \subseteq missed \cup {p}
      /\ \/ inotify' = Append(inotify, r)
         \/ p \in missed' /\ inotify' = Append(inotify, Overflow)
         \/ p \in missed' /\ inotify' = inotify
  BY <1>1, Recorded
<1>4. /\ r \in Records /\ Overflow \in Records /\ r.pid = p /\ r.create = c /\ Overflow.pid = None
      /\ inotify \in Seq(Records) /\ TypeOK
  BY Types DEF Records, Overflow, IInv
<1> HIDE DEF r
<1>5. TypeOK'
  BY <1>1, <1>2, <1>3, <1>4 DEF TypeOK, Records
<1>6. BatchOK' /\ StopOK'
  BY <1>2 DEF IInv, BatchOK, StopOK
<1>7. Sorted' = Sorted /\ Latest' = Latest
  BY <1>2 DEF Sorted, Latest, Last
<1>8. ASSUME NEW q \in Pids \ missed', Kept(q) PROVE Kept(q)'
  <2>1. InTurn(inotify, q, Latest, alive) /\ q # None
    BY <1>8, Params DEF Kept, Chained
  <2>2. CASE q = p
    <3>1. inotify' = Append(inotify, r)
      BY <1>3, <1>8, <2>2
    <3>2. /\ Mine(inotify', p) = Mine(inotify, p) \cup {Len(inotify) + 1}
          /\ \A i \in Mine(inotify, p) : inotify'[i] = inotify[i]
          /\ inotify'[Len(inotify) + 1] = r
      <4>1. Extends(inotify', inotify, r)
        BY <1>4, <3>1 DEF Extends
      <4> QED BY <1>4, <4>1, MineThen
    <3>3. InTurn(inotify', p, Latest, alive')
      BY <1>1, <1>4, <2>1, <2>2, <3>1, TurnAppended
    <3>4. Chained(p)'
      BY <1>2, <1>7, <1>8, <2>2, <3>3 DEF Kept, Chained, Fresh
    <3>5. Awaited(p)'
      BY <3>2 DEF Awaited
    <3>6. Recalled(p)'
      <4>1. CASE c
        BY <1>1, <1>2, <1>8, <2>2, <3>2, <4>1 DEF Kept, Recalled
      <4>2. CASE ~c
        BY <1>4, <3>2, <4>2 DEF Recalled
      <4> QED BY <4>1, <4>2
    <3> QED BY <2>2, <3>4, <3>5, <3>6 DEF Kept
  <2>3. CASE q # p
    <3>1. InTurn(inotify', q, Latest, alive)
      BY <1>3, <1>4, <2>1, <2>3, TurnAppendedOther
    <3>2. InTurn(inotify', q, Latest, alive')
      BY <1>1, <2>3, <3>1, TurnSame
    <3>3. Mine(inotify', q) = Mine(inotify, q) /\ \A i \in Mine(inotify, q) : inotify'[i] = inotify[i]
      <4>1. CASE inotify' = inotify
        BY <4>1
      <4>2. CASE inotify' # inotify
        <5>1. CASE inotify' = Append(inotify, r)
          <6>1. Extends(inotify', inotify, r)
            BY <1>4, <5>1 DEF Extends
          <6>2. r.pid # q
            BY <1>4, <2>3
          <6>3. inotify \in Seq(Records) /\ r \in Records
            BY <1>4
          <6> QED BY <6>1, <6>2, <6>3, MineSkips
        <5>2. CASE inotify' = Append(inotify, Overflow)
          <6>1. PICK x \in Records : x = Overflow
            BY <1>4
          <6>2. Extends(inotify', inotify, x) /\ x.pid # q /\ inotify \in Seq(Records)
            BY <1>4, <2>1, <5>2, <6>1 DEF Extends
          <6> QED BY <6>2, MineSkips
        <5> QED BY <1>3, <4>2, <5>1, <5>2
      <4> QED BY <4>1, <4>2
    <3>4. Chained(q)'
      BY <1>2, <1>7, <1>8, <3>2 DEF Kept, Chained, Fresh
    <3>5. Awaited(q)' /\ Recalled(q)'
      BY <1>1, <1>2, <1>8, <2>3, <3>3 DEF Kept, Awaited, Recalled
    <3> QED BY <3>4, <3>5 DEF Kept
  <2> QED BY <2>2, <2>3
<1> QED BY <1>2, <1>3, <1>5, <1>6, <1>8 DEF IInv

\* Reading a record takes it off every chain it is not part of unseen.
LEMMA ReadOther ==
    ASSUME IInv, inotify # <<>>, inotify' = Tail(inotify), NEW q \in Pids, Kept(q),
           Head(inotify).pid # q, pending'[q] = pending[q],
           UNCHANGED <<alive, tracked, batch, seen, leftover, unread>>
    PROVE  Kept(q)'
<1>1. inotify \in Seq(Records) /\ InTurn(inotify, q, Latest, alive)
  BY Types DEF IInv, Kept, Chained
<1>2. InTurn(inotify', q, Latest, alive)
  BY <1>1, TurnTailOther
<1>3. Sorted' = Sorted /\ (q \in Latest' <=> q \in Latest)
  BY DEF Sorted, Latest, Last
<1>4. InTurn(inotify', q, Latest', alive')
  BY <1>2, <1>3, TurnSame
<1>5. /\ Mine(inotify, q) # {} => Mine(inotify', q) # {}
      /\ (\E i \in Mine(inotify, q) : ~inotify[i].create) =>
            \E i \in Mine(inotify', q) : ~inotify'[i].create
  <2>1. ASSUME NEW k \in Mine(inotify, q)
        PROVE  \E i \in Mine(inotify', q) : inotify'[i] = inotify[k]
    <3>1. /\ k \in Nat /\ k - 1 \in Mine(inotify', q)
          /\ \A i \in Mine(inotify', q) : inotify'[i] = inotify[i + 1]
      BY <1>1, MineTail
    <3>2. (k - 1) + 1 = k
      BY <3>1
    <3>3. inotify'[k - 1] = inotify[k]
      BY <3>1, <3>2
    <3> QED BY <3>1, <3>3
  <2> QED BY <2>1
<1>6. Chained(q)'
  BY <1>3, <1>4 DEF Kept, Chained, Fresh
<1>7. Awaited(q)' /\ Recalled(q)'
  BY <1>5 DEF Kept, Awaited, Recalled
<1> QED BY <1>6, <1>7 DEF Kept

\* A record merged into the pending map stands for all it replaces.
LEMMA ReadOwn ==
    ASSUME IInv, inotify # <<>>, inotify' = Tail(inotify), NEW p \in Pids, Kept(p),
           Head(inotify).pid = p, pending'[p] = Merged(pending[p], Head(inotify).create),
           UNCHANGED <<alive, tracked, batch, seen, leftover, unread>>
    PROVE  Kept(p)'
<1> DEFINE c == Head(inotify).create
           old == pending[p]
           e == Merged(old, c)
<1>1. inotify \in Seq(Records) /\ pending \in EventMaps /\ InTurn(inotify, p, Latest, alive)
  BY Types DEF IInv, Kept, Chained
<1>2. c \in BOOLEAN
  BY <1>1, TailOf DEF Records
<1>3. old # None => old.saw_delete \in BOOLEAN /\ old.is_create \in BOOLEAN
  BY <1>1, EventTypes
<1>4. /\ e # None /\ (e.is_create <=> c) /\ (e.saw_delete <=> ~c \/ (old # None /\ old.saw_delete))
  BY <1>2, <1>3, MergedType
<1>5. pending'[p] = e
  OBVIOUS
<1> HIDE DEF e
<1>6. Sorted' = Sorted /\ (p \in Latest' <=> c)
  BY <1>4, <1>5 DEF Sorted, Latest, Last
<1>7. (c <=> p \notin Latest) /\ InTurn(inotify', p, Latest', alive')
  <2>1. (c <=> p \notin Latest) /\ InTurn(Tail(inotify), p, Latest', alive)
    BY <1>1, <1>6, TurnTail
  <2> QED BY <2>1
<1>8. Fresh(pending, p, Sorted)'
  <2>1. ASSUME ~e.saw_delete PROVE e.is_create /\ p \notin Sorted
    <3>1. c /\ p \notin Latest /\ (old # None => ~old.saw_delete)
      BY <1>4, <1>7, <2>1
    <3>2. old # None => old.is_create
      BY <3>1 DEF Kept, Chained, Fresh
    <3>3. old = None
      BY <3>1, <3>2 DEF Latest, Last
    <3>4. p \notin Sorted
      BY <3>1, <3>3 DEF Latest, Last
    <3> QED BY <1>4, <3>1, <3>4
  <2> QED BY <1>5, <1>6, <2>1 DEF Fresh
<1>9. Chained(p)'
  BY <1>7, <1>8 DEF Kept, Chained, Fresh
<1>10. Awaited(p)'
  BY <1>4, <1>5 DEF Awaited
<1>11. Recalled(p)'
  <2> SUFFICES ASSUME p \in leftover
               PROVE  \/ \E i \in Mine(inotify', p) : ~inotify'[i].create
                      \/ e.saw_delete
                      \/ batch.events[p] # None /\ batch.events[p].saw_delete
                      \/ p \in batch.new \cup batch.dead
    BY <1>4, <1>5 DEF Recalled
  <2>1. CASE \E i \in Mine(inotify, p) : ~inotify[i].create
    <3>1. PICK k \in Mine(inotify, p) : ~inotify[k].create
      BY <2>1
    <3>2. /\ k \in Nat /\ (k # 1 => k - 1 \in Mine(inotify', p)) /\ Head(inotify) = inotify[1]
          /\ \A i \in Mine(inotify', p) : inotify'[i] = inotify[i + 1]
      BY <1>1, MineTail
    <3>3. CASE k = 1
      BY <1>4, <3>1, <3>2, <3>3
    <3>4. CASE k # 1
      <4>1. (k - 1) + 1 = k
        BY <3>2
      <4>2. inotify'[k - 1] = inotify[k] /\ k - 1 \in Mine(inotify', p)
        BY <3>2, <3>4, <4>1
      <4> QED BY <3>1, <4>2
    <3> QED BY <3>3, <3>4
  <2>2. CASE old # None /\ old.saw_delete
    BY <1>4, <2>2
  <2> QED BY <2>1, <2>2 DEF Kept, Recalled
<1> QED BY <1>9, <1>10, <1>11 DEF Kept

LEMMA EventAdded ==
    ASSUME NEW p, NEW c, running, AddEvent(p, c)
    PROVE  \/ UNCHANGED pending /\ missed' = missed \cup {p}
           \/ /\ missed' = missed
              /\ ~(pending[p] = None /\ Cardinality(Held(pending)) >= kMaxPendingEvents)
              /\ pending' = [pending EXCEPT ![p] = Merged(pending[p], c)]
<1>1. CASE pending[p] = None /\ Cardinality(Held(pending)) >= kMaxPendingEvents
  BY <1>1 DEF AddEvent
<1>2. CASE ~(pending[p] = None /\ Cardinality(Held(pending)) >= kMaxPendingEvents)
  BY <1>2 DEF AddEvent
<1> QED BY <1>1, <1>2

LEMMA ReadsStep ==
    ASSUME IInv, MonitorReads PROVE IInv'
<1> DEFINE r == Head(inotify)
<1>1. /\ monitor = "up" /\ inotify # <<>> /\ inotify' = Tail(inotify)
      /\ UNCHANGED <<alive, births, monitor, tracked, batch, running, stopping, cycle>>
      /\ UNCHANGED <<seen, leftover, unread>>
      /\ IF r = Overflow
         THEN Request /\ UNCHANGED <<pending, dropped, rpc, missed>>
         ELSE AddEvent(r.pid, r.create) /\ UNCHANGED <<rescan, owed>>
  BY DEF MonitorReads, stopVars
<1>2. /\ TypeOK /\ QueueOK /\ inotify \in Seq(Records) /\ pending \in EventMaps
      /\ Cardinality(Held(pending)) <= kMaxPendingEvents /\ QueueLen \in Nat
      /\ \A p \in Pids \ missed : Kept(p)
  BY <1>1, Types, Params DEF IInv
<1>3. /\ Tail(inotify) \in Seq(Records) /\ Len(Tail(inotify)) = Len(inotify) - 1 /\ r = inotify[1]
      /\ Len(inotify) \in Nat /\ Len(inotify) >= 1 /\ r \in Records
      /\ \A i \in 1..Len(inotify) - 1 : Tail(inotify)[i] = inotify[i + 1]
  BY <1>1, <1>2, TailOf
<1>4. inotify' \in Seq(Records) /\ Len(inotify') <= QueueLen + 1 /\ QueueOK'
  <2> DEFINE s == Tail(inotify)
             n == Len(inotify)
  <2>1. n <= QueueLen + 1
    BY <1>2 DEF TypeOK
  <2>2. n > QueueLen => inotify[n] = Overflow
    BY <1>2 DEF QueueOK
  <2>3. \A i \in 1..n : inotify[i].pid = None => inotify[i] = Overflow
    BY <1>2 DEF QueueOK
  <2>4. Len(s) = n - 1 /\ n \in Nat /\ n >= 1 /\ \A i \in 1..(n - 1) : s[i] = inotify[i + 1]
    BY <1>3
  <2> HIDE DEF s, n
  <2>5. Len(s) <= QueueLen + 1 /\ ~(Len(s) > QueueLen)
    BY <1>2, <2>1, <2>4
  <2>6. \A i \in 1..Len(s) : s[i].pid = None => s[i] = Overflow
    <3>1. \A i \in 1..(n - 1) : i + 1 \in 1..n
      BY <2>4
    <3> QED BY <2>3, <2>4, <3>1
  <2>7. inotify' = s
    BY <1>1 DEF s
  <2> QED BY <1>3, <2>5, <2>6, <2>7 DEF QueueOK, s
<1>5. r # Overflow => r.pid \in Pids /\ r.create \in BOOLEAN
  BY <1>2, <1>3 DEF QueueOK, Records
<1>6. running
  BY <1>1, <1>2 DEF IInv, StopOK, TypeOK
<1>7. /\ rpc' \in {"top", "locked", "presleep", "asleep", "throttle", "classify", "handle", "done"}
      /\ rpc' \in {"classify", "handle"} \/ rpc \in {"classify", "handle"} => rpc' = rpc
      /\ dropped' \in BOOLEAN /\ rescan' \in BOOLEAN /\ owed' \in BOOLEAN
  BY <1>1, <1>2, <1>6 DEF TypeOK, AddEvent, Woken, Request
<1>8. BatchOK' /\ StopOK'
  BY <1>1, <1>7 DEF IInv, BatchOK, StopOK
<1>9. CASE UNCHANGED pending /\ ((r = Overflow /\ missed' = missed)
                                 \/ (r # Overflow /\ missed' = missed \cup {r.pid}))
  <2>1. TypeOK'
    BY <1>1, <1>2, <1>4, <1>5, <1>7, <1>9 DEF TypeOK, Records
  <2>2. ASSUME NEW q \in Pids \ missed' PROVE Kept(q)'
    <3>1. r.pid # q
      BY <1>9, <2>2, Params DEF Overflow
    <3>2. Kept(q)
      BY <1>2, <1>9, <2>2
    <3> QED BY <1>1, <1>9, <3>1, <3>2, ReadOther
  <2> QED BY <1>4, <1>8, <2>1, <2>2 DEF IInv
<1>10. CASE /\ r # Overflow /\ missed' = missed
            /\ ~(pending[r.pid] = None /\ Cardinality(Held(pending)) >= kMaxPendingEvents)
            /\ pending' = [pending EXCEPT ![r.pid] = Merged(pending[r.pid], r.create)]
  <2> DEFINE p == r.pid
             e == Merged(pending[p], r.create)
  <2>1. p \in Pids /\ r.create \in BOOLEAN
    BY <1>5, <1>10
  <2>2. e \in Events
    BY <1>2, <2>1, EventTypes, MergedType
  <2> HIDE DEF e
  <2>3. /\ pending' \in EventMaps /\ pending'[p] = e
        /\ \A q \in Pids : q # p => pending'[q] = pending[q]
        /\ Cardinality(Held(pending)) \in Nat
        /\ pending[p] # None => Held(pending') = Held(pending)
        /\ pending[p] = None => Cardinality(Held(pending')) = Cardinality(Held(pending)) + 1
    <3>1. pending' = [pending EXCEPT ![p] = e]
      BY <1>10 DEF e
    <3> HIDE DEF p
    <3>2. /\ pending' \in EventMaps /\ pending'[p] = e
          /\ \A q \in Pids : q # p => pending'[q] = pending[q]
      BY <1>2, <2>1, <2>2, <3>1 DEF EventMaps
    <3> QED BY <1>2, <2>1, <2>2, <3>2, HeldAdded
  <2>4. Cardinality(Held(pending')) <= kMaxPendingEvents
    <3>1. CASE pending[p] # None
      BY <1>2, <2>3, <3>1
    <3>2. CASE pending[p] = None
      <4>1. ~(Cardinality(Held(pending)) >= kMaxPendingEvents)
        BY <1>10, <3>2
      <4> HIDE DEF p
      <4> QED BY <2>3, <3>2, <4>1, Params
    <3> QED BY <3>1, <3>2
  <2>5. TypeOK'
    BY <1>1, <1>2, <1>4, <1>7, <1>10, <2>3, <2>4 DEF TypeOK, Records
  <2>6. ASSUME NEW q \in Pids \ missed' PROVE Kept(q)'
    <3>1. Kept(q)
      BY <1>2, <1>10, <2>6
    <3>2. CASE q = p
      <4>1. pending'[q] = Merged(pending[q], r.create)
        BY <2>3, <3>2 DEF e
      <4> QED BY <1>1, <3>1, <3>2, <4>1, ReadOwn
    <3>3. CASE q # p
      BY <1>1, <2>3, <3>1, <3>3, ReadOther
    <3> QED BY <3>2, <3>3
  <2> QED BY <1>4, <1>8, <2>5, <2>6 DEF IInv
<1>11. CASE r = Overflow
  <2>1. UNCHANGED pending /\ missed' = missed
    BY <1>1, <1>11
  <2> HIDE DEF r
  <2> QED BY <1>9, <1>11, <2>1
<1>12. CASE r # Overflow
  <2>1. AddEvent(r.pid, r.create)
    BY <1>1, <1>12
  <2> HIDE DEF r
  <2> QED BY <1>6, <1>9, <1>10, <1>12, <2>1, EventAdded
<1> QED BY <1>11, <1>12

LEMMA FailsStep ==
    ASSUME IInv, MonitorFails PROVE IInv'
<1>1. /\ monitor = "up" /\ monitor' = "down" /\ inotify' = <<>>
      /\ missed' = missed \cup ({inotify[i].pid : i \in 1..Len(inotify)} \ {None})
      /\ UNCHANGED <<alive, births, pending, dropped, tracked, rpc, batch, running, stopping>>
      /\ UNCHANGED <<rescan, cycle, owed, seen, leftover, unread>>
  BY DEF MonitorFails, routerVars, stopVars
<1>2. TypeOK /\ inotify \in Seq(Records) /\ QueueLen \in Nat /\ \A p \in Pids \ missed : Kept(p)
  BY <1>1, Types, Params DEF IInv
<1>3. missed' \subseteq Pids
  <2>1. \A i \in 1..Len(inotify) : inotify[i].pid \in Pids \cup {None}
    <3>1. \A i \in 1..Len(inotify) : inotify[i] \in Records
      BY <1>2
    <3>2. \A x \in Records : x.pid \in Pids \cup {None}
      BY DEF Records
    <3> QED BY <3>1, <3>2
  <2> QED BY <1>1, <1>2, <2>1 DEF TypeOK
<1>4. /\ <<>> \in Seq([pid : Pids \cup {None}, create : BOOLEAN]) /\ Len(<<>>) = 0
      /\ Len(<<>>) <= QueueLen + 1 /\ ~(Len(<<>>) > QueueLen) /\ 1..0 = {}
  BY <1>2
<1>5. TypeOK'
  BY <1>1, <1>2, <1>3, <1>4 DEF TypeOK
<1>6. QueueOK' /\ BatchOK' /\ StopOK'
  <2>1. QueueOK'
    BY <1>1, <1>4 DEF QueueOK
  <2> QED BY <1>1, <2>1 DEF IInv, BatchOK, StopOK, TypeOK
<1>7. Sorted' = Sorted /\ Latest' = Latest
  BY <1>1 DEF Sorted, Latest, Last
<1>8. ASSUME NEW p \in Pids \ missed' PROVE Kept(p)'
  <2>1. Kept(p) /\ Mine(inotify, p) = {}
    BY <1>1, <1>2, <1>8, Params DEF Mine
  <2>2. Mine(inotify', p) = {}
    BY <1>1, <1>4 DEF Mine
  <2>3. InTurn(inotify', p, Latest', alive')
    BY <1>1, <1>7, <2>1, <2>2 DEF Kept, Chained, InTurn
  <2>4. Chained(p)'
    BY <1>1, <1>7, <2>1, <2>3 DEF Kept, Chained, Fresh
  <2>5. Awaited(p)' /\ Recalled(p)'
    BY <1>1, <2>1, <2>2 DEF Kept, Awaited, Recalled
  <2> QED BY <2>4, <2>5 DEF Kept
<1> QED BY <1>5, <1>6, <1>8 DEF IInv

----------------------------------------------------------------------------
(* The theorems.                                                           *)

LEMMA InitIInv == Init => IInv
<1> SUFFICES ASSUME Init PROVE IInv
  OBVIOUS
<1>1. /\ alive = {} /\ inotify = <<>> /\ monitor = "up" /\ pending = NoEvents /\ tracked = {}
      /\ batch = NoBatch /\ seen = {} /\ leftover = {} /\ unread = {}
  BY DEF Init
<1>2. /\ <<>> \in Seq([pid : Pids \cup {None}, create : BOOLEAN]) /\ Len(<<>>) = 0
      /\ Len(<<>>) <= QueueLen + 1 /\ ~(Len(<<>>) > QueueLen) /\ 1..0 = {}
      /\ 0 \in 0..MaxBirths /\ 0 <= kMaxPendingEvents
  BY Params
<1>3. TypeOK
  BY <1>2, NothingHeld, NoBatchFields DEF Init, TypeOK, Batches
<1>4. QueueOK /\ BatchOK /\ StopOK
  BY <1>2 DEF Init, QueueOK, BatchOK, StopOK
<1>5. Sorted = {} /\ Latest = {}
  <2>1. Sorted = {}
    BY <1>1, NothingHeld, NoBatchFields DEF Sorted
  <2> QED BY <1>1, <2>1, NothingHeld DEF Latest
<1>6. ASSUME NEW p \in Pids PROVE Kept(p)
  <2>1. Mine(inotify, p) = {}
    BY <1>1, <1>2 DEF Mine
  <2>2. pending[p] = None /\ batch.events[p] = None
    BY <1>1, NothingHeld, NoBatchFields
  <2> QED BY <1>1, <1>5, <2>1, <2>2 DEF Kept, Chained, Fresh, InTurn, Awaited, Recalled
<1> QED BY <1>3, <1>4, <1>6 DEF IInv

LEMMA NextIInv == IInv /\ [Next]_vars => IInv'
<1> SUFFICES ASSUME IInv, [Next]_vars PROVE IInv'
  OBVIOUS
<1>1. CASE \E p \in Pids : ProcessCreated(p) \/ ProcessExited(p)
  BY <1>1, ProcessSteps
<1> QED BY <1>1, QuietSteps, StopSteps, FlushStep, ClassifyStep, HandleSteps, ReadsStep, FailsStep
           DEF Next

\* The inductive invariant: types and limits, and the unbroken chain of every
\* PID none of whose events was lost.
THEOREM EventInvariant == Spec => []IInv
<1>1. Init => IInv
  BY InitIInv
<1>2. IInv /\ [Next]_vars => IInv'
  BY NextIInv
<1> QED BY <1>1, <1>2, PTL DEF Spec

\* Types, and the limits of both queues: add_event never holds more than
\* kMaxPendingEvents PIDs, the kernel's queue no more than one record over
\* its length.
THEOREM EventTypesHold == Spec => []TypeOK
<1>1. IInv => TypeOK
  BY DEF IInv
<1> QED BY <1>1, EventInvariant, PTL

LEMMA QuietChain ==
    ASSUME IInv, Quiet
    PROVE  \A p \in Pids \ missed : p \notin alive \ (seen \cup unread) /\ p \notin leftover
<1> SUFFICES ASSUME NEW p \in Pids \ missed PROVE p \notin alive \ (seen \cup unread) /\ p \notin leftover
  OBVIOUS
<1>1. Kept(p)
  BY DEF IInv, Quiet
<1>2. batch = NoBatch /\ pending[p] = None /\ inotify = <<>>
  BY DEF IInv, BatchOK, Quiet, Held
<1>3. Mine(inotify, p) = {}
  BY <1>2 DEF Mine
<1>4. batch.events[p] = None /\ p \notin batch.new \cup batch.dead
  BY <1>2, NoBatchFields, NothingHeld
<1> QED BY <1>1, <1>2, <1>3, <1>4 DEF Kept, Awaited, Recalled

\* Once nothing is in flight, every live process has been inspected by main's
\* handler or by a scan, however router_loop merged and sorted its events
\* with those of earlier processes of the PID, unless one of them was lost or
\* the handler could not read its status.
THEOREM NewProcessesAreInspected == Spec => []NewProcessInspected
<1>1. IInv => NewProcessInspected
  BY QuietChain DEF NewProcessInspected, IInv, TypeOK
<1> QED BY <1>1, EventInvariant, PTL

\* And the handler has reset the cache for every PID whose process went.
THEOREM DeadProcessesAreForgotten == Spec => []DeadProcessForgotten
<1>1. IInv => DeadProcessForgotten
  BY QuietChain DEF DeadProcessForgotten, IInv, TypeOK
<1> QED BY <1>1, EventInvariant, PTL
============================================================================
