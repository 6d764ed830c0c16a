------------------------ MODULE ThreadCustodyProofs ------------------------
(***************************************************************************)
(* Custody for every number of threads, workers, rules and configurations. *)
(*                                                                         *)
(* All that is promised of a thread is promised of a live one that is not  *)
(* disturbed; Safe(t) gathers it.  A job is a thread's own if it carries   *)
(* its start time.  WorkerOf gives all jobs of an identity to one worker,  *)
(* so a thread has one own job at most; a step of any other job either     *)
(* leaves the thread and its entry alone or disturbs it.  What is left to  *)
(* show is that the own job is right, and OwnJob says what it knows:       *)
(* between a lookup and the last settlement, the baseline and the managed  *)
(* dimensions it works from are still those of the entry.                  *)
(***************************************************************************)
EXTENDS ThreadCustody, TLAPS

Running == {"check", "write", "verify", "settle"}

\* A thread lives in a process that is alive.
Lives == \A t \in Threads : id[t] # 0 => proc[PidOf[t]] # 0

\* An entry was made for a thread there has been, with its process.
Filed ==
    \A t \in Threads : cache[t] # NoEntry =>
        /\ cache[t].id <= clock
        /\ cache[t].id = id[t] => cache[t].proc = proc[PidOf[t]]

\* What a worker's job is, whatever has become of its thread.
Staged(w) ==
    LET j == job[w]
    IN /\ j \in Jobs
       /\ pc[w] = "look" => j.label \in Labels
       /\ pc[w] # "look" => j.res \in Results
       /\ pc[w] \in Running => j.mode \in {"remove", "apply", "restore"}
WorkerJob(w) ==
    LET j == job[w]
    IN /\ Staged(w) /\ WorkerOf[<<j.t, j.id>>] = w /\ j.id <= clock
       /\ j.id = id[j.t] => j.proc = proc[PidOf[j.t]]

\* A sequence that has come to its end.
Finished(w) ==
    LET j == job[w]
    IN /\ pc[w] \in {"verify", "settle"} /\ j.mode = "restore" => j.todo = {}
       /\ pc[w] = "settle" /\ j.mode # "apply" => j.ok

\* The main thread's job is to restore the entry it has picked.
MainJob ==
    LET j == job[Main]
    IN /\ j \in Jobs /\ pc[Main] \in Running /\ j.mode = "restore"
       /\ phase = "restoring" /\ j.t \notin left
       /\ HasEntry(j.t, j.id) /\ cache[j.t].base = j.base /\ j.base # NoBase

JobsOK ==
    /\ \A w \in Workers : pc[w] # "idle" => WorkerJob(w) /\ Finished(w)
    /\ pc[Main] # "idle" => MainJob /\ Finished(Main)

\* Workers and the main thread's restoration exclude each other.
Exclusion == phase \notin {"run", "stopping"} => WorkersIdle

\* A scan has seen a thread it knows from the cache, or will.
ScanTracks ==
    scan # None => \A t \in Threads :
        /\ scan.snap[t] <= clock
        /\ id[t] # 0 /\ scan.snap[t] = id[t] /\ t \notin scan.missed =>
             \/ PidOf[t] \in scan.todo /\ scan.seen[t] = 0
             \/ /\ PidOf[t] \notin scan.todo
                /\ scan.procs[PidOf[t]] = proc[PidOf[t]] /\ scan.seen[t] \in {0, id[t]}

Own(w, t) == pc[w] # "idle" /\ job[w].t = t /\ job[w].id = id[t]

\* The baseline of a sequence, and what it has done so far.
Sequenced(j, t) ==
    /\ HasEntry(t, id[t]) => cache[t].base = j.base
    /\ j.base # NoBase => HasEntry(t, id[t])
    /\ j.mode = "restore" =>
          /\ \A a \in j.todo : j.base[a] # None
          /\ j.ok => \A a \in Attrs \ j.todo : val[t][a] = id[t]
    /\ j.mode \in {"remove", "apply"} =>
          /\ HasEntry(t, id[t]) => cache[t].managed = j.man
          /\ \A a \in Attrs : DimOf[a] \in Needs[j.res] => j.base[a] # None
    /\ j.mode = "apply" => \A a \in j.todo : DimOf[a] \in Needs[j.res]
    /\ j.mode = "remove" /\ j.ok =>
          \A a \in Attrs \ j.todo : DimOf[a] \in j.man \ Needs[j.res] => val[t][a] = id[t]

OwnJob(w, t) ==
    /\ pc[w] # "look" => cache[t] = NoEntry \/ HasEntry(t, id[t])
    /\ pc[w] \in {"capcheck", "capset"} =>
         \A a \in Attrs : \/ job[w].base[a] \in {None, id[t]}
                          \/ HasEntry(t, id[t]) /\ cache[t].base[a] = id[t]
    /\ pc[w] \in Running => Sequenced(job[w], t)

\* The job that is changing dimension d of t.
Ahead(t, d) ==
    \E w \in Workers : /\ pc[w] \in Running /\ job[w].t = t /\ job[w].id = id[t]
                       /\ job[w].mode = "apply" /\ d \in Needs[job[w].res]

Held(t) ==
    /\ \A a \in Attrs : val[t][a] # id[t] =>
         /\ HasEntry(t, id[t]) /\ cache[t].base[a] = id[t]
         /\ DimOf[a] \in cache[t].managed \/ Ahead(t, DimOf[a])
    /\ HasEntry(t, id[t]) => \A a \in Attrs : cache[t].base[a] \in {None, id[t]}

Safe(t) ==
    id[t] # 0 /\ ~disturbed[t] => Held(t) /\ \A w \in Actors : Own(w, t) => OwnJob(w, t)

\* What restore_all_thread_baselines has not reached is what is touched.
Restoring ==
    phase = "restoring" =>
        /\ \A t \in left : HasBase(t)
        /\ allOk => \A t \in Threads, a \in Attrs : Touched(t, a) /\ ~disturbed[t] =>
                      t \in left \/ Own(Main, t)

IInv == /\ TypeOK /\ Lives /\ Filed /\ JobsOK /\ Exclusion /\ ScanTracks
        /\ Restoring /\ ExitClean /\ \A t \in Threads : Safe(t)

----------------------------------------------------------------------------
(* Parameters, and the pieces of a step.                                   *)

LEMMA Params ==
    /\ \A t \in Threads : PidOf[t] \in Pids
    /\ Main \notin Workers /\ Main \in Actors /\ Workers \subseteq Actors
    /\ \A r \in Results : Needs[r] \subseteq Dims
    /\ \A c \in Configs, l \in Labels : Match[c][l] \in Results
    /\ Requests \subseteq Configs \cup {None}
    /\ MaxStart \in Nat /\ kShutdownRestoreAttempts \in Nat \ {0}
    /\ None \notin Values /\ None \notin Scans /\ NoEntry \notin Entries
BY CustodyAssumption DEF Actors

LEMMA Distinct == None \notin Results /\ \A g \in Starts : g # None /\ g # 0
<1>1. \A g \in Starts : g # 0
  BY Params DEF Starts
<1> QED BY <1>1, Params DEF Values

LEMMA Bases0 == NoBase \in Bases /\ NoAttrs \in [Attrs -> Values] /\ \A a \in Attrs : NoBase[a] = None
BY DEF NoBase, NoAttrs, Bases, Values

\* A baseline that is not empty has a component.
LEMMA BaseParts == \A b \in Bases : b # NoBase => \E a \in Attrs : b[a] # None
BY DEF NoBase, Bases

LEMMA DimsOf == \A a \in Attrs : DimOf[a] \in Dims
BY DEF DimOf, Attrs, Dims

\* A live thread's start time.
LEMMA LiveStart ==
    ASSUME KernelOK, NEW t \in Threads
    PROVE  id[t] \in Nat /\ id[t] <= clock /\ clock \in Nat /\ (id[t] # 0 => id[t] \in Starts)
<1>1. MaxStart \in Nat
  BY Params
<1>2. clock \in Nat /\ clock <= MaxStart /\ id[t] \in 0..clock
  BY <1>1 DEF KernelOK
<1> QED BY <1>1, <1>2 DEF Starts

PCs == {"idle", "look", "capture", "capcheck", "capset", "plan",
        "getbase", "check", "write", "verify", "settle"}

LEMMA GotoType ==
    ASSUME ActorsOK, NEW w \in Actors, NEW there \in PCs, NEW j \in Jobs \cup {None},
           Goto(w, there, j)
    PROVE  /\ ActorsOK' /\ pc'[w] = there /\ job'[w] = j
           /\ \A v \in Actors : v # w => pc'[v] = pc[v] /\ job'[v] = job[v]
BY DEF ActorsOK, Goto, PCs

LEMMA QuitType ==
    ASSUME ActorsOK, NEW w \in Actors, Quit(w)
    PROVE  /\ ActorsOK' /\ pc'[w] = "idle"
           /\ \A v \in Actors : v # w => pc'[v] = pc[v] /\ job'[v] = job[v]
BY GotoType DEF Quit, PCs

LEMMA KeyedType ==
    ASSUME CacheOK, NEW w, job[w].t \in Threads, NEW e, cache[job[w].t] # NoEntry => e \in Entries,
           Keyed(w, e)
    PROVE  /\ CacheOK'
           /\ \A u \in Threads : u # job[w].t => cache'[u] = cache[u]
           /\ cache'[job[w].t] = IF cache[job[w].t] = NoEntry THEN NoEntry ELSE e
BY DEF CacheOK, Keyed

\* A disturbance is for good, and a job disturbs no thread but its own.
LEMMA BlameType ==
    ASSUME DisturbedOK, NEW w, job[w].t \in Threads, Blame(w)
    PROVE  /\ DisturbedOK'
           /\ \A u \in Threads : u # job[w].t => disturbed'[u] = disturbed[u]
           /\ disturbed[job[w].t] => disturbed'[job[w].t]
           /\ Stale(w) /\ (cache' # cache \/ val' # val) => disturbed'[job[w].t]
<1>1. disturbed' = [disturbed EXCEPT ![job[w].t] =
                    disturbed[job[w].t] \/ (Stale(w) /\ (cache' # cache \/ val' # val))]
  BY DEF Blame
<1>2. disturbed'[job[w].t] = (disturbed[job[w].t] \/ (Stale(w) /\ (cache' # cache \/ val' # val)))
  BY <1>1 DEF DisturbedOK
<1>3. \A u \in Threads : u # job[w].t => disturbed'[u] = disturbed[u]
  BY <1>1 DEF DisturbedOK
<1>4. DisturbedOK'
  <2>1. disturbed'[job[w].t] \in BOOLEAN
    BY <1>2, Zenon
  <2>2. disturbed' \in [Threads -> BOOLEAN]
    BY <1>1, <1>3, <2>1 DEF DisturbedOK
  <2> QED BY <2>2 DEF DisturbedOK
<1> QED BY <1>2, <1>3, <1>4, Zenon

LEMMA EraseType ==
    ASSUME CacheOK, DisturbedOK, NEW t \in Threads, NEW g, EraseIfIdentity(t, g)
    PROVE  /\ CacheOK' /\ DisturbedOK'
           /\ \A u \in Threads : u # t => cache'[u] = cache[u] /\ disturbed'[u] = disturbed[u]
           /\ cache'[t] = IF HasEntry(t, g) THEN NoEntry ELSE cache[t]
           /\ disturbed[t] => disturbed'[t]
           /\ g = id[t] /\ LiveBase(t) => disturbed'[t]
<1>1. CacheOK' /\ (\A u \in Threads : u # t => cache'[u] = cache[u])
      /\ cache'[t] = IF HasEntry(t, g) THEN NoEntry ELSE cache[t]
  BY DEF EraseIfIdentity, CacheOK
<1>2. disturbed' = [disturbed EXCEPT ![t] = disturbed[t] \/ (g = id[t] /\ LiveBase(t))]
  BY DEF EraseIfIdentity
<1>3. disturbed'[t] = (disturbed[t] \/ (g = id[t] /\ LiveBase(t)))
      /\ \A u \in Threads : u # t => disturbed'[u] = disturbed[u]
  BY <1>2 DEF DisturbedOK
<1>4. disturbed'[t] \in BOOLEAN
  BY <1>3, Zenon
<1>5. DisturbedOK'
  BY <1>2, <1>3, <1>4 DEF DisturbedOK
<1> QED BY <1>1, <1>3, <1>5, Zenon

----------------------------------------------------------------------------
(* What keeps a thread safe.                                               *)

LEMMA AheadKept ==
    ASSUME NEW t, id'[t] = id[t],
           \A w \in Workers : pc[w] \in Running /\ Own(w, t) /\ job[w].mode = "apply" =>
               pc'[w] \in Running /\ job'[w].t = t /\ job'[w].id = job[w].id
               /\ job'[w].mode = "apply" /\ job'[w].res = job[w].res
    PROVE  \A d : Ahead(t, d) => Ahead(t, d)'
BY DEF Ahead, Own, Running

\* A step that leaves the thread and its own job alone, and its entry too,
\* unless there is nothing in it.
LEMMA SafeKept ==
    ASSUME KernelOK, CacheOK, NEW t \in Threads, Safe(t),
           id'[t] = id[t] /\ val'[t] = val[t], disturbed[t] => disturbed'[t],
           cache'[t] = cache[t] \/ (cache'[t] = NoEntry /\ ~LiveBase(t)),
           \A w \in Actors : Own(w, t) => pc'[w] = pc[w] /\ job'[w] = job[w],
           \A w \in Actors : Own(w, t)' => Own(w, t) \/ pc'[w] = "look"
    PROVE  Safe(t)'
<1> SUFFICES ASSUME id[t] # 0, ~disturbed'[t]
             PROVE  Held(t)' /\ \A w \in Actors : Own(w, t)' => OwnJob(w, t)'
  BY DEF Safe
<1>0. Workers \subseteq Actors /\ id[t] # None
  BY Params, LiveStart, Distinct
<1>1. Held(t) /\ \A w \in Actors : Own(w, t) => OwnJob(w, t)
  BY DEF Safe
<1>2. \A d : Ahead(t, d) => Ahead(t, d)'
  <2>1. \A w \in Workers : pc[w] \in Running /\ Own(w, t) /\ job[w].mode = "apply" =>
               pc'[w] \in Running /\ job'[w].t = t /\ job'[w].id = job[w].id
               /\ job'[w].mode = "apply" /\ job'[w].res = job[w].res
    BY <1>0 DEF Own
  <2> QED BY <2>1, AheadKept
<1>3. CASE cache'[t] = cache[t]
  <2>1. HasEntry(t, id[t])' <=> HasEntry(t, id[t])
    BY <1>3 DEF HasEntry
  <2>2. Held(t)'
    BY <1>1, <1>2, <1>3, <2>1 DEF Held
  <2>3. ASSUME NEW w \in Actors, Own(w, t)' PROVE OwnJob(w, t)'
    <3>1. CASE pc'[w] = "look"
      BY <3>1 DEF OwnJob, Running
    <3>2. CASE Own(w, t)
      <4>1. OwnJob(w, t) /\ pc'[w] = pc[w] /\ job'[w] = job[w]
        BY <1>1, <3>2
      <4> QED BY <1>3, <2>1, <4>1 DEF OwnJob, Sequenced
    <3> QED BY <2>3, <3>1, <3>2
  <2> QED BY <2>2, <2>3
<1>4. CASE cache'[t] = NoEntry /\ ~LiveBase(t)
  <2>1. ~HasEntry(t, id[t])'
    BY <1>4 DEF HasEntry
  <2>2. HasEntry(t, id[t]) => cache[t].base = NoBase
    BY <1>4 DEF LiveBase, HasBase, HasEntry
  <2>3. \A a \in Attrs : HasEntry(t, id[t]) => cache[t].base[a] # id[t]
    BY <1>0, <2>2, Bases0
  <2>4. Held(t)'
    BY <1>1, <2>1, <2>3 DEF Held
  <2>5. ASSUME NEW w \in Actors, Own(w, t)' PROVE OwnJob(w, t)'
    <3>1. CASE pc'[w] = "look"
      BY <3>1 DEF OwnJob, Running
    <3>2. CASE Own(w, t)
      <4>1. OwnJob(w, t) /\ pc'[w] = pc[w] /\ job'[w] = job[w]
        BY <1>1, <3>2
      <4>2. pc[w] \in Running => Sequenced(job[w], t)'
        BY <2>1, <2>2, <4>1 DEF OwnJob, Sequenced
      <4> QED BY <1>4, <2>1, <2>3, <4>1, <4>2 DEF OwnJob
    <3> QED BY <2>5, <3>1, <3>2
  <2> QED BY <2>4, <2>5
<1> QED BY <1>3, <1>4

\* A thread has one own job at most.
LEMMA Unique ==
    ASSUME JobsOK, Exclusion, NEW t, NEW v \in Actors, NEW w \in Actors, Own(v, t), Own(w, t)
    PROVE  v = w
<1>1. \A x \in Workers : pc[x] # "idle" => WorkerOf[<<job[x].t, job[x].id>>] = x
  BY DEF JobsOK, WorkerJob
<1>2. pc[Main] # "idle" => \A x \in Workers : pc[x] = "idle"
  BY DEF JobsOK, MainJob, Exclusion, WorkersIdle
<1>3. CASE v \in Workers /\ w \in Workers
  BY <1>1, <1>3, Zenon DEF Own
<1> QED BY <1>2, <1>3 DEF Own, Actors

\* The step of a job: it moves this actor only, and touches only its thread
\* and the thread's entry.
Confined(w) ==
    LET t == job[w].t
    IN /\ UNCHANGED <<clock, proc, id, events, scan, cfg, phase, want, left, tries>>
       /\ \A v \in Actors : v # w => pc'[v] = pc[v] /\ job'[v] = job[v]
       /\ \A u \in Threads : u # t =>
             cache'[u] = cache[u] /\ val'[u] = val[u] /\ disturbed'[u] = disturbed[u]
       /\ disturbed[t] => disturbed'[t]
       /\ Stale(w) /\ ~disturbed'[t] =>
             /\ val'[t] = val[t]
             /\ cache'[t] = cache[t] \/ (cache'[t] = NoEntry /\ ~HasEntry(t, id[t]))
       /\ pc'[w] # "idle" =>
             job'[w].t = t /\ job'[w].id = job[w].id /\ job'[w].proc = job[w].proc
       /\ cache'[t] # NoEntry =>
             \/ cache[t] # NoEntry /\ cache'[t].id = cache[t].id /\ cache'[t].proc = cache[t].proc
             \/ cache'[t].id = job[w].id /\ cache'[t].proc = job[w].proc /\ w \in Workers

\* A step of a job keeps every thread safe, if it does so to its own.
LEMMA StepSafe ==
    ASSUME TypeOK, JobsOK, Exclusion, \A t \in Threads : Safe(t),
           NEW w \in Actors, pc[w] # "idle", NEW u \in Threads, job[w].t = u, Confined(w),
           id[u] # 0 /\ ~disturbed'[u] /\ Own(w, u) => Held(u)' /\ (Own(w, u)' => OwnJob(w, u)')
    PROVE  \A t \in Threads : Safe(t)'
<1> SUFFICES ASSUME NEW t \in Threads PROVE Safe(t)'
  OBVIOUS
<1>0. KernelOK /\ CacheOK /\ Safe(t) /\ UNCHANGED id
  BY DEF TypeOK, Confined
<1>1. \A v \in Actors : v # w => pc'[v] = pc[v] /\ job'[v] = job[v] /\ (Own(v, t)' => Own(v, t))
  BY <1>0 DEF Confined, Own
<1>2. pc'[w] # "idle" => job'[w].t = job[w].t /\ job'[w].id = job[w].id
  BY DEF Confined
<1>3. CASE t # job[w].t
  <2>1. ~Own(w, t) /\ ~Own(w, t)'
    BY <1>2, <1>3 DEF Own
  <2>2. cache'[t] = cache[t] /\ val'[t] = val[t] /\ disturbed'[t] = disturbed[t]
    BY <1>3 DEF Confined
  <2> QED BY <1>0, <1>1, <2>1, <2>2, SafeKept
<1>4. CASE t = job[w].t /\ ~(id[t] # 0 /\ ~disturbed'[t])
  BY <1>0, <1>4 DEF Safe
<1>5. CASE t = job[w].t /\ id[t] # 0 /\ ~disturbed'[t] /\ ~Own(w, t)
  <2>1. Stale(w)
    BY <1>5 DEF Own, Stale
  <2>2. val'[t] = val[t] /\ (cache'[t] = cache[t] \/ (cache'[t] = NoEntry /\ ~LiveBase(t)))
    BY <1>5, <2>1 DEF Confined, LiveBase
  <2>3. ~Own(w, t)' /\ (disturbed[t] => disturbed'[t])
    BY <1>0, <1>2, <1>5 DEF Own, Confined
  <2> QED BY <1>0, <1>1, <1>5, <2>2, <2>3, SafeKept
<1>6. CASE t = job[w].t /\ id[t] # 0 /\ ~disturbed'[t] /\ Own(w, t)
  <2>1. Held(t)' /\ (Own(w, t)' => OwnJob(w, t)')
    BY <1>6, Zenon
  <2>2. \A v \in Actors : v # w => ~Own(v, t)'
    BY <1>1, <1>6, Unique
  <2> QED BY <2>1, <2>2 DEF Safe
<1> QED BY <1>3, <1>4, <1>5, <1>6

\* ... and the facts that are not about safety.
LEMMA StepFacts ==
    ASSUME TypeOK, Lives, Filed, JobsOK, Exclusion, ScanTracks,
           NEW w \in Actors, pc[w] # "idle", job[w].t \in Threads, Confined(w),
           w \in Workers /\ pc'[w] # "idle" => Staged(w)' /\ Finished(w)',
           w = Main /\ pc'[w] # "idle" => MainJob' /\ Finished(w)'
    PROVE  Lives' /\ Filed' /\ JobsOK' /\ Exclusion' /\ ScanTracks'
<1>1. UNCHANGED <<clock, proc, id, scan, phase>>
  BY DEF Confined
<1>2. Lives' /\ ScanTracks'
  BY <1>1 DEF Lives, ScanTracks
<1>3. w \in Workers => WorkerJob(w)
  BY DEF JobsOK
<1>4. Filed'
  <2> SUFFICES ASSUME NEW t \in Threads, cache'[t] # NoEntry
               PROVE  cache'[t].id <= clock
                      /\ (cache'[t].id = id[t] => cache'[t].proc = proc[PidOf[t]])
    BY <1>1 DEF Filed
  <2>1. CASE cache[t] # NoEntry /\ cache'[t].id = cache[t].id /\ cache'[t].proc = cache[t].proc
    BY <2>1 DEF Filed
  <2>2. CASE t = job[w].t /\ cache'[t].id = job[w].id /\ cache'[t].proc = job[w].proc /\ w \in Workers
    BY <1>3, <2>2 DEF WorkerJob
  <2> QED BY <2>1, <2>2 DEF Confined
<1>5. \A v \in Actors : v # w => pc'[v] = pc[v] /\ job'[v] = job[v]
  BY DEF Confined
<1>6. Workers \subseteq Actors /\ Main \in Actors /\ Main \notin Workers
  BY Params
<1>7. Exclusion'
  <2>1. CASE w \in Workers
    <3>1. phase \in {"run", "stopping"}
      BY <2>1 DEF Exclusion, WorkersIdle
    <3> QED BY <1>1, <3>1 DEF Exclusion
  <2>2. CASE w \notin Workers
    BY <1>1, <1>5, <1>6, <2>2 DEF Exclusion, WorkersIdle
  <2> QED BY <2>1, <2>2
<1>8. ASSUME NEW v \in Workers, pc'[v] # "idle" PROVE WorkerJob(v)' /\ Finished(v)'
  <2>1. CASE v = w
    <3>1. Staged(v)' /\ Finished(v)'
      BY <1>8, <2>1
    <3>2. job'[v].t = job[v].t /\ job'[v].id = job[v].id /\ job'[v].proc = job[v].proc
      BY <1>8, <2>1 DEF Confined
    <3> QED BY <1>1, <1>3, <2>1, <3>1, <3>2 DEF WorkerJob
  <2>2. CASE v # w
    <3>1. pc'[v] = pc[v] /\ job'[v] = job[v] /\ WorkerJob(v) /\ Finished(v)
      BY <1>5, <1>6, <1>8, <2>2 DEF JobsOK
    <3> QED BY <1>1, <3>1 DEF WorkerJob, Finished, Staged
  <2> QED BY <2>1, <2>2
<1>9. pc'[Main] # "idle" => MainJob' /\ Finished(Main)'
  <2>1. CASE w = Main
    BY <2>1
  <2>2. CASE w # Main
    <3>1. w \in Workers
      BY <2>2 DEF Actors
    <3>2. pc[Main] = "idle"
      BY <3>1 DEF Exclusion, WorkersIdle, JobsOK, MainJob
    <3> QED BY <1>5, <1>6, <2>2, <3>2
  <2> QED BY <2>1, <2>2
<1> QED BY <1>2, <1>4, <1>7, <1>8, <1>9 DEF JobsOK

----------------------------------------------------------------------------
(* The steps of a job that change neither a thread nor an entry.           *)

Base == /\ TypeOK /\ Lives /\ Filed /\ JobsOK /\ Exclusion /\ ScanTracks
        /\ \A t \in Threads : Safe(t)

\* What is shown of each step.
OwnSafe(w, u) ==
    id[u] # 0 /\ ~disturbed'[u] /\ Own(w, u) => Held(u)' /\ (Own(w, u)' => OwnJob(w, u)')
Good(w) ==
    /\ TypeOK' /\ Confined(w)
    /\ w \in Workers /\ pc'[w] # "idle" => Staged(w)' /\ Finished(w)'
    /\ w = Main /\ pc'[w] # "idle" => MainJob' /\ Finished(w)'
    /\ \A u \in Threads : job[w].t = u => OwnSafe(w, u)

LEMMA GoodSteps ==
    ASSUME Base, NEW w \in Actors, pc[w] # "idle", job[w].t \in Threads, Good(w) PROVE Base'
<1>1. TypeOK' /\ Confined(w)
  BY DEF Good
<1>2. \A t \in Threads : Safe(t)'
  <2>1. PICK u \in Threads : job[w].t = u
    OBVIOUS
  <2>2. id[u] # 0 /\ ~disturbed'[u] /\ Own(w, u) => Held(u)' /\ (Own(w, u)' => OwnJob(w, u)')
    BY <2>1 DEF Good, OwnSafe
  <2> QED BY <1>1, <2>1, <2>2, StepSafe DEF Base
<1>3. Lives' /\ Filed' /\ JobsOK' /\ Exclusion' /\ ScanTracks'
  BY <1>1, StepFacts DEF Base, Good
<1> QED BY <1>1, <1>2, <1>3 DEF Base

LEMMA JobAt ==
    ASSUME JobsOK, NEW w \in Actors, pc[w] # "idle"
    PROVE  /\ job[w] \in Jobs /\ job[w].t \in Threads /\ job[w].id \in Starts
           /\ job[w].base \in Bases /\ job[w].man \in SUBSET Dims /\ job[w].todo \in SUBSET Attrs
           /\ Finished(w) /\ (w \in Workers => WorkerJob(w)) /\ (w = Main => MainJob)
           /\ w \in Workers \/ w = Main
           /\ pc[w] \in Running => job[w].mode \in {"remove", "apply", "restore"}
<1>1. w \in Workers \/ w = Main
  BY DEF Actors
<1>2. Finished(w) /\ (w \in Workers => WorkerJob(w)) /\ (w = Main => MainJob)
  BY <1>1 DEF JobsOK
<1>3. job[w] \in Jobs
  BY <1>1, <1>2 DEF WorkerJob, Staged, MainJob
<1>4. pc[w] \in Running => job[w].mode \in {"remove", "apply", "restore"}
  BY <1>1, <1>2 DEF WorkerJob, Staged, MainJob
<1> QED BY <1>1, <1>2, <1>3, <1>4 DEF Jobs

QuietVars == <<kernel, cache, cfg, phase, want, left, tries, events, scan, disturbed>>

LEMMA QuietStep ==
    ASSUME TypeOK, NEW w \in Actors, UNCHANGED QuietVars, allOk' \in BOOLEAN,
           NEW there \in PCs, NEW k \in Jobs \cup {None}, Goto(w, there, k),
           there # "idle" => k.t = job[w].t /\ k.id = job[w].id /\ k.proc = job[w].proc
    PROVE  /\ TypeOK' /\ Confined(w) /\ pc'[w] = there /\ job'[w] = k
           /\ UNCHANGED <<val, cache, id>>
<1>1. /\ ActorsOK' /\ pc'[w] = there /\ job'[w] = k
      /\ \A v \in Actors : v # w => pc'[v] = pc[v] /\ job'[v] = job[v]
  BY GotoType DEF TypeOK
<1>2. /\ UNCHANGED <<clock, proc, id, val, cache, cfg, phase, want, left, tries, events, scan>>
      /\ UNCHANGED disturbed
  BY DEF QuietVars, kernel
<1>3. TypeOK'
  BY <1>1, <1>2 DEF TypeOK, KernelOK, CacheOK, MainOK, ScanOK, DisturbedOK
<1>4. Confined(w)
  BY <1>1, <1>2 DEF Confined
<1> QED BY <1>1, <1>2, <1>3, <1>4

\* The thread keeps its promises while its own job is on its way.
LEMMA QuietHeld ==
    ASSUME JobsOK, Exclusion, NEW w \in Actors, NEW u \in Threads, Safe(u), id[u] # 0,
           ~disturbed[u], Own(w, u), UNCHANGED <<val, cache, id>>, Confined(w),
           w \in Workers /\ pc[w] \in Running /\ job[w].mode = "apply" =>
              pc'[w] \in Running /\ job'[w].mode = "apply" /\ job'[w].res = job[w].res
    PROVE  Held(u)' /\ Held(u) /\ OwnJob(w, u) /\ (HasEntry(u, id[u])' <=> HasEntry(u, id[u]))
<1>1. Held(u) /\ OwnJob(w, u)
  BY DEF Safe
<1>2. \A v \in Workers : Own(v, u) => v = w
  BY Unique, Params
<1>3. \A d : Ahead(u, d) => Ahead(u, d)'
  <2>1. pc'[w] \in Running => job'[w].t = u /\ job'[w].id = job[w].id
    BY DEF Confined, Own, Running
  <2> QED BY <1>2, <2>1, AheadKept
<1>4. HasEntry(u, id[u])' <=> HasEntry(u, id[u])
  BY DEF HasEntry
<1> QED BY <1>1, <1>3, <1>4 DEF Held

LEMMA NothingToDoStep ==
    ASSUME Base, NEW w \in Workers, NothingToDo(w) PROVE Good(w)
<1>1. w \in Actors /\ w # Main /\ pc[w] = "look"
  BY Params DEF NothingToDo
<1>2. UNCHANGED QuietVars /\ Goto(w, "idle", None) /\ allOk' \in BOOLEAN
  BY DEF NothingToDo, Quit, QuietVars, mainVars, Base, TypeOK, MainOK
<1>3. TypeOK' /\ Confined(w) /\ pc'[w] = "idle" /\ UNCHANGED <<val, cache, id>>
  BY <1>1, <1>2, QuietStep DEF Base, PCs
<1>4. \A u \in Threads : OwnSafe(w, u)
  <2> SUFFICES ASSUME NEW u \in Threads, id[u] # 0, ~disturbed'[u], Own(w, u)
               PROVE  Held(u)' /\ ~Own(w, u)'
    BY DEF OwnSafe
  <2>1. ~disturbed[u] /\ Safe(u) /\ JobsOK /\ Exclusion
    BY <1>2 DEF QuietVars, Base
  <2>2. Held(u)'
    BY <1>1, <1>3, <2>1, QuietHeld DEF Running
  <2> QED BY <1>3, <2>2 DEF Own
<1> QED BY <1>1, <1>3, <1>4 DEF Good

LEMMA CaptureStep ==
    ASSUME Base, NEW w \in Workers, NEW missing, Capture(w, missing) PROVE Good(w)
<1>1. w \in Actors /\ w # Main /\ pc[w] = "capture" /\ JobsOK /\ KernelOK
  BY Params DEF Capture, Base, TypeOK
<1> DEFINE t == job[w].t
           b == [a \in Attrs |-> IF id[t] = 0 \/ a \in missing THEN None ELSE val[t][a]]
           k == [job[w] EXCEPT !.base = b]
<1>2. job[w] \in Jobs /\ t \in Threads /\ Staged(w)
  BY <1>1, JobAt DEF WorkerJob
<1>3. b \in Bases
  BY <1>1, <1>2 DEF KernelOK, Bases
<1>4. /\ k \in Jobs /\ k.t = job[w].t /\ k.id = job[w].id /\ k.proc = job[w].proc
      /\ k.res = job[w].res /\ k.base = b
  BY <1>2, <1>3 DEF Jobs
<1>5. UNCHANGED QuietVars /\ Goto(w, "capcheck", k) /\ allOk' \in BOOLEAN
  BY DEF Capture, QuietVars, mainVars, Base, TypeOK, MainOK
<1> HIDE DEF k
<1>6. TypeOK' /\ Confined(w) /\ pc'[w] = "capcheck" /\ job'[w] = k /\ UNCHANGED <<val, cache, id>>
  BY <1>1, <1>4, <1>5, QuietStep DEF Base, PCs
<1>7. Staged(w)' /\ Finished(w)'
  BY <1>1, <1>2, <1>4, <1>6 DEF Staged, Finished, Running
<1>8. ASSUME NEW u \in Threads, t = u PROVE OwnSafe(w, u)
  <2> SUFFICES ASSUME id[u] # 0, ~disturbed'[u], Own(w, u)
               PROVE  Held(u)' /\ OwnJob(w, u)'
    BY DEF OwnSafe
  <2>1. ~disturbed[u] /\ Safe(u) /\ JobsOK /\ Exclusion
    BY <1>5 DEF QuietVars, Base
  <2>2. Held(u)' /\ Held(u) /\ OwnJob(w, u) /\ (HasEntry(u, id[u])' <=> HasEntry(u, id[u]))
    BY <1>1, <1>6, <2>1, QuietHeld DEF Running
  <2>3. \A a \in Attrs : b[a] \in {None, id[u]} \/ (HasEntry(u, id[u]) /\ cache[u].base[a] = id[u])
    BY <1>8, <2>2 DEF Held
  <2>4. cache[u] = NoEntry \/ HasEntry(u, id[u])
    BY <1>1, <2>2 DEF OwnJob
  <2> HIDE DEF b
  <2>5. OwnJob(w, u)'
    BY <1>4, <1>6, <2>2, <2>3, <2>4 DEF OwnJob, Running
  <2> QED BY <2>2, <2>5
<1> QED BY <1>1, <1>6, <1>7, <1>8 DEF Good

LEMMA CaptureCheckStep ==
    ASSUME Base, NEW w \in Workers, CaptureCheck(w) PROVE Good(w)
<1>1. w \in Actors /\ w # Main /\ pc[w] = "capcheck" /\ JobsOK
  BY Params DEF CaptureCheck, Base
<1> DEFINE n == [job[w] EXCEPT !.base = NoBase]
<1>2. job[w] \in Jobs /\ Staged(w)
  BY <1>1, JobAt DEF WorkerJob
<1>3. n \in Jobs /\ n.t = job[w].t /\ n.id = job[w].id /\ n.proc = job[w].proc /\ n.res = job[w].res
  BY <1>2, Bases0 DEF Jobs
<1>4. PICK there \in {"capset", "plan"} :
        Goto(w, there, IF there = "capset" THEN job[w] ELSE n)
  BY DEF CaptureCheck
<1>5. UNCHANGED QuietVars /\ allOk' \in BOOLEAN
  BY DEF CaptureCheck, QuietVars, mainVars, Base, TypeOK, MainOK
<1> HIDE DEF n
<1> DEFINE k == IF there = "capset" THEN job[w] ELSE n
<1>6. k \in Jobs /\ k.t = job[w].t /\ k.id = job[w].id /\ k.proc = job[w].proc /\ k.res = job[w].res
  BY <1>2, <1>3
<1>7. TypeOK' /\ Confined(w) /\ pc'[w] = there /\ job'[w] = k /\ UNCHANGED <<val, cache, id>>
  <2> HIDE DEF k
  <2>1. Goto(w, there, k) /\ there \in PCs
    BY <1>4 DEF k, PCs
  <2> QED BY <1>1, <1>5, <1>6, <2>1, QuietStep DEF Base
<1>8. Staged(w)' /\ Finished(w)'
  BY <1>1, <1>2, <1>6, <1>7 DEF Staged, Finished, Running
<1>9. ASSUME NEW u \in Threads PROVE OwnSafe(w, u)
  <2> SUFFICES ASSUME id[u] # 0, ~disturbed'[u], Own(w, u)
               PROVE  Held(u)' /\ OwnJob(w, u)'
    BY DEF OwnSafe
  <2>1. ~disturbed[u] /\ Safe(u) /\ JobsOK /\ Exclusion
    BY <1>5 DEF QuietVars, Base
  <2>2. Held(u)' /\ Held(u) /\ OwnJob(w, u) /\ (HasEntry(u, id[u])' <=> HasEntry(u, id[u]))
    BY <1>1, <1>7, <2>1, QuietHeld DEF Running
  <2>3. OwnJob(w, u)'
    BY <1>1, <1>4, <1>7, <2>2 DEF OwnJob, Running
  <2> QED BY <2>2, <2>3
<1> QED BY <1>1, <1>7, <1>8, <1>9 DEF Good

LEMMA PlanStep ==
    ASSUME Base, NEW w \in Workers, Plan(w) PROVE Good(w)
<1>1. w \in Actors /\ w # Main /\ pc[w] = "plan" /\ JobsOK /\ CacheOK
  BY Params DEF Plan, Base, TypeOK
<1> DEFINE j == job[w]
           e == cache[j.t]
           gone == e.managed \ Needs[j.res]
           k == [j EXCEPT !.base = e.base, !.man = e.managed, !.mode = "remove",
                          !.todo = {a \in Attrs : DimOf[a] \in gone}]
           m == IF gone = {} THEN ApplyJob(k) ELSE k
           fit == e # NoEntry /\ \A a \in Attrs : DimOf[a] \in Needs[j.res] => e.base[a] # None
<1>2. job[w] \in Jobs /\ j.t \in Threads /\ j.res \in Results
  BY <1>1, JobAt DEF WorkerJob, Staged
<1>3. UNCHANGED QuietVars /\ allOk' \in BOOLEAN
  BY DEF Plan, QuietVars, mainVars, Base, TypeOK, MainOK
<1>4. CASE fit
  <2>1. e \in Entries /\ e.base \in Bases /\ e.managed \in SUBSET Dims
    BY <1>1, <1>2, <1>4 DEF CacheOK, Entries
  <2>2. /\ k \in Jobs /\ k.t = j.t /\ k.id = j.id /\ k.proc = j.proc /\ k.res = j.res
        /\ k.base = e.base /\ k.man = e.managed /\ k.mode = "remove"
        /\ k.todo = {a \in Attrs : DimOf[a] \in gone}
    BY <1>2, <2>1 DEF Jobs
  <2>3. Goto(w, "check", m)
    BY <1>4 DEF Plan
  <2> HIDE DEF k
  <2>4. /\ m \in Jobs /\ m.t = j.t /\ m.id = j.id /\ m.proc = j.proc /\ m.res = j.res
        /\ m.base = e.base /\ m.man = e.managed /\ m.mode \in {"remove", "apply"}
        /\ m.mode = "remove" => m.todo = {a \in Attrs : DimOf[a] \in gone}
        /\ m.mode = "apply" => m.todo = {a \in Attrs : DimOf[a] \in Needs[j.res]}
    <3>1. CASE gone = {}
      BY <2>2, <3>1 DEF ApplyJob, Jobs
    <3>2. CASE gone # {}
      BY <2>2, <3>2
    <3> QED BY <3>1, <3>2
  <2> HIDE DEF m
  <2>5. TypeOK' /\ Confined(w) /\ pc'[w] = "check" /\ job'[w] = m /\ UNCHANGED <<val, cache, id>>
    BY <1>1, <1>3, <2>3, <2>4, QuietStep DEF Base, PCs
  <2>6. Staged(w)' /\ Finished(w)'
    BY <1>2, <2>4, <2>5 DEF Staged, Finished, Running
  <2>7. ASSUME NEW u \in Threads, job[w].t = u PROVE OwnSafe(w, u)
    <3> SUFFICES ASSUME id[u] # 0, ~disturbed'[u], Own(w, u)
                 PROVE  Held(u)' /\ OwnJob(w, u)'
      BY DEF OwnSafe
    <3>1. ~disturbed[u] /\ Safe(u) /\ JobsOK /\ Exclusion
      BY <1>3 DEF QuietVars, Base
    <3>2. Held(u)' /\ Held(u) /\ OwnJob(w, u) /\ (HasEntry(u, id[u])' <=> HasEntry(u, id[u]))
      BY <1>1, <2>5, <3>1, QuietHeld DEF Running
    <3>3. cache[u] = NoEntry \/ HasEntry(u, id[u])
      BY <1>1, <3>2 DEF OwnJob
    <3>4. HasEntry(u, id[u]) /\ \A a \in Attrs : DimOf[a] \in Needs[j.res] => m.base[a] # None
      BY <1>4, <2>4, <2>7, <3>3
    <3>5. Sequenced(job[w], u)'
      BY <2>4, <2>5, <2>7, <3>2, <3>4 DEF Sequenced
    <3>6. OwnJob(w, u)'
      BY <2>5, <3>2, <3>3, <3>5 DEF OwnJob
    <3> QED BY <3>2, <3>6
  <2> QED BY <1>1, <2>5, <2>6, <2>7 DEF Good
<1>5. CASE ~fit
  <2>1. Goto(w, "idle", None)
    BY <1>5 DEF Plan, Quit
  <2>2. TypeOK' /\ Confined(w) /\ pc'[w] = "idle" /\ UNCHANGED <<val, cache, id>>
    BY <1>1, <1>3, <2>1, QuietStep DEF Base, PCs
  <2>3. \A u \in Threads : OwnSafe(w, u)
    <3> SUFFICES ASSUME NEW u \in Threads, id[u] # 0, ~disturbed'[u], Own(w, u)
                 PROVE  Held(u)' /\ ~Own(w, u)'
      BY DEF OwnSafe
    <3>1. ~disturbed[u] /\ Safe(u) /\ JobsOK /\ Exclusion
      BY <1>3 DEF QuietVars, Base
    <3>2. Held(u)'
      BY <1>1, <2>2, <3>1, QuietHeld DEF Running
    <3> QED BY <2>2, <3>2 DEF Own
  <2> QED BY <1>1, <2>2, <2>3 DEF Good
<1> QED BY <1>4, <1>5

\* A sequence moves on, or gives up, without a change.
LEMMA RunningQuiet ==
    ASSUME Base, NEW w \in Actors, pc[w] \in Running, UNCHANGED QuietVars, allOk' \in BOOLEAN,
           NEW there \in Running, NEW k \in Jobs, Goto(w, there, k),
           k.t = job[w].t /\ k.id = job[w].id /\ k.proc = job[w].proc,
           k.res = job[w].res /\ k.mode = job[w].mode /\ k.base = job[w].base,
           there \in {"verify", "settle"} /\ k.mode = "restore" => k.todo = {},
           there = "settle" /\ k.mode # "apply" => k.ok,
           \A u \in Threads : Sequenced(job[w], u) => Sequenced(k, u)
    PROVE  Good(w)
<1>0. pc[w] # "idle" /\ JobsOK
  BY DEF Running, Base
<1>1. TypeOK' /\ Confined(w) /\ pc'[w] = there /\ job'[w] = k /\ UNCHANGED <<val, cache, id>>
  BY QuietStep DEF Base, PCs, Running
<1>2. Finished(w)' /\ (w \in Workers => WorkerJob(w)) /\ (w = Main => MainJob)
  BY <1>0, <1>1, JobAt DEF Finished
<1>3. w \in Workers => Staged(w)'
  BY <1>1, <1>2 DEF WorkerJob, Staged, Running
<1>4. w = Main => MainJob'
  BY <1>1, <1>2 DEF MainJob, HasEntry, QuietVars
<1>5. ASSUME NEW u \in Threads PROVE OwnSafe(w, u)
  <2> SUFFICES ASSUME id[u] # 0, ~disturbed'[u], Own(w, u)
               PROVE  Held(u)' /\ OwnJob(w, u)'
    BY DEF OwnSafe
  <2>1. ~disturbed[u] /\ Safe(u) /\ JobsOK /\ Exclusion
    BY DEF QuietVars, Base
  <2>2. Held(u)' /\ Held(u) /\ OwnJob(w, u) /\ (HasEntry(u, id[u])' <=> HasEntry(u, id[u]))
    BY <1>1, <2>1, QuietHeld
  <2>3. Sequenced(k, u)
    BY <2>2 DEF OwnJob
  <2>4. Sequenced(job[w], u)'
    BY <1>1, <2>2, <2>3 DEF Sequenced
  <2>5. OwnJob(w, u)'
    BY <1>1, <2>2, <2>4 DEF OwnJob, Running
  <2> QED BY <2>2, <2>5
<1> QED BY <1>1, <1>2, <1>3, <1>4, <1>5 DEF Good

LEMMA RunningQuits ==
    ASSUME Base, NEW w \in Actors, pc[w] \in Running, UNCHANGED QuietVars, allOk' \in BOOLEAN,
           Quit(w), job[w].mode # "apply"
    PROVE  Good(w)
<1>1. TypeOK' /\ Confined(w) /\ pc'[w] = "idle" /\ UNCHANGED <<val, cache, id>>
  BY QuietStep DEF Quit, Base, PCs
<1>2. \A u \in Threads : OwnSafe(w, u)
  <2> SUFFICES ASSUME NEW u \in Threads, id[u] # 0, ~disturbed'[u], Own(w, u)
               PROVE  Held(u)' /\ ~Own(w, u)'
    BY DEF OwnSafe
  <2>1. ~disturbed[u] /\ Safe(u) /\ JobsOK /\ Exclusion
    BY DEF QuietVars, Base
  <2>2. Held(u)'
    BY <1>1, <2>1, QuietHeld
  <2> QED BY <1>1, <2>2 DEF Own
<1> QED BY <1>1, <1>2 DEF Good

LEMMA AfterPlaces ==
    \A a, j : /\ After(a, j) \in {"verify", "check"}
              /\ After(a, j) = "verify" /\ j.mode = "restore" => j.todo = {}
BY DEF After

LEMMA QuietSequence ==
    ASSUME Base, NEW w \in Actors,
           \/ CheckPasses(w) \/ RemovalAborts(w) \/ TakeoverBreaks(w) \/ Verify(w)
           \/ \E a \in Attrs : RestoreSkips(w, a)
    PROVE  pc[w] \in Running /\ Good(w)
<1>1. pc[w] \in Running /\ pc[w] # "idle"
  BY DEF CheckPasses, RemovalAborts, TakeoverBreaks, Verify, RestoreSkips, Running
<1>2. UNCHANGED QuietVars
  BY DEF CheckPasses, RemovalAborts, TakeoverBreaks, Verify, RestoreSkips, QuietVars, mainVars
<1>3. allOk' \in BOOLEAN
  <2>1. CASE Verify(w)
    BY <2>1, Zenon DEF Verify
  <2> QED BY <2>1 DEF CheckPasses, RemovalAborts, TakeoverBreaks, RestoreSkips, mainVars,
                      Base, TypeOK, MainOK
<1>4. job[w] \in Jobs /\ Finished(w)
  BY <1>1, JobAt DEF Base
<1>5. CASE CheckPasses(w)
  BY <1>1, <1>2, <1>3, <1>4, <1>5, RunningQuiet DEF CheckPasses, Running
<1>6. CASE RemovalAborts(w)
  BY <1>1, <1>2, <1>3, <1>6, RunningQuits DEF RemovalAborts
<1>7. CASE TakeoverBreaks(w)
  <2> DEFINE rest == {a \in job[w].todo : DimOf[a] # "affinity"}
             k == [job[w] EXCEPT !.todo = rest, !.ok = FALSE]
             there == IF rest = {} THEN "verify" ELSE "check"
  <2>1. /\ k \in Jobs /\ k.t = job[w].t /\ k.id = job[w].id /\ k.proc = job[w].proc
        /\ k.res = job[w].res /\ k.mode = job[w].mode /\ k.base = job[w].base
        /\ k.man = job[w].man /\ k.todo = rest
    BY <1>4 DEF Jobs
  <2>2. there \in Running /\ there # "settle" /\ Goto(w, there, k) /\ job[w].mode = "apply"
    BY <1>7 DEF TakeoverBreaks, Running
  <2>3. \A u \in Threads : Sequenced(job[w], u) => Sequenced(k, u)
    <3> HIDE DEF k
    <3> QED BY <2>1, <2>2 DEF Sequenced
  <2> HIDE DEF k, there
  <2> QED BY <1>1, <1>2, <1>3, <2>1, <2>2, <2>3, RunningQuiet
<1>8. ASSUME NEW a \in Attrs, RestoreSkips(w, a) PROVE Good(w)
  <2> DEFINE rest == {b \in job[w].todo : DimOf[b] # DimOf[a]}
             k == [job[w] EXCEPT !.todo = rest, !.ok = FALSE]
  <2>1. /\ k \in Jobs /\ k.t = job[w].t /\ k.id = job[w].id /\ k.proc = job[w].proc
        /\ k.res = job[w].res /\ k.mode = job[w].mode /\ k.base = job[w].base
        /\ k.man = job[w].man /\ k.todo = rest /\ k.ok = FALSE
    BY <1>4 DEF Jobs
  <2>2. Goto(w, After(a, k), k) /\ job[w].mode = "restore"
    BY <1>8 DEF RestoreSkips
  <2>3. \A u \in Threads : Sequenced(job[w], u) => Sequenced(k, u)
    <3> HIDE DEF k
    <3> QED BY <2>1, <2>2 DEF Sequenced
  <2> HIDE DEF k
  <2>4. After(a, k) \in Running /\ After(a, k) # "settle"
        /\ (After(a, k) = "verify" /\ k.mode = "restore" => k.todo = {})
    BY AfterPlaces DEF Running
  <2> QED BY <1>1, <1>2, <1>3, <2>1, <2>2, <2>3, <2>4, RunningQuiet
<1>9. CASE Verify(w)
  <2>1. CASE Goto(w, "settle", job[w]) /\ (job[w].ok \/ job[w].mode = "apply")
    <3>1. job[w].mode = "restore" => job[w].todo = {}
      BY <1>4, <1>9 DEF Verify, Finished
    <3> QED BY <1>1, <1>2, <1>3, <1>4, <2>1, <3>1, RunningQuiet DEF Running
  <2>2. CASE Quit(w) /\ job[w].mode # "apply"
    BY <1>1, <1>2, <1>3, <2>2, RunningQuits
  <2> QED BY <1>9, <2>1, <2>2 DEF Verify
<1> QED BY <1>1, <1>5, <1>6, <1>7, <1>8, <1>9

----------------------------------------------------------------------------
(* The steps of a job that change its thread's entry.                      *)

\* The own job is the only one that can be ahead of the entry.
LEMMA OwnAhead ==
    ASSUME JobsOK, Exclusion, NEW w \in Actors, NEW u \in Threads, Own(w, u), Confined(w),
           w \in Workers /\ pc[w] \in Running /\ job[w].mode = "apply" =>
              pc'[w] \in Running /\ job'[w].mode = "apply" /\ job'[w].res = job[w].res
    PROVE  \A d : Ahead(u, d) => Ahead(u, d)'
<1>1. \A v \in Workers : Own(v, u) => v = w
  BY Unique, Params
<1>2. pc'[w] \in Running => job'[w].t = u /\ job'[w].id = job[w].id
  BY DEF Confined, Own, Running
<1>3. UNCHANGED id
  BY DEF Confined
<1> QED BY <1>1, <1>2, <1>3, AheadKept

LEMMA AheadIsOwn ==
    ASSUME JobsOK, Exclusion, NEW w \in Actors, NEW u \in Threads, Own(w, u), NEW d, Ahead(u, d)
    PROVE  pc[w] \in Running /\ job[w].mode = "apply" /\ d \in Needs[job[w].res]
<1>1. PICK v \in Workers : /\ pc[v] \in Running /\ job[v].t = u /\ job[v].id = id[u]
                           /\ job[v].mode = "apply" /\ d \in Needs[job[v].res]
  BY DEF Ahead
<1>2. Own(v, u) /\ v \in Actors
  BY <1>1, Params DEF Own, Running
<1>3. v = w
  BY <1>2, Unique
<1> QED BY <1>1, <1>3

\* An entry without a baseline: nothing of the thread is changed.
LEMMA Bare ==
    ASSUME KernelOK, NEW u \in Threads, id[u] # 0, Held(u), ~HasBase(u)
    PROVE  \A a \in Attrs : val[u][a] = id[u]
<1>1. id[u] # None
  BY LiveStart, Distinct
<1>2. HasEntry(u, id[u]) => cache[u].base = NoBase
  BY DEF HasBase, HasEntry
<1>3. \A a \in Attrs : HasEntry(u, id[u]) => cache[u].base[a] # id[u]
  BY <1>1, <1>2, Bases0
<1> QED BY <1>3 DEF Held

LEMMA EntryStep ==
    ASSUME TypeOK, NEW w \in Actors, NEW t \in Threads, job[w].t = t,
           UNCHANGED <<kernel, mainVars, events, scan>>, Blame(w),
           CacheOK', \A u \in Threads : u # t => cache'[u] = cache[u],
           cache'[t] # NoEntry =>
             \/ cache[t] # NoEntry /\ cache'[t].id = cache[t].id /\ cache'[t].proc = cache[t].proc
             \/ cache'[t].id = job[w].id /\ cache'[t].proc = job[w].proc /\ w \in Workers,
           NEW there \in PCs, NEW k \in Jobs \cup {None}, Goto(w, there, k),
           there # "idle" => k.t = job[w].t /\ k.id = job[w].id /\ k.proc = job[w].proc
    PROVE  /\ TypeOK' /\ Confined(w) /\ pc'[w] = there /\ job'[w] = k
           /\ UNCHANGED <<val, id>> /\ (disturbed[t] => disturbed'[t])
<1>1. /\ ActorsOK' /\ pc'[w] = there /\ job'[w] = k
      /\ \A v \in Actors : v # w => pc'[v] = pc[v] /\ job'[v] = job[v]
  BY GotoType DEF TypeOK
<1>2. /\ UNCHANGED <<clock, proc, id, val, cfg, phase, want, left, allOk, tries, events, scan>>
  BY DEF kernel, mainVars
<1>3. /\ DisturbedOK' /\ (\A u \in Threads : u # t => disturbed'[u] = disturbed[u])
      /\ disturbed[t] => disturbed'[t]
      /\ Stale(w) /\ cache' # cache => disturbed'[t]
  BY BlameType DEF TypeOK
<1>4. TypeOK'
  BY <1>1, <1>2, <1>3 DEF TypeOK, KernelOK, MainOK, ScanOK
<1>5. Confined(w)
  BY <1>1, <1>2, <1>3 DEF Confined
<1> QED BY <1>1, <1>2, <1>3, <1>4, <1>5

LEMMA LookStep ==
    ASSUME Base, NEW w \in Workers, Look(w) PROVE Good(w)
<1>1. w \in Actors /\ w # Main /\ pc[w] = "look" /\ JobsOK /\ Exclusion /\ CacheOK /\ KernelOK
  BY Params DEF Look, Base, TypeOK
<1> DEFINE j == job[w]
           r == IF Hit(j) THEN cache[j.t].result ELSE Match[cfg][j.label]
           k == [j EXCEPT !.res = r, !.label = None]
           there == IF Needs[r] = {} THEN "getbase" ELSE "capture"
<1>2. PICK t \in Threads : j.t = t /\ j \in Jobs /\ j.label \in Labels
  BY <1>1, JobAt DEF WorkerJob, Staged
<1>3. r \in Results
  <2>1. CASE Hit(j)
    BY <1>1, <1>2, <2>1 DEF Hit, HasEntry, CacheOK, Entries
  <2>2. CASE ~Hit(j)
    BY <1>2, <2>2, Params DEF Base, TypeOK, MainOK
  <2> QED BY <2>1, <2>2
<1>4. /\ k \in Jobs /\ k.t = j.t /\ k.id = j.id /\ k.proc = j.proc /\ k.res = r
  BY <1>2, <1>3 DEF Jobs
<1>5. /\ Goto(w, there, k) /\ there \in {"getbase", "capture"} /\ Blame(w)
      /\ UNCHANGED <<kernel, mainVars, events, scan>>
      /\ cache' = IF Hit(j) THEN cache ELSE [cache EXCEPT ![j.t] = UpdatedEntry(j, r)]
  BY DEF Look
<1> HIDE DEF k, there
<1>6. /\ UpdatedEntry(j, r) \in Entries /\ UpdatedEntry(j, r).id = j.id
      /\ HasEntry(t, j.id) => /\ UpdatedEntry(j, r).proc = cache[t].proc
                              /\ UpdatedEntry(j, r).base = cache[t].base
                              /\ UpdatedEntry(j, r).managed = cache[t].managed
      /\ ~HasEntry(t, j.id) => /\ UpdatedEntry(j, r).proc = j.proc
                               /\ UpdatedEntry(j, r).base = NoBase
  <2> HIDE DEF r
  <2>1. CASE HasEntry(t, j.id)
    <3>1. cache[t] \in Entries /\ cache[t].id = j.id
      BY <1>1, <1>2, <2>1 DEF HasEntry, CacheOK
    <3> QED BY <1>2, <1>3, <2>1, <3>1 DEF UpdatedEntry, Entries, Jobs
  <2>2. CASE ~HasEntry(t, j.id)
    BY <1>2, <1>3, <2>2, Bases0 DEF UpdatedEntry, Entries, Jobs
  <2> QED BY <2>1, <2>2
<1>7. /\ CacheOK' /\ (\A u \in Threads : u # t => cache'[u] = cache[u])
      /\ cache'[t] = IF Hit(j) THEN cache[t] ELSE UpdatedEntry(j, r)
  BY <1>1, <1>2, <1>5, <1>6 DEF CacheOK
<1>8. cache'[t] # NoEntry =>
             \/ cache[t] # NoEntry /\ cache'[t].id = cache[t].id /\ cache'[t].proc = cache[t].proc
             \/ cache'[t].id = job[w].id /\ cache'[t].proc = job[w].proc /\ w \in Workers
  BY <1>6, <1>7 DEF HasEntry
<1>9. /\ TypeOK' /\ Confined(w) /\ pc'[w] = there /\ job'[w] = k
      /\ UNCHANGED <<val, id>> /\ (disturbed[t] => disturbed'[t])
  BY <1>1, <1>2, <1>4, <1>5, <1>7, <1>8, EntryStep DEF Base, PCs
<1>10. Staged(w)' /\ Finished(w)'
  BY <1>3, <1>4, <1>5, <1>9 DEF Staged, Finished, Running
<1>11. ASSUME id[t] # 0, ~disturbed'[t], Own(w, t) PROVE Held(t)' /\ OwnJob(w, t)'
  <2>1. Held(t) /\ j.id = id[t]
    BY <1>1, <1>9, <1>11 DEF Base, Safe, Own
  <2>2. \A d : Ahead(t, d) => Ahead(t, d)'
    BY <1>1, <1>9, <1>11, OwnAhead DEF Running
  <2>3. /\ HasEntry(t, id[t])'
        /\ HasEntry(t, id[t]) => cache'[t].base = cache[t].base /\ cache'[t].managed = cache[t].managed
        /\ ~HasEntry(t, id[t]) => cache'[t].base = NoBase
    <3>1. CASE Hit(j)
      BY <1>2, <1>7, <1>9, <2>1, <3>1 DEF Hit, HasEntry
    <3>2. CASE ~Hit(j)
      <4>1. cache'[t] = UpdatedEntry(j, r) /\ cache'[t] # NoEntry /\ id'[t] = id[t]
        BY <1>6, <1>7, <1>9, <3>2, Params
      <4>2. cache'[t].id = id'[t]
        BY <1>6, <2>1, <4>1
      <4> QED BY <1>6, <2>1, <4>1, <4>2 DEF HasEntry
    <3> QED BY <3>1, <3>2
  <2>4. Held(t)'
    BY <1>9, <2>1, <2>2, <2>3, Bases0 DEF Held
  <2>5. OwnJob(w, t)'
    BY <1>5, <1>9, <2>3 DEF OwnJob, Running
  <2> QED BY <2>4, <2>5
<1> QED BY <1>1, <1>2, <1>9, <1>10, <1>11 DEF Good, OwnSafe

\* A keyed operation on whatever entry the thread has.
LEMMA KeyedStep ==
    ASSUME TypeOK, NEW w \in Actors, NEW t \in Threads, job[w].t = t,
           UNCHANGED <<kernel, mainVars, events, scan>>, Blame(w), NEW e, Keyed(w, e),
           cache[t] # NoEntry => e \in Entries /\ e.id = cache[t].id /\ e.proc = cache[t].proc,
           NEW there \in PCs, NEW k \in Jobs \cup {None}, Goto(w, there, k),
           there # "idle" => k.t = job[w].t /\ k.id = job[w].id /\ k.proc = job[w].proc
    PROVE  /\ TypeOK' /\ Confined(w) /\ pc'[w] = there /\ job'[w] = k
           /\ UNCHANGED <<val, id>> /\ (disturbed[t] => disturbed'[t])
           /\ cache'[t] = IF cache[t] = NoEntry THEN NoEntry ELSE e
           /\ HasEntry(t, id[t])' <=> HasEntry(t, id[t])
<1>1. /\ CacheOK' /\ (\A u \in Threads : u # t => cache'[u] = cache[u])
      /\ cache'[t] = IF cache[t] = NoEntry THEN NoEntry ELSE e
  BY KeyedType DEF TypeOK
<1>2. /\ TypeOK' /\ Confined(w) /\ pc'[w] = there /\ job'[w] = k
      /\ UNCHANGED <<val, id>> /\ (disturbed[t] => disturbed'[t])
  BY <1>1, EntryStep
<1>3. HasEntry(t, id[t])' <=> HasEntry(t, id[t])
  BY <1>1, <1>2, Params DEF HasEntry
<1> QED BY <1>1, <1>2, <1>3

LEMMA SetBaselineStep ==
    ASSUME Base, NEW w \in Workers, SetBaseline(w) PROVE Good(w)
<1>1. w \in Actors /\ w # Main /\ pc[w] = "capset" /\ JobsOK /\ Exclusion /\ CacheOK /\ TypeOK
  BY Params DEF SetBaseline, Base, TypeOK
<1> DEFINE j == job[w]
           e == cache[j.t]
           b == [a \in Attrs |-> IF e.base[a] = None THEN j.base[a] ELSE e.base[a]]
           f == [e EXCEPT !.base = b]
           k == [j EXCEPT !.base = NoBase]
<1>2. PICK t \in Threads : j.t = t /\ j \in Jobs /\ j.res \in Results /\ j.base \in Bases
  BY <1>1, JobAt DEF WorkerJob, Staged
<1>3. /\ k \in Jobs /\ k.t = j.t /\ k.id = j.id /\ k.proc = j.proc /\ k.res = j.res
  BY <1>2, Bases0 DEF Jobs
<1>4. ASSUME cache[t] # NoEntry
      PROVE  /\ f \in Entries /\ f.id = e.id /\ f.proc = e.proc /\ f.managed = e.managed
             /\ f.base = b
  <2>1. e \in Entries /\ e.base \in Bases
    BY <1>1, <1>2, <1>4 DEF CacheOK, Entries
  <2>2. b \in Bases
    BY <1>2, <2>1 DEF Bases
  <2> QED BY <2>1, <2>2 DEF Entries
<1>5. /\ Keyed(w, f) /\ Goto(w, "plan", k) /\ Blame(w)
      /\ UNCHANGED <<kernel, mainVars, events, scan>>
  BY DEF SetBaseline
<1> HIDE DEF k, f
<1>6. /\ TypeOK' /\ Confined(w) /\ pc'[w] = "plan" /\ job'[w] = k
      /\ UNCHANGED <<val, id>> /\ (disturbed[t] => disturbed'[t])
      /\ cache'[t] = IF cache[t] = NoEntry THEN NoEntry ELSE f
      /\ HasEntry(t, id[t])' <=> HasEntry(t, id[t])
  BY <1>1, <1>2, <1>3, <1>4, <1>5, KeyedStep DEF PCs
<1>7. Staged(w)' /\ Finished(w)'
  BY <1>2, <1>3, <1>6 DEF Staged, Finished, Running
<1>8. ASSUME id[t] # 0, ~disturbed'[t], Own(w, t) PROVE Held(t)' /\ OwnJob(w, t)'
  <2>1. Held(t) /\ OwnJob(w, t) /\ id[t] # None
    BY <1>1, <1>6, <1>8, LiveStart, Distinct DEF Base, TypeOK, Safe
  <2>2. \A d : Ahead(t, d) => Ahead(t, d)'
    BY <1>1, <1>6, <1>8, OwnAhead DEF Running
  <2>3. HasEntry(t, id[t]) => cache'[t].managed = cache[t].managed
    BY <1>2, <1>4, <1>6 DEF HasEntry
  <2>4. HasEntry(t, id[t]) => cache'[t].base = b
    BY <1>4, <1>6 DEF HasEntry
  <2>5. ASSUME NEW a \in Attrs, HasEntry(t, id[t])
        PROVE  b[a] \in {None, id[t]} /\ (cache[t].base[a] = id[t] => b[a] = id[t])
    BY <1>1, <1>2, <2>1, <2>5 DEF Held, OwnJob
  <2> HIDE DEF b
  <2>6. Held(t)'
    BY <1>6, <2>1, <2>2, <2>3, <2>4, <2>5 DEF Held
  <2>7. cache'[t] = NoEntry \/ HasEntry(t, id[t])'
    BY <1>1, <1>6, <2>1 DEF OwnJob
  <2>8. OwnJob(w, t)'
    BY <1>6, <2>7 DEF OwnJob, Running
  <2> QED BY <2>6, <2>8
<1> QED BY <1>1, <1>2, <1>6, <1>7, <1>8 DEF Good, OwnSafe

LEMMA GetBaselineStep ==
    ASSUME Base, NEW w \in Workers, GetBaseline(w) PROVE Good(w)
<1>1. w \in Actors /\ w # Main /\ pc[w] = "getbase" /\ JobsOK /\ Exclusion /\ CacheOK /\ TypeOK
      /\ KernelOK
  BY Params DEF GetBaseline, Base, TypeOK
<1> DEFINE j == job[w]
           e == cache[j.t]
<1>2. PICK t \in Threads : j.t = t /\ j \in Jobs /\ j.res \in Results
  BY <1>1, JobAt DEF WorkerJob, Staged
<1>3. UNCHANGED <<kernel, mainVars, events, scan>> /\ Blame(w)
  BY DEF GetBaseline
<1>4. CASE HasBase(t)
  <2> DEFINE T == {a \in Attrs : e.base[a] # None}
             k == [j EXCEPT !.base = e.base, !.mode = "restore", !.todo = T]
  <2>1. e \in Entries /\ e.base \in Bases
    BY <1>1, <1>2, <1>4 DEF CacheOK, HasBase, Entries
  <2>2. /\ k \in Jobs /\ k.t = j.t /\ k.id = j.id /\ k.proc = j.proc /\ k.res = j.res
        /\ k.base = e.base /\ k.mode = "restore" /\ k.todo = T
    BY <1>2, <2>1 DEF Jobs
  <2>3. Goto(w, "check", k) /\ UNCHANGED cache
    BY <1>2, <1>4 DEF GetBaseline
  <2> HIDE DEF k
  <2>4. /\ TypeOK' /\ Confined(w) /\ pc'[w] = "check" /\ job'[w] = k
        /\ UNCHANGED <<val, id>> /\ (disturbed[t] => disturbed'[t])
    <3>1. CacheOK'
      BY <1>1, <2>3 DEF CacheOK
    <3> QED BY <1>1, <1>2, <1>3, <2>2, <2>3, <3>1, EntryStep DEF PCs
  <2>5. Staged(w)' /\ Finished(w)'
    BY <1>2, <2>2, <2>4 DEF Staged, Finished, Running
  <2>6. ASSUME id[t] # 0, ~disturbed'[t], Own(w, t) PROVE Held(t)' /\ OwnJob(w, t)'
    <3>1. Safe(t) /\ ~disturbed[t]
      BY <2>4, <2>6 DEF Base
    <3>2. Held(t)' /\ Held(t) /\ OwnJob(w, t) /\ (HasEntry(t, id[t])' <=> HasEntry(t, id[t]))
      BY <1>1, <2>3, <2>4, <2>6, <3>1, QuietHeld DEF Running
    <3>3. HasEntry(t, id[t])
      BY <1>1, <1>4, <3>2 DEF OwnJob, HasBase
    <3>4. id[t] # None
      BY <1>1, <2>6, LiveStart, Distinct
    <3>5. \A a \in Attrs \ T : val[t][a] = id[t]
      BY <1>2, <3>2, <3>4 DEF Held
    <3>6. Sequenced(job[w], t)'
      BY <1>2, <2>2, <2>3, <2>4, <3>2, <3>3, <3>5 DEF Sequenced
    <3>7. OwnJob(w, t)'
      BY <2>4, <3>2, <3>3, <3>6 DEF OwnJob, Running
    <3> QED BY <3>2, <3>7
  <2> QED BY <1>1, <1>2, <2>4, <2>5, <2>6 DEF Good, OwnSafe
<1>5. CASE ~HasBase(t)
  <2> DEFINE f == [e EXCEPT !.applied = None, !.managed = {}]
  <2>1. Keyed(w, f) /\ Goto(w, "idle", None)
    BY <1>2, <1>5 DEF GetBaseline, Quit
  <2>2. ASSUME cache[t] # NoEntry
        PROVE  f \in Entries /\ f.id = e.id /\ f.proc = e.proc /\ f.base = e.base
    BY <1>1, <1>2, <2>2 DEF CacheOK, Entries
  <2> HIDE DEF f
  <2>3. /\ TypeOK' /\ Confined(w) /\ pc'[w] = "idle"
        /\ UNCHANGED <<val, id>> /\ (disturbed[t] => disturbed'[t])
        /\ cache'[t] = IF cache[t] = NoEntry THEN NoEntry ELSE f
        /\ HasEntry(t, id[t])' <=> HasEntry(t, id[t])
    BY <1>1, <1>2, <1>3, <2>1, <2>2, KeyedStep DEF PCs
  <2>4. ASSUME id[t] # 0, ~disturbed'[t], Own(w, t) PROVE Held(t)' /\ ~Own(w, t)'
    <3>1. Held(t)
      BY <1>1, <2>3, <2>4 DEF Base, Safe
    <3>2. \A a \in Attrs : val[t][a] = id[t]
      BY <1>1, <1>5, <2>4, <3>1, Bare
    <3>3. HasEntry(t, id[t]) => cache'[t].base = cache[t].base
      BY <1>2, <2>2, <2>3 DEF HasEntry
    <3>4. Held(t)'
      BY <2>3, <3>1, <3>2, <3>3 DEF Held
    <3> QED BY <2>3, <3>4 DEF Own
  <2> QED BY <1>1, <1>2, <2>3, <2>4 DEF Good, OwnSafe
<1> QED BY <1>4, <1>5

LEMMA DiscardsStep ==
    ASSUME Base, NEW w \in Actors, Discards(w)
    PROVE  pc[w] \in Running /\ Good(w)
<1>1. /\ pc[w] \in Running /\ pc[w] # "idle" /\ JobsOK /\ Exclusion /\ TypeOK
      /\ KernelOK /\ CacheOK /\ DisturbedOK
  BY DEF Discards, Running, Base, TypeOK
<1>2. PICK t \in Threads : job[w].t = t
  BY <1>1, JobAt
<1>3. EraseIfIdentity(t, job[w].id) /\ Quit(w) /\ UNCHANGED <<kernel, mainVars, events, scan>>
  BY <1>2 DEF Discards
<1>4. /\ ActorsOK' /\ pc'[w] = "idle"
      /\ \A v \in Actors : v # w => pc'[v] = pc[v] /\ job'[v] = job[v]
  BY <1>1, <1>3, QuitType DEF TypeOK
<1>5. /\ CacheOK' /\ DisturbedOK'
      /\ \A u \in Threads : u # t => cache'[u] = cache[u] /\ disturbed'[u] = disturbed[u]
      /\ cache'[t] = IF HasEntry(t, job[w].id) THEN NoEntry ELSE cache[t]
      /\ disturbed[t] => disturbed'[t]
      /\ job[w].id = id[t] /\ LiveBase(t) => disturbed'[t]
  BY <1>1, <1>3, EraseType
<1>6. UNCHANGED <<clock, proc, id, val, cfg, phase, want, left, allOk, tries, events, scan>>
  BY <1>3 DEF kernel, mainVars
<1>7. TypeOK'
  BY <1>1, <1>4, <1>5, <1>6 DEF TypeOK, KernelOK, MainOK, ScanOK
<1>8. Confined(w)
  <2>1. Stale(w) => (cache'[t] = cache[t] \/ (cache'[t] = NoEntry /\ ~HasEntry(t, id[t])))
    BY <1>2, <1>5 DEF Stale, HasEntry
  <2>2. cache'[t] # NoEntry => cache'[t] = cache[t]
    BY <1>5
  <2> QED BY <1>2, <1>4, <1>5, <1>6, <2>1, <2>2 DEF Confined
<1>9. ASSUME id[t] # 0, ~disturbed'[t], Own(w, t) PROVE Held(t)' /\ ~Own(w, t)'
  <2>1. Held(t) /\ ~LiveBase(t) /\ job[w].id = id[t]
    BY <1>5, <1>9 DEF Base, Safe, Own
  <2>2. \A a \in Attrs : val[t][a] = id[t]
    <3>1. CASE HasBase(t)
      BY <1>9, <2>1, <3>1 DEF LiveBase, Held
    <3>2. CASE ~HasBase(t)
      BY <1>1, <1>9, <2>1, <3>2, Bare
    <3> QED BY <3>1, <3>2
  <2>3. ~HasEntry(t, id[t])'
    BY <1>5, <1>6, <2>1 DEF HasEntry
  <2>4. Held(t)'
    BY <1>6, <2>2, <2>3 DEF Held
  <2> QED BY <1>4, <2>4 DEF Own
<1> QED BY <1>1, <1>2, <1>4, <1>7, <1>8, <1>9 DEF Good, OwnSafe

LEMMA RestoreSettlesStep ==
    ASSUME Base, NEW w \in Actors, RestoreSettles(w)
    PROVE  pc[w] \in Running /\ Good(w)
<1>1. /\ pc[w] = "settle" /\ pc[w] \in Running /\ pc[w] # "idle" /\ JobsOK /\ Exclusion
      /\ TypeOK /\ CacheOK
  BY DEF RestoreSettles, Running, Base, TypeOK
<1> DEFINE e == cache[job[w].t]
           f == [e EXCEPT !.base = NoBase, !.applied = None, !.managed = {}]
<1>2. PICK t \in Threads : job[w].t = t /\ Finished(w)
  BY <1>1, JobAt
<1>3. /\ Keyed(w, f) /\ Goto(w, "idle", None) /\ Blame(w)
      /\ UNCHANGED <<kernel, mainVars, events, scan>> /\ job[w].mode = "restore"
  BY DEF RestoreSettles, Quit
<1>4. ASSUME cache[t] # NoEntry
      PROVE  f \in Entries /\ f.id = e.id /\ f.proc = e.proc /\ f.base = NoBase
  BY <1>1, <1>2, <1>4, Bases0 DEF CacheOK, Entries
<1> HIDE DEF f
<1>5. /\ TypeOK' /\ Confined(w) /\ pc'[w] = "idle"
      /\ UNCHANGED <<val, id>> /\ (disturbed[t] => disturbed'[t])
      /\ cache'[t] = IF cache[t] = NoEntry THEN NoEntry ELSE f
      /\ HasEntry(t, id[t])' <=> HasEntry(t, id[t])
  BY <1>1, <1>2, <1>3, <1>4, KeyedStep DEF PCs
<1>6. ASSUME id[t] # 0, ~disturbed'[t], Own(w, t) PROVE Held(t)' /\ ~Own(w, t)'
  <2>1. OwnJob(w, t)
    BY <1>5, <1>6 DEF Base, Safe
  <2>2. \A a \in Attrs : val[t][a] = id[t]
    BY <1>1, <1>2, <1>3, <2>1 DEF OwnJob, Sequenced, Finished
  <2>3. HasEntry(t, id[t]) => cache'[t].base = NoBase
    BY <1>4, <1>5 DEF HasEntry
  <2>4. Held(t)'
    BY <1>5, <2>2, <2>3, Bases0 DEF Held
  <2> QED BY <1>5, <2>4 DEF Own
<1> QED BY <1>1, <1>2, <1>5, <1>6 DEF Good, OwnSafe

LEMMA ApplySettlesStep ==
    ASSUME Base, NEW w \in Actors, ApplySettles(w)
    PROVE  pc[w] \in Running /\ Good(w)
<1>1. /\ pc[w] = "settle" /\ pc[w] \in Running /\ pc[w] # "idle" /\ JobsOK /\ Exclusion
      /\ TypeOK /\ CacheOK /\ KernelOK
  BY DEF ApplySettles, Running, Base, TypeOK
<1> DEFINE j == job[w]
           e == cache[j.t]
           f == [e EXCEPT !.managed = j.man \cup Needs[j.res],
                          !.applied = IF j.ok THEN j.res ELSE e.applied]
<1>2. PICK t \in Threads : j.t = t /\ j.man \in SUBSET Dims
  BY <1>1, JobAt
<1>3. /\ Keyed(w, f) /\ Goto(w, "idle", None) /\ Blame(w)
      /\ UNCHANGED <<kernel, mainVars, events, scan>> /\ j.mode = "apply"
  BY DEF ApplySettles, Quit
<1>4. j.res \in Results /\ Needs[j.res] \in SUBSET Dims
  BY <1>1, <1>3, JobAt, Params DEF WorkerJob, Staged, MainJob
<1>5. ASSUME cache[t] # NoEntry
      PROVE  /\ f \in Entries /\ f.id = e.id /\ f.proc = e.proc /\ f.base = e.base
             /\ f.managed = j.man \cup Needs[j.res]
  <2>1. e \in Entries
    BY <1>1, <1>2, <1>5 DEF CacheOK
  <2>2. (IF j.ok THEN j.res ELSE e.applied) \in Results \cup {None}
    BY <1>4, <2>1 DEF Entries
  <2> QED BY <1>2, <1>4, <2>1, <2>2 DEF Entries
<1> HIDE DEF f
<1>6. /\ TypeOK' /\ Confined(w) /\ pc'[w] = "idle"
      /\ UNCHANGED <<val, id>> /\ (disturbed[t] => disturbed'[t])
      /\ cache'[t] = IF cache[t] = NoEntry THEN NoEntry ELSE f
      /\ HasEntry(t, id[t])' <=> HasEntry(t, id[t])
  BY <1>1, <1>2, <1>3, <1>5, KeyedStep DEF PCs
<1>7. ASSUME id[t] # 0, ~disturbed'[t], Own(w, t) PROVE Held(t)' /\ ~Own(w, t)'
  <2>1. OwnJob(w, t) /\ Held(t)
    BY <1>6, <1>7 DEF Base, Safe
  <2>2. HasEntry(t, id[t]) => cache[t].managed = j.man
    BY <1>1, <1>3, <2>1 DEF OwnJob, Sequenced
  <2>3. HasEntry(t, id[t]) => cache'[t].base = cache[t].base
                              /\ cache'[t].managed = j.man \cup Needs[j.res]
    BY <1>2, <1>5, <1>6 DEF HasEntry
  <2>4. \A d : Ahead(t, d) => d \in Needs[j.res]
    BY <1>1, <1>7, AheadIsOwn
  <2>5. Held(t)'
    BY <1>6, <2>1, <2>2, <2>3, <2>4 DEF Held
  <2> QED BY <1>6, <2>5 DEF Own
<1> QED BY <1>1, <1>2, <1>6, <1>7 DEF Good, OwnSafe

LEMMA RemovalSettlesStep ==
    ASSUME Base, NEW w \in Actors, RemovalSettles(w)
    PROVE  pc[w] \in Running /\ Good(w)
<1>1. /\ pc[w] = "settle" /\ pc[w] \in Running /\ pc[w] # "idle" /\ JobsOK /\ Exclusion
      /\ TypeOK /\ CacheOK /\ KernelOK
  BY DEF RemovalSettles, Running, Base, TypeOK
<1> DEFINE j == job[w]
           e == cache[j.t]
           man == {d \in j.man : d \in Needs[j.res] \/ \E a \in j.todo : DimOf[a] = d}
           f == [e EXCEPT !.managed = man]
           k == [j EXCEPT !.man = man]
           m == IF j.todo = {} THEN ApplyJob(k) ELSE k
<1>2. PICK t \in Threads : /\ j.t = t /\ j \in Jobs /\ j.man \in SUBSET Dims
                           /\ j.todo \in SUBSET Attrs /\ Finished(w)
  BY <1>1, JobAt
<1>3. /\ Keyed(w, f) /\ Goto(w, "check", m) /\ Blame(w)
      /\ UNCHANGED <<kernel, mainVars, events, scan>> /\ j.mode = "remove"
  BY DEF RemovalSettles
<1>4. w \in Workers /\ w # Main /\ j.res \in Results
  BY <1>1, <1>3, JobAt, Params DEF MainJob, WorkerJob, Staged
<1>5. ASSUME cache[t] # NoEntry
      PROVE  /\ f \in Entries /\ f.id = e.id /\ f.proc = e.proc /\ f.base = e.base
             /\ f.managed = man
  BY <1>1, <1>2, <1>5 DEF CacheOK, Entries
<1>6. /\ k \in Jobs /\ k.t = j.t /\ k.id = j.id /\ k.proc = j.proc /\ k.res = j.res
      /\ k.base = j.base /\ k.man = man /\ k.mode = j.mode /\ k.todo = j.todo /\ k.ok = j.ok
  BY <1>2 DEF Jobs
<1> HIDE DEF f, k
<1>7. /\ m \in Jobs /\ m.t = j.t /\ m.id = j.id /\ m.proc = j.proc /\ m.res = j.res
      /\ m.base = j.base /\ m.man = man /\ m.mode \in {"remove", "apply"}
      /\ m.mode = "remove" => m.todo = j.todo
      /\ m.mode = "apply" => m.todo = {a \in Attrs : DimOf[a] \in Needs[j.res]}
  <2> HIDE DEF man
  <2>1. CASE j.todo = {}
    BY <1>6, <2>1 DEF ApplyJob, Jobs
  <2>2. CASE j.todo # {}
    BY <1>3, <1>6, <2>2
  <2> QED BY <2>1, <2>2
<1> HIDE DEF m
<1>8. /\ TypeOK' /\ Confined(w) /\ pc'[w] = "check" /\ job'[w] = m
      /\ UNCHANGED <<val, id>> /\ (disturbed[t] => disturbed'[t])
      /\ cache'[t] = IF cache[t] = NoEntry THEN NoEntry ELSE f
      /\ HasEntry(t, id[t])' <=> HasEntry(t, id[t])
  BY <1>1, <1>2, <1>3, <1>5, <1>7, KeyedStep DEF PCs
<1>9. Staged(w)' /\ Finished(w)'
  BY <1>4, <1>7, <1>8 DEF Staged, Finished, Running
<1>10. ASSUME id[t] # 0, ~disturbed'[t], Own(w, t) PROVE Held(t)' /\ OwnJob(w, t)'
  <2>1. OwnJob(w, t) /\ Held(t)
    BY <1>8, <1>10 DEF Base, Safe
  <2>2. Sequenced(j, t) /\ j.ok
    BY <1>1, <1>2, <1>3, <2>1 DEF OwnJob, Finished
  <2>3. HasEntry(t, id[t]) => cache'[t].base = cache[t].base /\ cache'[t].managed = man
    BY <1>2, <1>5, <1>8 DEF HasEntry
  <2>4. \A d : ~Ahead(t, d)
    BY <1>1, <1>3, <1>10, AheadIsOwn
  <2>5. \A a \in Attrs : val[t][a] # id[t] /\ DimOf[a] \in j.man => DimOf[a] \in man
    BY <1>3, <2>2 DEF Sequenced
  <2>6. HasEntry(t, id[t]) => cache[t].managed = j.man
    BY <1>3, <2>2 DEF Sequenced
  <2>7. Held(t)'
    <3> HIDE DEF man
    <3> QED BY <1>8, <2>1, <2>3, <2>4, <2>5, <2>6 DEF Held
  <2>8. \A a \in Attrs \ j.todo : DimOf[a] \in man \ Needs[j.res] => val[t][a] = id[t]
    BY <1>3, <2>2 DEF Sequenced
  <2>9. Sequenced(job[w], t)'
    <3> HIDE DEF man
    <3> QED BY <1>3, <1>7, <1>8, <2>2, <2>3, <2>8 DEF Sequenced
  <2>10. OwnJob(w, t)'
    BY <1>1, <1>8, <2>1, <2>9 DEF OwnJob, Running
  <2> QED BY <2>7, <2>10
<1> QED BY <1>1, <1>2, <1>4, <1>8, <1>9, <1>10 DEF Good, OwnSafe

----------------------------------------------------------------------------
(* The system calls.                                                       *)

\* What the own job's call on attribute a must leave behind: a thread that
\* is covered and accounted for, and a restored value if it counts as done.
Leaves(w, t, a, k) ==
    /\ val'[t][a] # id[t] =>
         /\ HasEntry(t, id[t]) /\ cache[t].base[a] = id[t]
         /\ \/ DimOf[a] \in cache[t].managed
            \/ w \in Workers /\ job[w].mode = "apply" /\ DimOf[a] \in Needs[job[w].res]
    /\ job[w].mode # "apply" /\ k.ok => job[w].ok /\ val'[t][a] = id[t]

LEMMA CallStep ==
    ASSUME Base, NEW w \in Actors, pc[w] = "write", NEW t \in Threads, job[w].t = t,
           NEW a \in job[w].todo, NEW k \in Jobs, NEW there \in {"check", "verify"},
           k.t = job[w].t /\ k.id = job[w].id /\ k.proc = job[w].proc,
           k.res = job[w].res /\ k.mode = job[w].mode /\ k.base = job[w].base,
           k.man = job[w].man /\ k.todo = job[w].todo \ {a},
           there = "verify" /\ k.mode = "restore" => k.todo = {},
           Goto(w, there, k), Blame(w),
           UNCHANGED <<clock, proc, id, cache, mainVars, events, scan>>,
           val' \in [Threads -> [Attrs -> Values]],
           \A u \in Threads : u # t => val'[u] = val[u],
           \A b \in Attrs : b # a => val'[t][b] = val[t][b],
           id[t] # 0 /\ ~disturbed[t] /\ Own(w, t) => Leaves(w, t, a, k)
    PROVE  Good(w)
<1>1. JobsOK /\ Exclusion /\ TypeOK /\ pc[w] # "idle" /\ pc[w] \in Running
  BY DEF Base, Running
<1>2. /\ ActorsOK' /\ pc'[w] = there /\ job'[w] = k
      /\ \A v \in Actors : v # w => pc'[v] = pc[v] /\ job'[v] = job[v]
  BY <1>1, GotoType DEF TypeOK, PCs
<1>3. UNCHANGED <<clock, proc, id, cache, cfg, phase, want, left, allOk, tries, events, scan>>
  BY DEF mainVars
<1>4. /\ DisturbedOK' /\ (\A u \in Threads : u # t => disturbed'[u] = disturbed[u])
      /\ disturbed[t] => disturbed'[t]
      /\ Stale(w) /\ val' # val => disturbed'[t]
  BY <1>1, BlameType DEF TypeOK
<1>5. TypeOK'
  BY <1>1, <1>2, <1>3, <1>4 DEF TypeOK, KernelOK, MainOK, ScanOK, CacheOK
<1>6. Confined(w)
  BY <1>2, <1>3, <1>4 DEF Confined
<1>7. /\ (w \in Workers => WorkerJob(w)) /\ (w = Main => MainJob)
      /\ job[w].mode \in {"remove", "apply", "restore"} /\ a \in Attrs
  BY <1>1, JobAt
<1>8. Finished(w)' /\ (w \in Workers => Staged(w)') /\ (w = Main => MainJob')
  <2>1. Finished(w)'
    BY <1>2 DEF Finished
  <2>2. w \in Workers => Staged(w)'
    BY <1>1, <1>2, <1>7 DEF Staged, WorkerJob, Running
  <2>3. w = Main => MainJob'
    BY <1>2, <1>3, <1>7 DEF MainJob, HasEntry, Running
  <2> QED BY <2>1, <2>2, <2>3
<1>9. ASSUME id[t] # 0, ~disturbed'[t], Own(w, t) PROVE Held(t)' /\ OwnJob(w, t)'
  <2>1. OwnJob(w, t) /\ Held(t) /\ Leaves(w, t, a, k)
    BY <1>4, <1>9 DEF Base, Safe
  <2>2. Sequenced(job[w], t)
    BY <1>1, <2>1 DEF OwnJob
  <2>3. \A d : Ahead(t, d) => Ahead(t, d)'
    BY <1>1, <1>2, <1>6, <1>9, OwnAhead DEF Running
  <2>4. w \in Workers /\ job[w].mode = "apply" => \A d \in Needs[job[w].res] : Ahead(t, d)'
    <3>1. pc'[w] \in Running /\ k.t = t /\ k.id = id'[t]
      BY <1>2, <1>3, <1>9 DEF Own, Running
    <3> QED BY <1>2, <3>1 DEF Ahead
  <2>5. HasEntry(t, id[t])' <=> HasEntry(t, id[t])
    BY <1>3 DEF HasEntry
  <2>6. Held(t)'
    <3> SUFFICES ASSUME NEW b \in Attrs, val'[t][b] # id[t]
                 PROVE  /\ HasEntry(t, id[t]) /\ cache[t].base[b] = id[t]
                        /\ DimOf[b] \in cache[t].managed \/ Ahead(t, DimOf[b])'
      BY <1>3, <2>1, <2>5 DEF Held
    <3>1. CASE b = a
      BY <2>1, <2>4, <3>1 DEF Leaves
    <3>2. CASE b # a
      BY <2>1, <2>3, <3>2 DEF Held
    <3> QED BY <3>1, <3>2
  <2>7. Sequenced(job[w], t)'
    <3>1. k.mode # "apply" /\ k.ok => job[w].ok /\ val'[t][a] = id[t]
      BY <2>1 DEF Leaves
    <3> QED BY <1>2, <1>3, <2>2, <2>5, <3>1 DEF Sequenced
  <2>8. OwnJob(w, t)'
    BY <1>1, <1>2, <1>3, <2>1, <2>5, <2>7 DEF OwnJob
  <2> QED BY <2>6, <2>8
<1> QED BY <1>5, <1>6, <1>8, <1>9 DEF Good, OwnSafe

\* The baseline a job works from is genuine and still filed.
LEMMA BaseHeld ==
    ASSUME KernelOK, JobsOK, NEW w \in Actors, NEW t \in Threads, pc[w] \in Running,
           id[t] # 0, Own(w, t), OwnJob(w, t), Held(t), NEW a \in Attrs, job[w].base[a] # None
    PROVE  HasEntry(t, id[t]) /\ cache[t].base[a] = id[t] /\ job[w].base[a] = id[t]
<1>1. job[w].base # NoBase
  BY Bases0
<1>2. HasEntry(t, id[t]) /\ cache[t].base = job[w].base
  BY <1>1 DEF OwnJob, Sequenced
<1> QED BY <1>2 DEF Held

LEMMA WriteStep ==
    ASSUME Base, NEW w \in Actors, NEW a \in Attrs, Write(w, a)
    PROVE  pc[w] \in Running /\ Good(w)
<1>1. /\ pc[w] = "write" /\ pc[w] \in Running /\ pc[w] # "idle" /\ JobsOK /\ Exclusion
      /\ TypeOK /\ KernelOK
  BY DEF Write, Running, Base, TypeOK
<1> DEFINE j == job[w]
           k == [j EXCEPT !.todo = j.todo \ {a}]
           nv == NewValue(j, a)
           there == After(a, k)
<1>2. PICK t \in Threads : /\ j.t = t /\ j \in Jobs /\ j.mode \in {"remove", "apply", "restore"}
                           /\ j.base \in Bases
  BY <1>1, JobAt
<1>3. /\ UNCHANGED <<clock, proc, id, cache, mainVars, events, scan>> /\ Blame(w)
      /\ a \in j.todo
  BY DEF Write, IsFirst
<1>4. /\ k \in Jobs /\ k.t = j.t /\ k.id = j.id /\ k.proc = j.proc /\ k.res = j.res
      /\ k.mode = j.mode /\ k.base = j.base /\ k.man = j.man /\ k.todo = j.todo \ {a}
      /\ k.ok = j.ok /\ j.ok \in BOOLEAN
  BY <1>2 DEF Jobs
<1>5. /\ there \in {"check", "verify"} /\ (there = "verify" /\ k.mode = "restore" => k.todo = {})
  BY AfterPlaces
<1>6. j.mode = "apply" => w \in Workers /\ j.res \in Results
  BY <1>1, JobAt DEF MainJob, WorkerJob, Staged
<1>7. nv # None => nv \in Values
  BY <1>2, <1>6 DEF NewValue, Values, Bases
<1>8. Partial \in Values
  BY DEF Values
<1>9. \A x \in BOOLEAN : LET m == [k EXCEPT !.ok = x]
                          IN /\ m \in Jobs /\ m.t = j.t /\ m.id = j.id /\ m.proc = j.proc
                             /\ m.res = j.res /\ m.mode = j.mode /\ m.base = j.base
                             /\ m.man = j.man /\ m.todo = j.todo \ {a} /\ m.ok = x
  <2> HIDE DEF k
  <2> QED BY <1>4 DEF Jobs
<1>10. ASSUME NEW v \in Values, val' = [val EXCEPT ![t][a] = v]
       PROVE  /\ val' \in [Threads -> [Attrs -> Values]]
              /\ \A u \in Threads : u # t => val'[u] = val[u]
              /\ \A b \in Attrs : b # a => val'[t][b] = val[t][b]
              /\ val'[t][a] = v
  BY <1>1, <1>10 DEF KernelOK
<1>11. ASSUME UNCHANGED val
       PROVE  /\ val' \in [Threads -> [Attrs -> Values]]
              /\ \A u \in Threads : u # t => val'[u] = val[u]
              /\ \A b \in Attrs : b # a => val'[t][b] = val[t][b]
              /\ val'[t][a] = val[t][a]
  BY <1>1, <1>11 DEF KernelOK
\* What is known of the own thread before the call.
<1>12. ASSUME id[t] # 0, ~disturbed[t], Own(w, t)
       PROVE  /\ j.base[a] # None => /\ HasEntry(t, id[t]) /\ cache[t].base[a] = id[t]
                                     /\ j.base[a] = id[t]
              /\ j.mode = "apply" => DimOf[a] \in Needs[j.res] /\ j.base[a] # None
              /\ j.mode = "restore" => j.base[a] # None
              /\ val[t][a] # id[t] =>
                    /\ HasEntry(t, id[t]) /\ cache[t].base[a] = id[t]
                    /\ DimOf[a] \in cache[t].managed
                       \/ (j.mode = "apply" /\ DimOf[a] \in Needs[j.res])
              /\ j.base[a] = None => val[t][a] = id[t]
  <2>1. OwnJob(w, t) /\ Held(t) /\ id[t] # None
    BY <1>1, <1>12, LiveStart, Distinct DEF Base, Safe
  <2>2. Sequenced(j, t)
    BY <1>1, <2>1 DEF OwnJob
  <2>3. j.base[a] # None => /\ HasEntry(t, id[t]) /\ cache[t].base[a] = id[t]
                            /\ j.base[a] = id[t]
    BY <1>1, <1>12, <2>1, BaseHeld
  <2>4. /\ j.mode = "apply" => DimOf[a] \in Needs[j.res] /\ j.base[a] # None
        /\ j.mode = "restore" => j.base[a] # None
    BY <1>3, <2>2 DEF Sequenced
  <2>5. Ahead(t, DimOf[a]) => j.mode = "apply" /\ DimOf[a] \in Needs[j.res]
    BY <1>1, <1>12, AheadIsOwn
  <2>6. val[t][a] # id[t] =>
                    /\ HasEntry(t, id[t]) /\ cache[t].base[a] = id[t]
                    /\ DimOf[a] \in cache[t].managed
                       \/ (j.mode = "apply" /\ DimOf[a] \in Needs[j.res])
    BY <2>1, <2>5 DEF Held
  <2>7. j.base[a] = None => val[t][a] = id[t]
    BY <2>1, <2>2, <2>6 DEF Sequenced
  <2> QED BY <2>3, <2>4, <2>6, <2>7
<1> HIDE DEF k, there, nv
<1>13. CASE nv # None /\ val' = [val EXCEPT ![t][a] = nv] /\ Goto(w, there, k)
  <2>1. /\ val' \in [Threads -> [Attrs -> Values]]
        /\ \A u \in Threads : u # t => val'[u] = val[u]
        /\ \A b \in Attrs : b # a => val'[t][b] = val[t][b]
        /\ val'[t][a] = nv
    BY <1>7, <1>10, <1>13
  <2>2. id[t] # 0 /\ ~disturbed[t] /\ Own(w, t) => Leaves(w, t, a, k)
    BY <1>4, <1>6, <1>12, <1>13, <2>1 DEF Leaves, NewValue, nv
  <2> QED BY <1>1, <1>2, <1>3, <1>4, <1>5, <1>13, <2>1, <2>2, CallStep
<1>14. CASE /\ nv # None /\ Halfway(j, a) /\ val[t][a] # nv
            /\ val' = [val EXCEPT ![t][a] = Partial] /\ Goto(w, there, [k EXCEPT !.ok = FALSE])
  <2> DEFINE m == [k EXCEPT !.ok = FALSE]
  <2>1. /\ val' \in [Threads -> [Attrs -> Values]]
        /\ \A u \in Threads : u # t => val'[u] = val[u]
        /\ \A b \in Attrs : b # a => val'[t][b] = val[t][b]
    BY <1>8, <1>10, <1>14
  <2>2. /\ m \in Jobs /\ m.t = j.t /\ m.id = j.id /\ m.proc = j.proc /\ m.res = j.res
        /\ m.mode = j.mode /\ m.base = j.base /\ m.man = j.man /\ m.todo = j.todo \ {a}
        /\ m.ok = FALSE
    BY <1>9
  <2> HIDE DEF m
  <2>3. id[t] # 0 /\ ~disturbed[t] /\ Own(w, t) => Leaves(w, t, a, m)
    BY <1>2, <1>6, <1>12, <1>14, <2>2 DEF Leaves, NewValue, nv
  <2>4. Goto(w, there, m)
    BY <1>14 DEF m
  <2> QED BY <1>1, <1>2, <1>3, <1>4, <1>5, <2>1, <2>2, <2>3, <2>4, CallStep
<1>15. ASSUME NEW x \in BOOLEAN, UNCHANGED val, Goto(w, there, [k EXCEPT !.ok = x]),
              j.mode # "apply" /\ x => j.ok /\ (id[t] # 0 /\ ~disturbed[t] /\ Own(w, t) => val[t][a] = id[t])
       PROVE  Good(w)
  <2> DEFINE m == [k EXCEPT !.ok = x]
  <2>1. /\ val' \in [Threads -> [Attrs -> Values]]
        /\ \A u \in Threads : u # t => val'[u] = val[u]
        /\ \A b \in Attrs : b # a => val'[t][b] = val[t][b]
        /\ val'[t][a] = val[t][a]
    BY <1>11, <1>15
  <2>2. /\ m \in Jobs /\ m.t = j.t /\ m.id = j.id /\ m.proc = j.proc /\ m.res = j.res
        /\ m.mode = j.mode /\ m.base = j.base /\ m.man = j.man /\ m.todo = j.todo \ {a}
        /\ m.ok = x
    BY <1>9
  <2> HIDE DEF m
  <2>3. id[t] # 0 /\ ~disturbed[t] /\ Own(w, t) => Leaves(w, t, a, m)
    BY <1>6, <1>12, <1>15, <2>1, <2>2 DEF Leaves
  <2>4. Goto(w, there, m)
    BY <1>15 DEF m
  <2> QED BY <1>1, <1>2, <1>3, <1>4, <1>5, <2>1, <2>2, <2>3, <2>4, CallStep
<1>16. CASE /\ nv # None /\ UNCHANGED val
            /\ Goto(w, there, [k EXCEPT !.ok = k.ok /\ (IF j.mode = "apply" /\ DimOf[a] = "affinity"
                                                  THEN id[t] # 0 /\ val[t][a] = j.res ELSE FALSE)])
  <2> DEFINE x == k.ok /\ (IF j.mode = "apply" /\ DimOf[a] = "affinity"
                           THEN id[t] # 0 /\ val[t][a] = j.res ELSE FALSE)
  <2>1. x \in BOOLEAN
    BY Zenon
  <2>2. j.mode # "apply" => ~x
    OBVIOUS
  <2>3. UNCHANGED val /\ Goto(w, there, [k EXCEPT !.ok = x])
    BY <1>16
  <2> HIDE DEF x
  <2> QED BY <1>1, <1>15, <2>1, <2>2, <2>3
<1>17. CASE /\ nv = None /\ UNCHANGED val
            /\ Goto(w, there, [k EXCEPT !.ok = k.ok /\ DimOf[a] = "affinity"])
  <2> DEFINE x == k.ok /\ DimOf[a] = "affinity"
  <2>1. x \in BOOLEAN
    BY Zenon
  <2>2. x => j.ok
    BY <1>4
  <2>3. UNCHANGED val /\ Goto(w, there, [k EXCEPT !.ok = x])
    BY <1>17
  <2>4. j.mode # "apply" /\ id[t] # 0 /\ ~disturbed[t] /\ Own(w, t) => val[t][a] = id[t]
    BY <1>12, <1>17 DEF nv, NewValue
  <2> HIDE DEF x
  <2> QED BY <1>1, <1>15, <2>1, <2>2, <2>3, <2>4
<1>18. \/ nv # None /\ val' = [val EXCEPT ![t][a] = nv] /\ Goto(w, there, k)
       \/ /\ nv # None /\ Halfway(j, a) /\ val[t][a] # nv
          /\ val' = [val EXCEPT ![t][a] = Partial] /\ Goto(w, there, [k EXCEPT !.ok = FALSE])
       \/ /\ nv # None /\ UNCHANGED val
          /\ Goto(w, there, [k EXCEPT !.ok = k.ok /\ (IF j.mode = "apply" /\ DimOf[a] = "affinity"
                                                  THEN id[t] # 0 /\ val[t][a] = j.res ELSE FALSE)])
       \/ /\ nv = None /\ UNCHANGED val
          /\ Goto(w, there, [k EXCEPT !.ok = k.ok /\ DimOf[a] = "affinity"])
  BY <1>2, Zenon DEF Write, nv, there, k
<1> QED BY <1>1, <1>13, <1>14, <1>16, <1>17, <1>18

----------------------------------------------------------------------------
(* The steps of all jobs together, and the restoration they belong to.     *)

\* The worker's steps that begin with a job in hand.
JobWork(w) ==
    \/ NothingToDo(w) \/ Look(w) \/ CaptureCheck(w) \/ SetBaseline(w) \/ Plan(w) \/ GetBaseline(w)
    \/ \E missing \in CaptureMisses : Capture(w, missing)

LEMMA JobSteps ==
    ASSUME Base, NEW w \in Actors, (w \in Workers /\ JobWork(w)) \/ Sequence(w)
    PROVE  pc[w] # "idle" /\ Good(w) /\ Base'
<1>1. pc[w] # "idle" /\ Good(w)
  <2>1. CASE w \in Workers /\ JobWork(w)
    <3>1. pc[w] # "idle"
      BY <2>1 DEF JobWork, NothingToDo, Look, CaptureCheck, SetBaseline, Plan, GetBaseline, Capture
    <3>2. CASE \E missing \in CaptureMisses : Capture(w, missing)
      BY <2>1, <3>1, <3>2, CaptureStep
    <3> QED BY <2>1, <3>1, <3>2, NothingToDoStep, LookStep, CaptureCheckStep, SetBaselineStep,
               PlanStep, GetBaselineStep DEF JobWork
  <2>2. CASE Sequence(w)
    <3>1. pc[w] \in Running => pc[w] # "idle"
      BY DEF Running
    <3>2. ASSUME NEW a \in Attrs, Write(w, a) PROVE pc[w] \in Running /\ Good(w)
      BY <3>2, WriteStep
    <3>3. ASSUME \/ CheckPasses(w) \/ RemovalAborts(w) \/ TakeoverBreaks(w) \/ Verify(w)
                 \/ \E a \in Attrs : RestoreSkips(w, a)
          PROVE  pc[w] \in Running /\ Good(w)
      BY <3>3, QuietSequence
    <3> QED BY <2>2, <3>1, <3>2, <3>3, DiscardsStep, RemovalSettlesStep, ApplySettlesStep,
               RestoreSettlesStep DEF Sequence
  <2> QED BY <2>1, <2>2
<1>2. job[w].t \in Threads
  BY <1>1, JobAt DEF Base
<1> QED BY <1>1, <1>2, GoodSteps

LEMMA Elsewhere ==
    ASSUME phase' \notin {"restoring", "clean"} PROVE Restoring' /\ ExitClean'
BY DEF Restoring, ExitClean

LEMMA WorkerElsewhere ==
    ASSUME Exclusion, NEW w \in Workers, pc[w] # "idle", UNCHANGED phase
    PROVE  Restoring' /\ ExitClean'
<1>1. phase \in {"run", "stopping"}
  BY DEF Exclusion, WorkersIdle
<1> QED BY <1>1, Elsewhere

\* The main thread lets go of a thread only when it is restored, disturbed,
\* or counted as a failure.
LEMMA MainRestoring ==
    ASSUME Base, Restoring, pc[Main] # "idle", NEW T \in Threads, job[Main].t = T, Confined(Main),
           allOk' => allOk,
           Own(Main, T) /\ ~disturbed'[T] /\ pc'[Main] = "idle" /\ allOk' =>
               \A a \in Attrs : val'[T][a] = id[T]
    PROVE  Restoring' /\ ExitClean'
<1>1. MainJob /\ phase = "restoring" /\ T \notin left
  BY DEF Base, JobsOK, MainJob
<1>2. /\ UNCHANGED <<id, left, phase>>
      /\ \A u \in Threads : u # T =>
             cache'[u] = cache[u] /\ val'[u] = val[u] /\ disturbed'[u] = disturbed[u]
      /\ disturbed[T] => disturbed'[T]
      /\ Stale(Main) /\ ~disturbed'[T] => val'[T] = val[T]
      /\ pc'[Main] # "idle" => job'[Main].t = T /\ job'[Main].id = job[Main].id
  BY DEF Confined
<1>3. left \subseteq Threads
  BY DEF Base, TypeOK, MainOK
<1>4. \A u \in left : HasBase(u)'
  BY <1>1, <1>2, <1>3 DEF Restoring, HasBase
<1>5. ASSUME allOk', NEW u \in Threads, NEW a \in Attrs, Touched(u, a)', ~disturbed'[u]
      PROVE  u \in left \/ Own(Main, u)'
  <2>1. CASE u # T
    <3>1. Touched(u, a) /\ ~disturbed[u] /\ ~Own(Main, u)
      BY <1>2, <1>5, <2>1 DEF Touched, Own
    <3> QED BY <1>1, <1>5, <3>1 DEF Restoring
  <2>2. CASE u = T /\ ~Own(Main, T)
    <3>1. Stale(Main)
      BY <1>2, <1>5, <2>2 DEF Own, Stale, Touched
    <3>2. Touched(T, a) /\ ~disturbed[T]
      BY <1>2, <1>5, <2>2, <3>1 DEF Touched
    <3> QED BY <1>1, <1>5, <2>2, <3>2 DEF Restoring
  <2>3. CASE u = T /\ Own(Main, T)
    <3>1. pc'[Main] # "idle"
      BY <1>2, <1>5, <2>3 DEF Touched
    <3> QED BY <1>2, <2>3, <3>1 DEF Own
  <2> QED BY <2>1, <2>2, <2>3
<1>6. Restoring'
  BY <1>2, <1>4, <1>5 DEF Restoring
<1>7. ExitClean'
  BY <1>1, <1>2 DEF ExitClean
<1> QED BY <1>6, <1>7

LEMMA MainSequence ==
    ASSUME Base, Restoring, Sequence(Main) PROVE Restoring' /\ ExitClean'
<1>1. Main \in Actors /\ Main \notin Workers
  BY Params
<1>2. pc[Main] # "idle" /\ Good(Main)
  BY <1>1, JobSteps
<1>3. MainJob /\ Finished(Main) /\ job[Main].mode = "restore" /\ Confined(Main)
  BY <1>2 DEF Base, JobsOK, MainJob, Good
<1>4. PICK T \in Threads : job[Main].t = T
  BY <1>1, <1>2, JobAt DEF Base
<1> DEFINE Done == Own(Main, T) /\ ~disturbed'[T] /\ pc'[Main] = "idle" /\ allOk' =>
                     \A a \in Attrs : val'[T][a] = id[T]
<1>5. SUFFICES (allOk' => allOk) /\ Done
  BY <1>2, <1>3, <1>4, MainRestoring
<1> HIDE DEF Done
<1>6. TypeOK
  BY DEF Base
<1>7. CASE CheckPasses(Main)
  <2>1. pc'[Main] = "write" /\ UNCHANGED allOk
    BY <1>1, <1>6, <1>7 DEF CheckPasses, Goto, mainVars, TypeOK, ActorsOK
  <2> QED BY <2>1 DEF Done
<1>8. CASE Discards(Main)
  <2>1. EraseIfIdentity(T, job[Main].id) /\ UNCHANGED allOk
    BY <1>4, <1>8 DEF Discards, mainVars
  <2>2. job[Main].id = id[T] /\ LiveBase(T) => disturbed'[T]
    BY <1>6, <2>1, EraseType DEF TypeOK
  <2>3. Own(Main, T) => id[T] # 0 /\ job[Main].id = id[T]
    <3>1. job[Main].id \in Starts
      BY <1>1, <1>2, JobAt DEF Base
    <3> QED BY <3>1, Distinct DEF Own
  <2>4. Own(Main, T) => LiveBase(T)
    BY <1>3, <1>4, <2>3 DEF MainJob, LiveBase, HasBase, HasEntry
  <2> QED BY <2>1, <2>2, <2>3, <2>4 DEF Done
<1>9. ASSUME NEW a \in Attrs, Write(Main, a) PROVE (allOk' => allOk) /\ Done
  <2>1. UNCHANGED allOk
    BY <1>9 DEF Write, mainVars
  <2>2. PICK there \in {"verify", "check"} : pc' = [pc EXCEPT ![Main] = there]
    BY <1>9, AfterPlaces DEF Write, Goto
  <2>3. pc'[Main] # "idle"
    BY <1>1, <1>6, <2>2 DEF TypeOK, ActorsOK
  <2> QED BY <2>1, <2>3 DEF Done
<1>10. CASE Verify(Main)
  <2>1. allOk' = (allOk /\ job[Main].ok)
    BY <1>10, Zenon DEF Verify
  <2>2. allOk' => allOk /\ job[Main].ok
    BY <2>1
  <2>3. job[Main].ok => pc'[Main] = "settle"
    BY <1>1, <1>3, <1>6, <1>10 DEF Verify, Goto, Quit, TypeOK, ActorsOK
  <2> QED BY <2>2, <2>3 DEF Done
<1>11. CASE RestoreSettles(Main)
  <2>1. UNCHANGED <<allOk, val>> /\ pc[Main] = "settle"
    BY <1>11 DEF RestoreSettles, mainVars, kernel
  <2>2. Own(Main, T) => id[T] # 0
    <3>1. job[Main].id \in Starts
      BY <1>1, <1>2, JobAt DEF Base
    <3> QED BY <3>1, Distinct DEF Own
  <2>3. Own(Main, T) /\ ~disturbed'[T] => OwnJob(Main, T)
    BY <1>1, <1>3, <1>4, <2>2 DEF Base, Safe, Confined
  <2>4. Own(Main, T) /\ ~disturbed'[T] => \A a \in Attrs : val[T][a] = id[T]
    BY <1>3, <2>1, <2>3 DEF OwnJob, Sequenced, Finished, Running
  <2> QED BY <2>1, <2>4 DEF Done
<1>12. /\ ~RemovalAborts(Main) /\ ~TakeoverBreaks(Main) /\ ~RemovalSettles(Main)
       /\ ~ApplySettles(Main) /\ \A a \in Attrs : ~RestoreSkips(Main, a)
  BY <1>1, <1>3 DEF RemovalAborts, TakeoverBreaks, RemovalSettles, ApplySettles, RestoreSkips
<1> QED BY <1>7, <1>8, <1>9, <1>10, <1>11, <1>12 DEF Sequence

----------------------------------------------------------------------------
(* The kernel's steps.                                                     *)

\* Threads that begin are new and untouched, threads that end are of no
\* concern, and nothing of the others changes but towards the system's value.
KernelMoves ==
    /\ UNCHANGED <<cache, pc, job, mainVars, scan>>
    /\ clock <= clock'
    /\ \A u \in Threads :
         \/ /\ id'[u] = id[u] /\ disturbed'[u] = disturbed[u]
            /\ \A a \in Attrs : val'[u][a] = val[u][a] \/ val'[u][a] = id[u]
            /\ id[u] # 0 => proc'[PidOf[u]] = proc[PidOf[u]]
         \/ id'[u] = 0
         \/ /\ id'[u] = clock' /\ clock < clock'
            /\ \A a \in Attrs : val'[u][a] = id'[u]

LEMMA Later ==
    \A x, y, z \in Nat : (x <= y /\ y <= z => x <= z) /\ (x <= y /\ y < z => x # z)
OBVIOUS

LEMMA KernelStep ==
    ASSUME IInv, KernelMoves, KernelOK', events' \subseteq Pids, DisturbedOK', Lives'
    PROVE  IInv'
<1>1. UNCHANGED <<cache, pc, job, cfg, phase, want, left, allOk, tries, scan>>
  BY DEF KernelMoves, mainVars
<1>2. KernelOK /\ CacheOK /\ TypeOK /\ JobsOK /\ Filed /\ Exclusion /\ ScanTracks
  BY DEF IInv, TypeOK
<1>3. TypeOK'
  BY <1>1, <1>2 DEF TypeOK, CacheOK, ActorsOK, MainOK, ScanOK
<1>4. clock \in Nat /\ clock' \in Nat /\ clock <= clock'
  <2>1. MaxStart \in Nat
    BY Params
  <2>2. clock \in Nat
    BY <1>2, <2>1 DEF KernelOK
  <2>3. clock' \in Nat
    BY <2>1 DEF KernelOK
  <2> QED BY <2>2, <2>3 DEF KernelMoves
<1>5. ASSUME NEW u \in Threads, NEW g \in Nat, g # 0, g <= clock, id'[u] = g
      PROVE  /\ id'[u] = id[u] /\ disturbed'[u] = disturbed[u]
             /\ \A a \in Attrs : val'[u][a] = val[u][a] \/ val'[u][a] = id[u]
             /\ proc'[PidOf[u]] = proc[PidOf[u]]
  <2>1. clock < clock' => g # clock'
    BY <1>4, <1>5, Later
  <2> QED BY <1>5, <2>1 DEF KernelMoves
<1>6. \A g \in Nat : g <= clock => g <= clock'
  BY <1>4, Later
<1>7. \A t \in Threads : cache[t] # NoEntry =>
         cache[t].id \in Nat /\ cache[t].id # 0 /\ cache[t].id <= clock
  <2>1. \A t \in Threads : cache[t] # NoEntry => cache[t].id \in Starts
    BY <1>2 DEF CacheOK, Entries
  <2> QED BY <1>2, <2>1, Params DEF Filed, Starts
<1>8. Filed'
  <2> SUFFICES ASSUME NEW t \in Threads, cache[t] # NoEntry
               PROVE  /\ cache[t].id <= clock'
                      /\ cache[t].id = id'[t] => cache[t].proc = proc'[PidOf[t]]
    BY <1>1 DEF Filed
  <2>1. cache[t].id = id'[t] => id[t] = cache[t].id /\ proc'[PidOf[t]] = proc[PidOf[t]]
    BY <1>5, <1>7
  <2> QED BY <1>2, <1>6, <1>7, <2>1 DEF Filed
<1>9. \A w \in Actors : pc[w] # "idle" => job[w].id \in Nat /\ job[w].id # 0 /\ job[w].id <= clock
  <2> SUFFICES ASSUME NEW w \in Actors, pc[w] # "idle"
               PROVE  job[w].id \in Nat /\ job[w].id # 0 /\ job[w].id <= clock
    OBVIOUS
  <2>1. job[w].id \in Starts /\ job[w].t \in Threads
    BY <1>2, JobAt
  <2>2. job[w].id <= clock
    <3>1. CASE w \in Workers
      BY <1>2, <3>1 DEF JobsOK, WorkerJob
    <3>2. CASE w = Main
      BY <1>2, <1>7, <2>1, <3>2 DEF JobsOK, MainJob, HasEntry
    <3> QED BY <3>1, <3>2 DEF Actors
  <2> QED BY <2>1, <2>2, Params DEF Starts
<1>10. JobsOK'
  <2>1. ASSUME NEW w \in Workers, pc[w] # "idle" PROVE WorkerJob(w)' /\ Finished(w)'
    <3>1. WorkerJob(w) /\ Finished(w) /\ w \in Actors /\ job[w].t \in Threads
      BY <1>2, <2>1, JobAt, Params
    <3>2. job[w].id <= clock'
      BY <1>6, <1>9, <2>1, <3>1
    <3>3. job[w].id = id'[job[w].t] =>
             id[job[w].t] = job[w].id /\ proc'[PidOf[job[w].t]] = proc[PidOf[job[w].t]]
      BY <1>5, <1>9, <2>1, <3>1
    <3> QED BY <1>1, <3>1, <3>2, <3>3 DEF WorkerJob, Staged, Finished
  <2>2. pc[Main] # "idle" => MainJob' /\ Finished(Main)'
    BY <1>1, <1>2 DEF JobsOK, MainJob, Finished, HasEntry
  <2> QED BY <1>1, <2>1, <2>2 DEF JobsOK
<1>11. Exclusion'
  BY <1>1, <1>2 DEF Exclusion, WorkersIdle
<1>12. ScanTracks'
  <2> SUFFICES ASSUME scan # None, NEW t \in Threads
               PROVE  /\ scan.snap[t] <= clock'
                      /\ id'[t] # 0 /\ scan.snap[t] = id'[t] /\ t \notin scan.missed =>
                           \/ PidOf[t] \in scan.todo /\ scan.seen[t] = 0
                           \/ /\ PidOf[t] \notin scan.todo
                              /\ scan.procs[PidOf[t]] = proc'[PidOf[t]]
                              /\ scan.seen[t] \in {0, id'[t]}
    BY <1>1 DEF ScanTracks
  <2>1. scan.snap[t] \in Nat /\ scan.snap[t] <= clock
    BY <1>2 DEF TypeOK, ScanOK, Scans, ScanTracks
  <2>2. id'[t] # 0 /\ scan.snap[t] = id'[t] =>
          id'[t] = id[t] /\ proc'[PidOf[t]] = proc[PidOf[t]]
    BY <1>5, <2>1
  <2> QED BY <1>2, <1>6, <2>1, <2>2 DEF ScanTracks
<1>13. ASSUME NEW t \in Threads PROVE Safe(t)'
  <2> SUFFICES ASSUME id'[t] # 0, ~disturbed'[t]
               PROVE  Held(t)' /\ \A w \in Actors : Own(w, t)' => OwnJob(w, t)'
    BY DEF Safe
  <2>1. CASE /\ id'[t] = id[t] /\ disturbed'[t] = disturbed[t]
             /\ \A a \in Attrs : val'[t][a] = val[t][a] \/ val'[t][a] = id[t]
    <3>1. Held(t) /\ \A w \in Actors : Own(w, t) => OwnJob(w, t)
      BY <2>1 DEF IInv, Safe
    <3>2. HasEntry(t, id[t])' <=> HasEntry(t, id[t])
      BY <1>1, <2>1 DEF HasEntry
    <3>3. \A d : Ahead(t, d)' <=> Ahead(t, d)
      BY <1>1, <2>1 DEF Ahead
    <3>4. Held(t)'
      BY <1>1, <2>1, <3>1, <3>2, <3>3 DEF Held
    <3>5. ASSUME NEW w \in Actors, Own(w, t)' PROVE OwnJob(w, t)'
      <4>1. OwnJob(w, t) /\ pc'[w] = pc[w] /\ job'[w] = job[w]
        BY <1>1, <2>1, <3>1, <3>5 DEF Own
      <4>2. Sequenced(job[w], t) => Sequenced(job[w], t)'
        BY <1>1, <2>1, <3>2, <4>1 DEF Sequenced
      <4> QED BY <1>1, <2>1, <3>2, <4>1, <4>2 DEF OwnJob
    <3> QED BY <3>4, <3>5
  <2>2. CASE /\ id'[t] = clock' /\ clock < clock' /\ \A a \in Attrs : val'[t][a] = id'[t]
    <3>1. ~HasEntry(t, id[t])'
      <4>1. cache[t] # NoEntry => cache[t].id # clock'
        BY <1>4, <1>7, <2>2, Later
      <4> QED BY <1>1, <2>2, <4>1 DEF HasEntry
    <3>2. \A w \in Actors : ~Own(w, t)'
      <4>1. \A w \in Actors : pc[w] # "idle" => job[w].id # clock'
        BY <1>4, <1>9, <2>2, Later
      <4> QED BY <1>1, <2>2, <4>1 DEF Own
    <3> QED BY <2>2, <3>1, <3>2 DEF Held
  <2> QED BY <2>1, <2>2 DEF KernelMoves
<1>14. \A t \in Threads, a \in Attrs : Touched(t, a)' /\ ~disturbed'[t] =>
          Touched(t, a) /\ ~disturbed[t] /\ id'[t] = id[t]
  BY DEF Touched, KernelMoves
<1>15. Restoring'
  <2>1. \A t \in Threads : id'[t] = id[t] /\ Own(Main, t) => Own(Main, t)'
    BY <1>1 DEF Own
  <2> QED BY <1>1, <1>14, <2>1 DEF IInv, Restoring, HasBase
<1>16. ExitClean'
  BY <1>1, <1>14 DEF IInv, ExitClean, Untouched
<1> QED BY <1>3, <1>8, <1>10, <1>11, <1>12, <1>13, <1>15, <1>16 DEF IInv

LEMMA EnvironmentStep ==
    ASSUME IInv, Environment PROVE IInv'
<1>1. /\ KernelOK /\ DisturbedOK /\ Lives /\ events \subseteq Pids /\ clock \in Nat
      /\ MaxStart \in Nat /\ proc \in [Pids -> 0..clock] /\ id \in [Threads -> 0..clock]
      /\ val \in [Threads -> [Attrs -> Values]] /\ clock <= MaxStart
      /\ disturbed \in [Threads -> BOOLEAN]
  BY Params DEF IInv, TypeOK, KernelOK, ScanOK, DisturbedOK
<1>2. \A t \in Threads : PidOf[t] \in Pids
  BY Params
<1>3. NoAttrs \in [Attrs -> Values]
  BY Bases0
<1>4. ASSUME NEW t \in Threads, ProcessStart(t) \/ ThreadStart(t) PROVE IInv'
  <2>1. /\ clock < MaxStart /\ clock' = clock + 1
        /\ id' = [id EXCEPT ![t] = clock + 1]
        /\ val' = [val EXCEPT ![t] = [a \in Attrs |-> clock + 1]]
        /\ disturbed' = [disturbed EXCEPT ![t] = FALSE]
        /\ UNCHANGED <<cache, pc, job, mainVars, scan>>
    BY <1>4 DEF ProcessStart, ThreadStart, Born
  <2>2. \/ proc[PidOf[t]] = 0 /\ proc' = [proc EXCEPT ![PidOf[t]] = clock + 1]
        \/ proc[PidOf[t]] # 0 /\ proc' = proc
    BY <1>4 DEF ProcessStart, ThreadStart
  <2>3. events' \subseteq Pids
    BY <1>1, <1>2, <1>4 DEF ProcessStart, ThreadStart, Announce
  <2> DEFINE c == clock + 1
  <2>4. c \in Nat /\ c \in Starts /\ c \in 0..MaxStart /\ c # 0 /\ c \in Values /\ clock < c
    BY <1>1, <2>1 DEF Starts, Values
  <2>5. 0..clock \subseteq 0..c /\ c \in 0..c
    BY <1>1
  <2>6. clock' = c /\ id' = [id EXCEPT ![t] = c] /\ val' = [val EXCEPT ![t] = [a \in Attrs |-> c]]
        /\ (\/ proc[PidOf[t]] = 0 /\ proc' = [proc EXCEPT ![PidOf[t]] = c]
            \/ proc[PidOf[t]] # 0 /\ proc' = proc)
    BY <2>1, <2>2
  <2> HIDE DEF c
  <2>7. proc' \in [Pids -> 0..c] /\ id' \in [Threads -> 0..c] /\ val' \in [Threads -> [Attrs -> Values]]
    BY <1>1, <1>2, <2>4, <2>5, <2>6
  <2>8. KernelOK'
    BY <2>4, <2>6, <2>7 DEF KernelOK
  <2>9. DisturbedOK'
    BY <1>1, <2>1 DEF DisturbedOK
  <2>10. \A u \in Threads : id[u] # 0 => proc'[PidOf[u]] = proc[PidOf[u]]
    BY <1>1, <1>2, <2>6 DEF Lives
  <2>11. Lives'
    <3>1. proc'[PidOf[t]] # 0
      BY <1>1, <1>2, <2>4, <2>6
    <3> QED BY <1>1, <1>2, <2>6, <2>10, <3>1 DEF Lives
  <2>12. KernelMoves
    <3>1. ASSUME NEW u \in Threads, u # t
          PROVE id'[u] = id[u] /\ disturbed'[u] = disturbed[u] /\ val'[u] = val[u]
      BY <1>1, <2>1, <2>6, <3>1
    <3>2. id'[t] = c /\ \A a \in Attrs : val'[t][a] = c
      BY <1>1, <2>6
    <3>3. clock <= clock' /\ clock < clock'
      BY <1>1, <2>4, <2>6
    <3> QED BY <2>1, <2>6, <2>10, <3>1, <3>2, <3>3 DEF KernelMoves
  <2> QED BY <2>3, <2>8, <2>9, <2>11, <2>12, KernelStep
<1>5. ASSUME NEW t \in Threads, ThreadExit(t) PROVE IInv'
  <2>1. /\ id' = [id EXCEPT ![t] = 0] /\ val' = [val EXCEPT ![t] = NoAttrs]
        /\ UNCHANGED <<clock, proc, cache, pc, job, mainVars, events, scan, disturbed>>
    BY <1>5 DEF ThreadExit
  <2>2. KernelOK' /\ DisturbedOK' /\ Lives' /\ events' \subseteq Pids
    BY <1>1, <1>3, <2>1 DEF KernelOK, DisturbedOK, Lives
  <2>3. KernelMoves
    BY <1>1, <2>1 DEF KernelMoves
  <2> QED BY <2>2, <2>3, KernelStep
<1>6. ASSUME NEW p \in Pids, ProcessExit(p) PROVE IInv'
  <2>1. /\ proc' = [proc EXCEPT ![p] = 0]
        /\ id' = [t \in Threads |-> IF PidOf[t] = p THEN 0 ELSE id[t]]
        /\ val' = [t \in Threads |-> IF PidOf[t] = p THEN NoAttrs ELSE val[t]]
        /\ UNCHANGED <<clock, cache, pc, job, mainVars, scan, disturbed>>
        /\ events' \subseteq Pids
    BY <1>1, <1>6 DEF ProcessExit, Announce
  <2>2. KernelOK' /\ DisturbedOK' /\ Lives'
    BY <1>1, <1>2, <1>3, <2>1 DEF KernelOK, DisturbedOK, Lives
  <2>3. KernelMoves
    BY <1>1, <1>2, <2>1 DEF KernelMoves
  <2> QED BY <2>1, <2>2, <2>3, KernelStep
<1>7. ASSUME NEW t \in Threads, NEW a \in Attrs, SystemResets(t, a) PROVE IInv'
  <2>1. /\ id[t] # 0 /\ val' = [val EXCEPT ![t][a] = id[t]]
        /\ UNCHANGED <<clock, proc, id, cache, pc, job, mainVars, events, scan, disturbed>>
    BY <1>7 DEF SystemResets
  <2>2. id[t] \in Values
    BY <1>1, <2>1, LiveStart DEF Values
  <2>3. KernelOK' /\ DisturbedOK' /\ Lives' /\ events' \subseteq Pids
    BY <1>1, <2>1, <2>2 DEF KernelOK, DisturbedOK, Lives
  <2>4. KernelMoves
    BY <1>1, <2>1 DEF KernelMoves
  <2> QED BY <2>3, <2>4, KernelStep
<1> QED BY <1>4, <1>5, <1>6, <1>7 DEF Environment

----------------------------------------------------------------------------
(* The steps that are not a job's.                                         *)

LEMMA TakeStep ==
    ASSUME Base, NEW w \in Workers, NEW t \in Threads, NEW l \in Labels, Take(w, t, l)
    PROVE  Base' /\ Restoring' /\ ExitClean'
<1>1. /\ TypeOK /\ KernelOK /\ CacheOK /\ JobsOK /\ Exclusion /\ w \in Actors /\ w # Main
      /\ pc[w] = "idle" /\ phase \in {"run", "stopping"} /\ id[t] # 0
  BY Params DEF Base, TypeOK, Take
<1> DEFINE k == [t |-> t, id |-> id[t], proc |-> proc[PidOf[t]], label |-> l,
                 res |-> None, base |-> NoBase, man |-> {}, mode |-> "none",
                 todo |-> {}, ok |-> TRUE]
<1>2. id[t] \in Starts /\ proc[PidOf[t]] \in Nat /\ id[t] <= clock
  <2>1. id[t] \in Starts /\ id[t] <= clock /\ clock \in Nat
    BY <1>1, LiveStart
  <2> QED BY <1>1, <2>1, Params DEF KernelOK
<1>3. /\ k \in Jobs /\ k.t = t /\ k.id = id[t] /\ k.proc = proc[PidOf[t]] /\ k.label = l
      /\ k.mode = "none"
  BY <1>2, Bases0 DEF Jobs
<1>4. /\ Goto(w, "look", k) /\ WorkerOf[<<t, id[t]>>] = w
      /\ UNCHANGED <<kernel, cache, mainVars, events, scan, disturbed>>
  BY DEF Take
<1> HIDE DEF k
<1>5. /\ ActorsOK' /\ pc'[w] = "look" /\ job'[w] = k
      /\ \A v \in Actors : v # w => pc'[v] = pc[v] /\ job'[v] = job[v]
  BY <1>1, <1>3, <1>4, GotoType DEF TypeOK, PCs
<1>6. UNCHANGED <<clock, proc, id, val, cache, cfg, phase, want, left, allOk, tries, events, scan,
                  disturbed>>
  BY <1>4 DEF kernel, mainVars
<1>7. TypeOK' /\ Lives' /\ Filed' /\ ScanTracks' /\ Exclusion'
  <2>1. TypeOK'
    BY <1>1, <1>5, <1>6 DEF TypeOK, KernelOK, CacheOK, MainOK, ScanOK, DisturbedOK
  <2>2. Lives' /\ Filed' /\ ScanTracks'
    BY <1>6 DEF Base, Lives, Filed, ScanTracks
  <2> QED BY <1>1, <1>6, <2>1, <2>2 DEF Exclusion
<1>8. JobsOK'
  <2>1. WorkerJob(w)' /\ Finished(w)'
    BY <1>2, <1>3, <1>4, <1>5, <1>6 DEF WorkerJob, Staged, Finished, Running
  <2>2. ASSUME NEW v \in Workers, v # w, pc'[v] # "idle" PROVE WorkerJob(v)' /\ Finished(v)'
    <3>1. pc'[v] = pc[v] /\ job'[v] = job[v] /\ WorkerJob(v) /\ Finished(v)
      BY <1>1, <1>5, <2>2, Params DEF JobsOK
    <3> QED BY <1>6, <3>1 DEF WorkerJob, Staged, Finished
  <2>3. pc'[Main] = "idle"
    BY <1>1, <1>5, Params DEF JobsOK, MainJob
  <2> QED BY <2>1, <2>2, <2>3 DEF JobsOK
<1>9. ASSUME NEW u \in Threads PROVE Safe(u)'
  <2>1. \A v \in Actors : Own(v, u) => pc'[v] = pc[v] /\ job'[v] = job[v]
    BY <1>1, <1>5 DEF Own
  <2>2. \A v \in Actors : Own(v, u)' => Own(v, u) \/ pc'[v] = "look"
    BY <1>5, <1>6 DEF Own
  <2> QED BY <1>1, <1>6, <2>1, <2>2, SafeKept DEF Base
<1>10. Restoring' /\ ExitClean'
  BY <1>1, <1>6, Elsewhere
<1> QED BY <1>7, <1>8, <1>9, <1>10 DEF Base

\* A step of the dispatcher, of the scan or of the main thread between two
\* jobs: it may drop or rewrite entries, but not a baseline that counts.
Spared(u) ==
    \/ disturbed'[u] \/ id[u] = 0
    \/ cache'[u] = cache[u]
    \/ cache'[u] = NoEntry /\ ~LiveBase(u)
    \/ /\ WorkersIdle /\ \A a \in Attrs : val[u][a] = id[u]
       /\ cache'[u] # NoEntry => cache'[u].base = cache[u].base

LEMMA IdleStep ==
    ASSUME Base, UNCHANGED <<kernel, pc, job>>, pc[Main] = "idle",
           CacheOK', MainOK', ScanOK', DisturbedOK', Exclusion', ScanTracks',
           \A u \in Threads : cache'[u] # NoEntry =>
              cache[u] # NoEntry /\ cache'[u].id = cache[u].id /\ cache'[u].proc = cache[u].proc,
           \A u \in Threads : (disturbed[u] => disturbed'[u]) /\ Spared(u)
    PROVE  Base'
<1>1. UNCHANGED <<clock, proc, id, val, pc, job>>
  BY DEF kernel
<1>2. TypeOK /\ KernelOK /\ CacheOK /\ JobsOK
  BY DEF Base, TypeOK
<1>3. TypeOK' /\ Lives' /\ Filed'
  <2>1. TypeOK'
    BY <1>1, <1>2 DEF TypeOK, KernelOK, ActorsOK
  <2>2. Lives' /\ Filed'
    BY <1>1 DEF Base, Lives, Filed
  <2> QED BY <2>1, <2>2
<1>4. JobsOK'
  BY <1>1, <1>2 DEF JobsOK, WorkerJob, Staged, Finished
<1>5. ASSUME NEW u \in Threads PROVE Safe(u)'
  <2>1. \A v \in Actors : Own(v, u)' <=> Own(v, u)
    BY <1>1 DEF Own
  <2>2. CASE disturbed'[u] \/ id[u] = 0
    BY <1>1, <2>2 DEF Safe
  <2>3. CASE cache'[u] = cache[u] \/ (cache'[u] = NoEntry /\ ~LiveBase(u))
    BY <1>1, <1>2, <2>1, <2>3, SafeKept DEF Base
  <2>4. CASE /\ ~disturbed'[u] /\ WorkersIdle /\ \A a \in Attrs : val[u][a] = id[u]
             /\ cache'[u] # NoEntry => cache'[u].base = cache[u].base
    <3>1. \A v \in Actors : ~Own(v, u)'
      BY <2>1, <2>4 DEF Own, WorkersIdle, Actors
    <3>2. id[u] # 0 => Held(u)
      BY <2>4 DEF Base, Safe
    <3>3. HasEntry(u, id[u])' => HasEntry(u, id[u]) /\ cache'[u].base = cache[u].base
      BY <1>1, <2>4 DEF HasEntry
    <3>4. id[u] # 0 => Held(u)'
      BY <1>1, <2>4, <3>2, <3>3 DEF Held
    <3> QED BY <1>1, <3>1, <3>4 DEF Safe
  <2> QED BY <2>2, <2>3, <2>4 DEF Spared
<1> QED BY <1>3, <1>4, <1>5 DEF Base

LEMMA DropStaleStep ==
    ASSUME Base, NEW w \in Workers, NEW t \in Threads, NEW g \in Starts, DropStale(w, t, g)
    PROVE  Base' /\ Restoring' /\ ExitClean'
<1>1. /\ TypeOK /\ CacheOK /\ DisturbedOK /\ phase \in {"run", "stopping"} /\ EraseIfIdentity(t, g)
      /\ UNCHANGED <<kernel, pc, job, mainVars, events, scan>> /\ Exclusion /\ ScanTracks
  BY DEF Base, TypeOK, DropStale
<1>2. UNCHANGED <<cfg, phase, want, left, allOk, tries, clock, id, proc>>
  BY <1>1 DEF mainVars, kernel
<1>3. pc[Main] = "idle"
  BY <1>1 DEF Base, JobsOK, MainJob
<1>4. MainOK' /\ ScanOK' /\ Exclusion' /\ ScanTracks'
  BY <1>1, <1>2 DEF TypeOK, MainOK, ScanOK, Exclusion, ScanTracks
<1>5. /\ CacheOK' /\ DisturbedOK'
      /\ \A u \in Threads : u # t => cache'[u] = cache[u] /\ disturbed'[u] = disturbed[u]
      /\ cache'[t] = IF HasEntry(t, g) THEN NoEntry ELSE cache[t]
      /\ disturbed[t] => disturbed'[t]
      /\ g = id[t] /\ LiveBase(t) => disturbed'[t]
  BY <1>1, EraseType
<1>6. Spared(t)
  <2>1. HasEntry(t, g) /\ g # id[t] => ~LiveBase(t)
    BY DEF HasEntry, LiveBase
  <2> QED BY <1>5, <2>1 DEF Spared
<1>7. \A u \in Threads : (disturbed[u] => disturbed'[u]) /\ Spared(u)
  BY <1>5, <1>6 DEF Spared
<1>8. Base'
  BY <1>1, <1>3, <1>4, <1>5, <1>7, IdleStep
<1> QED BY <1>1, <1>2, <1>8, Elsewhere

----------------------------------------------------------------------------
(* The event router and the scan.                                          *)

LEMMA RouterStep ==
    ASSUME Base, NEW p \in Pids, RouterHandles(p) \/ RouterIgnores(p)
    PROVE  Base' /\ Restoring' /\ ExitClean'
<1>1. /\ TypeOK /\ CacheOK /\ DisturbedOK /\ phase = "run" /\ events' \subseteq events
      /\ UNCHANGED <<kernel, pc, job, mainVars, scan>> /\ Exclusion /\ ScanTracks
  BY DEF Base, TypeOK, RouterHandles, RouterIgnores
<1>2. UNCHANGED <<cfg, phase, want, left, allOk, tries, clock, id, proc>>
  BY <1>1 DEF mainVars, kernel
<1>3. pc[Main] = "idle"
  BY <1>1 DEF Base, JobsOK, MainJob
<1>4. MainOK' /\ ScanOK' /\ Exclusion' /\ ScanTracks'
  BY <1>1, <1>2 DEF TypeOK, MainOK, ScanOK, Exclusion, ScanTracks
<1>5. CASE RouterIgnores(p)
  <2>1. UNCHANGED <<cache, disturbed>>
    BY <1>5 DEF RouterIgnores
  <2>2. CacheOK' /\ DisturbedOK' /\ \A u \in Threads : Spared(u)
    BY <1>1, <2>1 DEF CacheOK, DisturbedOK, Spared
  <2>3. Base'
    BY <1>1, <1>3, <1>4, <2>1, <2>2, IdleStep
  <2> QED BY <1>1, <1>2, <2>3, Elsewhere
<1>6. CASE RouterHandles(p)
  <2>1. /\ cache' = [t \in Threads |-> IF PidOf[t] \in {p} THEN NoEntry ELSE cache[t]]
        /\ disturbed' = [t \in Threads |-> disturbed[t] \/ (PidOf[t] \in {p} /\ LiveBase(t))]
    BY <1>6 DEF RouterHandles, ResetFor
  <2>2. CacheOK' /\ \A u \in Threads : cache'[u] # NoEntry => cache'[u] = cache[u]
    BY <1>1, <2>1 DEF CacheOK
  <2>3. \A u \in Threads : disturbed'[u] = (disturbed[u] \/ (PidOf[u] \in {p} /\ LiveBase(u)))
    BY <2>1
  <2>4. DisturbedOK'
    <3>1. \A u \in Threads : (disturbed[u] \/ (PidOf[u] \in {p} /\ LiveBase(u))) \in BOOLEAN
      BY Zenon
    <3>2. disturbed' \in [Threads -> BOOLEAN]
      BY <2>1, <3>1, Zenon
    <3> QED BY <3>2 DEF DisturbedOK
  <2>5. ASSUME NEW u \in Threads PROVE (disturbed[u] => disturbed'[u]) /\ Spared(u)
    <3>1. disturbed[u] => disturbed'[u]
      BY <2>3, Zenon
    <3>2. PidOf[u] = p /\ LiveBase(u) => disturbed'[u]
      BY <2>3
    <3> QED BY <2>1, <3>1, <3>2 DEF Spared
  <2>6. Base'
    BY <1>1, <1>3, <1>4, <2>2, <2>4, <2>5, IdleStep
  <2> QED BY <1>1, <1>2, <2>6, Elsewhere
<1> QED BY <1>5, <1>6

LEMMA ScanQuiet ==
    ASSUME Base, phase = "run", UNCHANGED <<kernel, cache, pc, job, mainVars, events, disturbed>>,
           scan' \in Scans \cup {None}, ScanTracks'
    PROVE  Base' /\ Restoring' /\ ExitClean'
<1>1. TypeOK /\ CacheOK /\ DisturbedOK /\ Exclusion
  BY DEF Base, TypeOK
<1>2. UNCHANGED <<cfg, phase, want, left, allOk, tries>>
  BY DEF mainVars
<1>3. pc[Main] = "idle"
  BY DEF Base, JobsOK, MainJob
<1>4. MainOK' /\ ScanOK' /\ Exclusion' /\ CacheOK' /\ DisturbedOK'
  BY <1>1, <1>2 DEF TypeOK, MainOK, ScanOK, Exclusion, CacheOK, DisturbedOK
<1>5. \A u \in Threads : Spared(u)
  BY DEF Spared
<1>6. Base'
  BY <1>3, <1>4, <1>5, IdleStep
<1> QED BY <1>2, <1>6, Elsewhere

LEMMA ScanBeginStep ==
    ASSUME Base, ScanBegin PROVE Base' /\ Restoring' /\ ExitClean'
<1> DEFINE s == [snap |-> [t \in Threads |-> IF cache[t] = NoEntry THEN 0 ELSE cache[t].id],
                 todo |-> {p \in Pids : proc[p] # 0},
                 procs |-> [p \in Pids |-> 0],
                 seen |-> [t \in Threads |-> 0],
                 dead |-> {}, missed |-> {}]
<1>1. /\ scan' = s /\ phase = "run"
      /\ UNCHANGED <<kernel, cache, pc, job, mainVars, events, disturbed>>
  BY DEF ScanBegin
<1>2. UNCHANGED <<clock, proc, id>>
  BY <1>1 DEF kernel
<1>3. \A t \in Threads : cache[t] # NoEntry => cache[t].id \in Nat
  <2>1. \A t \in Threads : cache[t] # NoEntry => cache[t].id \in Starts
    BY DEF Base, TypeOK, CacheOK, Entries
  <2> QED BY <2>1, Params DEF Starts
<1>4. s \in Scans
  BY <1>3 DEF Scans
<1>5. ASSUME NEW t \in Threads
      PROVE  /\ s.snap[t] <= clock
             /\ id[t] # 0 => PidOf[t] \in s.todo /\ s.seen[t] = 0
  <2>1. clock \in Nat /\ PidOf[t] \in Pids
    BY LiveStart, Params DEF Base, TypeOK
  <2>2. s.snap[t] <= clock
    BY <2>1 DEF Base, Filed
  <2>3. id[t] # 0 => proc[PidOf[t]] # 0
    BY DEF Base, Lives
  <2> QED BY <2>1, <2>2, <2>3
<1> HIDE DEF s
<1>6. ScanTracks'
  BY <1>1, <1>2, <1>5 DEF ScanTracks
<1> QED BY <1>1, <1>4, <1>6, ScanQuiet

LEMMA ScanPidStep ==
    ASSUME Base, NEW p \in Pids, NEW misses, ScanPid(p, misses)
    PROVE  Base' /\ Restoring' /\ ExitClean'
<1> DEFINE mine == {t \in Threads : PidOf[t] = p}
<1>1. /\ scan \in Scans /\ phase = "run" /\ p \in scan.todo
      /\ UNCHANGED <<kernel, cache, pc, job, mainVars, events, disturbed>>
  BY DEF ScanPid, Base, TypeOK, ScanOK
<1>2. UNCHANGED <<clock, proc, id>> /\ scan # None
  BY <1>1, Params DEF kernel
<1>3. KernelOK /\ Lives /\ \A t \in Threads : PidOf[t] \in Pids
  BY Params DEF Base, TypeOK
<1>4. \A t \in Threads :
        /\ scan.snap[t] <= clock
        /\ id[t] # 0 /\ scan.snap[t] = id[t] /\ t \notin scan.missed =>
             \/ PidOf[t] \in scan.todo /\ scan.seen[t] = 0
             \/ /\ PidOf[t] \notin scan.todo
                /\ scan.procs[PidOf[t]] = proc[PidOf[t]] /\ scan.seen[t] \in {0, id[t]}
  BY <1>2 DEF Base, ScanTracks
<1>5. CASE \E D \in BOOLEAN :
             /\ proc[p] = 0 \/ "scan" \in ReadFaults
             /\ scan' = [scan EXCEPT !.todo = scan.todo \ {p},
                             !.dead = IF D THEN scan.dead \cup {p} ELSE scan.dead,
                             !.missed = IF "scan" \in ReadFaults THEN scan.missed \cup mine
                                        ELSE scan.missed]
  <2>1. PICK D \in BOOLEAN :
             /\ proc[p] = 0 \/ "scan" \in ReadFaults
             /\ scan' = [scan EXCEPT !.todo = scan.todo \ {p},
                             !.dead = IF D THEN scan.dead \cup {p} ELSE scan.dead,
                             !.missed = IF "scan" \in ReadFaults THEN scan.missed \cup mine
                                        ELSE scan.missed]
    BY <1>5
  <2> DEFINE dd == IF D THEN scan.dead \cup {p} ELSE scan.dead
             mm == IF "scan" \in ReadFaults THEN scan.missed \cup mine ELSE scan.missed
  <2>2. dd \subseteq Pids /\ mm \subseteq Threads
    BY <1>1 DEF Scans
  <2>3. /\ scan.missed \subseteq mm
        /\ \A t \in Threads : id[t] # 0 /\ PidOf[t] = p => t \in mm
    BY <1>3, <2>1 DEF Lives
  <2>4. scan' = [scan EXCEPT !.todo = scan.todo \ {p}, !.dead = dd, !.missed = mm]
    BY <2>1
  <2> HIDE DEF dd, mm
  <2>5. /\ scan' \in Scans /\ scan'.todo = scan.todo \ {p} /\ scan'.missed = mm
        /\ scan'.snap = scan.snap /\ scan'.seen = scan.seen /\ scan'.procs = scan.procs
    BY <1>1, <2>2, <2>4 DEF Scans
  <2>6. ScanTracks'
    BY <1>2, <1>4, <2>3, <2>5 DEF ScanTracks
  <2> QED BY <1>1, <2>5, <2>6, ScanQuiet
<1>6. CASE /\ proc[p] # 0
           /\ scan' = [scan EXCEPT !.todo = scan.todo \ {p},
                         !.procs = [scan.procs EXCEPT ![p] = proc[p]],
                         !.seen = [t \in Threads |->
                            IF t \in mine \ misses THEN id[t] ELSE scan.seen[t]]]
  <2> DEFINE pp == [scan.procs EXCEPT ![p] = proc[p]]
             ss == [t \in Threads |-> IF t \in mine \ misses THEN id[t] ELSE scan.seen[t]]
  <2>1. proc[p] \in Nat /\ \A t \in Threads : id[t] \in Nat
    <3>1. clock \in Nat
      BY Params, <1>3 DEF KernelOK
    <3> QED BY <1>3, <3>1 DEF KernelOK
  <2>2. pp \in [Pids -> Nat] /\ ss \in [Threads -> Nat]
    BY <1>1, <2>1 DEF Scans
  <2>3. /\ pp[p] = proc[p] /\ \A q \in Pids : q # p => pp[q] = scan.procs[q]
        /\ \A t \in Threads : PidOf[t] # p => ss[t] = scan.seen[t]
        /\ \A t \in Threads : PidOf[t] = p => ss[t] \in {id[t], scan.seen[t]}
    BY <1>1 DEF Scans
  <2>4. scan' = [scan EXCEPT !.todo = scan.todo \ {p}, !.procs = pp, !.seen = ss]
    BY <1>6
  <2> HIDE DEF pp, ss
  <2>5. /\ scan' \in Scans /\ scan'.todo = scan.todo \ {p} /\ scan'.missed = scan.missed
        /\ scan'.snap = scan.snap /\ scan'.seen = ss /\ scan'.procs = pp
    BY <1>1, <2>2, <2>4 DEF Scans
  <2>6. ScanTracks'
    <3> SUFFICES ASSUME NEW t \in Threads, id[t] # 0, scan.snap[t] = id[t], t \notin scan.missed
                 PROVE  \/ PidOf[t] \in scan.todo \ {p} /\ ss[t] = 0
                        \/ /\ PidOf[t] \notin scan.todo \ {p}
                           /\ pp[PidOf[t]] = proc[PidOf[t]] /\ ss[t] \in {0, id[t]}
      BY <1>2, <1>4, <2>5 DEF ScanTracks
    <3>1. CASE PidOf[t] = p
      BY <1>1, <1>4, <2>3, <3>1
    <3>2. CASE PidOf[t] # p
      BY <1>3, <1>4, <2>3, <3>2
    <3> QED BY <3>1, <3>2
  <2> QED BY <1>1, <2>5, <2>6, ScanQuiet
<1> QED BY <1>5, <1>6 DEF ScanPid

LEMMA ScanFinishStep ==
    ASSUME Base, ScanFinish PROVE Base' /\ Restoring' /\ ExitClean'
<1>1. /\ TypeOK /\ CacheOK /\ DisturbedOK /\ Exclusion /\ phase = "run" /\ scan # None
      /\ scan.todo = {} /\ scan' = None /\ UNCHANGED <<kernel, pc, job, mainVars, events>>
      /\ cache' = [t \in Threads |->
                     IF cache[t] # NoEntry /\ Retained(t) /\ PidOf[t] \notin scan.dead
                     THEN cache[t] ELSE NoEntry]
      /\ disturbed' = [t \in Threads |-> disturbed[t]
                       \/ (LiveBase(t) /\ (PidOf[t] \in scan.dead
                                            \/ (t \in scan.missed /\ ~Retained(t))))]
  BY DEF Base, TypeOK, ScanFinish
<1>2. UNCHANGED <<cfg, phase, want, left, allOk, tries>>
  BY <1>1 DEF mainVars
<1>3. pc[Main] = "idle"
  BY <1>1 DEF Base, JobsOK, MainJob
<1>4. MainOK' /\ ScanOK' /\ Exclusion' /\ ScanTracks'
  BY <1>1, <1>2 DEF TypeOK, MainOK, ScanOK, Exclusion, ScanTracks
<1>5. CacheOK' /\ \A u \in Threads : cache'[u] # NoEntry => cache'[u] = cache[u]
  BY <1>1 DEF CacheOK
<1>6. \A u \in Threads : disturbed'[u] = (disturbed[u]
                       \/ (LiveBase(u) /\ (PidOf[u] \in scan.dead
                                            \/ (u \in scan.missed /\ ~Retained(u)))))
  BY <1>1
<1>7. DisturbedOK'
  <2>1. \A u \in Threads : (disturbed[u]
                       \/ (LiveBase(u) /\ (PidOf[u] \in scan.dead
                                            \/ (u \in scan.missed /\ ~Retained(u))))) \in BOOLEAN
    BY Zenon
  <2>2. disturbed' \in [Threads -> BOOLEAN]
    BY <1>1, <2>1, Zenon
  <2> QED BY <2>2 DEF DisturbedOK
\* A live baseline the scan has not missed is retained.
<1>8. ASSUME NEW u \in Threads, LiveBase(u), u \notin scan.missed PROVE Retained(u)
  <2>1. id[u] # 0 /\ cache[u] # NoEntry /\ cache[u].id = id[u] /\ HasBase(u)
    BY <1>8 DEF LiveBase, HasEntry
  <2>2. cache[u].proc = proc[PidOf[u]]
    BY <2>1 DEF Base, Filed
  <2>3. scan.snap[u] = id[u] =>
          scan.procs[PidOf[u]] = proc[PidOf[u]] /\ scan.seen[u] \in {0, id[u]}
    BY <1>1, <1>8, <2>1 DEF Base, ScanTracks
  <2> QED BY <2>1, <2>2, <2>3 DEF Retained
<1>9. ASSUME NEW u \in Threads PROVE (disturbed[u] => disturbed'[u]) /\ Spared(u)
  <2>1. disturbed[u] => disturbed'[u]
    BY <1>6, Zenon
  <2>2. LiveBase(u) /\ (PidOf[u] \in scan.dead \/ (u \in scan.missed /\ ~Retained(u)))
           => disturbed'[u]
    BY <1>6
  <2>3. cache'[u] = cache[u] \/ cache'[u] = NoEntry
    BY <1>1
  <2>4. LiveBase(u) /\ ~disturbed'[u] => cache'[u] = cache[u]
    <3>1. LiveBase(u) => cache[u] # NoEntry
      BY DEF LiveBase, HasEntry
    <3> QED BY <1>1, <1>8, <2>2, <3>1
  <2> QED BY <2>1, <2>3, <2>4 DEF Spared
<1>10. Base'
  BY <1>1, <1>3, <1>4, <1>5, <1>7, <1>9, IdleStep
<1> QED BY <1>1, <1>2, <1>10, Elsewhere

----------------------------------------------------------------------------
(* Reload and shutdown.                                                    *)

\* A touched thread has a baseline, so the list of baselines reaches it.
LEMMA TouchedListed ==
    ASSUME Base, NEW t \in Threads, NEW a \in Attrs, Touched(t, a), ~disturbed[t]
    PROVE  HasEntry(t, id[t]) /\ HasBase(t)
<1>1. id[t] # 0 /\ val[t][a] # id[t] /\ id[t] # None
  BY LiveStart, Distinct DEF Touched, Base, TypeOK
<1>2. HasEntry(t, id[t]) /\ cache[t].base[a] = id[t]
  BY <1>1 DEF Base, Safe, Held
<1> QED BY <1>1, <1>2, Bases0 DEF HasEntry, HasBase

\* A restoration that has come to its end with success has missed nobody.
LEMMA AllRestored ==
    ASSUME Base, Restoring, Restored, allOk
    PROVE  Untouched /\ WorkersIdle
<1>1. \A t \in Threads : ~Own(Main, t) /\ t \notin left
  BY DEF Restored, Own
<1> QED BY <1>1 DEF Restoring, Restored, Untouched, Base, Exclusion

\* The main thread between two jobs, without a change of the cache.
LEMMA MainQuiet ==
    ASSUME Base, UNCHANGED <<kernel, cache, pc, job, events, scan, disturbed>>,
           pc[Main] = "idle", MainOK', Exclusion'
    PROVE  Base'
<1>1. CacheOK' /\ ScanOK' /\ DisturbedOK' /\ ScanTracks'
  BY DEF Base, TypeOK, CacheOK, ScanOK, DisturbedOK, ScanTracks, kernel
<1>2. \A u \in Threads : Spared(u)
  BY DEF Spared
<1> QED BY <1>1, <1>2, IdleStep

LEMMA StopWorkersStep ==
    ASSUME Base, NEW c \in Requests, StopWorkers(c) PROVE Base' /\ Restoring' /\ ExitClean'
<1>1. /\ phase = "run" /\ phase' = "stopping" /\ want' = c
      /\ UNCHANGED <<kernel, cache, pc, job, cfg, left, allOk, tries, events, scan, disturbed>>
  BY DEF StopWorkers
<1>2. pc[Main] = "idle"
  BY <1>1 DEF Base, JobsOK, MainJob
<1>3. MainOK' /\ Exclusion'
  BY <1>1, Params DEF Base, TypeOK, MainOK, Exclusion
<1>4. Base'
  BY <1>1, <1>2, <1>3, MainQuiet
<1> QED BY <1>1, <1>4, Elsewhere

LEMMA RestoreListed ==
    ASSUME Base, pc[Main] = "idle", WorkersIdle, phase' = "restoring", left' = Baselines,
           tries' \in 0..kShutdownRestoreAttempts, allOk' = TRUE,
           UNCHANGED <<kernel, cache, pc, job, cfg, want, events, scan, disturbed>>
    PROVE  Base' /\ Restoring' /\ ExitClean'
<1>1. UNCHANGED <<id, val>>
  BY DEF kernel
<1>2. MainOK' /\ Exclusion'
  BY DEF Base, TypeOK, MainOK, Exclusion, WorkersIdle, Baselines
<1>3. Base'
  BY <1>2, MainQuiet
<1>4. \A t \in Threads : HasBase(t)' <=> HasBase(t)
  BY DEF HasBase
<1>5. \A t \in Threads, a \in Attrs : Touched(t, a)' /\ ~disturbed'[t] => t \in left'
  <2>1. \A t \in Threads, a \in Attrs : Touched(t, a) /\ ~disturbed[t] => HasBase(t)
    BY TouchedListed
  <2>2. \A t \in Threads, a \in Attrs : Touched(t, a)' => Touched(t, a)
    BY <1>1 DEF Touched
  <2> QED BY <2>1, <2>2 DEF Baselines
<1>6. Restoring'
  BY <1>4, <1>5 DEF Restoring, Baselines
<1> QED BY <1>3, <1>6 DEF ExitClean

LEMMA RestoreBeginsStep ==
    ASSUME Base, RestoreBegins PROVE Base' /\ Restoring' /\ ExitClean'
<1>1. phase = "stopping" /\ tries' = 1
  BY DEF RestoreBegins
<1>2. pc[Main] = "idle"
  BY <1>1 DEF Base, JobsOK, MainJob
<1>3. tries' \in 0..kShutdownRestoreAttempts
  <2>1. 1 \in 0..kShutdownRestoreAttempts
    BY Params
  <2> QED BY <1>1, <2>1
<1> QED BY <1>2, <1>3, RestoreListed DEF RestoreBegins

LEMMA ShutdownRetriesStep ==
    ASSUME Base, ShutdownRetries PROVE Base' /\ Restoring' /\ ExitClean'
<1>1. phase = "restoring" /\ pc[Main] = "idle" /\ tries < kShutdownRestoreAttempts
      /\ tries' = tries + 1
  BY DEF ShutdownRetries, Restored
<1>2. WorkersIdle
  BY <1>1 DEF Base, Exclusion
<1>3. tries + 1 \in 0..kShutdownRestoreAttempts
  <2>1. tries \in 0..kShutdownRestoreAttempts /\ kShutdownRestoreAttempts \in Nat
    BY Params DEF Base, TypeOK, MainOK
  <2> QED BY <1>1, <2>1
<1>4. phase' = "restoring"
  BY <1>1 DEF ShutdownRetries
<1> QED BY <1>1, <1>2, <1>3, <1>4, RestoreListed DEF ShutdownRetries

LEMMA RestorePicksStep ==
    ASSUME Base, Restoring, NEW t \in Threads, RestorePicks(t)
    PROVE  Base' /\ Restoring' /\ ExitClean'
<1>1. /\ TypeOK /\ KernelOK /\ CacheOK /\ JobsOK /\ Exclusion /\ Main \in Actors
      /\ Main \notin Workers /\ Workers \subseteq Actors
      /\ pc[Main] = "idle" /\ phase = "restoring" /\ t \in left /\ left' = left \ {t}
  BY Params DEF Base, TypeOK, RestorePicks
<1>2. HasBase(t) /\ WorkersIdle
  BY <1>1 DEF Restoring, Exclusion
<1> DEFINE e == cache[t]
           T == {a \in Attrs : e.base[a] # None}
           k == [t |-> t, id |-> e.id, proc |-> 0, label |-> None, res |-> None,
                 base |-> e.base, man |-> {}, mode |-> "restore", todo |-> T, ok |-> TRUE]
<1>3. e \in Entries /\ e # NoEntry /\ e.base \in Bases /\ e.id \in Starts /\ e.base # NoBase
  BY <1>1, <1>2 DEF CacheOK, HasBase, Entries
<1>4. /\ k \in Jobs /\ k.t = t /\ k.id = e.id /\ k.base = e.base /\ k.mode = "restore"
      /\ k.todo = T
  BY <1>3 DEF Jobs
<1>5. /\ Goto(Main, "check", k)
      /\ UNCHANGED <<kernel, cache, cfg, phase, want, allOk, tries, events, scan, disturbed>>
  BY DEF RestorePicks
<1> HIDE DEF k
<1>6. /\ ActorsOK' /\ pc'[Main] = "check" /\ job'[Main] = k
      /\ \A v \in Actors : v # Main => pc'[v] = pc[v] /\ job'[v] = job[v]
  BY <1>1, <1>4, <1>5, GotoType DEF TypeOK, PCs
<1>7. UNCHANGED <<clock, proc, id, val, cache, cfg, phase, want, allOk, tries, events, scan, disturbed>>
  BY <1>5 DEF kernel
<1>8. \A v \in Workers : pc'[v] = "idle"
  BY <1>1, <1>2, <1>6 DEF WorkersIdle
<1>9. TypeOK' /\ Lives' /\ Filed' /\ ScanTracks' /\ Exclusion'
  <2>1. TypeOK'
    BY <1>1, <1>6, <1>7 DEF TypeOK, KernelOK, CacheOK, MainOK, ScanOK, DisturbedOK
  <2>2. Lives' /\ Filed' /\ ScanTracks'
    BY <1>7 DEF Base, Lives, Filed, ScanTracks
  <2> QED BY <1>8, <2>1, <2>2 DEF Exclusion, WorkersIdle
<1>10. JobsOK'
  <2>1. MainJob'
    BY <1>1, <1>3, <1>4, <1>6, <1>7 DEF MainJob, HasEntry, Running
  <2>2. Finished(Main)'
    BY <1>6 DEF Finished
  <2> QED BY <1>8, <2>1, <2>2 DEF JobsOK
<1>11. \A u \in Threads, v \in Actors : Own(v, u)' => v = Main /\ u = t /\ e.id = id[t]
  BY <1>4, <1>6, <1>7, <1>8 DEF Own, Actors
<1>12. \A u \in Threads, v \in Actors : ~Own(v, u)
  BY <1>1, <1>2 DEF Own, WorkersIdle, Actors
<1>13. ASSUME NEW u \in Threads PROVE Safe(u)'
  <2>1. CASE u # t \/ e.id # id[t]
    BY <1>1, <1>7, <1>11, <1>12, <2>1, SafeKept DEF Base
  <2>2. CASE u = t /\ e.id = id[t]
    <3> SUFFICES ASSUME id[t] # 0, ~disturbed[t]
                 PROVE  Held(t)' /\ OwnJob(Main, t)'
      BY <1>7, <1>11, <2>2 DEF Safe
    <3>1. Held(t) /\ HasEntry(t, id[t]) /\ id[t] # None
      BY <1>1, <1>3, <2>2, LiveStart, Distinct DEF Base, Safe, HasEntry
    <3>2. \A d : ~Ahead(t, d)
      BY <1>2 DEF Ahead, WorkersIdle, Running
    <3>3. HasEntry(t, id[t])'
      BY <1>7, <3>1 DEF HasEntry
    <3>4. Held(t)'
      BY <1>7, <3>1, <3>2, <3>3 DEF Held
    <3>5. \A a \in Attrs \ T : val[t][a] = id[t]
      BY <3>1 DEF Held
    <3>6. Sequenced(job[Main], t)'
      BY <1>4, <1>6, <1>7, <3>3, <3>5 DEF Sequenced
    <3>7. OwnJob(Main, t)'
      BY <1>6, <1>7, <3>3, <3>6 DEF OwnJob
    <3> QED BY <3>4, <3>7
  <2> QED BY <2>1, <2>2
<1>14. Restoring'
  <2>1. \A u \in left' : HasBase(u)'
    BY <1>1, <1>7 DEF Restoring, HasBase
  <2>2. ASSUME allOk', NEW u \in Threads, NEW a \in Attrs, Touched(u, a)', ~disturbed'[u]
        PROVE  u \in left' \/ Own(Main, u)'
    <3>1. Touched(u, a) /\ ~disturbed[u] /\ allOk
      BY <1>7, <2>2 DEF Touched
    <3>2. u \in left
      BY <1>1, <1>12, <3>1 DEF Restoring
    <3>3. CASE u = t
      <4>1. e.id = id[t]
        BY <3>1, <3>3, TouchedListed DEF HasEntry
      <4> QED BY <1>4, <1>6, <1>7, <3>3, <4>1 DEF Own
    <3> QED BY <1>1, <3>2, <3>3
  <2> QED BY <2>1, <2>2 DEF Restoring
<1>15. ExitClean'
  BY <1>1, <1>7 DEF ExitClean
<1> QED BY <1>9, <1>10, <1>13, <1>14, <1>15 DEF Base

LEMMA ReloadCommitsStep ==
    ASSUME Base, Restoring, ReloadCommits PROVE Base' /\ Restoring' /\ ExitClean' /\ Untouched
<1>1. /\ Restored /\ allOk /\ want # None /\ cfg' = want /\ phase' = "run" /\ want' = None
      /\ scan' = None /\ UNCHANGED <<kernel, pc, job, left, allOk, tries, events, disturbed>>
      /\ cache' = [t \in Threads |->
                   IF HasBase(t) THEN [cache[t] EXCEPT !.label = None, !.applied = None,
                                                       !.managed = {}]
                   ELSE NoEntry]
  BY DEF ReloadCommits
<1>2. Untouched /\ WorkersIdle /\ pc[Main] = "idle"
  BY <1>1, AllRestored DEF Restored
<1>3. MainOK' /\ ScanOK' /\ DisturbedOK' /\ Exclusion' /\ ScanTracks'
  BY <1>1 DEF Base, TypeOK, MainOK, ScanOK, DisturbedOK, Exclusion, ScanTracks
<1>4. ASSUME NEW u \in Threads
      PROVE  /\ cache'[u] \in Entries \cup {NoEntry}
             /\ HasBase(u) => /\ cache'[u] # NoEntry /\ cache'[u].id = cache[u].id
                              /\ cache'[u].proc = cache[u].proc /\ cache'[u].base = cache[u].base
             /\ cache'[u] # NoEntry => HasBase(u)
  <2>1. CASE HasBase(u)
    <3> DEFINE f == [cache[u] EXCEPT !.label = None, !.applied = None, !.managed = {}]
    <3>1. cache[u] \in Entries
      BY <2>1 DEF Base, TypeOK, CacheOK, HasBase
    <3>2. f \in Entries /\ f.id = cache[u].id /\ f.proc = cache[u].proc /\ f.base = cache[u].base
      BY <3>1 DEF Entries
    <3>3. cache'[u] = f
      BY <1>1, <2>1
    <3> QED BY <2>1, <3>2, <3>3, Params
  <2>2. CASE ~HasBase(u)
    BY <1>1, <2>2
  <2> QED BY <2>1, <2>2
<1>5. CacheOK'
  BY <1>1, <1>4 DEF CacheOK
<1>6. ASSUME NEW u \in Threads PROVE Spared(u)
  <2>1. CASE HasBase(u) /\ id[u] # 0 /\ ~disturbed[u]
    BY <1>2, <1>4, <2>1 DEF Spared, Untouched, Touched
  <2>2. CASE ~HasBase(u)
    BY <1>4, <2>2 DEF Spared, LiveBase
  <2>3. CASE disturbed[u]
    BY <1>1, <2>3 DEF Spared
  <2>4. CASE id[u] = 0 /\ HasBase(u)
    BY <1>4, <2>4 DEF Spared
  <2> QED BY <2>1, <2>2, <2>3, <2>4
<1>7. \A u \in Threads : cache'[u] # NoEntry => cache[u] # NoEntry
  BY <1>4 DEF HasBase
<1>8. Base'
  BY <1>1, <1>2, <1>3, <1>4, <1>5, <1>6, <1>7, IdleStep
<1> QED BY <1>1, <1>2, <1>8, Elsewhere

LEMMA ReloadRollsBackStep ==
    ASSUME Base, ReloadRollsBack PROVE Base' /\ Restoring' /\ ExitClean'
<1>1. /\ pc[Main] = "idle" /\ phase' \in {"run", "stopping"} /\ want' = None
      /\ UNCHANGED <<kernel, cache, pc, job, cfg, left, allOk, tries, events, scan, disturbed>>
  BY DEF ReloadRollsBack, Restored
<1>2. MainOK' /\ Exclusion'
  BY <1>1 DEF Base, TypeOK, MainOK, Exclusion
<1>3. Base'
  BY <1>1, <1>2, MainQuiet
<1> QED BY <1>1, <1>3, Elsewhere

LEMMA ExitStep ==
    ASSUME Base, Restoring, Exit PROVE Base' /\ Restoring' /\ ExitClean'
<1>1. /\ Restored /\ pc[Main] = "idle" /\ WorkersIdle
      /\ UNCHANGED <<kernel, pc, job, cfg, want, left, allOk, tries, events, scan, disturbed>>
  BY DEF Exit, Restored, Base, Exclusion
<1>2. CASE allOk /\ phase' = "clean" /\ cache' = [t \in Threads |-> NoEntry]
  <2>1. Untouched
    BY <1>1, <1>2, AllRestored
  <2>2. CacheOK' /\ MainOK' /\ ScanOK' /\ DisturbedOK' /\ Exclusion' /\ ScanTracks'
    BY <1>1, <1>2 DEF Base, TypeOK, CacheOK, MainOK, ScanOK, DisturbedOK, Exclusion, ScanTracks,
                      WorkersIdle, kernel
  <2>3. ASSUME NEW u \in Threads PROVE Spared(u)
    <3>1. CASE id[u] # 0 /\ ~disturbed[u]
      BY <1>1, <1>2, <2>1, <3>1 DEF Spared, Untouched, Touched
    <3>2. CASE id[u] = 0 \/ disturbed[u]
      BY <1>1, <1>2, <3>2 DEF Spared, LiveBase
    <3> QED BY <3>1, <3>2
  <2>4. Base'
    BY <1>1, <1>2, <2>2, <2>3, IdleStep
  <2>5. ExitClean'
    BY <1>1, <2>1 DEF ExitClean, Untouched, Touched, kernel
  <2> QED BY <1>2, <2>4, <2>5 DEF Restoring
<1>3. CASE phase' = "incomplete" /\ UNCHANGED cache
  <2>1. MainOK' /\ Exclusion'
    BY <1>1, <1>3 DEF Base, TypeOK, MainOK, Exclusion, WorkersIdle
  <2>2. Base'
    BY <1>1, <1>3, <2>1, MainQuiet
  <2> QED BY <1>3, <2>2, Elsewhere
<1> QED BY <1>2, <1>3 DEF Exit

----------------------------------------------------------------------------
(* The theorems.                                                           *)

LEMMA InitIInv == Init => IInv
<1> SUFFICES ASSUME Init PROVE IInv
  OBVIOUS
<1>1. KernelOK /\ CacheOK /\ ActorsOK /\ DisturbedOK
  BY Params, Bases0 DEF Init, KernelOK, CacheOK, ActorsOK, DisturbedOK
<1>2. MainOK /\ ScanOK
  BY Params DEF Init, MainOK, ScanOK
<1>3. JobsOK /\ Exclusion /\ Lives /\ Filed /\ ScanTracks /\ Restoring /\ ExitClean
  <2>1. \A w \in Actors : pc[w] = "idle"
    BY DEF Init
  <2> QED BY <2>1, Params DEF Init, JobsOK, Exclusion, WorkersIdle, Lives, Filed, ScanTracks,
                              Restoring, ExitClean
<1>4. \A t \in Threads : Safe(t)
  BY DEF Init, Safe
<1> QED BY <1>1, <1>2, <1>3, <1>4 DEF IInv, TypeOK

LEMMA NextIInv == IInv /\ [Next]_vars => IInv'
<1> SUFFICES ASSUME IInv, [Next]_vars PROVE IInv'
  OBVIOUS
<1>1. Base /\ Restoring
  BY DEF IInv, Base
<1>2. Base' /\ Restoring' /\ ExitClean' => IInv'
  BY DEF IInv, Base
<1>3. CASE Environment
  BY <1>3, EnvironmentStep
<1>4. ASSUME NEW w \in Workers, Work(w) PROVE IInv'
  <2>1. CASE \E t \in Threads, l \in Labels : Take(w, t, l)
    BY <1>1, <1>2, <2>1, TakeStep
  <2>2. CASE \E t \in Threads, g \in Starts : DropStale(w, t, g)
    BY <1>1, <1>2, <2>2, DropStaleStep
  <2>3. CASE JobWork(w)
    <3>1. pc[w] # "idle" /\ Good(w) /\ Base'
      BY <1>1, <2>3, JobSteps, Params
    <3>2. Restoring' /\ ExitClean'
      BY <1>1, <3>1, WorkerElsewhere DEF Base, Good, Confined
    <3> QED BY <1>2, <3>1, <3>2
  <2> QED BY <1>4, <2>1, <2>2, <2>3 DEF Work, JobWork
<1>5. ASSUME NEW w \in Actors, Sequence(w) PROVE IInv'
  <2>1. pc[w] # "idle" /\ Good(w) /\ Base'
    BY <1>1, <1>5, JobSteps
  <2>2. CASE w \in Workers
    <3>1. Restoring' /\ ExitClean'
      BY <1>1, <2>1, <2>2, WorkerElsewhere DEF Base, Good, Confined
    <3> QED BY <1>2, <2>1, <3>1
  <2>3. CASE w = Main
    BY <1>1, <1>2, <1>5, <2>1, <2>3, MainSequence
  <2> QED BY <2>2, <2>3 DEF Actors
<1>6. CASE MainStep
  <2>1. CASE \E p \in Pids : RouterHandles(p) \/ RouterIgnores(p)
    BY <1>1, <1>2, <2>1, RouterStep
  <2>2. CASE ScanBegin \/ ScanFinish
    BY <1>1, <1>2, <2>2, ScanBeginStep, ScanFinishStep
  <2>3. CASE \E p \in Pids, misses \in SUBSET Threads : ScanPid(p, misses)
    BY <1>1, <1>2, <2>3, ScanPidStep
  <2>4. CASE \E c \in Requests : StopWorkers(c)
    BY <1>1, <1>2, <2>4, StopWorkersStep
  <2>5. CASE RestoreBegins \/ ShutdownRetries
    BY <1>1, <1>2, <2>5, RestoreBeginsStep, ShutdownRetriesStep
  <2>6. CASE \E t \in Threads : RestorePicks(t)
    BY <1>1, <1>2, <2>6, RestorePicksStep
  <2>7. CASE ReloadCommits \/ ReloadRollsBack \/ Exit
    BY <1>1, <1>2, <2>7, ReloadCommitsStep, ReloadRollsBackStep, ExitStep
  <2> QED BY <1>6, <2>1, <2>2, <2>3, <2>4, <2>5, <2>6, <2>7 DEF MainStep
<1>7. CASE UNCHANGED vars
  <2>1. KernelMoves
    <3>1. UNCHANGED <<cache, pc, job, mainVars, scan, clock, id, proc, val, disturbed>>
      BY <1>7 DEF vars, kernel
    <3>2. clock <= clock'
      <4>1. clock \in Nat
        BY Params DEF IInv, TypeOK, KernelOK
      <4> QED BY <3>1, <4>1
    <3> QED BY <3>1, <3>2 DEF KernelMoves
  <2>2. KernelOK' /\ events' \subseteq Pids /\ DisturbedOK' /\ Lives'
    BY <1>7 DEF vars, kernel, IInv, TypeOK, KernelOK, ScanOK, DisturbedOK, Lives
  <2> QED BY <2>1, <2>2, KernelStep
<1> QED BY <1>3, <1>4, <1>5, <1>6, <1>7 DEF Next

\* The inductive invariant of custody: types, the discipline of the jobs and
\* of the scan, and what every live undisturbed thread is promised.
THEOREM CustodyInvariant == Spec => []IInv
<1>1. Init => IInv
  BY InitIInv
<1>2. IInv /\ [Next]_vars => IInv'
  BY NextIInv
<1> QED BY <1>1, <1>2, PTL DEF Spec

\* Whatever process_dispatch_task or a restoration has changed on a live
\* thread, the cache holds the system's own value of it under the thread's
\* identity, unless the thread is disturbed in one of the three known ways.
THEOREM OriginalsAreKept == Spec => []Custody
<1>1. IInv => Custody
  BY DEF IInv, Custody, Touched, Covered, Safe, Held
<1> QED BY <1>1, CustodyInvariant, PTL

\* ThreadCache::set_baseline files only what the system had set: no value of
\* ReUperf's, no half-finished call's and no other thread's is ever held.
THEOREM BaselinesAreGenuine == Spec => []BaselineGenuine
<1>1. IInv => BaselineGenuine
  BY DEF IInv, BaselineGenuine, Safe, Held
<1> QED BY <1>1, CustodyInvariant, PTL

\* Every dimension apply_result has changed is recorded as managed, or is one
\* the job at work is about to record: a failed or partial attempt too.
THEOREM ChangesAreRecorded == Spec => []ManagedTracks
<1>1. IInv => ManagedTracks
  <2> SUFFICES ASSUME IInv, NEW t \in Threads, NEW a \in Attrs, Touched(t, a), ~disturbed[t]
               PROVE  \/ HasEntry(t, id[t]) /\ DimOf[a] \in cache[t].managed
                      \/ Ahead(t, DimOf[a])
    BY DEF ManagedTracks, Ahead, Running
  <2> QED BY DEF IInv, Touched, Safe, Held
<1> QED BY <1>1, CustodyInvariant, PTL

\* Exit code 0 of the shutdown: every live thread has its own state back,
\* but for the disturbed ones.
THEOREM CleanExitRestoresAll == Spec => []ExitClean
<1>1. IInv => ExitClean
  BY DEF IInv
<1> QED BY <1>1, CustodyInvariant, PTL

\* A reload commits only when nothing of the old configuration is left on
\* any thread, but for the disturbed ones.
THEOREM ReloadIsClean == Spec => CommitClean
<1>1. IInv /\ [Next]_vars => [cfg' # cfg => Untouched]_vars
  <2> SUFFICES ASSUME IInv, Next, cfg' # cfg PROVE Untouched
    OBVIOUS
  <2>1. Base /\ Restoring
    BY DEF IInv, Base
  <2>2. ~Environment
    BY DEF Environment, ProcessStart, ThreadStart, Born, ThreadExit, ProcessExit, SystemResets,
           mainVars
  <2>3. \A w \in Workers : ~Work(w)
    BY DEF Work, Take, DropStale, NothingToDo, Look, Capture, CaptureCheck, SetBaseline, Plan,
           GetBaseline, mainVars
  <2>4. \A w \in Actors : ~Sequence(w)
    BY <2>1, JobSteps DEF Good, Confined
  <2>5. MainStep => ReloadCommits
    BY DEF MainStep, RouterHandles, RouterIgnores, ScanBegin, ScanFinish, ScanPid, StopWorkers,
           RestoreBegins, RestorePicks, ReloadRollsBack, ShutdownRetries, Exit, mainVars
  <2> QED BY <2>1, <2>2, <2>3, <2>4, <2>5, ReloadCommitsStep DEF Next
<1> QED BY <1>1, CustodyInvariant, PTL DEF Spec, CommitClean

----------------------------------------------------------------------------
(* When no thread is disturbed.                                            *)

\* No process events, and no read of /proc that fails.
Reliable == ~Monitored /\ ReadFaults = {}

\* An ID passes to a new thread only when no job and no scan in progress
\* speaks of its last owner.
Forgotten(t) ==
    /\ \A w \in Actors : pc[w] # "idle" => job[w].t # t
    /\ scan # None => PidOf[t] \notin scan.dead
FreshIds == \A t \in Threads : id'[t] \in {0, id[t]} \/ Forgotten(t)

\* The main thread may pick an entry whose thread has been replaced; it gets
\* no further than the identity check.
NoStrays ==
    /\ \A w \in Workers : (pc[w] # "idle" => ~Stale(w))
    /\ pc[Main] \notin {"idle", "check"} => ~Stale(Main)
ScanHonest == scan # None => scan.missed = {} /\ \A p \in scan.dead : proc[p] = 0
NoneDisturbed == \A t \in Threads : ~disturbed[t]

Undisturbed == Reliable /\ events = {} /\ NoneDisturbed /\ NoStrays /\ ScanHonest

LEMMA BlamesNobody ==
    ASSUME DisturbedOK, NoneDisturbed, NEW w, job[w].t \in Threads, Blame(w), ~Stale(w)
    PROVE  NoneDisturbed'
<1>1. disturbed' = [disturbed EXCEPT ![job[w].t] =
                    disturbed[job[w].t] \/ (Stale(w) /\ (cache' # cache \/ val' # val))]
  BY DEF Blame
<1>2. disturbed'[job[w].t] = (disturbed[job[w].t] \/ (Stale(w) /\ (cache' # cache \/ val' # val)))
  BY <1>1 DEF DisturbedOK
<1>3. ~disturbed'[job[w].t]
  BY <1>2, Zenon DEF NoneDisturbed
<1>4. \A u \in Threads : u # job[w].t => disturbed'[u] = disturbed[u]
  BY <1>1 DEF DisturbedOK
<1> QED BY <1>3, <1>4 DEF NoneDisturbed

LEMMA ErasesNobody ==
    ASSUME DisturbedOK, NoneDisturbed, NEW t \in Threads, NEW g, EraseIfIdentity(t, g), g # id[t]
    PROVE  NoneDisturbed'
<1>1. disturbed' = [disturbed EXCEPT ![t] = disturbed[t] \/ (g = id[t] /\ LiveBase(t))]
  BY DEF EraseIfIdentity
<1>2. disturbed'[t] = (disturbed[t] \/ (g = id[t] /\ LiveBase(t)))
  BY <1>1 DEF DisturbedOK
<1>3. ~disturbed'[t]
  BY <1>2, Zenon DEF NoneDisturbed
<1>4. \A u \in Threads : u # t => disturbed'[u] = disturbed[u]
  BY <1>1 DEF DisturbedOK
<1> QED BY <1>3, <1>4 DEF NoneDisturbed

\* A job acts on its own thread, and drops no entry of a live one.
LEMMA JobUndisturbed ==
    ASSUME IInv, Undisturbed, NEW w \in Actors, (w \in Workers /\ JobWork(w)) \/ Sequence(w)
    PROVE  Undisturbed'
<1>1. Base /\ DisturbedOK /\ JobsOK
  BY DEF IInv, Base, TypeOK
<1>2. pc[w] # "idle" /\ Confined(w)
  BY <1>1, JobSteps DEF Good
<1>3. job[w].t \in Threads /\ (w = Main => MainJob) /\ (w \in Workers \/ w = Main)
  BY <1>1, <1>2, JobAt
<1>4. Reliable' /\ events' = {} /\ ScanHonest'
  BY <1>2 DEF Undisturbed, Reliable, ScanHonest, Confined
<1>5. pc[w] # "check" => ~Stale(w)
  BY <1>2, <1>3 DEF Undisturbed, NoStrays
<1>6. NoneDisturbed'
  <2>1. CASE UNCHANGED disturbed
    BY <2>1 DEF Undisturbed, NoneDisturbed
  <2>2. CASE pc[w] # "check" /\ Blame(w)
    BY <1>1, <1>3, <1>5, <2>2, BlamesNobody DEF Undisturbed
  <2>3. CASE Discards(w)
    <3>1. id[job[w].t] # job[w].id
      BY <2>3 DEF Discards, Mismatch, Matches, Undisturbed, Reliable
    <3> QED BY <1>1, <1>3, <2>3, <3>1, ErasesNobody DEF Discards, Undisturbed
  <2>4. CASE w \in Workers /\ JobWork(w)
    BY <2>1, <2>2, <2>4 DEF JobWork, NothingToDo, Look, Capture, CaptureCheck, SetBaseline, Plan,
       GetBaseline
  <2>5. CASE Sequence(w)
    <3>1. ASSUME NEW a \in Attrs, RestoreSkips(w, a) \/ Write(w, a) PROVE NoneDisturbed'
      BY <2>1, <2>2, <3>1 DEF RestoreSkips, Write
    <3> QED BY <2>1, <2>2, <2>3, <2>5, <3>1 DEF Sequence, CheckPasses, RemovalAborts,
            TakeoverBreaks, Verify, RemovalSettles, ApplySettles, RestoreSettles
  <2> QED BY <2>4, <2>5
<1>7. UNCHANGED id /\ \A v \in Actors : v # w => pc'[v] = pc[v] /\ job'[v] = job[v]
  BY <1>2 DEF Confined
<1>8. pc'[w] # "idle" => job'[w].t = job[w].t /\ job'[w].id = job[w].id
  BY <1>2 DEF Confined
<1>9. pc'[w] # "idle" => (Stale(w)' <=> Stale(w))
  BY <1>7, <1>8 DEF Stale
<1>10. \A v \in Actors : v # w => (Stale(v)' <=> Stale(v))
  BY <1>7 DEF Stale
<1>11. Workers \subseteq Actors /\ Main \in Actors /\ Main \notin Workers
  BY Params
<1>12. w = Main /\ pc[Main] = "check" => pc'[Main] \in {"idle", "check"} \/ ~Stale(Main)
  <2> SUFFICES ASSUME w = Main, pc[Main] = "check", Stale(Main) PROVE pc'[Main] \in {"idle", "check"}
    OBVIOUS
  <2>1. Sequence(Main)
    BY <1>11
  <2>2. job[Main].mode = "restore" /\ ActorsOK
    BY <1>1, <1>3 DEF MainJob, Base, TypeOK
  <2>3. Discards(Main)
    BY <1>11, <2>1, <2>2 DEF Sequence, CheckPasses, RemovalAborts, TakeoverBreaks, RestoreSkips,
       Write, Verify, RemovalSettles, ApplySettles, RestoreSettles, Stale, Matches
  <2> QED BY <1>11, <2>2, <2>3, QuitType DEF Discards
<1>13. NoStrays'
  <2>1. \A v \in Workers : (pc'[v] # "idle" => ~Stale(v)')
    BY <1>2, <1>7, <1>9, <1>10, <1>11 DEF Undisturbed, NoStrays
  <2>2. pc'[Main] \notin {"idle", "check"} => ~Stale(Main)'
    BY <1>2, <1>7, <1>9, <1>10, <1>11, <1>12 DEF Undisturbed, NoStrays
  <2> QED BY <2>1, <2>2 DEF NoStrays
<1> QED BY <1>4, <1>6, <1>13 DEF Undisturbed

LEMMA EnvironmentUndisturbed ==
    ASSUME IInv, Undisturbed, Environment, FreshIds PROVE Undisturbed'
<1>1. KernelOK /\ DisturbedOK /\ ScanOK /\ Lives /\ JobsOK
  BY DEF IInv, TypeOK
<1>2. UNCHANGED <<pc, job, scan>>
  BY DEF Environment, ProcessStart, ThreadStart, Born, ThreadExit, ProcessExit, SystemResets
<1>3. events' = {} /\ Reliable'
  BY DEF Environment, ProcessStart, ThreadStart, ThreadExit, ProcessExit, SystemResets, Announce,
     Undisturbed, Reliable
<1>4. NoneDisturbed'
  <2>1. CASE UNCHANGED disturbed
    BY <2>1 DEF Undisturbed, NoneDisturbed
  <2>2. ASSUME NEW t \in Threads, Born(t) PROVE NoneDisturbed'
    BY <1>1, <2>2 DEF Born, DisturbedOK, Undisturbed, NoneDisturbed
  <2> QED BY <2>1, <2>2 DEF Environment, ProcessStart, ThreadStart, ThreadExit, ProcessExit,
          SystemResets
<1>5. ASSUME NEW w \in Actors, pc[w] # "idle", ~Stale(w) PROVE ~Stale(w)'
  <2>1. job[w].t \in Threads
    BY <1>1, <1>5, JobAt
  <2>2. id'[job[w].t] \in {0, id[job[w].t]}
    BY <1>5, <2>1 DEF FreshIds, Forgotten
  <2> QED BY <1>2, <1>5, <2>2 DEF Stale
<1>6. NoStrays'
  <2>1. Workers \subseteq Actors /\ Main \in Actors
    BY Params
  <2> QED BY <1>2, <1>5, <2>1 DEF Undisturbed, NoStrays
<1>7. ScanHonest'
  <2> SUFFICES ASSUME scan # None, NEW p \in scan.dead PROVE proc'[p] = 0
    BY <1>2 DEF ScanHonest, Undisturbed
  <2>1. proc[p] = 0 /\ p \in Pids
    BY <1>1 DEF Undisturbed, ScanHonest, ScanOK, Scans
  <2>2. ASSUME NEW t \in Threads, ProcessStart(t) PROVE PidOf[t] # p
    <3>1. id[t] = 0 /\ id'[t] = clock + 1 /\ clock \in Nat
      BY <1>1, <2>2, LiveStart DEF ProcessStart, Born, Lives, KernelOK
    <3> QED BY <3>1 DEF FreshIds, Forgotten
  <2> QED BY <1>1, <2>1, <2>2, Params DEF Environment, ProcessStart, ThreadStart, Born, ThreadExit,
          ProcessExit, SystemResets, KernelOK
<1> QED BY <1>3, <1>4, <1>6, <1>7 DEF Undisturbed

\* A task is taken for the thread there is, and dropped for one there is not.
LEMMA TasksUndisturbed ==
    ASSUME IInv, Undisturbed, NEW w \in Workers, NEW t \in Threads,
           \/ \E l \in Labels : Take(w, t, l)
           \/ \E g \in Starts : DropStale(w, t, g)
    PROVE  Undisturbed'
<1>1. ActorsOK /\ DisturbedOK /\ Workers \subseteq Actors /\ Main \in Actors /\ Main \notin Workers
  BY Params DEF IInv, TypeOK
<1>2. UNCHANGED <<events, scan, proc, id>>
  BY DEF Take, DropStale, kernel
<1>3. Reliable' /\ events' = {} /\ ScanHonest'
  BY <1>2 DEF Undisturbed, Reliable, ScanHonest
<1>4. CASE \E l \in Labels : Take(w, t, l)
  <2>1. UNCHANGED disturbed /\ job'[w].t = t /\ job'[w].id = id[t]
        /\ \A v \in Actors : v # w => pc'[v] = pc[v] /\ job'[v] = job[v]
    BY <1>1, <1>4 DEF Take, Goto, ActorsOK
  <2>2. NoStrays'
    BY <1>1, <1>2, <2>1 DEF Undisturbed, NoStrays, Stale
  <2> QED BY <1>3, <2>1, <2>2 DEF Undisturbed, NoneDisturbed
<1>5. CASE \E g \in Starts : DropStale(w, t, g)
  <2>1. PICK g \in Starts : DropStale(w, t, g)
    BY <1>5
  <2>2. g # id[t]
    BY <2>1 DEF DropStale, Undisturbed, Reliable
  <2>3. NoneDisturbed'
    BY <1>1, <2>1, <2>2, ErasesNobody DEF DropStale, Undisturbed
  <2>4. UNCHANGED <<pc, job>>
    BY <2>1 DEF DropStale
  <2> QED BY <1>2, <1>3, <2>3, <2>4 DEF Undisturbed, NoStrays, Stale
<1> QED BY <1>4, <1>5

\* A scan gives up no process that is alive again when it ends.
LEMMA MainUndisturbed ==
    ASSUME IInv, Undisturbed, MainStep PROVE Undisturbed'
<1>1. ActorsOK /\ DisturbedOK /\ ScanOK /\ Lives /\ Main \in Actors /\ Main \notin Workers
      /\ Workers \subseteq Actors /\ None \notin Scans
  BY Params DEF IInv, TypeOK
<1>2. \A p \in Pids : ~RouterHandles(p) /\ ~RouterIgnores(p)
  BY DEF RouterHandles, RouterIgnores, Undisturbed
<1>3. UNCHANGED <<proc, id, events>>
  BY <1>2 DEF MainStep, ScanBegin, ScanFinish, ScanPid, StopWorkers, RestoreBegins, RestorePicks,
     ReloadCommits, ReloadRollsBack, ShutdownRetries, Exit, kernel
<1>4. NoStrays'
  <2>1. ASSUME NEW t \in Threads, RestorePicks(t) PROVE NoStrays'
    <3>1. pc'[Main] = "check" /\ \A v \in Workers : pc'[v] = pc[v] /\ job'[v] = job[v]
      BY <1>1, <2>1 DEF RestorePicks, Goto, ActorsOK
    <3> QED BY <1>3, <3>1 DEF Undisturbed, NoStrays, Stale
  <2>2. CASE UNCHANGED <<pc, job>>
    BY <1>3, <2>2 DEF Undisturbed, NoStrays, Stale
  <2> QED BY <1>2, <2>1, <2>2 DEF MainStep, ScanBegin, ScanFinish, ScanPid, StopWorkers,
          RestoreBegins, ReloadCommits, ReloadRollsBack, ShutdownRetries, Exit
<1>5. NoneDisturbed'
  <2>1. CASE UNCHANGED disturbed
    BY <2>1 DEF Undisturbed, NoneDisturbed
  <2>2. CASE ScanFinish
    <3>1. \A t \in Threads : LiveBase(t) => PidOf[t] \notin scan.dead /\ t \notin scan.missed
      BY <1>1, <2>2 DEF ScanFinish, Undisturbed, ScanHonest, LiveBase, Lives
    <3>2. \A t \in Threads : disturbed'[t] = (disturbed[t]
             \/ (LiveBase(t) /\ (PidOf[t] \in scan.dead \/ (t \in scan.missed /\ ~Retained(t)))))
      BY <2>2 DEF ScanFinish
    <3> QED BY <3>1, <3>2, Zenon DEF Undisturbed, NoneDisturbed
  <2> QED BY <1>2, <2>1, <2>2 DEF MainStep, ScanBegin, ScanPid, StopWorkers, RestoreBegins,
          RestorePicks, ReloadCommits, ReloadRollsBack, ShutdownRetries, Exit
<1>6. ScanHonest'
  <2>1. CASE UNCHANGED scan \/ scan' = None
    BY <1>3, <2>1 DEF Undisturbed, ScanHonest
  <2>2. CASE ScanBegin
    BY <1>3, <2>2 DEF ScanBegin, ScanHonest
  <2>3. ASSUME NEW p \in Pids, NEW misses, ScanPid(p, misses) PROVE ScanHonest'
    <3>1. scan \in Scans /\ scan.missed = {} /\ \A q \in scan.dead : proc[q] = 0
      BY <1>1, <2>3 DEF ScanPid, ScanOK, Undisturbed, ScanHonest
    <3>2. scan'.missed = {} /\ (scan'.dead = scan.dead \/ (proc[p] = 0 /\ scan'.dead = scan.dead \cup {p}))
      BY <2>3, <3>1 DEF ScanPid, Scans, Undisturbed, Reliable
    <3> QED BY <1>3, <3>1, <3>2 DEF ScanHonest
  <2> QED BY <1>2, <2>1, <2>2, <2>3 DEF MainStep, ScanFinish, StopWorkers, RestoreBegins,
          RestorePicks, ReloadCommits, ReloadRollsBack, ShutdownRetries, Exit
<1> QED BY <1>3, <1>4, <1>5, <1>6 DEF Undisturbed, Reliable

\* The promise without exceptions: while no process event arrives, no read of
\* /proc fails and no ID passes to a new thread that a job or a scan still
\* takes for the old one, the cache holds the original of everything ReUperf
\* has changed on a live thread, through reloads, rollbacks and full scans.
THEOREM PromiseIsKept == Reliable /\ Spec /\ [][FreshIds]_vars => []StrictCustody
<1>1. Reliable /\ Init => Undisturbed
  BY Params DEF Init, Undisturbed, Reliable, NoneDisturbed, NoStrays, ScanHonest, Actors
<1>2. IInv /\ Undisturbed /\ [Next]_vars /\ [FreshIds]_vars => Undisturbed'
  <2> SUFFICES ASSUME IInv, Undisturbed, [Next]_vars, [FreshIds]_vars PROVE Undisturbed'
    OBVIOUS
  <2>1. CASE UNCHANGED vars
    BY <2>1 DEF vars, kernel, Undisturbed, Reliable, NoneDisturbed, NoStrays, ScanHonest, Stale
  <2>2. CASE Environment /\ FreshIds
    BY <2>2, EnvironmentUndisturbed
  <2>3. ASSUME NEW w \in Workers, Work(w) PROVE Undisturbed'
    <3>1. w \in Actors
      BY Params
    <3>2. CASE JobWork(w)
      BY <3>1, <3>2, JobUndisturbed
    <3> QED BY <2>3, <3>2, TasksUndisturbed DEF Work, JobWork
  <2>4. ASSUME NEW w \in Actors, Sequence(w) PROVE Undisturbed'
    BY <2>4, JobUndisturbed
  <2>5. CASE MainStep
    BY <2>5, MainUndisturbed
  <2> QED BY <2>1, <2>2, <2>3, <2>4, <2>5 DEF Next
<1>3. IInv /\ Undisturbed => StrictCustody
  BY DEF IInv, StrictCustody, Undisturbed, NoneDisturbed, Touched, Covered, Safe, Held
<1> QED BY <1>1, <1>2, <1>3, CustodyInvariant, PTL DEF Spec
============================================================================
