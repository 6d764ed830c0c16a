------------------------- MODULE ConfigReloadProofs -------------------------
(***************************************************************************)
(* A reload leaves no mixture of two configurations, for every set of      *)
(* configurations, groups and values, and wherever a step fails.           *)
(*                                                                         *)
(* The argument has three layers: what init() has written and can still    *)
(* take back (Written, Undo, OldOrNew), which configuration the files hold *)
(* at each stage of a reload (Stage), and the child of the launcher query  *)
(* (ChildKept).                                                            *)
(***************************************************************************)
EXTENDS ConfigReload, SequenceTheorems, TLAPS

Files == Cgroups!Files
FileNames(g) == IF Kind[g] = "cpuset" THEN {"cpus", "mems", "exclusive"}
                ELSE {"uclamp", "shares"}
InRange(x, s) == \E i \in 1..Len(s) : s[i] = x

\* What configuration c wants in file f of group g.
Wanted(c, g, f) == IF Want[c][g][f] = "inherit" THEN "default" ELSE Want[c][g][f]

\* The groups 1 to n of c's plan hold what c wants.
HeldUpTo(c, n) ==
    \A k \in 1..n : \A f \in FileNames(Plan[c][k]) :
        ctl[<<Plan[c][k], f>>] = Wanted(c, Plan[c][k], f)

----------------------------------------------------------------------------
(* The invariant of init().                                                *)

OnFiles(v) == v = [x \in Files |-> v[x]]

CgroupTypes ==
    /\ OnFiles(ctl) /\ OnFiles(saved) /\ OnFiles(before)
    /\ ipc \in {"idle", "group", "write", "rollback"}
    /\ icfg \in Configs /\ gi \in Nat \ {0} /\ fi \in Nat \ {0}
    /\ ready \in BOOLEAN /\ failed \in BOOLEAN /\ rolled \in BOOLEAN
    /\ order \in Seq(Files) /\ result \in {"none", "ok", "failed"}
    /\ ipc \in {"group", "write"} => gi <= Len(Plan[icfg]) + 1
    /\ ipc = "write" => gi <= Len(Plan[icfg]) /\ fi <= Len(Cgroups!FilesOf(Cgroups!Group))

\* The files of a group come into being together.
Together(v) ==
    \A g \in Groups : \A f, h \in FileNames(g) : v[<<g, f>>] = "absent" => v[<<g, h>>] = "absent"

Present ==
    /\ Together(ctl) /\ Together(before)
    /\ \A x \in Files : ctl[x] # "none" /\ saved[x] # "absent"
    /\ \A i \in 1..Len(order) : saved[order[i]] # "none" /\ ctl[order[i]] # "absent"
    /\ ipc = "write" => \A f \in FileNames(Cgroups!Group) : ctl[<<Cgroups!Group, f>>] # "absent"

\* As long as nothing has failed, all files passed hold what is wanted.
Written ==
    /\ ipc \in {"group", "write"} /\ ~failed => HeldUpTo(icfg, gi - 1)
    /\ ipc = "write" /\ ~failed =>
         \A j \in 1..(fi - 1) : LET f == Cgroups!FilesOf(Cgroups!Group)[j]
                                IN ctl[<<Cgroups!Group, f>>] = Wanted(icfg, Cgroups!Group, f)
    /\ ipc = "idle" /\ result = "ok" => HeldUpTo(icfg, Len(Plan[icfg]))

\* File x of a group that is in use when the files are v.
InUse(x, v) ==
    Cgroups!Exists(x[1], v) /\ (Kind[x[1]] = "cpuset" => Cgroups!Configured(x[1], v))

\* A file in use when init() began is as it was, or can be put back, if its
\* group was found to be in use.
Undo(x) ==
    InUse(x, before) /\ x[1] \notin misread =>
      /\ ctl[x] # "absent" /\ (x[2] \in {"cpus", "mems"} => ctl[x] # "empty")
      /\ InRange(x, order) => saved[x] = before[x]
      /\ ipc \in {"group", "write"} =>
           \/ saved[x] = "none" /\ ctl[x] = before[x]
           \/ saved[x] = before[x] /\ InRange(x, order)
      /\ ipc = "rollback" /\ rolled => ctl[x] = before[x] \/ InRange(x, order)
      /\ ipc = "write" /\ x[1] = Cgroups!Group => ready

\* A file in use never has a third value, nor is one saved, in a group that
\* was taken for unused either.
OldOrNew(x) ==
    InUse(x, before) =>
      /\ ctl[x] \in {before[x], Wanted(icfg, x[1], x[2])}
      /\ saved[x] \in {"none", before[x], Wanted(icfg, x[1], x[2])}

\* What init() has achieved when it returns.
Concluded ==
    IF result = "ok" THEN HeldUpTo(icfg, Len(Plan[icfg]))
    ELSE rolled => \A x \in Files : InUse(x, before) =>
           ctl[x] = before[x] \/ (x[1] \in misread /\ ctl[x] = Wanted(icfg, x[1], x[2]))

CgroupInv ==
    /\ CgroupTypes /\ Present /\ Written
    /\ \A x \in Files : Undo(x) /\ OldOrNew(x)

----------------------------------------------------------------------------
(* The invariant of main().                                                *)

InPlace(c) == HeldUpTo(c, Len(Plan[c]))

Stage ==
    /\ cfg \in Configs /\ new \in Configs /\ booting \in BOOLEAN
    /\ pc \in {"idle", "stat", "hash", "decide", "parse", "launcher", "stop", "restore", "init",
               "undo_init", "start", "undo_start", "commit", "fail", "exit", "boot_mtime",
               "boot_hash"}
    /\ booting => new = cfg
    /\ pc \in {"idle", "stat", "hash", "decide", "stop", "restore", "undo_init", "undo_start", "fail"}
         => ~booting
    /\ pc \in {"boot_mtime", "boot_hash"} => booting
    /\ pc \notin {"init", "undo_init"} => ipc = "idle" /\ result = "none"
    /\ pc = "init" /\ (ipc # "idle" \/ result # "none") => icfg = new
    /\ pc = "undo_init" /\ (ipc # "idle" \/ result # "none") => icfg = cfg
    /\ pc \in {"idle", "stat", "hash", "decide", "stop", "fail", "boot_mtime", "boot_hash"}
         => workers = cfg /\ InPlace(cfg)
    /\ pc \in {"parse", "launcher"} /\ ~booting => workers = cfg /\ InPlace(cfg)
    /\ pc \in {"restore", "undo_start"} => InPlace(cfg)
    /\ pc = "start" => InPlace(new)
    /\ pc = "commit" => workers = new /\ InPlace(new)

\* Between spawn and the reaping wait there is a child.
ChildKept ==
    /\ ~misfired
    /\ lpc \in {"idle", "spawn", "choose"} => child = "none" \/ lost
    /\ lpc \in {"poll", "reap", "term", "grace", "kill", "wait"} => child # "none"
    /\ lpc \in {"idle", "spawn", "poll", "reap", "term", "grace", "kill", "wait", "choose"}

IInv == CgroupInv /\ Stage /\ ChildKept
----------------------------------------------------------------------------
(* Files, plans and groups.                                                *)

LEMMA FilesKnown ==
    ASSUME NEW g \in Groups, NEW f
    PROVE  /\ <<g, f>> \in Files <=> f \in FileNames(g)
           /\ f \in FileNames(g) <=> \E j \in 1..Len(Cgroups!FilesOf(g)) : Cgroups!FilesOf(g)[j] = f
           /\ Len(Cgroups!FilesOf(g)) \in Nat /\ Len(Cgroups!FilesOf(g)) >= 1
           /\ Cgroups!FilesOf(g)[1] \in FileNames(g)
<1>1. CASE Kind[g] = "cpuset"
  BY <1>1 DEF Files, FileNames, Cgroups!Files, Cgroups!FilesOf, Cgroups!CpusetFiles
<1>2. CASE Kind[g] # "cpuset"
  BY <1>2 DEF Files, FileNames, Cgroups!Files, Cgroups!FilesOf, Cgroups!LimitFiles
<1> QED BY <1>1, <1>2

LEMMA ListKnown ==
    ASSUME NEW g \in Groups
    PROVE  Len(Cgroups!FilesOf(g)) \in Nat /\ 1 <= Len(Cgroups!FilesOf(g))
BY FilesKnown

LEMMA FileParts ==
    ASSUME NEW x \in Files
    PROVE  x = <<x[1], x[2]>> /\ x[1] \in Groups /\ x[2] \in FileNames(x[1])
<1>1. x = <<x[1], x[2]>> /\ x[1] \in Groups
  BY DEF Files, Cgroups!Files
<1> QED BY <1>1, FilesKnown

LEMMA PlanKnown ==
    ASSUME NEW c \in Configs
    PROVE  /\ Plan[c] \in Seq(Groups) /\ Len(Plan[c]) \in Nat /\ DOMAIN Plan[c] = 1..Len(Plan[c])
           /\ \A k \in 1..Len(Plan[c]) :
                /\ Plan[c][k] \in Groups /\ DOMAIN Want[c][Plan[c][k]] = FileNames(Plan[c][k])
                /\ \A f \in FileNames(Plan[c][k]) :
                     Wanted(c, Plan[c][k], f) \notin {"none", "absent", "empty"}
<1>1. Plan[c] \in Seq(Groups)
  BY CgroupAssumption
<1>2. Len(Plan[c]) \in Nat /\ DOMAIN Plan[c] = 1..Len(Plan[c])
  BY <1>1
<1>3. ASSUME NEW k \in 1..Len(Plan[c])
      PROVE  /\ Plan[c][k] \in Groups /\ DOMAIN Want[c][Plan[c][k]] = FileNames(Plan[c][k])
             /\ \A f \in FileNames(Plan[c][k]) :
                     Wanted(c, Plan[c][k], f) \notin {"none", "absent", "empty"}
  <2>1. Plan[c][k] \in Groups
    BY <1>1, <1>3
  <2>2. DOMAIN Want[c][Plan[c][k]] = FileNames(Plan[c][k])
    BY <1>2, <1>3, CgroupAssumption DEF FileNames
  <2>3. \A f \in FileNames(Plan[c][k]) : Want[c][Plan[c][k]][f] \notin {"none", "absent", "empty"}
    BY <1>2, <1>3, <2>2, CgroupAssumption
  <2> QED BY <2>1, <2>2, <2>3 DEF Wanted
<1> QED BY <1>1, <1>2, <1>3

LEMMA AppliedIs ==
    ASSUME NEW c \in Configs
    PROVE  Cgroups!Applied(c) <=> InPlace(c)
BY PlanKnown DEF Cgroups!Applied, InPlace, HeldUpTo, Wanted

\* The group init() is at.
LEMMA GroupKnown ==
    ASSUME CgroupTypes, gi <= Len(Plan[icfg])
    PROVE  /\ Cgroups!Group = Plan[icfg][gi] /\ Cgroups!Group \in Groups /\ gi \in 1..Len(Plan[icfg])
           /\ \A f \in FileNames(Cgroups!Group) :
                Wanted(icfg, Cgroups!Group, f) \notin {"none", "absent", "empty"}
<1>1. icfg \in Configs /\ gi \in 1..Len(Plan[icfg])
  BY PlanKnown DEF CgroupTypes
<1>2. Cgroups!Group = Plan[icfg][gi]
  BY DEF Cgroups!Group
<1> QED BY <1>1, <1>2, PlanKnown

\* A file in use is in a group in use.
LEMMA UseKnown ==
    ASSUME NEW v, NEW x \in Files, Together(v), InUse(x, v)
    PROVE  /\ v[x] # "absent" /\ (x[2] \in {"cpus", "mems"} => v[x] # "empty")
           /\ \A f \in FileNames(x[1]) : <<x[1], f>> \in Files /\ InUse(<<x[1], f>>, v)
<1> DEFINE g == x[1]
<1>1. g \in Groups /\ x[2] \in FileNames(g) /\ x = <<g, x[2]>>
  BY FileParts
<1>2. Cgroups!FilesOf(g)[1] \in FileNames(g) /\ \A f \in FileNames(g) : <<g, f>> \in Files
  BY <1>1, FilesKnown
<1>3. /\ v[<<g, Cgroups!FilesOf(g)[1]>>] # "absent"
      /\ Kind[g] = "cpuset" => \A f \in {"cpus", "mems"} : v[<<g, f>>] \notin {"absent", "empty"}
  BY DEF InUse, Cgroups!Exists, Cgroups!Configured
<1>4. v[x] # "absent"
  BY <1>1, <1>2, <1>3 DEF Together
<1>5. x[2] \in {"cpus", "mems"} => Kind[g] = "cpuset"
  BY <1>1 DEF FileNames
<1>6. x[2] \in {"cpus", "mems"} => v[x] # "empty"
  BY <1>1, <1>3, <1>5
<1>7. \A f : <<g, f>>[1] = g
  OBVIOUS
<1>8. \A f : InUse(<<g, f>>, v)
  BY <1>7 DEF InUse
<1> QED BY <1>2, <1>4, <1>6, <1>8

----------------------------------------------------------------------------
(* The steps of init().                                                    *)

LEMMA BeginsInv ==
    ASSUME CgroupInv, NEW c \in Configs, Cgroups!Begin(c) \/ (Cgroups!Left /\ c = icfg)
    PROVE  CgroupInv' /\ icfg' = c /\ ctl' = ctl /\ result' = "none"
<1>1. /\ icfg' = c /\ gi' = 1 /\ fi' = 1 /\ ready' = FALSE /\ failed' = FALSE
      /\ saved' = [x \in Files |-> "none"] /\ order' = <<>>
      /\ result' = "none" /\ rolled' = TRUE /\ misread' = {} /\ before' = ctl /\ ctl' = ctl
      /\ ipc' \in {"idle", "group"}
  BY DEF Cgroups!Begin, Cgroups!Left, Cgroups!Locals, Files
<1>2. Len(Plan[c]) \in Nat
  BY PlanKnown
<1>3. order' \in Seq(Files) /\ Len(order') = 0 /\ 1..Len(order') = {} /\ OnFiles(saved')
  BY <1>1 DEF OnFiles
<1>4. CgroupTypes'
  <2>1. OnFiles(ctl') /\ OnFiles(saved') /\ OnFiles(before')
    BY <1>1, <1>3 DEF CgroupInv, CgroupTypes
  <2>2. 1 <= Len(Plan[icfg']) + 1 /\ 1 \in Nat \ {0}
    BY <1>1, <1>2
  <2> QED BY <1>1, <1>3, <2>1, <2>2 DEF CgroupTypes
<1>5. Present'
  BY <1>1, <1>3 DEF CgroupInv, Present, Together
<1>6. Written'
  BY <1>1 DEF Written, HeldUpTo
<1>7. ASSUME NEW x \in Files PROVE Undo(x)'
  <2>1. SUFFICES ASSUME InUse(x, before)', (x[1] \notin misread)' PROVE Undo(x)'
    BY DEF Undo
  <2>2. before'[x] # "absent" /\ (x[2] \in {"cpus", "mems"} => before'[x] # "empty")
    <3>1. Together(before)'
      BY <1>5 DEF Present
    <3> QED BY <2>1, <3>1, UseKnown
  <2> QED BY <1>1, <1>3, <2>2 DEF Undo, InRange
<1>8. ASSUME NEW x \in Files PROVE OldOrNew(x)'
  BY <1>1 DEF OldOrNew
<1> QED BY <1>1, <1>4, <1>5, <1>6, <1>7, <1>8 DEF CgroupInv

LEMMA SkipsGroup ==
    ASSUME CgroupInv, ipc = "group", gi <= Len(Plan[icfg]), failed' = TRUE, gi' = gi + 1,
           UNCHANGED <<ctl, ready, ipc, fi, icfg, saved, order, result, rolled, misread, before>>
    PROVE  CgroupInv'
<1>1. CgroupTypes'
  <2>1. gi' \in Nat \ {0} /\ gi' <= Len(Plan[icfg']) + 1
    BY PlanKnown DEF CgroupInv, CgroupTypes
  <2> QED BY <2>1 DEF CgroupInv, CgroupTypes
<1>2. Present' /\ Written'
  BY DEF CgroupInv, Present, Written, Together
<1>3. ASSUME NEW x \in Files PROVE Undo(x)' /\ OldOrNew(x)'
  BY DEF CgroupInv, Undo, InRange, OldOrNew
<1> QED BY <1>1, <1>2, <1>3 DEF CgroupInv

LEMMA MakesGroup ==
    ASSUME CgroupInv, ipc = "group", gi <= Len(Plan[icfg]),
           ctl' = [x \in Files |-> IF x[1] = Cgroups!Group /\ ctl[x] = "absent"
                                   THEN Cgroups!Created(Cgroups!Group, x[2]) ELSE ctl[x]],
           \/ ready' = Cgroups!WasReady(Cgroups!Group) /\ misread' = misread
           \/ ready' = FALSE /\ misread' = misread \cup {Cgroups!Group},
           ipc' = "write", fi' = 1,
           UNCHANGED <<gi, failed, icfg, saved, order, result, rolled, before>>
    PROVE  CgroupInv'
<1> DEFINE g == Cgroups!Group
<1>1. g \in Groups /\ Cgroups!Group' = g /\ gi \in 1..Len(Plan[icfg]) /\ CgroupTypes
  BY GroupKnown DEF CgroupInv, Cgroups!Group
<1>2. /\ OnFiles(ctl')
      /\ \A x \in Files : /\ ctl[x] # "absent" \/ x[1] # g => ctl'[x] = ctl[x]
                          /\ x[1] = g => ctl'[x] # "absent"
                          /\ ctl'[x] # "none"
  BY DEF OnFiles, Cgroups!Created, CgroupInv, Present
<1> HIDE DEF g
<1>3. \A h \in Groups : \A f \in FileNames(h) : <<h, f>> \in Files /\ <<h, f>>[1] = h
  BY FilesKnown
<1>4. Together(ctl')
  BY <1>2, <1>3 DEF Together, CgroupInv, Present
<1>5. Present'
  <2>1. \A f \in FileNames(g) : ctl'[<<g, f>>] # "absent"
    BY <1>1, <1>2, <1>3
  <2>2. Together(before')
    BY DEF CgroupInv, Present
  <2>3. \A i \in 1..Len(order') : saved'[order'[i]] # "none" /\ ctl'[order'[i]] # "absent"
    <3>1. \A i \in 1..Len(order) : order[i] \in Files
      BY <1>1 DEF CgroupTypes
    <3> QED BY <1>2, <3>1 DEF CgroupInv, Present
  <2> QED BY <1>1, <1>2, <1>4, <2>1, <2>2, <2>3 DEF CgroupInv, Present
<1>6. CgroupTypes'
  <2>1. 1 <= Len(Cgroups!FilesOf(g)) /\ 1 \in Nat \ {0}
    BY <1>1, ListKnown
  <2>2. gi <= Len(Plan[icfg]) + 1
    BY <1>1, PlanKnown DEF CgroupTypes
  <2>3. ready' \in BOOLEAN
    BY DEF Cgroups!WasReady, Cgroups!Configured
  <2> QED BY <1>1, <1>2, <2>1, <2>2, <2>3 DEF CgroupTypes
<1>7. Written'
  <2>1. ASSUME ~failed PROVE HeldUpTo(icfg, gi - 1)'
    <3>1. ASSUME NEW k \in 1..(gi - 1), NEW f \in FileNames(Plan[icfg][k])
          PROVE  ctl'[<<Plan[icfg][k], f>>] = Wanted(icfg, Plan[icfg][k], f)
      <4>1. k \in 1..Len(Plan[icfg]) /\ icfg \in Configs
        BY <1>1, <3>1, PlanKnown DEF CgroupTypes
      <4>2. Wanted(icfg, Plan[icfg][k], f) # "absent" /\ <<Plan[icfg][k], f>> \in Files
        BY <1>3, <3>1, <4>1, PlanKnown
      <4>3. ctl[<<Plan[icfg][k], f>>] = Wanted(icfg, Plan[icfg][k], f)
        BY <2>1, <3>1 DEF CgroupInv, Written, HeldUpTo
      <4> QED BY <1>2, <4>2, <4>3
    <3> QED BY <3>1 DEF HeldUpTo
  <2> QED BY <2>1 DEF Written
<1>8. ASSUME NEW x \in Files PROVE Undo(x)'
  <2>1. SUFFICES ASSUME InUse(x, before), x[1] \notin misread' PROVE Undo(x)'
    BY DEF Undo
  <2>2. Undo(x) /\ Together(before) /\ x[1] \notin misread
    BY <2>1 DEF CgroupInv, Present
  <2>3. ctl'[x] = ctl[x]
    BY <1>2, <2>1, <2>2 DEF Undo
  <2>4. ASSUME x[1] = g PROVE ready'
    <3>0. ready' = Cgroups!WasReady(g)
      BY <2>1, <2>4 DEF g
    <3>1. CASE Kind[g] = "cpuset"
      <4>1. ASSUME NEW f \in {"cpus", "mems"} PROVE ctl[<<g, f>>] \notin {"absent", "empty"}
        <5>1. f \in FileNames(g)
          BY <3>1, <4>1 DEF FileNames
        <5>2. <<g, f>> \in Files /\ InUse(<<g, f>>, before) /\ <<g, f>>[2] = f
          BY <2>1, <2>2, <2>4, <5>1, UseKnown
        <5>3. Undo(<<g, f>>) /\ <<g, f>>[1] \notin misread
          BY <2>2, <2>4, <5>2 DEF CgroupInv
        <5> QED BY <4>1, <5>2, <5>3 DEF Undo
      <4> QED BY <3>0, <4>1 DEF Cgroups!WasReady, Cgroups!Configured
    <3>2. CASE Kind[g] # "cpuset"
      <4>1. Kind[g] = "limit"
        BY <1>1, <3>2, CgroupAssumption
      <4> QED BY <3>0, <4>1 DEF Cgroups!WasReady
    <3> QED BY <3>1, <3>2
  <2> QED BY <1>1, <2>1, <2>2, <2>3, <2>4 DEF Undo, InRange
<1>9. ASSUME NEW x \in Files PROVE OldOrNew(x)'
  <2>1. SUFFICES ASSUME InUse(x, before) PROVE OldOrNew(x)'
    BY DEF OldOrNew
  <2>2. OldOrNew(x) /\ before[x] # "absent"
    BY <2>1, UseKnown DEF CgroupInv, Present
  <2>3. ctl'[x] = ctl[x]
    <3>1. CASE x[1] = g
      <4>1. Wanted(icfg, x[1], x[2]) # "absent"
        BY <1>1, <3>1, FileParts, GroupKnown DEF g
      <4> QED BY <1>2, <2>1, <2>2, <4>1 DEF OldOrNew
    <3>2. CASE x[1] # g
      BY <1>2, <3>2
    <3> QED BY <3>1, <3>2
  <2> QED BY <2>1, <2>2, <2>3 DEF OldOrNew
<1> QED BY <1>5, <1>6, <1>7, <1>8, <1>9 DEF CgroupInv

LEMMA GroupBeginsInv ==
    ASSUME CgroupInv, Cgroups!GroupBegins PROVE CgroupInv' /\ icfg' = icfg /\ ipc' # "idle"
<1>1. /\ ipc = "group" /\ gi <= Len(Plan[icfg])
      /\ UNCHANGED <<icfg, saved, order, result, rolled, before>>
  BY DEF Cgroups!GroupBegins, Cgroups!Finished, Cgroups!tx
<1>2. CASE /\ failed' = TRUE /\ gi' = gi + 1
           /\ UNCHANGED <<ctl, ready, ipc, fi, misread>>
  BY <1>1, <1>2, SkipsGroup
<1>3. CASE /\ ctl' = [x \in Files |-> IF x[1] = Cgroups!Group /\ ctl[x] = "absent"
                                      THEN Cgroups!Created(Cgroups!Group, x[2]) ELSE ctl[x]]
           /\ \/ ready' = Cgroups!WasReady(Cgroups!Group) /\ misread' = misread
              \/ ready' = FALSE /\ misread' = misread \cup {Cgroups!Group}
           /\ ipc' = "write" /\ fi' = 1 /\ UNCHANGED <<gi, failed>>
  BY <1>1, <1>3, MakesGroup
<1> QED BY <1>1, <1>2, <1>3 DEF Cgroups!GroupBegins, Cgroups!ReadsReadiness, Files

LEMMA CommitsInv ==
    ASSUME CgroupInv, Cgroups!Commits
    PROVE  CgroupInv' /\ icfg' = icfg /\ Concluded'
<1>1. /\ ipc = "group" /\ ~failed /\ gi > Len(Plan[icfg]) /\ ipc' = "idle" /\ result' = "ok"
      /\ UNCHANGED <<ctl, icfg, gi, fi, ready, failed, saved, order, rolled, misread, before>>
  <2>1. ~(gi <= Len(Plan[icfg])) /\ gi \in Nat /\ Len(Plan[icfg]) \in Nat
    BY PlanKnown DEF Cgroups!Commits, Cgroups!Finished, CgroupInv, CgroupTypes
  <2> QED BY <2>1 DEF Cgroups!Commits, Cgroups!tx
<1>2. gi - 1 = Len(Plan[icfg])
  BY <1>1, PlanKnown DEF CgroupInv, CgroupTypes
<1>3. HeldUpTo(icfg, Len(Plan[icfg]))
  BY <1>1, <1>2 DEF CgroupInv, Written
<1>4. HeldUpTo(icfg, Len(Plan[icfg]))'
  BY <1>1, <1>3 DEF HeldUpTo
<1>5. CgroupTypes' /\ Present' /\ Written'
  BY <1>1, <1>4 DEF CgroupInv, CgroupTypes, Present, Written
<1>6. ASSUME NEW x \in Files PROVE Undo(x)' /\ OldOrNew(x)'
  BY <1>1 DEF CgroupInv, Undo, InRange, OldOrNew
<1> QED BY <1>1, <1>4, <1>5, <1>6 DEF CgroupInv, Concluded

LEMMA RollbackBeginsInv ==
    ASSUME CgroupInv, Cgroups!RollbackBegins
    PROVE  CgroupInv' /\ icfg' = icfg /\ ipc' # "idle"
<1>1. /\ ipc \in {"group", "write"} /\ ipc' = "rollback"
      /\ UNCHANGED <<ctl, icfg, gi, fi, ready, failed, saved, order, result, rolled, misread, before>>
  BY DEF Cgroups!RollbackBegins, Cgroups!tx
<1>2. CgroupTypes' /\ Present' /\ Written'
  BY <1>1 DEF CgroupInv, CgroupTypes, Present, Written
<1>3. ASSUME NEW x \in Files PROVE Undo(x)' /\ OldOrNew(x)'
  BY <1>1 DEF CgroupInv, Undo, InRange, OldOrNew
<1> QED BY <1>1, <1>2, <1>3 DEF CgroupInv

LEMMA RollbackEndsInv ==
    ASSUME CgroupInv, Cgroups!RollbackEnds
    PROVE  CgroupInv' /\ icfg' = icfg /\ Concluded'
<1>1. /\ ipc = "rollback" /\ order = <<>> /\ ipc' = "idle" /\ result' = "failed"
      /\ UNCHANGED <<ctl, icfg, gi, fi, ready, failed, saved, order, rolled, misread, before>>
  BY DEF Cgroups!RollbackEnds, Cgroups!tx
<1>2. CgroupTypes' /\ Present' /\ Written'
  BY <1>1 DEF CgroupInv, CgroupTypes, Present, Written
<1>3. ASSUME NEW x \in Files PROVE Undo(x)' /\ OldOrNew(x)'
  BY <1>1 DEF CgroupInv, Undo, InRange, OldOrNew
<1>4. ASSUME NEW x \in Files, rolled, InUse(x, before)
      PROVE  ctl[x] = before[x] \/ (x[1] \in misread /\ ctl[x] = Wanted(icfg, x[1], x[2]))
  <2>1. ~InRange(x, order)
    BY <1>1 DEF InRange
  <2>2. Undo(x) /\ OldOrNew(x)
    BY DEF CgroupInv
  <2> QED BY <1>1, <1>4, <2>1, <2>2 DEF Undo, OldOrNew
<1>5. Concluded'
  BY <1>1, <1>4 DEF Concluded
<1> QED BY <1>1, <1>2, <1>3, <1>5 DEF CgroupInv

LEMMA FrontOf ==
    ASSUME NEW q \in Seq(Files), NEW s, q # <<>>, s = SubSeq(q, 1, Len(q) - 1)
    PROVE  s \in Seq(Files) /\ Len(s) = Len(q) - 1 /\ \A i \in 1..(Len(q) - 1) : s[i] = q[i]
<1>1. Len(q) \in Nat /\ Len(q) >= 1
  OBVIOUS
<1>2. PICK m \in Int : m = Len(q) - 1 /\ m >= 0
  BY <1>1
<1>3. 1 \in Int /\ \A i \in 1..m : q[i] \in Files
  BY <1>1, <1>2
<1>4. /\ SubSeq(q, 1, m) \in Seq(Files)
      /\ Len(SubSeq(q, 1, m)) = IF 1 <= m THEN m - 1 + 1 ELSE 0
      /\ \A i \in 1..(m - 1 + 1) : SubSeq(q, 1, m)[i] = q[1 + i - 1]
  BY <1>3, SubSeqProperties
<1>5. s = SubSeq(q, 1, m)
  BY <1>2
<1>6. m - 1 + 1 = m /\ (~(1 <= m) => m = 0) /\ \A i \in 1..m : 1 + i - 1 = i
  BY <1>2
<1> QED BY <1>2, <1>4, <1>5, <1>6

LEMMA RollsBackInv ==
    ASSUME CgroupInv, Cgroups!RollsBack
    PROVE  CgroupInv' /\ icfg' = icfg /\ ipc' # "idle"
<1> DEFINE n == Len(order)
           x == order[n]
<1>1. /\ ipc = "rollback" /\ order # <<>> /\ order' = SubSeq(order, 1, n - 1)
      /\ \/ ctl' = [ctl EXCEPT ![x] = saved[x]] /\ rolled' = rolled
         \/ rolled' = FALSE /\ ctl' = ctl
      /\ UNCHANGED <<ipc, icfg, gi, fi, ready, failed, saved, result, misread, before>>
  BY DEF Cgroups!RollsBack
<1>2. /\ order \in Seq(Files) /\ n \in Nat /\ n >= 1 /\ x \in Files
      /\ OnFiles(ctl) /\ CgroupTypes /\ Present
  BY <1>1 DEF CgroupInv, CgroupTypes
<1>3. /\ order' \in Seq(Files) /\ Len(order') = n - 1
      /\ \A i \in 1..(n - 1) : i \in 1..n /\ order'[i] = order[i]
  <2>1. order' \in Seq(Files) /\ Len(order') = n - 1 /\ \A i \in 1..(n - 1) : order'[i] = order[i]
    BY <1>1, <1>2, FrontOf
  <2> QED BY <1>2, <2>1
<1>4. 1..n = (1..(n - 1)) \cup {n}
  BY <1>2
<1>5. saved[x] # "none" /\ saved[x] # "absent" /\ ctl[x] # "absent"
  BY <1>2, <1>4 DEF Present
<1> HIDE DEF x, n
<1>6. /\ OnFiles(ctl') /\ (ctl'[x] = saved[x] \/ ctl'[x] = ctl[x])
      /\ rolled' => ctl'[x] = saved[x] /\ rolled
      /\ \A y \in Files : y # x => ctl'[y] = ctl[y]
  <2>1. CASE ctl' = [ctl EXCEPT ![x] = saved[x]] /\ rolled' = rolled
    BY <1>2, <2>1 DEF OnFiles
  <2>2. CASE rolled' = FALSE /\ ctl' = ctl
    BY <1>2, <2>2
  <2> QED BY <1>1, <2>1, <2>2
<1>7. rolled' \in BOOLEAN
  BY <1>1, <1>2 DEF CgroupTypes
<1>8. CgroupTypes'
  BY <1>1, <1>2, <1>3, <1>6, <1>7 DEF CgroupTypes
<1>9. \A y \in Files : (InRange(y, order') => InRange(y, order)) /\ (InRange(y, order) => y = x \/ InRange(y, order'))
  <2>1. \A y : InRange(y, order) <=> \E i \in 1..n : order[i] = y
    BY DEF InRange, n
  <2>2. \A y : InRange(y, order') <=> \E i \in 1..(n - 1) : order[i] = y
    BY <1>3 DEF InRange
  <2>3. order[n] = x
    BY DEF x
  <2> QED BY <1>4, <2>1, <2>2, <2>3
<1>10. Present'
  <2>1. \A y \in Files : ctl'[y] # "none" /\ saved'[y] # "absent"
    BY <1>1, <1>2, <1>5, <1>6 DEF Present
  <2>2. \A i \in 1..Len(order') : saved'[order'[i]] # "none" /\ ctl'[order'[i]] # "absent"
    <3>1. ASSUME NEW i \in 1..(n - 1) PROVE saved[order[i]] # "none" /\ ctl'[order[i]] # "absent"
      <4>1. i \in 1..Len(order) /\ order[i] \in Files
        BY <1>2, <1>3, <3>1 DEF n
      <4>2. saved[order[i]] # "none" /\ ctl[order[i]] # "absent"
        BY <1>2, <4>1 DEF Present
      <4> QED BY <1>5, <1>6, <4>1, <4>2
    <3> QED BY <1>1, <1>3, <3>1
  <2>3. Together(ctl')
    <3>1. \A y \in Files : ctl'[y] = "absent" <=> ctl[y] = "absent"
      BY <1>5, <1>6
    <3>2. \A g \in Groups : \A f \in FileNames(g) : <<g, f>> \in Files
      BY FilesKnown
    <3> QED BY <1>2, <3>1, <3>2 DEF Together, Present
  <2> QED BY <1>1, <1>2, <2>1, <2>2, <2>3 DEF Present
<1>11. Written'
  BY <1>1 DEF Written
<1>12. ASSUME NEW y \in Files PROVE Undo(y)'
  <2>1. SUFFICES ASSUME InUse(y, before), y[1] \notin misread PROVE Undo(y)'
    BY <1>1 DEF Undo
  <2>2. Undo(y) /\ Together(before)
    BY DEF CgroupInv, Present
  <2>3. before[y] # "absent" /\ (y[2] \in {"cpus", "mems"} => before[y] # "empty")
    BY <2>1, <2>2, UseKnown
  <2>4. CASE y = x
    <3>1. saved[y] = before[y]
      <4>1. InRange(y, order)
        BY <1>2, <1>4, <2>4 DEF InRange, x, n
      <4> QED BY <2>1, <2>2, <4>1 DEF Undo
    <3> QED BY <1>1, <1>6, <1>9, <2>1, <2>2, <2>3, <2>4, <3>1 DEF Undo
  <2>5. CASE y # x
    BY <1>1, <1>6, <1>9, <2>1, <2>2, <2>5 DEF Undo
  <2> QED BY <2>4, <2>5
<1>13. ASSUME NEW y \in Files PROVE OldOrNew(y)'
  <2>1. OldOrNew(y) /\ (y = x => saved[y] # "none")
    BY <1>5 DEF CgroupInv
  <2> QED BY <1>1, <1>6, <2>1 DEF OldOrNew
<1> QED BY <1>1, <1>8, <1>10, <1>11, <1>12, <1>13 DEF CgroupInv

\* The file init() is at.
LEMMA FileKnown ==
    ASSUME CgroupInv, ipc = "write"
    PROVE  LET g == Cgroups!Group
               f == Cgroups!FilesOf(g)[fi]
           IN /\ g = Plan[icfg][gi] /\ g \in Groups /\ f \in FileNames(g) /\ Cgroups!File = <<g, f>>
              /\ Cgroups!File \in Files /\ Cgroups!File[1] = g /\ Cgroups!File[2] = f
              /\ ctl[Cgroups!File] # "absent"
              /\ Wanted(icfg, g, f) \notin {"none", "absent", "empty"}
              /\ Cgroups!resolve_limit_value(g, f) = Wanted(icfg, g, f)
              /\ fi \in 1..Len(Cgroups!FilesOf(g)) /\ gi \in 1..Len(Plan[icfg])
<1> DEFINE g == Cgroups!Group
           f == Cgroups!FilesOf(g)[fi]
<1>1. gi <= Len(Plan[icfg]) /\ fi <= Len(Cgroups!FilesOf(g)) /\ fi \in Nat \ {0} /\ CgroupTypes
  BY DEF CgroupInv, CgroupTypes
<1>2. /\ g = Plan[icfg][gi] /\ g \in Groups /\ gi \in 1..Len(Plan[icfg])
      /\ \A h \in FileNames(g) : Wanted(icfg, g, h) \notin {"none", "absent", "empty"}
  BY <1>1, GroupKnown
<1>3. fi \in 1..Len(Cgroups!FilesOf(g))
  BY <1>1, <1>2, ListKnown
<1>4. f \in FileNames(g) /\ <<g, f>> \in Files
  BY <1>2, <1>3, FilesKnown
<1>5. Cgroups!File = <<g, f>> /\ Cgroups!resolve_limit_value(g, f) = Wanted(icfg, g, f)
  BY DEF Cgroups!File, Cgroups!resolve_limit_value, Wanted
<1>6. ctl[<<g, f>>] # "absent"
  BY <1>4 DEF CgroupInv, Present
<1> HIDE DEF g, f
<1>7. <<g, f>>[1] = g /\ <<g, f>>[2] = f
  OBVIOUS
<1> QED BY <1>2, <1>3, <1>4, <1>5, <1>6, <1>7 DEF g, f

LEMMA SnapshotKept ==
    ASSUME CgroupInv, ipc = "write", NEW x \in Files, x = Cgroups!File,
           \/ ready /\ saved[x] = "none" /\ saved' = [saved EXCEPT ![x] = ctl[x]] /\ order' = Append(order, x)
           \/ ~(ready /\ saved[x] = "none") /\ UNCHANGED <<saved, order>>
    PROVE  /\ OnFiles(saved') /\ order' \in Seq(Files) /\ \A y \in Files : saved'[y] # "absent"
           /\ \A i \in 1..Len(order') : saved'[order'[i]] # "none" /\ ctl[order'[i]] # "absent"
           /\ \A y \in Files : InUse(y, before) /\ y[1] \notin misread =>
                /\ InRange(y, order') => saved'[y] = before[y]
                /\ \/ saved'[y] = "none" /\ ctl[y] = before[y] /\ y # x
                   \/ saved'[y] = before[y] /\ InRange(y, order')
<1> DEFINE n == Len(order)
<1>1. /\ x[1] = Cgroups!Group /\ ctl[x] # "absent" /\ ctl[x] # "none" /\ OnFiles(saved)
      /\ order \in Seq(Files) /\ n \in Nat /\ Present /\ ready \in BOOLEAN
      /\ \A i \in 1..n : order[i] \in Files /\ saved[order[i]] # "none" /\ ctl[order[i]] # "absent"
  BY FileKnown DEF CgroupInv, CgroupTypes, Present
<1>2. \A y \in Files : InUse(y, before) /\ y[1] \notin misread =>
         /\ InRange(y, order) => saved[y] = before[y]
         /\ \/ saved[y] = "none" /\ ctl[y] = before[y]
            \/ saved[y] = before[y] /\ InRange(y, order)
         /\ y = x => ready
  BY <1>1 DEF CgroupInv, Undo
<1>3. CASE ready /\ saved[x] = "none" /\ saved' = [saved EXCEPT ![x] = ctl[x]] /\ order' = Append(order, x)
  <2>1. OnFiles(saved') /\ saved'[x] = ctl[x] /\ \A y \in Files : y # x => saved'[y] = saved[y]
    BY <1>1, <1>3 DEF OnFiles
  <2>2. /\ order' \in Seq(Files) /\ Len(order') = n + 1 /\ order'[n + 1] = x
        /\ \A i \in 1..n : order'[i] = order[i]
    BY <1>1, <1>3
  <2> HIDE DEF n
  <2>3. 1..(n + 1) = (1..n) \cup {n + 1}
    BY <1>1
  <2>4. \A y : InRange(y, order') <=> y = x \/ InRange(y, order)
    BY <2>2, <2>3 DEF InRange, n
  <2>5. \A i \in 1..Len(order') : saved'[order'[i]] # "none" /\ ctl[order'[i]] # "absent"
    BY <1>1, <2>1, <2>2, <2>3
  <2>6. \A y \in Files : saved'[y] # "absent"
    BY <1>1, <2>1 DEF Present
  <2>7. ASSUME NEW y \in Files, InUse(y, before), y[1] \notin misread
        PROVE  /\ InRange(y, order') => saved'[y] = before[y]
               /\ \/ saved'[y] = "none" /\ ctl[y] = before[y] /\ y # x
                  \/ saved'[y] = before[y] /\ InRange(y, order')
    <3>1. CASE y = x
      <4>1. ctl[x] = before[x]
        <5>2. CASE InRange(x, order)
          BY <1>1, <1>3, <5>2 DEF InRange, n
        <5>3. CASE ~InRange(x, order)
          BY <1>2, <2>7, <3>1, <5>3
        <5> QED BY <1>3, <5>2, <5>3
      <4> QED BY <2>1, <2>4, <3>1, <4>1
    <3>2. CASE y # x
      BY <1>2, <2>1, <2>4, <2>7, <3>2
    <3> QED BY <3>1, <3>2
  <2> QED BY <2>1, <2>2, <2>5, <2>6, <2>7
<1>4. CASE ~(ready /\ saved[x] = "none") /\ UNCHANGED <<saved, order>>
  <2>1. \A y \in Files : InUse(y, before) /\ y[1] \notin misread /\ y = x => saved[y] # "none"
    BY <1>2, <1>4
  <2> QED BY <1>1, <1>2, <1>4, <2>1 DEF Present, CgroupInv
<1> QED BY <1>3, <1>4

LEMMA NextFileIs ==
    ASSUME CgroupInv, ipc = "write", NEW ok \in BOOLEAN, Cgroups!NextFile(ok)
    PROVE  \/ /\ ipc' = "group" /\ gi' = gi + 1 /\ fi' = fi
              /\ ok => fi = Len(Cgroups!FilesOf(Cgroups!Group))
           \/ ipc' = "write" /\ gi' = gi /\ fi' = fi + 1 /\ fi # Len(Cgroups!FilesOf(Cgroups!Group))
BY DEF Cgroups!NextFile

LEMMA WritesInv ==
    ASSUME CgroupInv, ipc = "write", NEW ok \in BOOLEAN, Cgroups!NextFile(ok),
           NEW x \in Files, x = Cgroups!File,
           UNCHANGED <<icfg, ready, result, rolled, misread, before>>,
           \/ ready /\ saved[x] = "none" /\ saved' = [saved EXCEPT ![x] = ctl[x]] /\ order' = Append(order, x)
           \/ ~(ready /\ saved[x] = "none") /\ UNCHANGED <<saved, order>>
           \/ ~ok /\ UNCHANGED <<saved, order>>,
           \/ ok /\ failed' = failed /\ ctl' = [ctl EXCEPT ![x] = Cgroups!resolve_limit_value(x[1], x[2])]
           \/ ~ok /\ failed' = TRUE /\ ctl' = ctl
    PROVE  CgroupInv'
<1> DEFINE g == Cgroups!Group
           L == Cgroups!FilesOf(g)
           f == L[fi]
<1>1. /\ g = Plan[icfg][gi] /\ g \in Groups /\ f \in FileNames(g) /\ x = <<g, f>>
      /\ x[1] = g /\ x[2] = f /\ ctl[x] # "absent"
      /\ Wanted(icfg, g, f) \notin {"none", "absent", "empty"}
      /\ Cgroups!resolve_limit_value(g, f) = Wanted(icfg, g, f)
      /\ fi \in 1..Len(L) /\ gi \in 1..Len(Plan[icfg])
  BY FileKnown
<1>2. /\ CgroupTypes /\ Present /\ OnFiles(ctl) /\ icfg \in Configs /\ Len(Plan[icfg]) \in Nat
      /\ Len(L) \in Nat
  BY <1>1, PlanKnown, ListKnown DEF CgroupInv, CgroupTypes
<1>3. \/ /\ ipc' = "group" /\ gi' = gi + 1 /\ fi' = fi /\ (ok => fi = Len(L))
      \/ ipc' = "write" /\ gi' = gi /\ fi' = fi + 1 /\ fi # Len(L)
  BY NextFileIs
<1>4. ipc' = "write" => Cgroups!Group' = g
  BY <1>3 DEF Cgroups!Group
<1>5. /\ OnFiles(ctl') /\ \A y \in Files : y # x => ctl'[y] = ctl[y]
      /\ ok => ctl'[x] = Wanted(icfg, g, f) /\ failed' = failed
      /\ ~ok => ctl' = ctl /\ failed' = TRUE
  BY <1>1, <1>2 DEF OnFiles
<1>6. /\ OnFiles(saved') /\ order' \in Seq(Files) /\ \A y \in Files : saved'[y] # "absent"
      /\ \A i \in 1..Len(order') : saved'[order'[i]] # "none" /\ ctl[order'[i]] # "absent"
      /\ \A y \in Files : InUse(y, before) /\ y[1] \notin misread =>
           /\ InRange(y, order') => saved'[y] = before[y]
           /\ \/ saved'[y] = "none" /\ ctl[y] = before[y] /\ (y # x \/ ~ok)
              \/ saved'[y] = before[y] /\ InRange(y, order')
  <2>1. CASE ~ok /\ UNCHANGED <<saved, order>>
    BY <1>2, <2>1 DEF CgroupInv, CgroupTypes, Present, Undo
  <2>2. CASE ~(~ok /\ UNCHANGED <<saved, order>>)
    BY <2>2, SnapshotKept
  <2> QED BY <2>1, <2>2
<1> HIDE DEF g, L, f
<1>7. CgroupTypes'
  <2>1. gi' \in Nat \ {0} /\ fi' \in Nat \ {0} /\ ipc' \in {"group", "write"} /\ gi' <= Len(Plan[icfg]) + 1
    BY <1>1, <1>2, <1>3
  <2>2. ipc' = "write" => gi' <= Len(Plan[icfg]) /\ fi' <= Len(L)
    BY <1>1, <1>2, <1>3
  <2>3. failed' \in BOOLEAN
    BY <1>2, <1>5 DEF CgroupTypes
  <2>4. ipc' = "write" => fi' <= Len(Cgroups!FilesOf(Cgroups!Group'))
    BY <1>4, <2>2 DEF L
  <2> QED BY <1>2, <1>5, <1>6, <2>1, <2>2, <2>3, <2>4 DEF CgroupTypes
<1>8. \A y \in Files : /\ ctl'[y] = "absent" <=> ctl[y] = "absent"
                       /\ ctl'[y] # "none"
  BY <1>1, <1>2, <1>5 DEF Present
<1>9. Present'
  <2>1. \A h \in Groups : \A e \in FileNames(h) : <<h, e>> \in Files
    BY FilesKnown
  <2>2. Together(ctl')
    BY <1>2, <1>8, <2>1 DEF Together, Present
  <2>3. \A i \in 1..Len(order') : ctl'[order'[i]] # "absent"
    <3>1. \A i \in 1..Len(order') : order'[i] \in Files
      BY <1>6
    <3> QED BY <1>6, <1>8, <3>1
  <2>4. ipc' = "write" => \A e \in FileNames(g) : ctl'[<<g, e>>] # "absent"
    BY <1>1, <1>2, <1>8, <2>1 DEF Present, g
  <2>5. Together(before')
    BY <1>2 DEF Present
  <2> QED BY <1>4, <1>6, <1>8, <2>2, <2>3, <2>4, <2>5 DEF Present
<1>10. Written'
  <2>1. ASSUME ~failed' PROVE ok /\ ~failed
    BY <1>5, <2>1
  <2>2. ASSUME NEW k \in 1..(gi - 1), NEW e \in FileNames(Plan[icfg][k]), ~failed'
        PROVE  ctl'[<<Plan[icfg][k], e>>] = Wanted(icfg, Plan[icfg][k], e)
    <3>1. k \in 1..Len(Plan[icfg]) /\ Plan[icfg][k] \in Groups
      BY <1>1, <1>2, <2>2, PlanKnown
    <3>2. ctl[<<Plan[icfg][k], e>>] = Wanted(icfg, Plan[icfg][k], e) /\ <<Plan[icfg][k], e>> \in Files
      BY <2>1, <2>2, <3>1, FilesKnown DEF CgroupInv, Written, HeldUpTo
    <3>3. <<Plan[icfg][k], e>> = x => Plan[icfg][k] = g /\ e = f
      BY <1>1
    <3> QED BY <1>5, <2>1, <2>2, <3>2, <3>3
  <2>3. ASSUME NEW j \in 1..fi, ~failed' PROVE ctl'[<<g, L[j]>>] = Wanted(icfg, g, L[j])
    <3>1. CASE j = fi
      BY <1>1, <1>5, <2>1, <2>3, <3>1 DEF f
    <3>2. CASE j # fi
      <4>1. j \in 1..(fi - 1) /\ j \in 1..Len(L)
        BY <1>1, <1>2, <2>3, <3>2
      <4>2. ctl[<<g, L[j]>>] = Wanted(icfg, g, L[j])
        BY <2>1, <2>3, <4>1 DEF CgroupInv, Written, g, L
      <4>3. L[j] \in FileNames(g) /\ <<g, L[j]>> \in Files
        BY <1>1, <4>1, FilesKnown DEF L
      <4>4. <<g, L[j]>> = x => L[j] = f
        BY <1>1
      <4> QED BY <1>1, <1>5, <2>1, <2>3, <4>2, <4>3, <4>4
    <3> QED BY <3>1, <3>2
  <2>4. CASE ipc' = "group"
    <3>1. ASSUME ~failed' PROVE HeldUpTo(icfg, gi - 1)'
      <4>1. gi' - 1 = gi /\ fi = Len(L)
        BY <1>1, <1>3, <2>1, <2>4, <3>1
      <4>2. ASSUME NEW e \in FileNames(g) PROVE ctl'[<<g, e>>] = Wanted(icfg, g, e)
        <5>1. PICK j \in 1..Len(L) : L[j] = e
          BY <1>1, <4>2, FilesKnown DEF L
        <5> QED BY <2>3, <3>1, <4>1, <5>1
      <4>3. 1..gi = (1..(gi - 1)) \cup {gi}
        BY <1>1
      <4>4. \A k \in 1..gi : \A e \in FileNames(Plan[icfg][k]) :
              ctl'[<<Plan[icfg][k], e>>] = Wanted(icfg, Plan[icfg][k], e)
        BY <1>1, <2>2, <3>1, <4>2, <4>3
      <4> QED BY <4>1, <4>4 DEF HeldUpTo
    <3> QED BY <2>4, <3>1 DEF Written
  <2>5. CASE ipc' = "write"
    <3>1. gi' = gi /\ fi' - 1 = fi
      BY <1>1, <1>3, <2>5
    <3>2. ~failed' => HeldUpTo(icfg, gi - 1)'
      BY <2>2, <3>1 DEF HeldUpTo
    <3>3. ~failed' => \A j \in 1..(fi' - 1) : ctl'[<<g, L[j]>>] = Wanted(icfg, g, L[j])
      BY <2>3, <3>1
    <3>4. Cgroups!Group' = g /\ Cgroups!FilesOf(g) = L
      BY <1>4, <2>5 DEF L
    <3> QED BY <2>5, <3>2, <3>3, <3>4 DEF Written
  <2> QED BY <1>3, <2>4, <2>5
<1>11. ASSUME NEW y \in Files PROVE Undo(y)'
  <2>1. SUFFICES ASSUME InUse(y, before), y[1] \notin misread PROVE Undo(y)'
    BY DEF Undo
  <2>2. Undo(y)
    BY DEF CgroupInv
  <2>3. ctl'[y] # "absent" /\ (y[2] \in {"cpus", "mems"} => ctl'[y] # "empty")
    BY <1>1, <1>5, <2>1, <2>2 DEF Undo
  <2>4. \/ saved'[y] = "none" /\ ctl'[y] = before[y]
        \/ saved'[y] = before[y] /\ InRange(y, order')
    BY <1>5, <1>6, <2>1
  <2>5. ipc' = "write" /\ y[1] = Cgroups!Group' => ready'
    BY <1>4, <2>1, <2>2 DEF Undo, g
  <2> QED BY <1>3, <1>6, <2>1, <2>3, <2>4, <2>5 DEF Undo
<1>12. ASSUME NEW y \in Files PROVE OldOrNew(y)'
  <2>1. OldOrNew(y) /\ OnFiles(saved)
    BY DEF CgroupInv, CgroupTypes
  <2>2. saved'[y] = saved[y] \/ (y = x /\ saved'[y] = ctl[y])
    BY <2>1 DEF OnFiles
  <2>3. ctl'[y] = ctl[y] \/ ctl'[y] = Wanted(icfg, y[1], y[2])
    BY <1>1, <1>5
  <2> QED BY <2>1, <2>2, <2>3 DEF OldOrNew
<1> QED BY <1>7, <1>9, <1>10, <1>11, <1>12 DEF CgroupInv

LEMMA WritesFileInv ==
    ASSUME CgroupInv, Cgroups!WritesFile PROVE CgroupInv' /\ icfg' = icfg /\ ipc' # "idle"
<1> DEFINE x == Cgroups!File
           shot == ready /\ saved[x] = "none"
           taken == \/ ready /\ saved[x] = "none" /\ saved' = [saved EXCEPT ![x] = ctl[x]]
                       /\ order' = Append(order, x)
                    \/ ~(ready /\ saved[x] = "none") /\ UNCHANGED <<saved, order>>
<1>1. ipc = "write" /\ UNCHANGED <<icfg, ready, result, rolled, misread, before>> /\ x \in Files
  BY FileKnown DEF Cgroups!WritesFile
<1>2. \/ /\ taken
         /\ \/ /\ ctl' = [ctl EXCEPT ![x] = Cgroups!resolve_limit_value(x[1], x[2])]
               /\ Cgroups!NextFile(TRUE) /\ failed' = failed
            \/ failed' = TRUE /\ Cgroups!NextFile(FALSE) /\ ctl' = ctl
      \/ failed' = TRUE /\ Cgroups!NextFile(FALSE) /\ ctl' = ctl /\ UNCHANGED <<saved, order>>
  BY DEF Cgroups!WritesFile, Cgroups!Snapshot, Cgroups!tx
<1>3. ipc' # "idle"
  <2>1. \A ok \in BOOLEAN : Cgroups!NextFile(ok) => ipc' # "idle"
    BY <1>1, NextFileIs
  <2> QED BY <1>2, <2>1
<1> HIDE DEF x
<1>4. CASE /\ taken /\ failed' = failed /\ Cgroups!NextFile(TRUE)
           /\ ctl' = [ctl EXCEPT ![x] = Cgroups!resolve_limit_value(x[1], x[2])]
  BY <1>1, <1>3, <1>4, WritesInv DEF x
<1>5. CASE /\ failed' = TRUE /\ Cgroups!NextFile(FALSE) /\ ctl' = ctl
           /\ taken \/ UNCHANGED <<saved, order>>
  BY <1>1, <1>3, <1>5, WritesInv DEF x
<1> QED BY <1>2, <1>4, <1>5

LEMMA CgroupNext ==
    ASSUME CgroupInv, Cgroups!Next
    PROVE  CgroupInv' /\ icfg' = icfg /\ ipc # "idle" /\ (ipc' = "idle" => Concluded' /\ result' # "none")
<1>1. CASE Cgroups!GroupBegins
  BY <1>1, GroupBeginsInv DEF Cgroups!GroupBegins
<1>2. CASE Cgroups!WritesFile
  BY <1>2, WritesFileInv DEF Cgroups!WritesFile
<1>3. CASE Cgroups!Commits
  BY <1>3, CommitsInv DEF Cgroups!Commits
<1>4. CASE Cgroups!RollbackBegins
  BY <1>4, RollbackBeginsInv DEF Cgroups!RollbackBegins
<1>5. CASE Cgroups!RollsBack
  BY <1>5, RollsBackInv DEF Cgroups!RollsBack
<1>6. CASE Cgroups!RollbackEnds
  BY <1>6, RollbackEndsInv DEF Cgroups!RollbackEnds
<1> QED BY <1>1, <1>2, <1>3, <1>4, <1>5, <1>6 DEF Cgroups!Next

LEMMA CgroupSame ==
    ASSUME CgroupInv, UNCHANGED cgroups
    PROVE  /\ CgroupInv' /\ ipc' = ipc /\ result' = result /\ icfg' = icfg
           /\ \A c : InPlace(c)' <=> InPlace(c)
<1>1. UNCHANGED <<ctl, ipc, icfg, gi, fi, ready, failed, saved, order, result, rolled, misread, before>>
  BY DEF cgroups
<1>2. CgroupTypes' /\ Present' /\ Written'
  <2>1. Cgroups!Group' = Cgroups!Group
    BY <1>1 DEF Cgroups!Group
  <2> QED BY <1>1, <2>1 DEF CgroupInv, CgroupTypes, Present, Written, HeldUpTo
<1>3. ASSUME NEW x \in Files PROVE Undo(x)' /\ OldOrNew(x)'
  BY <1>1 DEF CgroupInv, Undo, OldOrNew, Cgroups!Group
<1> QED BY <1>1, <1>2, <1>3 DEF CgroupInv, InPlace, HeldUpTo

----------------------------------------------------------------------------
(* The launcher's child.                                                   *)

LEMMA ReturnsTo ==
    ASSUME NEW out, Finder!Returns(out) PROVE lpc' \in {"spawn", "choose"}
BY DEF Finder!Returns

LEMMA ChildNext ==
    ASSUME ChildKept, Finder!Next PROVE ChildKept'
<1>1. CASE Finder!Spawn
  BY <1>1, ReturnsTo DEF Finder!Spawn, ChildKept
<1>2. CASE Finder!PollEnds
  BY <1>2 DEF Finder!PollEnds, ChildKept
<1>3. CASE Finder!Reaps
  BY <1>3, ReturnsTo DEF Finder!Reaps, ChildKept
<1>4. CASE Finder!Terminates
  BY <1>4 DEF Finder!Terminates, Finder!Signalled, ChildKept
<1>5. CASE Finder!GracePoll
  BY <1>5, ReturnsTo DEF Finder!GracePoll, ChildKept
<1>6. CASE Finder!Kills
  BY <1>6 DEF Finder!Kills, Finder!Signalled, ChildKept
<1>7. CASE Finder!Waits
  BY <1>7, ReturnsTo DEF Finder!Waits, ChildKept
<1>8. CASE Finder!Chooses
  BY <1>8 DEF Finder!Chooses, ChildKept
<1>9. CASE Finder!ChildMoves
  BY <1>9 DEF Finder!ChildMoves, ChildKept
<1> QED BY <1>1, <1>2, <1>3, <1>4, <1>5, <1>6, <1>7, <1>8, <1>9 DEF Finder!Next, Finder!Finder

----------------------------------------------------------------------------
(* The steps of main().                                                    *)

LEMMA InitIInv == Init => IInv
<1> SUFFICES ASSUME Init PROVE IInv
  OBVIOUS
<1>1. /\ ctl = [x \in Files |-> "absent"] /\ ipc = "idle" /\ icfg \in Configs /\ gi = 1 /\ fi = 1
      /\ ready = FALSE /\ failed = FALSE /\ saved = [x \in Files |-> "none"] /\ order = <<>>
      /\ result = "none" /\ rolled = TRUE /\ misread = {} /\ before = ctl
  BY DEF Init, Cgroups!Init, Files
<1>2. order \in Seq(Files) /\ 1..Len(order) = {} /\ 1 \in Nat \ {0}
  BY <1>1
<1>3. OnFiles(ctl) /\ OnFiles(saved) /\ OnFiles(before)
  BY <1>1 DEF OnFiles
<1>4. CgroupTypes /\ Written
  BY <1>1, <1>2, <1>3 DEF CgroupTypes, Written
<1>5. \A g \in Groups : \A f \in FileNames(g) : <<g, f>> \in Files
  BY FilesKnown
<1>6. Together(ctl)
  BY <1>1, <1>5 DEF Together
<1>7. Present
  BY <1>1, <1>2, <1>6 DEF Present
<1>8. ASSUME NEW x \in Files PROVE Undo(x) /\ OldOrNew(x)
  <2>1. ~InUse(x, before)
    <3>1. InUse(x, before) => before[x] # "absent"
      BY <1>7, UseKnown DEF Present
    <3> QED BY <1>1, <3>1
  <2> QED BY <2>1 DEF Undo, OldOrNew
<1>9. Stage
  BY <1>1 DEF Init, Stage
<1>10. ChildKept
  BY DEF Init, Finder!Init, ChildKept
<1> QED BY <1>4, <1>7, <1>8, <1>9, <1>10 DEF IInv, CgroupInv

\* The steps that leave the control files and the child alone.
LEMMA QuietStep ==
    ASSUME IInv, UNCHANGED cgroups, UNCHANGED finder, Stage' PROVE IInv'
BY CgroupSame DEF IInv, finder, ChildKept

LEMMA OutsideSteps ==
    ASSUME IInv, (\E c \in Contents : UserWrites(c)) \/ WatchBreaks \/ TimerExpires
    PROVE  IInv'
<1>1. UNCHANGED <<pc, booting, cfg, new, workers>> /\ UNCHANGED cgroups /\ UNCHANGED finder
  BY DEF UserWrites, WatchBreaks, TimerExpires, force
<1>2. Stage'
  BY <1>1, CgroupSame DEF IInv, Stage
<1> QED BY <1>1, <1>2, QuietStep

LEMMA DetectSteps ==
    ASSUME IInv, ChecksWatch \/ ReadsMtime \/ ReadsHash \/ Decides
    PROVE  IInv'
<1>1. /\ UNCHANGED <<booting, cfg, new, workers>> /\ UNCHANGED cgroups /\ UNCHANGED finder
      /\ pc \in {"idle", "stat", "hash", "decide"} /\ pc' \in {"idle", "stat", "hash", "decide", "parse"}
  BY DEF ChecksWatch, ReadsMtime, ReadsHash, Decides, IterationEnds, force
<1>2. Stage'
  BY <1>1, CgroupSame DEF IInv, Stage
<1> QED BY <1>1, <1>2, QuietStep

LEMMA ParsesStep ==
    ASSUME IInv, Parses PROVE IInv'
<1>1. pc = "parse" /\ UNCHANGED <<booting, workers>> /\ UNCHANGED cgroups
  BY DEF Parses
<1>2. CASE /\ content \in Configs /\ new' = content /\ cfg' = IF booting THEN content ELSE cfg
           /\ pc' = "launcher" /\ Finder!Begin
  <2>1. CgroupInv' /\ ipc' = ipc /\ result' = result /\ \A c : InPlace(c)' <=> InPlace(c)
    BY <1>1, CgroupSame DEF IInv
  <2>2. Stage'
    <3>1. CASE booting
      BY <1>1, <1>2, <2>1, <3>1 DEF IInv, Stage
    <3>2. CASE ~booting
      <4>1. cfg' = cfg /\ workers' = workers /\ workers = cfg /\ InPlace(cfg)
        BY <1>1, <1>2, <3>2 DEF IInv, Stage
      <4>2. InPlace(cfg)'
        BY <2>1, <4>1
      <4> QED BY <1>1, <1>2, <2>1, <3>2, <4>1, <4>2 DEF IInv, Stage
    <3> QED BY <3>1, <3>2
  <2>3. ChildKept'
    BY <1>2 DEF Finder!Begin, ChildKept
  <2> QED BY <2>1, <2>2, <2>3 DEF IInv
<1>3. CASE /\ pc' = IF booting \/ content = "off" THEN "exit" ELSE "fail"
           /\ UNCHANGED <<new, cfg>> /\ UNCHANGED finder
  <2>1. Stage'
    BY <1>1, <1>3, CgroupSame DEF IInv, Stage
  <2> QED BY <1>1, <1>3, <2>1, QuietStep
<1> QED BY <1>2, <1>3 DEF Parses

LEMMA LauncherStep ==
    ASSUME IInv, FindsLauncher PROVE IInv'
<1>1. pc = "launcher" /\ UNCHANGED <<booting, cfg, new, workers>> /\ UNCHANGED cgroups
  BY DEF FindsLauncher, force
<1>2. CgroupInv' /\ ipc' = ipc /\ result' = result /\ \A c : InPlace(c)' <=> InPlace(c)
  BY <1>1, CgroupSame DEF IInv
<1>3. pc' \in {"launcher", "exit"} \/ (booting /\ pc' = "init") \/ (~booting /\ pc' \in {"stop", "fail"})
  BY <1>1 DEF FindsLauncher
<1>4. Stage'
  BY <1>1, <1>2, <1>3 DEF IInv, Stage
<1>5. ChildKept'
  <2>1. CASE Finder!Next
    BY <2>1, ChildNext DEF IInv
  <2>2. CASE lpc = "idle" /\ Finder!Left
    BY <2>2 DEF IInv, ChildKept, Finder!Left
  <2> QED BY <2>1, <2>2 DEF FindsLauncher
<1> QED BY <1>2, <1>4, <1>5 DEF IInv

LEMMA WorkerSteps ==
    ASSUME IInv, StopsOldWorkers \/ Restores \/ StartsWorkers \/ RestartsOldWorkers
    PROVE  IInv'
<1>1. UNCHANGED <<booting, cfg, new>> /\ UNCHANGED cgroups /\ UNCHANGED finder
  BY DEF StopsOldWorkers, Restores, StartsWorkers, RestartsOldWorkers, force
<1>2. ipc' = ipc /\ result' = result /\ icfg' = icfg /\ \A c : InPlace(c)' <=> InPlace(c)
  BY <1>1, CgroupSame DEF IInv
<1>3. InPlace(cfg)' <=> InPlace(cfg)
  <2>1. InPlace(cfg)' <=> HeldUpTo(cfg, Len(Plan[cfg]))'
    BY DEF InPlace
  <2> QED BY <1>1, CgroupSame DEF IInv, InPlace, HeldUpTo, cgroups
<1>4. InPlace(new)' <=> InPlace(new)
  BY <1>1, CgroupSame DEF IInv, InPlace, HeldUpTo, cgroups
<1>5. CASE StopsOldWorkers
  BY <1>1, <1>2, <1>3, <1>5, QuietStep DEF IInv, Stage, StopsOldWorkers
<1>6. CASE Restores
  BY <1>1, <1>2, <1>3, <1>6, QuietStep DEF IInv, Stage, Restores
<1>7. CASE StartsWorkers
  BY <1>1, <1>2, <1>4, <1>7, QuietStep DEF IInv, Stage, StartsWorkers
<1>8. CASE RestartsOldWorkers
  BY <1>1, <1>2, <1>3, <1>8, QuietStep DEF IInv, Stage, RestartsOldWorkers
<1> QED BY <1>5, <1>6, <1>7, <1>8

LEMMA InitsStep ==
    ASSUME IInv, InitsCgroups
    PROVE  IInv' /\ (ipc # "idle" /\ ipc' = "idle" => Concluded')
<1>1. /\ pc \in {"init", "undo_init"} /\ UNCHANGED <<booting, cfg, new, workers>> /\ UNCHANGED finder
      /\ cfg \in Configs /\ new \in Configs /\ CgroupInv /\ icfg \in Configs
  BY DEF InitsCgroups, force, IInv, Stage, CgroupInv, CgroupTypes
<1>2. ChildKept'
  BY <1>1 DEF IInv, finder, ChildKept
<1>3. CASE ipc = "idle" /\ UNCHANGED pc /\ Cgroups!Begin(IF pc = "init" THEN new ELSE cfg)
  <2>1. CgroupInv' /\ icfg' = IF pc = "init" THEN new ELSE cfg
    BY <1>1, <1>3, BeginsInv
  <2>2. Stage'
    BY <1>1, <1>3, <2>1 DEF IInv, Stage
  <2> QED BY <1>2, <1>3, <2>1, <2>2 DEF IInv
<1>4. CASE Cgroups!Next /\ UNCHANGED pc
  <2>1. CgroupInv' /\ icfg' = icfg /\ ipc # "idle" /\ (ipc' = "idle" => Concluded')
    BY <1>1, <1>4, CgroupNext
  <2>2. Stage'
    BY <1>1, <1>4, <2>1 DEF IInv, Stage
  <2> QED BY <1>2, <2>1, <2>2 DEF IInv
<1>5. CASE /\ result # "none"
           /\ pc' = IF result = "ok" THEN (IF pc = "init" THEN "start" ELSE "undo_start")
                    ELSE IF booting \/ pc = "undo_init" THEN "exit" ELSE "undo_init"
           /\ Cgroups!Left
  <2>1. CgroupInv' /\ icfg' = icfg /\ ctl' = ctl /\ result' = "none" /\ ipc = "idle" /\ ipc' = "idle"
    BY <1>1, <1>5, BeginsInv DEF Cgroups!Left
  <2>2. /\ result = "ok" => InPlace(icfg)
        /\ result \in {"none", "ok", "failed"}
    BY <1>1, <2>1 DEF CgroupInv, CgroupTypes, Written, InPlace
  <2>3. /\ pc = "init" => icfg = new
        /\ pc = "undo_init" => icfg = cfg /\ ~booting
    BY <1>5 DEF IInv, Stage
  <2>4. \/ pc = "init" /\ pc' = "start" /\ InPlace(new)
        \/ pc = "undo_init" /\ pc' = "undo_start" /\ InPlace(cfg)
        \/ pc' = "exit"
        \/ pc = "init" /\ pc' = "undo_init" /\ ~booting
    BY <1>1, <1>5, <2>2, <2>3
  <2>5. (InPlace(new)' <=> InPlace(new)) /\ (InPlace(cfg)' <=> InPlace(cfg))
    BY <1>1, <2>1 DEF InPlace, HeldUpTo
  <2>6. Stage'
    BY <1>1, <2>1, <2>3, <2>4, <2>5 DEF IInv, Stage
  <2> QED BY <1>2, <2>1, <2>6 DEF IInv
<1> QED BY <1>3, <1>4, <1>5 DEF InitsCgroups

LEMMA MemorySteps ==
    ASSUME IInv, Commits \/ Fails \/ BootWatches \/ BootReadsMtime \/ BootReadsHash
    PROVE  IInv'
<1>1. UNCHANGED workers /\ UNCHANGED cgroups /\ UNCHANGED finder
  BY DEF Commits, Fails, BootWatches, BootReadsMtime, BootReadsHash, force
<1>2. ipc' = ipc /\ result' = result /\ icfg' = icfg /\ ctl' = ctl
  BY <1>1, CgroupSame DEF IInv, cgroups
<1>3. CASE Commits
  <2>1. pc = "commit" /\ ~booting /\ booting' = booting /\ pc' = "idle" /\ cfg' = new /\ new' = new
    BY <1>3 DEF Commits, IterationEnds
  <2>2. InPlace(cfg)' <=> InPlace(new)
    BY <1>2, <2>1 DEF InPlace, HeldUpTo
  <2>3. Stage'
    BY <1>1, <1>2, <2>1, <2>2 DEF IInv, Stage
  <2> QED BY <1>1, <2>3, QuietStep
<1>4. CASE Fails
  <2>1. pc = "fail" /\ booting' = booting /\ pc' = "idle" /\ cfg' = cfg /\ new' = cfg
    BY <1>4 DEF Fails, IterationEnds
  <2>2. InPlace(cfg)' <=> InPlace(cfg)
    BY <1>2, <2>1 DEF InPlace, HeldUpTo
  <2>3. Stage'
    BY <1>1, <1>2, <2>1, <2>2 DEF IInv, Stage
  <2> QED BY <1>1, <2>3, QuietStep
<1>5. CASE BootWatches \/ BootReadsMtime \/ BootReadsHash
  <2>1. /\ cfg' = cfg /\ new' = new
        /\ \/ pc = "commit" /\ booting /\ booting' = booting /\ pc' = "boot_mtime"
           \/ pc = "boot_mtime" /\ booting' = booting /\ pc' = "boot_hash"
           \/ pc = "boot_hash" /\ booting' = FALSE /\ pc' = "idle"
    BY <1>5 DEF BootWatches, BootReadsMtime, BootReadsHash, force
  <2>2. InPlace(cfg)' <=> InPlace(cfg)
    BY <1>2, <2>1 DEF InPlace, HeldUpTo
  <2>3. Stage'
    BY <1>1, <1>2, <2>1, <2>2 DEF IInv, Stage
  <2> QED BY <1>1, <2>3, QuietStep
<1> QED BY <1>3, <1>4, <1>5

LEMMA NextIInv ==
    ASSUME IInv, [Next]_vars
    PROVE  IInv' /\ (ipc # "idle" /\ ipc' = "idle" => Concluded')
<1>1. CASE InitsCgroups
  BY <1>1, InitsStep
<1>2. ASSUME UNCHANGED cgroups PROVE ~(ipc # "idle" /\ ipc' = "idle")
  BY <1>2 DEF cgroups
<1>3. CASE (\E c \in Contents : UserWrites(c)) \/ WatchBreaks \/ TimerExpires
  BY <1>2, <1>3, OutsideSteps DEF UserWrites, WatchBreaks, TimerExpires
<1>4. CASE ChecksWatch \/ ReadsMtime \/ ReadsHash \/ Decides
  BY <1>2, <1>4, DetectSteps DEF ChecksWatch, ReadsMtime, ReadsHash, Decides
<1>5. CASE Parses
  BY <1>2, <1>5, ParsesStep DEF Parses
<1>6. CASE FindsLauncher
  BY <1>2, <1>6, LauncherStep DEF FindsLauncher
<1>7. CASE StopsOldWorkers \/ Restores \/ StartsWorkers \/ RestartsOldWorkers
  BY <1>2, <1>7, WorkerSteps DEF StopsOldWorkers, Restores, StartsWorkers, RestartsOldWorkers
<1>8. CASE Commits \/ Fails \/ BootWatches \/ BootReadsMtime \/ BootReadsHash
  BY <1>2, <1>8, MemorySteps DEF Commits, Fails, BootWatches, BootReadsMtime, BootReadsHash
<1>9. CASE UNCHANGED vars
  <2>1. UNCHANGED <<pc, booting, cfg, new, workers>> /\ UNCHANGED cgroups /\ UNCHANGED finder
    BY <1>9 DEF vars, force
  <2>2. Stage'
    BY <2>1, CgroupSame DEF IInv, Stage
  <2> QED BY <1>2, <2>1, <2>2, QuietStep
<1> QED BY <1>1, <1>3, <1>4, <1>5, <1>6, <1>7, <1>8, <1>9 DEF Next, Main

----------------------------------------------------------------------------
(* The theorems.                                                           *)

\* The three layers hold in every reachable state: the files init() has passed
\* hold their values, those in use before can be put back when their group was
\* found to be in use, and have no third value when it was not; each stage of a
\* reload has the control files and the workers it counts on; the launcher
\* query has a child exactly while it waits for one (src/main.cpp,
\* src/core/cgroup_init.hpp, src/core/launcher_finder.hpp).
THEOREM ReloadInvariant == Spec => []IInv
<1>1. IInv /\ [Next]_vars => IInv'
  BY NextIInv
<1> QED BY <1>1, InitIInv, PTL DEF Spec

\* Between two iterations the workers run the configuration in force and its
\* groups hold the values it asks for, however many reloads failed and
\* wherever (the reload block of main()).
THEOREM NoMixture == Spec => []InForce
<1>1. IInv => InForce
  <2> SUFFICES ASSUME IInv, pc = "idle" PROVE workers = cfg /\ Cgroups!Applied(cfg)
    BY DEF InForce
  <2>1. cfg \in Configs /\ workers = cfg /\ InPlace(cfg)
    BY DEF IInv, Stage
  <2> QED BY <2>1, AppliedIs
<1> QED BY <1>1, ReloadInvariant, PTL

\* CgroupInitializer::init is all or nothing: when it returns true every file
\* of its configuration holds its value; when it returns false and no
\* rollback write failed, every group in use before is as it was, except one
\* whose readiness could not be read, in which each file has its old value or
\* the one asked for.
THEOREM InitIsAtomic == Spec => InitAtomic
<1>1. IInv /\ [Next]_vars =>
        [ipc # "idle" /\ ipc' = "idle" =>
          IF result' = "ok" THEN Cgroups!Applied(icfg)'
          ELSE rolled' => (Cgroups!Preserved)']_vars
  <2> SUFFICES ASSUME IInv, [Next]_vars, ipc # "idle", ipc' = "idle"
               PROVE  IF result' = "ok" THEN Cgroups!Applied(icfg)'
                      ELSE rolled' => (Cgroups!Preserved)'
    OBVIOUS
  <2>1. IInv' /\ Concluded'
    BY NextIInv
  <2>2. icfg' \in Configs
    BY <2>1 DEF IInv, CgroupInv, CgroupTypes
  <2>3. CASE result' = "ok"
    <3>1. HeldUpTo(icfg, Len(Plan[icfg]))'
      BY <2>1, <2>3 DEF Concluded
    <3>2. Cgroups!Applied(icfg)'
      BY <2>2, <3>1, PlanKnown DEF Cgroups!Applied, HeldUpTo, Wanted
    <3> QED BY <2>3, <3>2
  <2>4. CASE result' # "ok"
    <3>1. SUFFICES ASSUME rolled' PROVE (Cgroups!Preserved)'
      BY <2>4
    <3>2. \A x \in Files : InUse(x, before') =>
            ctl'[x] = before'[x] \/ (x[1] \in misread' /\ ctl'[x] = Wanted(icfg', x[1], x[2]))
      BY <2>1, <2>4, <3>1 DEF Concluded
    <3> QED BY <3>2 DEF InUse, Wanted, Cgroups!Preserved, Cgroups!WasInUse,
                        Cgroups!resolve_limit_value, Files
  <2> QED BY <2>3, <2>4
<1> QED BY <1>1, ReloadInvariant, PTL DEF Spec, InitAtomic

\* execute_command leaves no child behind unless a waitpid failed, and
\* terminate_child signals no process group whose leader was reaped.
THEOREM ChildrenAreReaped == Spec => []ChildHandled
<1>1. IInv => ChildHandled
  BY DEF IInv, ChildKept, ChildHandled
<1> QED BY <1>1, ReloadInvariant, PTL

----------------------------------------------------------------------------
(* Types, and the retry delay's bounds.                                    *)

Plain ==
    /\ content \in Contents \cup Configs /\ writes \in 0..MaxWrites /\ mtime \in 1..(writes + 1)
    /\ event \in BOOLEAN /\ watching \in BOOLEAN /\ (event => watching)
    /\ delay \in InitialDelay..MaxDelay /\ workers \in Configs \cup {"none"}
    /\ polls \in 0..kTermPolls

LEMMA Bounds ==
    /\ InitialDelay \in Nat /\ MaxDelay \in Nat /\ InitialDelay >= 1 /\ InitialDelay <= MaxDelay
    /\ MaxWrites \in Nat /\ kTermPolls \in Nat
BY ReloadAssumption

\* The steps that leave the file, the watch, the delay and the polls alone.
LEMMA PlainKept ==
    ASSUME Plain, UNCHANGED <<content, writes, mtime, event, watching, delay, polls>>,
           workers' \in Configs \cup {"none"}
    PROVE  Plain'
BY DEF Plain

LEMMA PollsBounded ==
    ASSUME Plain, Finder!Next PROVE polls' \in 0..kTermPolls
<1>1. polls \in 0..kTermPolls /\ kTermPolls \in Nat /\ 0 \in 0..kTermPolls
  BY Bounds DEF Plain
<1>2. CASE UNCHANGED polls \/ polls' = 0
  BY <1>1, <1>2
<1>3. CASE polls < kTermPolls /\ polls' = polls + 1
  BY <1>1, <1>3
<1>4. CASE Finder!GracePoll
  BY <1>2, <1>3, <1>4 DEF Finder!GracePoll
<1>5. CASE Finder!ChildMoves
  BY <1>2, <1>5 DEF Finder!ChildMoves
<1>6. CASE Finder!Spawn \/ Finder!PollEnds \/ Finder!Reaps \/ Finder!Terminates
  BY <1>2, <1>6 DEF Finder!Spawn, Finder!PollEnds, Finder!Reaps, Finder!Terminates
<1>7. CASE Finder!Kills \/ Finder!Waits \/ Finder!Chooses
  BY <1>2, <1>7 DEF Finder!Kills, Finder!Waits, Finder!Chooses
<1> QED BY <1>4, <1>5, <1>6, <1>7 DEF Finder!Next, Finder!Finder

LEMMA PlainStep ==
    ASSUME Plain, IInv, Next PROVE Plain'
<1>1. cfg \in Configs /\ new \in Configs /\ workers \in Configs \cup {"none"}
  BY DEF IInv, Stage, Plain
<1>2. CASE \E c \in Contents : UserWrites(c)
  <2>1. PICK c \in Contents : UserWrites(c)
    BY <1>2
  <2>2. /\ writes < MaxWrites /\ writes' = writes + 1 /\ content' = c /\ event' = watching
        /\ mtime' = mtime \/ mtime' = mtime + 1
        /\ UNCHANGED <<watching, workers, delay, polls>>
    BY <2>1 DEF UserWrites, memory, force, finder
  <2>3. writes' \in 0..MaxWrites /\ mtime' \in 1..(writes' + 1)
    BY <2>2, Bounds DEF Plain
  <2> QED BY <2>2, <2>3 DEF Plain
<1>3. CASE WatchBreaks
  BY <1>3 DEF Plain, WatchBreaks, file, memory, force, finder
<1>4. CASE TimerExpires
  BY <1>1, <1>4, PlainKept DEF TimerExpires, file, inotify, force, finder
<1>5. CASE ChecksWatch
  BY <1>5 DEF Plain, ChecksWatch, file, memory, force, finder
<1>6. CASE ReadsMtime \/ ReadsHash \/ Decides
  BY <1>1, <1>6, PlainKept DEF ReadsMtime, ReadsHash, Decides, file, inotify, memory, force, finder
<1>7. CASE Parses
  <2>1. UNCHANGED <<content, writes, mtime, event, watching, delay, workers>>
    BY <1>7 DEF Parses, file, inotify, memory
  <2>2. polls' \in 0..kTermPolls
    <3>1. polls' = 0 \/ polls' = polls
      BY <1>7 DEF Parses, Finder!Begin, finder
    <3> QED BY <3>1, Bounds DEF Plain
  <2> QED BY <2>1, <2>2 DEF Plain
<1>8. CASE FindsLauncher
  <2>1. UNCHANGED <<content, writes, mtime, event, watching, delay, workers>>
    BY <1>8 DEF FindsLauncher, file, inotify, memory, force
  <2>2. polls' \in 0..kTermPolls
    <3>1. CASE Finder!Next
      BY <3>1, PollsBounded
    <3>2. CASE Finder!Left
      BY <3>2 DEF Finder!Left, Plain
    <3> QED BY <1>8, <3>1, <3>2 DEF FindsLauncher
  <2> QED BY <2>1, <2>2 DEF Plain
<1>9. CASE StopsOldWorkers \/ Restores \/ InitsCgroups \/ StartsWorkers \/ RestartsOldWorkers
  <2>1. UNCHANGED <<content, writes, mtime, event, watching, delay, polls>>
    BY <1>9 DEF StopsOldWorkers, Restores, InitsCgroups, StartsWorkers, RestartsOldWorkers,
                file, inotify, memory, finder
  <2>2. workers' \in {"none", new, cfg, workers}
    BY <1>9 DEF StopsOldWorkers, Restores, InitsCgroups, StartsWorkers, RestartsOldWorkers, force
  <2> QED BY <1>1, <2>1, <2>2, PlainKept
<1>10. CASE Commits
  <2>1. UNCHANGED <<content, writes, mtime, event, watching, workers, polls>> /\ delay' = InitialDelay
    BY <1>10 DEF Commits, file, inotify, finder
  <2>2. delay' \in InitialDelay..MaxDelay
    BY <2>1, Bounds
  <2> QED BY <2>1, <2>2 DEF Plain
<1>11. CASE Fails
  <2>1. UNCHANGED <<content, writes, mtime, event, watching, workers, polls>>
    BY <1>11 DEF Fails, file, inotify, finder
  <2>2. NextDelay \in InitialDelay..MaxDelay
    BY Bounds DEF NextDelay, Smaller, Plain
  <2>3. delay' = NextDelay \/ delay' = delay
    BY <1>11 DEF Fails
  <2> QED BY <2>1, <2>2, <2>3 DEF Plain
<1>12. CASE BootWatches
  <2>1. /\ UNCHANGED <<content, writes, mtime, event, workers, delay, polls>>
        /\ watching' = TRUE \/ watching' = watching
    BY <1>12 DEF BootWatches, file, memory, force, finder
  <2>2. watching' \in BOOLEAN /\ event' \in BOOLEAN /\ (event' => watching')
    BY <2>1, Zenon DEF Plain
  <2> QED BY <2>1, <2>2 DEF Plain
<1>13. CASE BootReadsMtime \/ BootReadsHash
  BY <1>1, <1>13, PlainKept DEF BootReadsMtime, BootReadsHash, file, inotify, force, finder
<1> QED BY <1>2, <1>3, <1>4, <1>5, <1>6, <1>7, <1>8, <1>9, <1>10, <1>11, <1>12, <1>13
        DEF Next, Main

\* Every variable keeps its type: in particular no change is queued without a
\* watch, and the retry delay stays between its limits however often it was
\* doubled (ConfigFileWatcher, and the retry block of main()).
THEOREM ReloadTypesHold == Spec => []TypeOK
<1>1. Init => Plain
  <2>1. 1 \in 1..(0 + 1) /\ 0 \in 0..MaxWrites /\ 0 \in 0..kTermPolls
        /\ InitialDelay \in InitialDelay..MaxDelay
    BY Bounds
  <2> QED BY <2>1 DEF Init, Plain, Finder!Init
<1>2. Plain /\ IInv /\ [Next]_vars => Plain'
  <2>1. ASSUME Plain, UNCHANGED vars PROVE Plain'
    BY <2>1 DEF Plain, vars, file, inotify, memory, force, finder
  <2> QED BY <2>1, PlainStep
<1>3. Plain /\ IInv => TypeOK
  <2>1. OnFiles(ctl) => DOMAIN ctl = Files
    BY DEF OnFiles
  <2> QED BY <2>1 DEF Plain, IInv, Stage, CgroupInv, CgroupTypes, ChildKept, TypeOK, Files
<1> QED BY <1>1, <1>2, <1>3, ReloadInvariant, PTL DEF Spec
============================================================================
