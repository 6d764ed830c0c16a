------------------------- MODULE MatcherCacheProofs -------------------------
(***************************************************************************)
(* The bucket of ThreadMatcher stays within its limit, and its answers are *)
(* the ones the file in force asks for and can be carried out, for any     *)
(* askers, files, queries, regular expressions and size of the bucket.     *)
(*                                                                         *)
(* The machine needs one fact about Match: two queries with the same key   *)
(* have the same answer.  The rest is about the functions of RuleMatch:    *)
(* what the parser and the compiler make of a file leads to the same rule, *)
(* thread rule and mask as the words of the file, and the groups that      *)
(* CgroupInitializer leaves have the values of those rules.                *)
(***************************************************************************)
EXTENDS MatcherCache, FiniteSetTheorems, WellFoundedInduction, TLAPS

Cfg == Parse(InForce)
Right(q) == Match(Cfg, q)

\* Every entry answers some query of its key, by the file in force.
CacheRight ==
    \A k \in DOMAIN cache : \E q \in Queries :
      Key(q) = k /\ q.proc # Dead /\ cache[k].res = Right(q)

\* So does what an asker has computed or found, whether stored yet or not.
AskRight ==
    \A a \in Askers : /\ ask[a].pc = "idle" => ask[a].age = 0
                      /\ ask[a].pc \in {"compute", "store"} => ask[a].q.proc # Dead
                      /\ ask[a].pc \in {"store", "done"} => ask[a].res = Right(ask[a].q)

\* The groups are those of the file in force, with older ones beside them.
GroupsRight == \E old : groups = InitGroups(Cfg, old)

IInv == TypeOK /\ CacheRight /\ AskRight /\ GroupsRight

----------------------------------------------------------------------------
(* Assumptions, and the least element.                                     *)

LEMMA Params ==
    /\ kMaxProcessCacheEntriesPerBucket \in Nat \ {0}
    /\ \A f \in Files : Content[f].process_cache_ttl_ms \in Nat
BY MatcherAssumption, FileAssumption

\* Every set of numbers that is not empty has a least element.
LEMMA MinIsIn ==
    ASSUME NEW S, S \subseteq Nat, S # {}
    PROVE  Min(S) \in S /\ \A y \in S : Min(S) =< y
<1>1. PICK x \in S : \A y \in S : ~ (<<y, x>> \in OpToRel(<, Nat))
  BY NatLessThanWellFounded, WFMin, Zenon
<1>2. \A y \in S : ~ (y < x)
  BY <1>1, Zenon DEF OpToRel
<1>3. \A y \in S : x =< y
  BY <1>2
<1> QED BY <1>3 DEF Min

----------------------------------------------------------------------------
(* The key.                                                                *)

LEMMA KeyParts ==
    ASSUME NEW p, NEW q, Key(p) = Key(q)
    PROVE  /\ p.proc = q.proc /\ p.thread = q.thread /\ p.cmdline = q.cmdline
           /\ p.state = q.state /\ p.main = q.main
BY DEF Key

\* The key has all of a query that the answer depends on.
LEMMA MatchByKey ==
    ASSUME NEW cfg, NEW p, NEW q, Key(p) = Key(q)
    PROVE  Match(cfg, p) = Match(cfg, q)
<1>1. /\ p.proc = q.proc /\ p.thread = q.thread /\ p.cmdline = q.cmdline
      /\ p.state = q.state /\ p.main = q.main
  BY KeyParts
<1>2. ASSUME NEW rules PROVE MatchingRules(rules, p) = MatchingRules(rules, q)
  BY <1>1 DEF MatchingRules, MatchesProcess
<1>3. ASSUME NEW r PROVE MatchingThreads(r, p) = MatchingThreads(r, q)
  BY <1>1 DEF MatchingThreads, MatchesThread
<1> QED BY <1>1, <1>2, <1>3 DEF Match, Unmatched

----------------------------------------------------------------------------
(* The bucket.                                                             *)

\* Erasing leaves fewer keys, and what they had.
LEMMA ErasingKeeps ==
    ASSUME TypeOK, CacheRight, NEW k, Erase(k), UNCHANGED file
    PROVE  /\ CacheRight' /\ IsFiniteSet(DOMAIN cache')
           /\ Cardinality(DOMAIN cache') <= kMaxProcessCacheEntriesPerBucket
           /\ \A x \in DOMAIN cache' : cache'[x].age \in 0 .. TTL
<1>1. DOMAIN cache' = DOMAIN cache \ {k} /\ \A x \in DOMAIN cache' : cache'[x] = cache[x]
  BY DEF Erase
<1>2. IsFiniteSet(DOMAIN cache') /\ Cardinality(DOMAIN cache') <= Cardinality(DOMAIN cache)
  BY <1>1, FS_Subset DEF TypeOK
<1>3. Cardinality(DOMAIN cache) \in Nat /\ Cardinality(DOMAIN cache') \in Nat
  BY <1>2, FS_CardinalityType DEF TypeOK
<1>4. Cardinality(DOMAIN cache') <= kMaxProcessCacheEntriesPerBucket
  BY <1>2, <1>3, Params DEF TypeOK
<1>5. CacheRight'
  BY <1>1 DEF CacheRight, Right, Cfg, InForce
<1> QED BY <1>1, <1>2, <1>4, <1>5 DEF TypeOK

\* The keys after an answer was stored: at most the limit.
LEMMA RoomIsMade ==
    ASSUME TypeOK, NEW k, NEW keys, keys \subseteq DOMAIN cache, NEW out \in Evictions(k, keys)
    PROVE  /\ IsFiniteSet((keys \ out) \cup {k})
           /\ Cardinality((keys \ out) \cup {k}) <= kMaxProcessCacheEntriesPerBucket
<1> DEFINE M == kMaxProcessCacheEntriesPerBucket
           left == keys \ out
<1>1. IsFiniteSet(keys) /\ Cardinality(keys) \in Nat /\ Cardinality(keys) <= M
  <2>1. IsFiniteSet(keys) /\ Cardinality(keys) <= Cardinality(DOMAIN cache)
    BY FS_Subset DEF TypeOK
  <2>2. Cardinality(keys) \in Nat /\ Cardinality(DOMAIN cache) \in Nat
    BY <2>1, FS_CardinalityType DEF TypeOK
  <2> QED BY <2>1, <2>2, Params DEF TypeOK
<1>2. CASE k \in keys
  <2>1. left \cup {k} = keys
    BY <1>2 DEF Evictions
  <2> QED BY <1>1, <2>1
<1>3. CASE k \notin keys
  <2>1. IsFiniteSet(left) /\ Cardinality(left) \in Nat /\ Cardinality(left) + 1 <= M
    <3>1. CASE Cardinality(keys) >= M
      <4>1. PICK x \in keys : out = {x}
        BY <1>3, <3>1 DEF Evictions
      <4>2. IsFiniteSet(left) /\ Cardinality(left) = Cardinality(keys) - 1
        BY <1>1, <4>1, FS_RemoveElement
      <4>3. Cardinality(left) \in Nat
        BY <4>2, FS_CardinalityType
      <4> QED BY <1>1, <4>2, <4>3, Params
    <3>2. CASE ~ (Cardinality(keys) >= M)
      <4>1. left = keys
        BY <3>2 DEF Evictions
      <4> QED BY <1>1, <3>2, <4>1, Params
    <3> QED BY <3>1, <3>2
  <2>2. k \notin left
    BY <1>3
  <2>3. IsFiniteSet(left \cup {k}) /\ Cardinality(left \cup {k}) = Cardinality(left) + 1
    BY <2>1, <2>2, FS_AddElement
  <2> QED BY <2>1, <2>3
<1> QED BY <1>2, <1>3

\* An asker moves on: the others are as they were.
LEMMA AskerMoves ==
    ASSUME TypeOK, AskRight, NEW a \in Askers, NEW pc \in {"compute", "store", "done"},
           NEW q \in Queries, NEW r, Becomes(a, pc, q, r), UNCHANGED file,
           pc # "compute" => r = Right(q), pc # "done" => q.proc # Dead
    PROVE  /\ AskRight' /\ DOMAIN ask' = Askers
           /\ \A b \in Askers : /\ ask'[b].pc \in {"idle", "compute", "store", "done"}
                                /\ ask'[b].pc # "idle" => ask'[b].q \in Queries
                                /\ ask'[b].age \in 0 .. TTL
<1>1. /\ DOMAIN ask' = Askers
      /\ ask'[a] = [pc |-> pc, q |-> q, res |-> r, age |-> 0]
      /\ \A b \in Askers \ {a} : ask'[b] = ask[b]
  BY DEF Becomes, TypeOK
<1>2. TTL \in Nat
  BY Params DEF TypeOK, TTL, InForce
<1>3. AskRight'
  BY <1>1 DEF AskRight, Right, Cfg, InForce
<1> QED BY <1>1, <1>2, <1>3 DEF TypeOK

----------------------------------------------------------------------------
(* The invariant.                                                          *)

LEMMA InitHolds == Init => IInv
<1> SUFFICES ASSUME Init PROVE IInv
  OBVIOUS
<1>1. TTL \in Nat
  BY Params DEF Init, TTL
<1>2. DOMAIN cache = {} /\ IsFiniteSet(DOMAIN cache) /\ Cardinality(DOMAIN cache) = 0
  BY FS_EmptySet DEF Init
<1>3. TypeOK
  BY <1>1, <1>2, Params DEF Init, TypeOK, Idle
<1>4. CacheRight
  BY <1>2 DEF CacheRight
<1>5. AskRight
  BY DEF Init, AskRight, Idle
<1>6. GroupsRight
  BY DEF Init, GroupsRight, Cfg, InForce
<1> QED BY <1>3, <1>4, <1>5, <1>6 DEF IInv

LEMMA GroupsStay == ASSUME GroupsRight, UNCHANGED <<file, groups>> PROVE GroupsRight'
BY DEF GroupsRight, Cfg, InForce

LEMMA AskDeadKeeps ==
    ASSUME IInv, NEW a \in Askers, NEW q \in Queries, AskDead(a, q) PROVE IInv'
<1>1. Unmatched(q) = Right(q)
  BY DEF AskDead, Right, Match
<1>2. /\ CacheRight' /\ IsFiniteSet(DOMAIN cache')
      /\ Cardinality(DOMAIN cache') <= kMaxProcessCacheEntriesPerBucket
      /\ \A x \in DOMAIN cache' : cache'[x].age \in 0 .. TTL
  BY ErasingKeeps DEF AskDead, IInv
<1>3. /\ AskRight' /\ DOMAIN ask' = Askers
      /\ \A b \in Askers : /\ ask'[b].pc \in {"idle", "compute", "store", "done"}
                           /\ ask'[b].pc # "idle" => ask'[b].q \in Queries
                           /\ ask'[b].age \in 0 .. TTL
  BY <1>1, AskerMoves DEF AskDead, IInv
<1>4. TypeOK'
  BY <1>2, <1>3 DEF TypeOK, TTL, IInv, AskDead
<1> QED BY <1>2, <1>3, <1>4, GroupsStay DEF IInv, AskDead

LEMMA HitKeeps ==
    ASSUME IInv, NEW a \in Askers, NEW q \in Queries, Hit(a, q) PROVE IInv'
<1>1. cache[Key(q)].res = Right(q)
  <2>1. PICK p \in Queries : Key(p) = Key(q) /\ cache[Key(q)].res = Right(p)
    BY DEF Hit, IInv, CacheRight
  <2> QED BY <2>1, MatchByKey DEF Right
<1>2. /\ AskRight' /\ DOMAIN ask' = Askers
      /\ \A b \in Askers : /\ ask'[b].pc \in {"idle", "compute", "store", "done"}
                           /\ ask'[b].pc # "idle" => ask'[b].q \in Queries
                           /\ ask'[b].age \in 0 .. TTL
  BY <1>1, AskerMoves DEF Hit, IInv
<1>3. TypeOK'
  BY <1>2 DEF TypeOK, TTL, IInv, Hit
<1>4. CacheRight'
  BY DEF IInv, Hit, CacheRight, Right, Cfg, InForce
<1> QED BY <1>2, <1>3, <1>4, GroupsStay DEF IInv, Hit

LEMMA MissKeeps ==
    ASSUME IInv, NEW a \in Askers, NEW q \in Queries, Miss(a, q) PROVE IInv'
<1>1. /\ CacheRight' /\ IsFiniteSet(DOMAIN cache')
      /\ Cardinality(DOMAIN cache') <= kMaxProcessCacheEntriesPerBucket
      /\ \A x \in DOMAIN cache' : cache'[x].age \in 0 .. TTL
  BY ErasingKeeps DEF Miss, IInv
<1>2. /\ AskRight' /\ DOMAIN ask' = Askers
      /\ \A b \in Askers : /\ ask'[b].pc \in {"idle", "compute", "store", "done"}
                           /\ ask'[b].pc # "idle" => ask'[b].q \in Queries
                           /\ ask'[b].age \in 0 .. TTL
  BY AskerMoves DEF Miss, IInv
<1>3. TypeOK'
  BY <1>1, <1>2 DEF TypeOK, TTL, IInv, Miss
<1> QED BY <1>1, <1>2, <1>3, GroupsStay DEF IInv, Miss

LEMMA ComputeKeeps ==
    ASSUME IInv, NEW a \in Askers, Compute(a) PROVE IInv'
<1> DEFINE q == ask[a].q
           pc == IF Right(q).rule \in {None, ""} THEN "done" ELSE "store"
<1>1. q \in Queries /\ q.proc # Dead /\ pc \in {"compute", "store", "done"} /\ pc # "compute"
  BY DEF Compute, IInv, TypeOK, AskRight
<1>2. Becomes(a, pc, q, Right(q)) /\ UNCHANGED file
  BY DEF Compute, Right, Cfg, InForce
<1>3. /\ AskRight' /\ DOMAIN ask' = Askers
      /\ \A b \in Askers : /\ ask'[b].pc \in {"idle", "compute", "store", "done"}
                           /\ ask'[b].pc # "idle" => ask'[b].q \in Queries
                           /\ ask'[b].age \in 0 .. TTL
  <2> HIDE DEF q, pc
  <2> QED BY <1>1, <1>2, AskerMoves DEF IInv
<1>4. TypeOK'
  BY <1>3 DEF TypeOK, TTL, IInv, Compute
<1>5. CacheRight'
  BY DEF IInv, Compute, CacheRight, Right, Cfg, InForce
<1> QED BY <1>3, <1>4, <1>5, GroupsStay DEF IInv, Compute

LEMMA StoreKeeps ==
    ASSUME IInv, NEW a \in Askers, Store(a) PROVE IInv'
<1> DEFINE q == ask[a].q
           k == Key(q)
           swept == {x \in DOMAIN cache : Fresh(cache[x])}
<1>1. q \in Queries /\ q.proc # Dead /\ ask[a].res = Right(q) /\ ask[a].age \in 0 .. TTL
  BY DEF Store, IInv, TypeOK, AskRight
<1>2. PICK out \in Evictions(k, swept) :
        cache' = [x \in (swept \ out) \cup {k} |->
                    IF x = k THEN [res |-> ask[a].res, age |-> ask[a].age] ELSE cache[x]]
  BY DEF Store
<1>3. /\ DOMAIN cache' = (swept \ out) \cup {k}
      /\ cache'[k].res = Right(q) /\ cache'[k].age \in 0 .. TTL
      /\ \A x \in DOMAIN cache' \ {k} : x \in DOMAIN cache /\ cache'[x] = cache[x]
  <2> HIDE DEF k
  <2> QED BY <1>1, <1>2
<1>4. IsFiniteSet(DOMAIN cache') /\ Cardinality(DOMAIN cache') <= kMaxProcessCacheEntriesPerBucket
  <2>1. swept \subseteq DOMAIN cache
    OBVIOUS
  <2> HIDE DEF k, swept
  <2> QED BY <1>2, <1>3, <2>1, RoomIsMade DEF IInv
<1>5. /\ AskRight' /\ DOMAIN ask' = Askers
      /\ \A b \in Askers : /\ ask'[b].pc \in {"idle", "compute", "store", "done"}
                           /\ ask'[b].pc # "idle" => ask'[b].q \in Queries
                           /\ ask'[b].age \in 0 .. TTL
  <2>1. Becomes(a, "done", q, Right(q)) /\ UNCHANGED file
    BY <1>1 DEF Store
  <2> HIDE DEF q
  <2> QED BY <1>1, <2>1, AskerMoves DEF IInv
<1>6. UNCHANGED <<file, groups>>
  BY DEF Store
<1>7. \A x \in DOMAIN cache' : cache'[x].age \in 0 .. TTL
  <2> HIDE DEF k
  <2> QED BY <1>3 DEF IInv, TypeOK
<1>8. TypeOK'
  BY <1>4, <1>5, <1>6, <1>7 DEF TypeOK, TTL, IInv
<1>9. CacheRight'
  <2> SUFFICES ASSUME NEW x \in DOMAIN cache'
               PROVE  \E p \in Queries : Key(p) = x /\ p.proc # Dead /\ cache'[x].res = Right(p)
    BY <1>6 DEF CacheRight, Right, Cfg, InForce
  <2>1. CASE x = k
    BY <1>1, <1>3, <2>1
  <2>2. CASE x # k
    <3> HIDE DEF k
    <3> QED BY <1>3, <2>2 DEF IInv, CacheRight
  <2> QED BY <2>1, <2>2
<1> QED BY <1>5, <1>6, <1>8, <1>9, GroupsStay DEF IInv

LEMMA ReturnKeeps ==
    ASSUME IInv, NEW a \in Askers, Return(a) PROVE IInv'
<1>1. /\ DOMAIN ask' = Askers /\ ask'[a].pc = "idle" /\ ask'[a].age = 0
      /\ \A b \in Askers \ {a} : ask'[b] = ask[b]
  BY DEF Return, IInv, TypeOK, Idle
<1>2. TTL \in Nat
  BY Params DEF IInv, TypeOK, TTL
<1>3. TypeOK'
  BY <1>1, <1>2 DEF Return, IInv, TypeOK, TTL
<1>4. AskRight'
  BY <1>1 DEF Return, IInv, AskRight, Right, Cfg, InForce
<1>5. CacheRight'
  BY DEF IInv, Return, CacheRight, Right, Cfg, InForce
<1> QED BY <1>3, <1>4, <1>5, GroupsStay DEF IInv, Return

LEMMA TimeKeeps == ASSUME IInv, TimePasses PROVE IInv'
<1> DEFINE older(n) == IF n < TTL THEN n + 1 ELSE n
<1>1. TTL \in Nat
  BY Params DEF IInv, TypeOK, TTL
<1>2. \A n \in 0 .. TTL : older(n) \in 0 .. TTL
  BY <1>1
<1>3. /\ DOMAIN cache' = DOMAIN cache
      /\ \A k \in DOMAIN cache : /\ cache'[k].res = cache[k].res
                                 /\ cache'[k].age = older(cache[k].age)
  BY DEF TimePasses
<1>4. /\ DOMAIN ask' = Askers
      /\ \A a \in Askers :
           /\ ask'[a].pc = ask[a].pc /\ ask'[a].q = ask[a].q /\ ask'[a].res = ask[a].res
           /\ ask'[a].age = IF ask[a].pc = "store" THEN older(ask[a].age) ELSE ask[a].age
  BY DEF TimePasses
<1>5. UNCHANGED <<file, groups>>
  BY DEF TimePasses
<1> HIDE DEF older
<1>6. TypeOK'
  <2>1. \A k \in DOMAIN cache' : cache'[k].age \in 0 .. TTL
    BY <1>2, <1>3 DEF IInv, TypeOK
  <2>2. \A a \in Askers : ask'[a].age \in 0 .. TTL
    BY <1>2, <1>4 DEF IInv, TypeOK
  <2> QED BY <1>3, <1>4, <1>5, <2>1, <2>2 DEF IInv, TypeOK, TTL
<1>7. CacheRight'
  BY <1>3, <1>5 DEF IInv, CacheRight, Right, Cfg, InForce
<1>8. AskRight'
  BY <1>4, <1>5 DEF IInv, AskRight, Right, Cfg, InForce
<1> QED BY <1>5, <1>6, <1>7, <1>8, GroupsStay DEF IInv

\* A reload empties the bucket, and no asker holds an answer of the old file.
LEMMA ReloadKeeps == ASSUME IInv, NEW f \in Files, Reload(f) PROVE IInv'
<1>1. DOMAIN cache' = {} /\ IsFiniteSet(DOMAIN cache') /\ Cardinality(DOMAIN cache') = 0
  BY FS_EmptySet DEF Reload
<1>2. \A a \in Askers : ask[a].pc = "idle" /\ ask[a].age = 0
  BY DEF Reload, IInv, AskRight
<1>3. Content[f].process_cache_ttl_ms \in Nat
  BY Params
<1>4. TypeOK'
  BY <1>1, <1>2, <1>3, Params DEF Reload, IInv, TypeOK, TTL
<1>5. CacheRight'
  BY <1>1 DEF CacheRight
<1>6. AskRight'
  BY <1>2 DEF AskRight, Reload
<1>7. GroupsRight'
  BY DEF Reload, GroupsRight, Cfg, InForce
<1> QED BY <1>4, <1>5, <1>6, <1>7 DEF IInv

LEMMA NextKeeps == ASSUME IInv, [Next]_vars PROVE IInv'
<1>1. CASE \E a \in Askers, q \in Queries : AskDead(a, q) \/ Hit(a, q) \/ Miss(a, q)
  BY <1>1, AskDeadKeeps, HitKeeps, MissKeeps
<1>2. CASE \E a \in Askers : Compute(a) \/ Store(a) \/ Return(a)
  BY <1>2, ComputeKeeps, StoreKeeps, ReturnKeeps
<1>3. CASE TimePasses
  BY <1>3, TimeKeeps
<1>4. CASE \E f \in Files : Reload(f)
  BY <1>4, ReloadKeeps
<1>5. CASE UNCHANGED vars
  BY <1>5 DEF vars, IInv, TypeOK, CacheRight, AskRight, GroupsRight, TTL, Right, Cfg, InForce
<1> QED BY <1>1, <1>2, <1>3, <1>4, <1>5 DEF Next

\* Entries, computed answers and groups belong to the file in force, in every
\* state of ThreadMatcher and its askers.
THEOREM MatcherInvariant == Spec => []IInv
<1> QED BY InitHolds, NextKeeps, PTL DEF Spec

\* The bucket never exceeds its limit, however stores interleave.
THEOREM BucketIsBounded == Spec => []TypeOK
<1>1. IInv => TypeOK
  BY DEF IInv
<1> QED BY <1>1, MatcherInvariant, PTL

----------------------------------------------------------------------------
(* What the parser and the compiler make of the rules of the file.         *)

LEMMA ParsedRules ==
    /\ Cfg.cpumask = parse_cpumask(InForce)
    /\ Cfg.affinity = parse_affinity(InForce, Cfg.cpumask) /\ Cfg.prio = parse_prio(InForce)
    /\ DOMAIN Cfg.rules = KeptRules(InForce)
    /\ \A i \in KeptRules(InForce) :
         /\ Cfg.rules[i].name = InForce.rules[i].name
         /\ Cfg.rules[i].regex = InForce.rules[i].regex
         /\ Cfg.rules[i].pinned = InForce.rules[i].pinned
         /\ Cfg.rules[i].topfore = InForce.rules[i].topfore
         /\ DOMAIN Cfg.rules[i].thread_rules = DOMAIN InForce.rules[i].rules
         /\ \A k \in DOMAIN InForce.rules[i].rules :
              Cfg.rules[i].thread_rules[k]
                = ParsedThread(InForce.rules[i].rules[k], Cfg.affinity, Cfg.prio)
BY DEF Cfg, Parse, parse_rules

\* The process rules that match are those of the file that do.
LEMMA RulesOfFile ==
    ASSUME NEW q
    PROVE  /\ MatchingRules(Compile(Cfg), q) = Contenders(q)
           /\ \A i \in Contenders(q) : /\ i \in KeptRules(InForce) /\ i \in DOMAIN InForce.rules
                                       /\ Compile(Cfg)[i] = Compiled(Cfg.rules[i])
<1> DEFINE C == Compile(Cfg)
<1>1. /\ DOMAIN C = {i \in KeptRules(InForce) : InForce.rules[i].regex \in DOMAIN Language}
      /\ \A i \in DOMAIN C : C[i] = Compiled(Cfg.rules[i])
  BY ParsedRules DEF Compile
<1>2. \A i \in DOMAIN C : C[i].rule = Cfg.rules[i] /\ C[i].rule.regex = InForce.rules[i].regex
  <2>1. ASSUME NEW r PROVE Compiled(r).rule = r
    BY DEF Compiled
  <2> HIDE DEF C
  <2> QED BY <1>1, <2>1, ParsedRules
<1>3. \A i \in DOMAIN C : MatchesProcess(C[i].rule, q) <=> MatchesProcess(InForce.rules[i], q)
  BY <1>2 DEF MatchesProcess
<1> HIDE DEF C
<1>4. MatchingRules(C, q) = Contenders(q)
  BY <1>1, <1>3 DEF MatchingRules, Contenders
<1>5. \A i \in Contenders(q) : i \in KeptRules(InForce) /\ i \in DOMAIN C
  BY <1>1 DEF Contenders
<1>6. \A i \in KeptRules(InForce) : i \in DOMAIN InForce.rules
  BY DEF KeptRules
<1> QED BY <1>1, <1>4, <1>5, <1>6 DEF C

\* So are the thread rules, and the parser's replacements do not change the
\* expression they are found by.
LEMMA ThreadsOfFile ==
    ASSUME NEW q, NEW i \in Contenders(q)
    PROVE  /\ MatchingThreads(Compile(Cfg)[i], q) = ThreadContenders(i, q)
           /\ \A k \in ThreadContenders(i, q) :
                /\ k \in DOMAIN InForce.rules[i].rules
                /\ Compile(Cfg)[i].threads[k]
                     = ParsedThread(InForce.rules[i].rules[k], Cfg.affinity, Cfg.prio)
<1> DEFINE r == Compile(Cfg)[i]
           rules == InForce.rules[i].rules
           t(k) == ParsedThread(rules[k], <<>>, <<>>)
           u(k) == ParsedThread(rules[k], Cfg.affinity, Cfg.prio)
<1>1. r = Compiled(Cfg.rules[i]) /\ i \in KeptRules(InForce)
  BY RulesOfFile
<1>2. ASSUME NEW k PROVE t(k).k = u(k).k
  BY DEF ParsedThread
<1>3. ASSUME NEW k PROVE /\ IsMainRule(t(k)) <=> IsMainRule(u(k))
                         /\ MatchesThread(t(k), q) <=> MatchesThread(u(k), q)
  BY <1>2 DEF IsMainRule, MatchesThread
<1>4. /\ DOMAIN r.threads = {k \in DOMAIN rules : IsMainRule(u(k)) \/ u(k).k \in DOMAIN Language}
      /\ \A k \in DOMAIN r.threads : r.threads[k] = u(k)
  <2> HIDE DEF u
  <2>1. /\ DOMAIN Cfg.rules[i].thread_rules = DOMAIN rules
        /\ \A k \in DOMAIN rules : Cfg.rules[i].thread_rules[k] = u(k)
    BY <1>1, ParsedRules DEF u
  <2> QED BY <1>1, <2>1 DEF Compiled
<1>5. ThreadContenders(i, q) = {k \in DOMAIN rules :
        (IsMainRule(t(k)) \/ t(k).k \in DOMAIN Language) /\ MatchesThread(t(k), q)}
  BY DEF ThreadContenders
<1> HIDE DEF r, t, u
<1>6. MatchingThreads(r, q) = ThreadContenders(i, q)
  BY <1>2, <1>3, <1>4, <1>5 DEF MatchingThreads
<1>7. \A k \in ThreadContenders(i, q) : k \in DOMAIN r.threads /\ k \in DOMAIN rules
  BY <1>4, <1>6 DEF MatchingThreads
<1> QED BY <1>4, <1>6, <1>7 DEF r, u

\* The first of them exist.
LEMMA FirstContender ==
    ASSUME file \in Files, NEW q, Contenders(q) # {}
    PROVE  Min(Contenders(q)) \in Contenders(q)
<1>1. DOMAIN InForce.rules \subseteq Nat
  BY FileAssumption DEF InForce
<1>2. Contenders(q) \subseteq Nat
  BY <1>1, RulesOfFile
<1> QED BY <1>2, MinIsIn

LEMMA FirstThread ==
    ASSUME file \in Files, NEW q, NEW i \in Contenders(q), ThreadContenders(i, q) # {}
    PROVE  Min(ThreadContenders(i, q)) \in ThreadContenders(i, q)
<1>1. DOMAIN InForce.rules[i].rules \subseteq Nat
  BY FileAssumption, RulesOfFile DEF InForce
<1>2. ThreadContenders(i, q) \subseteq Nat
  BY <1>1, ThreadsOfFile
<1> QED BY <1>2, MinIsIn

----------------------------------------------------------------------------
(* The answer, in the words of the file.                                   *)

\* The first rule that matches, and the first thread rule in it.
First(q) == Min(Contenders(q))
FirstOf(q) == Min(ThreadContenders(First(q), q))
RuleText(q) == InForce.rules[First(q)].rules[FirstOf(q)]
ParsedFor(q) == ParsedThread(RuleText(q), Cfg.affinity, Cfg.prio)

LEMMA NoRule ==
    ASSUME NEW q, q.proc = Dead \/ Contenders(q) = {}
    PROVE  Right(q) = Unmatched(q)
BY RulesOfFile DEF Right, Match

LEMMA OfRule ==
    ASSUME file \in Files, NEW q, q.proc # Dead, Contenders(q) # {}
    PROVE  /\ First(q) \in Contenders(q) /\ First(q) \in KeptRules(InForce)
           /\ Right(q).rule = InForce.rules[First(q)].name
           /\ Right(q).state = EffectiveState(InForce.rules[First(q)], q.state)
<1>1. First(q) \in Contenders(q) /\ First(q) \in KeptRules(InForce)
  BY FirstContender, RulesOfFile DEF First
<1>2. Compile(Cfg)[First(q)].rule = Cfg.rules[First(q)]
  <2>1. Compiled(Cfg.rules[First(q)]).rule = Cfg.rules[First(q)]
    BY DEF Compiled
  <2> QED BY <1>1, <2>1, RulesOfFile
<1>3. MatchingRules(Compile(Cfg), q) = Contenders(q)
  BY RulesOfFile
<1>4. /\ Right(q).rule = Cfg.rules[First(q)].name
      /\ Right(q).state = EffectiveState(Cfg.rules[First(q)], q.state)
  BY <1>2, <1>3 DEF Right, Match, First
<1>5. /\ Cfg.rules[First(q)].name = InForce.rules[First(q)].name
      /\ Cfg.rules[First(q)].pinned = InForce.rules[First(q)].pinned
      /\ Cfg.rules[First(q)].topfore = InForce.rules[First(q)].topfore
  BY <1>1, ParsedRules
<1>6. EffectiveState(Cfg.rules[First(q)], q.state) = EffectiveState(InForce.rules[First(q)], q.state)
  BY <1>5 DEF EffectiveState
<1> QED BY <1>1, <1>4, <1>5, <1>6

LEMMA OfNoThread ==
    ASSUME file \in Files, NEW q, q.proc # Dead, Contenders(q) # {},
           ThreadContenders(First(q), q) = {}
    PROVE  /\ Right(q).index = 0 /\ Right(q).enable_limit = FALSE
           /\ Right(q).ac = "" /\ Right(q).pc = "" /\ Right(q).mask = ""
<1>1. MatchingRules(Compile(Cfg), q) = Contenders(q)
  BY RulesOfFile
<1>2. MatchingThreads(Compile(Cfg)[First(q)], q) = {}
  BY OfRule, ThreadsOfFile
<1>3. ASSUME NEW s PROVE get_cpumask_name_for_affinity(Cfg, "", s) = ""
  BY DEF get_cpumask_name_for_affinity
<1> QED BY <1>1, <1>2, <1>3 DEF Right, Match, First, NoThreadRule

LEMMA OfThread ==
    ASSUME file \in Files, NEW q, q.proc # Dead, Contenders(q) # {},
           ThreadContenders(First(q), q) # {}
    PROVE  /\ FirstOf(q) \in ThreadContenders(First(q), q)
           /\ FirstOf(q) \in DOMAIN InForce.rules[First(q)].rules
           /\ Right(q).index = FirstOf(q)
           /\ Right(q).ac = ParsedFor(q).ac /\ Right(q).pc = ParsedFor(q).pc
           /\ Right(q).enable_limit = ParsedFor(q).enable_limit
           /\ Right(q).mask = get_cpumask_name_for_affinity(Cfg, ParsedFor(q).ac, Right(q).state)
<1>1. MatchingRules(Compile(Cfg), q) = Contenders(q)
  BY RulesOfFile
<1>2. MatchingThreads(Compile(Cfg)[First(q)], q) = ThreadContenders(First(q), q)
  BY OfRule, ThreadsOfFile
<1>3. FirstOf(q) \in ThreadContenders(First(q), q)
  BY OfRule, FirstThread DEF FirstOf
<1>4. /\ FirstOf(q) \in DOMAIN InForce.rules[First(q)].rules
      /\ Compile(Cfg)[First(q)].threads[FirstOf(q)] = ParsedFor(q)
  BY <1>3, OfRule, ThreadsOfFile DEF ParsedFor, RuleText
<1> HIDE DEF ParsedFor
<1> QED BY <1>1, <1>2, <1>3, <1>4 DEF Right, Match, First, FirstOf

----------------------------------------------------------------------------
(* The mask of a class in a state.                                         *)

\* What the file has for class ac in state s; None, Bad or "" if nothing.
MaskText(ac, s) ==
    LET scene == InForce.affinity[ac]
    IN IF s = "top" /\ scene.touch \notin {None, Bad} THEN scene.touch ELSE scene[s]

\* A mask the parser keeps: it can be a directory, and has a CPU.
Usable(m) == /\ m \in DOMAIN InForce.cpumask \ UnsafeNames
             /\ \E c \in InForce.cpumask[m] : c >= 0 /\ c < CPU_SETSIZE

LEMMA MasksOfFile ==
    ASSUME file \in Files
    PROVE  /\ \A m : m \in DOMAIN Cfg.cpumask <=> Usable(m)
           /\ \A m \in DOMAIN Cfg.cpumask :
                /\ Cfg.cpumask[m] = InForce.cpumask[m] \cap (0 .. CPU_SETSIZE - 1)
                /\ Cfg.cpumask[m] = {c \in InForce.cpumask[m] : c >= 0 /\ c < CPU_SETSIZE}
                /\ Cfg.cpumask[m] # {}
<1> DEFINE valid(m) == InForce.cpumask[m] \cap (0 .. CPU_SETSIZE - 1)
<1>1. Cfg.cpumask = parse_cpumask(InForce)
  BY ParsedRules
<1>2. /\ DOMAIN Cfg.cpumask = {m \in DOMAIN InForce.cpumask : m \notin UnsafeNames /\ valid(m) # {}}
      /\ \A m \in DOMAIN Cfg.cpumask : Cfg.cpumask[m] = valid(m)
  BY <1>1 DEF parse_cpumask, is_safe_cgroup_component
<1>3. \A m \in DOMAIN InForce.cpumask :
        /\ InForce.cpumask[m] \subseteq Int
        /\ valid(m) = {c \in InForce.cpumask[m] : c >= 0 /\ c < CPU_SETSIZE}
  <2>1. \A m \in DOMAIN InForce.cpumask : InForce.cpumask[m] \subseteq Int
    BY FileAssumption DEF InForce
  <2>2. CPU_SETSIZE \in Nat
    BY MatcherAssumption
  <2>3. ASSUME NEW m \in DOMAIN InForce.cpumask, NEW c \in InForce.cpumask[m]
        PROVE  c \in 0 .. CPU_SETSIZE - 1 <=> c >= 0 /\ c < CPU_SETSIZE
    BY <2>1, <2>2
  <2> QED BY <2>1, <2>3
<1> HIDE DEF valid
<1>4. \A m \in DOMAIN InForce.cpumask :
        valid(m) # {} <=> \E c \in InForce.cpumask[m] : c >= 0 /\ c < CPU_SETSIZE
  BY <1>3
<1>5. \A m : m \in DOMAIN Cfg.cpumask <=> Usable(m)
  BY <1>2, <1>4 DEF Usable
<1> QED BY <1>2, <1>3, <1>5 DEF valid

LEMMA ClassNames == DOMAIN Cfg.affinity = DOMAIN InForce.affinity
<1>1. DOMAIN parse_affinity(InForce, Cfg.cpumask) = DOMAIN InForce.affinity
  BY DEF parse_affinity
<1> QED BY <1>1, ParsedRules

\* The parser keeps of a class, state by state, the mask the file names if it
\* is usable; validate_affinity_mask clears any other.
LEMMA ClassesOfFile ==
    ASSUME file \in Files, NEW ac \in DOMAIN InForce.affinity, NEW s \in States
    PROVE  Cfg.affinity[ac][s] = IF Usable(MaskText(ac, s)) THEN MaskText(ac, s) ELSE ""
<1> DEFINE f == InForce.affinity[ac]
           text == [bg |-> Text(f.bg), fg |-> Text(f.fg),
                    top |-> IF f.touch \in {None, Bad} THEN Text(f.top) ELSE f.touch]
           m == MaskText(ac, s)
<1>1. Cfg.affinity[ac][s] = IF text[s] \in DOMAIN Cfg.cpumask THEN text[s] ELSE ""
  <2>1. Cfg.affinity = parse_affinity(InForce, Cfg.cpumask)
    BY ParsedRules
  <2>2. parse_affinity(InForce, Cfg.cpumask)[ac]
          = [z \in States |-> IF text[z] \in DOMAIN Cfg.cpumask THEN text[z] ELSE ""]
    BY DEF parse_affinity
  <2> HIDE DEF text
  <2> QED BY <2>1, <2>2
<1>2. text[s] = IF m \in {None, Bad} THEN "" ELSE m
  <2>1. CASE s = "bg"
    <3>1. text[s] = Text(f.bg) /\ m = f.bg
      BY <2>1 DEF MaskText
    <3> QED BY <3>1 DEF Text
  <2>2. CASE s = "fg"
    <3>1. text[s] = Text(f.fg) /\ m = f.fg
      BY <2>2 DEF MaskText
    <3> QED BY <3>1 DEF Text
  <2>3. CASE s = "top"
    <3>1. /\ text[s] = IF f.touch \in {None, Bad} THEN Text(f.top) ELSE f.touch
          /\ m = IF f.touch \in {None, Bad} THEN f.top ELSE f.touch
      BY <2>3 DEF MaskText
    <3> QED BY <3>1 DEF Text
  <2> QED BY <2>1, <2>2, <2>3 DEF States
<1>3. ~ Usable("") /\ ~ Usable(None) /\ ~ Usable(Bad)
  BY FileAssumption DEF Usable, InForce
<1> HIDE DEF m, text
<1>4. text[s] \in DOMAIN Cfg.cpumask <=> Usable(text[s])
  BY MasksOfFile
<1>5. CASE m \in {None, Bad}
  BY <1>1, <1>2, <1>3, <1>5 DEF m
<1>6. CASE m \notin {None, Bad}
  BY <1>1, <1>2, <1>4, <1>6 DEF m
<1> QED BY <1>5, <1>6

LEMMA StateOfRule ==
    ASSUME file \in Files, NEW q \in Queries, q.proc # Dead, Contenders(q) # {}
    PROVE  Right(q).state \in States
<1>1. q.state \in States
  BY MatcherAssumption
<1> QED BY <1>1, OfRule DEF EffectiveState, States

LEMMA MaskOfThread ==
    ASSUME file \in Files, NEW q \in Queries, q.proc # Dead, Contenders(q) # {},
           ThreadContenders(First(q), q) # {}
    PROVE  LET ac == RuleText(q).ac
               m == MaskText(ac, Right(q).state)
           IN Right(q).mask = IF ac \in DOMAIN InForce.affinity \ {"", "auto"} /\ Usable(m)
                              THEN m ELSE ""
<1> DEFINE ac == RuleText(q).ac
           s == Right(q).state
           m == MaskText(ac, s)
<1>1. s \in States
  BY StateOfRule
<1>2. Right(q).mask = get_cpumask_name_for_affinity(Cfg, ParsedFor(q).ac, s)
  BY OfThread
<1>3. ParsedFor(q).ac = IF ac \in DOMAIN Cfg.affinity \cup {""} THEN ac ELSE "auto"
  BY DEF ParsedFor, ParsedThread
<1>4. DOMAIN Cfg.affinity = DOMAIN InForce.affinity
  BY ClassNames
<1> HIDE DEF ac, s
<1>5. CASE ac \in DOMAIN InForce.affinity \ {"", "auto"}
  <2>1. Cfg.affinity[ac][s] = IF Usable(m) THEN m ELSE ""
    BY <1>1, <1>5, ClassesOfFile
  <2>2. Right(q).mask = Cfg.affinity[ac][s]
    BY <1>2, <1>3, <1>4, <1>5 DEF get_cpumask_name_for_affinity
  <2> QED BY <1>5, <2>1, <2>2 DEF ac, s
<1>6. CASE ac \notin DOMAIN InForce.affinity \ {"", "auto"}
  <2>1. Right(q).mask = ""
    BY <1>2, <1>3, <1>4, <1>6 DEF get_cpumask_name_for_affinity
  <2> QED BY <1>6, <2>1 DEF ac, s
<1> QED BY <1>5, <1>6

LEMMA RightFromInv == IInv => AnswerRight
<1> SUFFICES ASSUME IInv, NEW a \in Askers, ask[a].pc = "done"
             PROVE  LET q == ask[a].q
                        r == ask[a].res
                        i == Min(Contenders(q))
                        rule == InForce.rules[i]
                        k == Min(ThreadContenders(i, q))
                        ac == rule.rules[k].ac
                        scene == InForce.affinity[ac]
                        m == IF r.state = "top" /\ scene.touch \notin {None, Bad}
                             THEN scene.touch ELSE scene[r.state]
                        named == /\ ThreadContenders(i, q) # {}
                                 /\ ac \in DOMAIN InForce.affinity \ {"", "auto"}
                                 /\ m \in DOMAIN InForce.cpumask \ UnsafeNames
                                 /\ \E c \in InForce.cpumask[m] : c >= 0 /\ c < CPU_SETSIZE
                    IN IF q.proc = Dead \/ Contenders(q) = {}
                       THEN r.rule = None /\ r.mask = "" /\ ~r.enable_limit
                       ELSE /\ r.rule = rule.name
                            /\ r.state = IF rule.pinned THEN "top"
                                         ELSE IF rule.topfore
                                              THEN (IF q.state = "bg" THEN "bg" ELSE "top")
                                         ELSE q.state
                            /\ IF ThreadContenders(i, q) = {} THEN r.index = 0 /\ ~r.enable_limit
                               ELSE r.index = k /\ r.enable_limit = rule.rules[k].enable_limit
                            /\ r.mask = IF named THEN m ELSE ""
  BY DEF AnswerRight
<1> DEFINE q == ask[a].q
           rule == InForce.rules[First(q)]
           T == ThreadContenders(First(q), q)
           ac == RuleText(q).ac
           m == MaskText(ac, Right(q).state)
<1>1. /\ file \in Files /\ q \in Queries /\ q.state \in States
      /\ ask[a].res = Right(q)
  BY MatcherAssumption DEF IInv, TypeOK, AskRight
<1>2. CASE q.proc = Dead \/ Contenders(q) = {}
  <2>1. Right(q).rule = None /\ Right(q).mask = "" /\ Right(q).enable_limit = FALSE
    <3>1. Right(q) = Unmatched(q)
      BY <1>2, NoRule
    <3>2. Unmatched(q).rule = None /\ Unmatched(q).mask = "" /\ Unmatched(q).enable_limit = FALSE
      BY DEF Unmatched
    <3> QED BY <3>1, <3>2, Zenon
  <2> QED BY <1>1, <1>2, <2>1
<1>3. CASE ~ (q.proc = Dead \/ Contenders(q) = {})
  <2>1. Right(q).rule = rule.name
    BY <1>1, <1>3, OfRule
  <2>2. Right(q).state = IF rule.pinned THEN "top"
                         ELSE IF rule.topfore THEN (IF q.state = "bg" THEN "bg" ELSE "top")
                         ELSE q.state
    <3>1. Right(q).state = EffectiveState(rule, q.state)
      BY <1>1, <1>3, OfRule
    <3> HIDE DEF q, rule
    <3> QED BY <1>1, <3>1 DEF EffectiveState, States
  <2>3. IF T = {} THEN Right(q).index = 0 /\ Right(q).enable_limit = FALSE
        ELSE /\ Right(q).index = FirstOf(q)
             /\ Right(q).enable_limit = rule.rules[FirstOf(q)].enable_limit
    <3>1. CASE T = {}
      BY <1>1, <1>3, <3>1, OfNoThread
    <3>2. CASE T # {}
      <4>1. Right(q).index = FirstOf(q) /\ Right(q).enable_limit = ParsedFor(q).enable_limit
        BY <1>1, <1>3, <3>2, OfThread
      <4>2. ParsedFor(q).enable_limit = rule.rules[FirstOf(q)].enable_limit
        BY DEF ParsedFor, ParsedThread, RuleText
      <4> QED BY <3>2, <4>1, <4>2
    <3> QED BY <3>1, <3>2
  <2>4. Right(q).mask = IF T # {} /\ ac \in DOMAIN InForce.affinity \ {"", "auto"} /\ Usable(m)
                        THEN m ELSE ""
    <3>1. CASE T = {}
      BY <1>1, <1>3, <3>1, OfNoThread
    <3>2. CASE T # {}
      BY <1>1, <1>3, <3>2, MaskOfThread
    <3> QED BY <3>1, <3>2
  <2>5. IF T = {} THEN Right(q).index = 0 /\ ~Right(q).enable_limit
        ELSE /\ Right(q).index = FirstOf(q)
             /\ Right(q).enable_limit = rule.rules[FirstOf(q)].enable_limit
    BY <2>3
  <2> QED BY <1>1, <1>3, <2>1, <2>2, <2>4, <2>5, Zenon
          DEF First, FirstOf, RuleText, MaskText, Usable
<1> QED BY <1>2, <1>3

----------------------------------------------------------------------------
(* The groups.                                                             *)

\* CpuMask::to_string loses no CPU and invents none: the kernel reads back
\* from the ranges the set they were made of.
LEMMA RangesReadBack ==
    ASSUME NEW n \in Nat, NEW S, S \subseteq 0 .. n - 1
    PROVE  ReadRanges(Ranges(S)) = S
<1>1. ASSUME NEW x \in Ranges(S) PROVE x[1] .. x[2] \subseteq S
  BY DEF Ranges
<1>2. ASSUME NEW c \in S PROVE \E x \in Ranges(S) : c \in x[1] .. x[2]
  <2> DEFINE A == {y \in Nat : y <= c /\ y .. c \subseteq S}
             B == {y \in Nat : c <= y /\ y + 1 \notin S}
             a == Min(A)
             b == Min(B)
  <2>1. c \in Nat /\ c < n /\ S \subseteq Nat
    OBVIOUS
  <2>2. a \in A /\ \A y \in A : a <= y
    <3>1. c \in A
      BY <2>1
    <3>2. A \subseteq Nat /\ A # {}
      BY <3>1
    <3> HIDE DEF A
    <3> QED BY <3>2, MinIsIn
  <2>3. b \in B /\ \A y \in B : b <= y
    <3>1. n \in B
      BY <2>1
    <3>2. B \subseteq Nat /\ B # {}
      BY <3>1
    <3> HIDE DEF B
    <3> QED BY <3>2, MinIsIn
  <2> HIDE DEF a, b
  <2>4. a - 1 \notin S
    <3> SUFFICES ASSUME a - 1 \in S PROVE FALSE
      OBVIOUS
    <3>1. a - 1 \in Nat /\ a \in Nat
      BY <2>1, <2>2
    <3>2. \A y \in (a - 1) .. c : y = a - 1 \/ y \in a .. c
      BY <2>1, <3>1
    <3>3. a - 1 \in A
      BY <2>1, <2>2, <3>1, <3>2
    <3> QED BY <2>2, <3>1, <3>3
  <2>5. c .. b \subseteq S
    <3> SUFFICES ASSUME NEW y \in c .. b, y # c PROVE y \in S
      OBVIOUS
    <3>1. y - 1 \in Nat /\ c <= y - 1 /\ ~ (b <= y - 1) /\ (y - 1) + 1 = y
      BY <2>1, <2>3
    <3> QED BY <2>3, <3>1
  <2>6. a .. b \subseteq S
    <3>1. \A y \in a .. b : y \in a .. c \/ y \in c .. b
      BY <2>1, <2>2, <2>3
    <3> QED BY <2>2, <2>5, <3>1
  <2>7. a \in Nat /\ b \in Nat /\ a <= c /\ c <= b /\ b + 1 \notin S
    BY <2>2, <2>3
  <2>8. a \in S /\ b \in S
    BY <2>1, <2>6, <2>7
  <2>9. <<a, b>> \in Ranges(S)
    BY <2>1, <2>4, <2>6, <2>7, <2>8 DEF Ranges
  <2> QED BY <2>1, <2>7, <2>9
<1> QED BY <1>1, <1>2 DEF ReadRanges

\* One group per usable mask, with its CPUs, once some rule needs one.
LEMMA CpusetOfMask ==
    ASSUME file \in Files, GroupsRight, requires_cpuset(Cfg), NEW m \in DOMAIN Cfg.cpumask
    PROVE  m \in DOMAIN groups.cpuset /\ groups.cpuset[m] = Cfg.cpumask[m]
<1>1. PICK old : groups = InitGroups(Cfg, old)
  BY DEF GroupsRight
<1>2. /\ DOMAIN CpusetGroups(Cfg) = DOMAIN Cfg.cpumask
      /\ CpusetGroups(Cfg)[m] = ReadRanges(Ranges(Cfg.cpumask[m]))
  BY DEF CpusetGroups
<1>3. m \in DOMAIN groups.cpuset /\ groups.cpuset[m] = CpusetGroups(Cfg)[m]
  BY <1>1, <1>2 DEF InitGroups
<1>4. Cfg.cpumask[m] \subseteq 0 .. CPU_SETSIZE - 1 /\ CPU_SETSIZE \in Nat
  BY MasksOfFile, MatcherAssumption
<1> QED BY <1>2, <1>3, <1>4, RangesReadBack

\* A rule's name finds the rule.
LEMMA RuleByName ==
    ASSUME file \in Files, NEW i \in KeptRules(InForce)
    PROVE  RuleOf(Cfg, InForce.rules[i].name) = Cfg.rules[i]
<1> DEFINE n == InForce.rules[i].name
<1>1. \A j \in KeptRules(InForce) : j \in Nat \ {0}
  BY FileAssumption DEF KeptRules, InForce
<1>2. ASSUME NEW j \in KeptRules(InForce), InForce.rules[j].name = n PROVE j = i
  <2>1. ~ (j \in 1 .. i - 1)
    BY <1>2 DEF KeptRules
  <2>2. ~ (i \in 1 .. j - 1)
    BY <1>2 DEF KeptRules
  <2>3. i \in Nat \ {0} /\ j \in Nat \ {0}
    BY <1>1
  <2> QED BY <2>1, <2>2, <2>3
<1>3. Range(Cfg.rules) = {Cfg.rules[j] : j \in KeptRules(InForce)}
  BY ParsedRules DEF Range
<1>4. \A j \in KeptRules(InForce) : Cfg.rules[j].name = InForce.rules[j].name
  BY ParsedRules
<1>5. Cfg.rules[i] \in Range(Cfg.rules) /\ Cfg.rules[i].name = n
  BY <1>3, <1>4
<1>6. \A r \in Range(Cfg.rules) : r.name = n => r = Cfg.rules[i]
  BY <1>2, <1>3, <1>4
<1> QED BY <1>5, <1>6 DEF RuleOf

\* A thread rule with a limit has its group, with its own limits.
LEMMA CpuctlOfThread ==
    ASSUME file \in Files, GroupsRight, NEW i \in KeptRules(InForce),
           NEW k \in DOMAIN InForce.rules[i].rules, Cfg.rules[i].thread_rules[k].enable_limit
    PROVE  LET g == <<InForce.rules[i].name, k>>
               t == Cfg.rules[i].thread_rules[k]
               value(v) == IF v = None THEN Inherited ELSE v
           IN /\ g \in DOMAIN groups.cpuctl
              /\ groups.cpuctl[g] = [uclamp_max |-> value(t.uclamp_max),
                                     cpu_share |-> value(t.cpu_share)]
<1> DEFINE r == Cfg.rules[i]
           g == <<r.name, k>>
<1>1. r \in Range(Cfg.rules) /\ k \in DOMAIN r.thread_rules /\ r.name = InForce.rules[i].name
  BY ParsedRules DEF Range
<1>2. requires_cpuctl(Cfg)
  <2>1. r.thread_rules[k] \in Range(r.thread_rules)
    BY <1>1 DEF Range
  <2> QED BY <1>1, <2>1 DEF requires_cpuctl
<1>3. g \in CpuctlGroups(Cfg)
  BY <1>1, <1>2 DEF CpuctlGroups
<1>4. RuleOf(Cfg, r.name) = r
  BY <1>1, RuleByName
<1>5. g[1] = r.name /\ g[2] = k
  OBVIOUS
<1>6. PICK old : groups = InitGroups(Cfg, old)
  BY DEF GroupsRight
<1> HIDE DEF r, g
<1>7. /\ g \in DOMAIN groups.cpuctl
      /\ groups.cpuctl[g]
           = [uclamp_max |-> IF r.thread_rules[k].uclamp_max = None THEN Inherited
                             ELSE r.thread_rules[k].uclamp_max,
              cpu_share |-> IF r.thread_rules[k].cpu_share = None THEN Inherited
                            ELSE r.thread_rules[k].cpu_share]
  BY <1>3, <1>4, <1>5, <1>6 DEF InitGroups, LimitValue
<1> QED BY <1>1, <1>7 DEF r, g

\* A priority is one the parser accepts, or 0.
LEMMA PriorityOfClass ==
    ASSUME NEW pc, NEW s \in States
    PROVE  get_prio_value(Cfg, pc, s) \in (-3 .. 139) \ {99}
<1>1. Cfg.prio = parse_prio(InForce)
  BY ParsedRules
<1>2. CASE pc \in DOMAIN Cfg.prio \ {"", "auto"}
  <2> DEFINE value(v) == IF v \notin {None, Bad} /\ is_valid_prio_value(v) THEN v ELSE 0
             p == InForce.prio[pc]
  <2>1. ASSUME NEW v PROVE value(v) \in (-3 .. 139) \ {99}
    BY DEF is_valid_prio_value
  <2>2. Cfg.prio[pc] = [bg |-> value(p.bg), fg |-> value(p.fg),
                        top |-> value(IF p.touch = None THEN p.top ELSE p.touch)]
    BY <1>1, <1>2 DEF parse_prio
  <2> HIDE DEF value
  <2>3. \E v : Cfg.prio[pc][s] = value(v)
    BY <2>2 DEF States
  <2>4. get_prio_value(Cfg, pc, s) = Cfg.prio[pc][s]
    BY <1>2 DEF get_prio_value
  <2> QED BY <2>1, <2>3, <2>4
<1>3. CASE pc \notin DOMAIN Cfg.prio \ {"", "auto"}
  <2>1. get_prio_value(Cfg, pc, s) = 0
    BY <1>3, Zenon DEF get_prio_value
  <2> QED BY <2>1
<1> QED BY <1>2, <1>3

----------------------------------------------------------------------------
(* Every answer can be carried out.                                        *)

\* An answer with a mask: its cpuset group exists with the mask's CPUs.
LEMMA MaskApplies ==
    ASSUME file \in Files, GroupsRight, NEW q \in Queries, Right(q).mask # ""
    PROVE  LET m == Right(q).mask
           IN /\ m \in DOMAIN groups.cpuset
              /\ groups.cpuset[m] = get_cpus_for_affinity(Cfg, Right(q).ac, Right(q).state)
              /\ groups.cpuset[m] = {c \in InForce.cpumask[m] : c >= 0 /\ c < CPU_SETSIZE}
              /\ groups.cpuset[m] # {}
<1> DEFINE m == Right(q).mask
           s == Right(q).state
           i == First(q)
           k == FirstOf(q)
<1>1. q.proc # Dead /\ Contenders(q) # {}
  <2>1. Unmatched(q).mask = ""
    BY DEF Unmatched
  <2> QED BY <2>1, NoRule
<1>2. ThreadContenders(i, q) # {}
  BY <1>1, OfNoThread
<1>3. m = get_cpumask_name_for_affinity(Cfg, Right(q).ac, s) /\ Right(q).ac = ParsedFor(q).ac
  BY <1>1, <1>2, OfThread
<1>4. s \in States
  BY <1>1, StateOfRule
<1>5. m \in DOMAIN Cfg.cpumask
  <2>1. Usable(m)
    BY <1>1, <1>2, MaskOfThread
  <2> QED BY <2>1, MasksOfFile
<1>6. requires_cpuset(Cfg)
  <2>1. i \in KeptRules(InForce) /\ k \in DOMAIN InForce.rules[i].rules
    BY <1>1, <1>2, OfRule, OfThread
  <2>2. /\ i \in DOMAIN Cfg.rules /\ k \in DOMAIN Cfg.rules[i].thread_rules
        /\ Cfg.rules[i].thread_rules[k] = ParsedFor(q)
    BY <2>1, ParsedRules DEF ParsedFor, RuleText
  <2>3. Cfg.rules[i] \in Range(Cfg.rules)
        /\ Cfg.rules[i].thread_rules[k] \in Range(Cfg.rules[i].thread_rules)
    BY <2>2 DEF Range
  <2>4. get_cpumask_name_for_affinity(Cfg, Cfg.rules[i].thread_rules[k].ac, s) # ""
    BY <1>3, <2>2
  <2> HIDE DEF i, k, s
  <2> QED BY <1>4, <2>3, <2>4 DEF requires_cpuset
<1>7. m \in DOMAIN groups.cpuset /\ groups.cpuset[m] = Cfg.cpumask[m]
  BY <1>5, <1>6, CpusetOfMask
<1>8. get_cpus_for_affinity(Cfg, Right(q).ac, s) = Cfg.cpumask[m]
  BY <1>3, <1>5 DEF get_cpus_for_affinity
<1>9. Cfg.cpumask[m] = {c \in InForce.cpumask[m] : c >= 0 /\ c < CPU_SETSIZE}
      /\ Cfg.cpumask[m] # {}
  BY <1>5, MasksOfFile
<1> QED BY <1>7, <1>8, <1>9

\* The limits the file gives a thread rule, as its group has them.
LimitsOf(t) ==
    [uclamp_max |-> IF t.uclamp_max \in 0 .. 100 THEN t.uclamp_max ELSE Inherited,
     cpu_share |-> IF t.cpu_share \in 0 .. 1024 THEN t.cpu_share ELSE Inherited]

\* An answer with a limit: its group exists, with the limits of the rule.
LEMMA LimitApplies ==
    ASSUME file \in Files, GroupsRight, NEW q \in Queries, Right(q).enable_limit
    PROVE  LET g == <<Right(q).rule, Right(q).index>>
           IN /\ g \in DOMAIN groups.cpuctl
              /\ groups.cpuctl[g] = LimitsOf(InForce.rules[First(q)].rules[Right(q).index])
<1> DEFINE i == First(q)
           k == FirstOf(q)
           t == RuleText(q)
           u == ParsedFor(q)
           g == <<InForce.rules[i].name, k>>
<1>1. q.proc # Dead /\ Contenders(q) # {}
  <2>1. Unmatched(q).enable_limit = FALSE
    BY DEF Unmatched
  <2>2. Right(q) # Unmatched(q)
    BY <2>1, Zenon
  <2> QED BY <2>2, NoRule
<1>2. ThreadContenders(i, q) # {}
  BY <1>1, OfNoThread
<1>3. /\ i \in KeptRules(InForce) /\ Right(q).rule = InForce.rules[i].name
      /\ k \in DOMAIN InForce.rules[i].rules /\ Right(q).index = k
      /\ Right(q).enable_limit = u.enable_limit
  BY <1>1, <1>2, OfRule, OfThread
<1>4. Cfg.rules[i].thread_rules[k] = u /\ t = InForce.rules[i].rules[k]
  BY <1>3, ParsedRules DEF ParsedFor, RuleText
<1>5. Cfg.rules[i].thread_rules[k].enable_limit
  BY <1>3, <1>4, Zenon
<1>6. /\ u.uclamp_max = IF t.uclamp_max \in 0 .. 100 THEN t.uclamp_max ELSE None
      /\ u.cpu_share = IF t.cpu_share \in 0 .. 1024 THEN t.cpu_share ELSE None
  BY DEF ParsedFor, ParsedThread
<1>7. None \notin 0 .. 100 /\ None \notin 0 .. 1024
  <2>1. None \notin 0 .. 1024
    BY FileAssumption, Zenon
  <2> QED BY <2>1
<1> HIDE DEF i, k, t, u
<1>8. /\ g \in DOMAIN groups.cpuctl
      /\ groups.cpuctl[g] = [uclamp_max |-> IF u.uclamp_max = None THEN Inherited ELSE u.uclamp_max,
                             cpu_share |-> IF u.cpu_share = None THEN Inherited ELSE u.cpu_share]
  BY <1>3, <1>4, <1>5, CpuctlOfThread
<1>9. groups.cpuctl[g] = LimitsOf(t)
  BY <1>6, <1>7, <1>8 DEF LimitsOf
<1>10. g = <<Right(q).rule, Right(q).index>> /\ t = InForce.rules[First(q)].rules[Right(q).index]
  BY <1>3, <1>4 DEF i
<1> HIDE DEF g
<1> QED BY <1>8, <1>9, <1>10

LEMMA StateOfAnswer ==
    ASSUME file \in Files, NEW q \in Queries PROVE Right(q).state \in States
<1>1. CASE q.proc = Dead \/ Contenders(q) = {}
  <2>1. Unmatched(q).state = q.state /\ q.state \in States
    BY MatcherAssumption DEF Unmatched
  <2> QED BY <1>1, <2>1, NoRule
<1>2. CASE ~ (q.proc = Dead \/ Contenders(q) = {})
  BY <1>2, StateOfRule
<1> QED BY <1>1, <1>2

LEMMA ApplicableFromInv == IInv => AnswerApplicable
<1> SUFFICES ASSUME IInv, NEW a \in Askers, ask[a].pc = "done"
             PROVE  LET r == ask[a].res
                        t == InForce.rules[Min(Contenders(ask[a].q))].rules[r.index]
                        limit(v, top) == IF v \in 0 .. top THEN v ELSE Inherited
                    IN /\ r.mask # "" =>
                            /\ r.mask \in DOMAIN groups.cpuset
                            /\ groups.cpuset[r.mask] = get_cpus_for_affinity(Cfg, r.ac, r.state)
                            /\ groups.cpuset[r.mask] = {c \in InForce.cpumask[r.mask] :
                                                          c >= 0 /\ c < CPU_SETSIZE}
                            /\ groups.cpuset[r.mask] # {}
                       /\ r.enable_limit =>
                            /\ <<r.rule, r.index>> \in DOMAIN groups.cpuctl
                            /\ groups.cpuctl[<<r.rule, r.index>>] =
                                 [uclamp_max |-> limit(t.uclamp_max, 100),
                                  cpu_share |-> limit(t.cpu_share, 1024)]
                       /\ get_prio_value(Cfg, r.pc, r.state) \in (-3 .. 139) \ {99}
  BY Zenon DEF AnswerApplicable, Cfg, InForce
<1> DEFINE q == ask[a].q
           r == ask[a].res
           m == r.mask
           g == <<r.rule, r.index>>
<1>1. file \in Files /\ GroupsRight /\ q \in Queries /\ r = Right(q)
  BY DEF IInv, TypeOK, AskRight
<1> HIDE DEF q, r
<1>2. get_prio_value(Cfg, r.pc, r.state) \in (-3 .. 139) \ {99}
  <2>1. r.state \in States
    BY <1>1, StateOfAnswer
  <2> QED BY <2>1, PriorityOfClass
<1>3. ASSUME m # ""
      PROVE  /\ m \in DOMAIN groups.cpuset
             /\ groups.cpuset[m] = get_cpus_for_affinity(Cfg, r.ac, r.state)
             /\ groups.cpuset[m] = {c \in InForce.cpumask[m] : c >= 0 /\ c < CPU_SETSIZE}
             /\ groups.cpuset[m] # {}
  BY <1>1, <1>3, MaskApplies
<1>4. ASSUME r.enable_limit
      PROVE  /\ g \in DOMAIN groups.cpuctl
             /\ groups.cpuctl[g] = LimitsOf(InForce.rules[First(q)].rules[r.index])
  BY <1>1, <1>4, LimitApplies
<1> QED BY <1>2, <1>3, <1>4, Zenon DEF q, r, First, LimitsOf

----------------------------------------------------------------------------

\* An answer of match_impl, computed or from the cache, is the one the file in
\* force asks for, whatever was asked, stored, evicted or reloaded before.
THEOREM AnswersAreRight == Spec => []AnswerRight
BY RightFromInv, MatcherInvariant, PTL

\* The groups an answer names exist with the values of its own rule, and its
\* priority is one set_priority accepts, after any number of reloads.
THEOREM AnswersAreApplicable == Spec => []AnswerApplicable
BY ApplicableFromInv, MatcherInvariant, PTL

============================================================================
