---------------------------- MODULE MatcherCache ----------------------------
(***************************************************************************)
(* ThreadMatcher at work: several threads (workers, the main loop, the     *)
(* event handler) ask one matcher, which keeps its answers in a bucket of  *)
(* bounded size for a limited time, while reloads replace the matcher and  *)
(* the control groups its answers refer to.                                *)
(*                                                                         *)
(* A step is a critical section of the bucket's mutex (the look-up, and    *)
(* the storing of an answer) or the match that is computed between them,   *)
(* which ends with the reading of the clock that stamps the answer.  A     *)
(* time stamp is kept as its age; ages stop at the TTL, beyond which the   *)
(* code tells no two apart.  The key's text is taken to identify its parts:*)
(* no name contains the separator "#|#".                                   *)
(***************************************************************************)
EXTENDS RuleMatch

CONSTANTS
    Askers,        \* threads that call match and match_process_only
    Files,         \* configuration files that get loaded
    Content,       \* what each of them says
    Queries,       \* what is asked
    kMaxProcessCacheEntriesPerBucket

ASSUME MatcherAssumption ==
    /\ CPU_SETSIZE \in Nat
    /\ kMaxProcessCacheEntriesPerBucket \in Nat \ {0}
    /\ \A q \in Queries : q.state \in States /\ q.main \in BOOLEAN

\* What JSON makes of a file: rules come in a list, a CPU is a number, and a
\* mask has a name, which is not the empty one if it is to be a directory.
ASSUME FileAssumption ==
    /\ "" \in UnsafeNames /\ None \notin 0 .. 1024
    /\ \A f \in Files : LET c == Content[f] IN
         /\ c.process_cache_ttl_ms \in Nat
         /\ \A m \in DOMAIN c.cpumask : m \notin {None, Bad} /\ c.cpumask[m] \subseteq Int
         /\ DOMAIN c.rules \subseteq Nat \ {0}
         /\ \A i \in DOMAIN c.rules : DOMAIN c.rules[i].rules \subseteq Nat \ {0}

VARIABLES
    file,     \* the file in force: matcher and groups are made from it
    groups,   \* the control groups that exist, with their values
    cache,    \* the bucket: for each key that has an entry, answer and age
    ask       \* what each asker is doing: its query, its answer and the answer's age

vars == <<file, groups, cache, ask>>

\* process_cache_ttl_ms of the configuration in force, as parse_timing has
\* bounded it; it may be zero.
TTL == Content[file].process_cache_ttl_ms
Fresh(e) == e.age < TTL

Idle == [pc |-> "idle", q |-> None, res |-> None, age |-> 0]
NoGroups == [cpuset |-> [m \in {} |-> {}], cpuctl |-> [g \in {} |-> {}]]

Init ==
    /\ file \in Files
    /\ groups = InitGroups(Parse(Content[file]), NoGroups)
    /\ cache = [k \in {} |-> None]
    /\ ask = [a \in Askers |-> Idle]

\* MUTANT: the process state is not part of the key.
Key_NoState(q) == <<q.proc, q.thread, q.cmdline, q.main>>

Key(q) == <<q.proc, q.thread, q.cmdline, q.state, q.main>>

Erase(k) == cache' = [x \in DOMAIN cache \ {k} |-> cache[x]]

Becomes(a, pc, q, r) ==
    ask' = [ask EXCEPT ![a] = [pc |-> pc, q |-> q, res |-> r, age |-> 0]]

\* The process was gone when its name was read.
AskDead(a, q) ==
    /\ ask[a].pc = "idle" /\ q.proc = Dead
    /\ Erase(Key(q))
    /\ Becomes(a, "done", q, Unmatched(q))
    /\ UNCHANGED <<file, groups>>

\* get_cached_process_result: a fresh entry answers.
Hit(a, q) ==
    /\ ask[a].pc = "idle" /\ q.proc # Dead
    /\ Key(q) \in DOMAIN cache /\ Fresh(cache[Key(q)])
    /\ Becomes(a, "done", q, cache[Key(q)].res)
    /\ UNCHANGED <<file, groups, cache>>

\* Otherwise an expired entry is erased.
Miss(a, q) ==
    /\ ask[a].pc = "idle" /\ q.proc # Dead
    /\ ~ (Key(q) \in DOMAIN cache /\ Fresh(cache[Key(q)]))
    /\ Erase(Key(q))
    /\ Becomes(a, "compute", q, None)
    /\ UNCHANGED <<file, groups>>

\* The match.  What matches no rule is not stored.
Compute(a) ==
    /\ ask[a].pc = "compute"
    /\ LET q == ask[a].q
           r == Match(Parse(Content[file]), q)
       IN Becomes(a, IF r.rule \in {None, ""} THEN "done" ELSE "store", q, r)
    /\ UNCHANGED <<file, groups, cache>>

\* MUTANT: an entry is evicted only when the bucket is over its limit.
Evictions_OneMore(k, keys) ==
    IF k \notin keys /\ Cardinality(keys) > kMaxProcessCacheEntriesPerBucket
    THEN {{x} : x \in {y \in keys : \A z \in keys : cache[z].age <= cache[y].age}}
    ELSE {{}}

\* What may make room for k: an oldest entry, if k is new and the bucket full.
Evictions(k, keys) ==
    IF k \notin keys /\ Cardinality(keys) >= kMaxProcessCacheEntriesPerBucket
    THEN {{x} : x \in {y \in keys : \A z \in keys : cache[z].age <= cache[y].age}}
    ELSE {{}}

\* cache_process_result: expired entries are swept, room is made, and the
\* entry is written with the stamp it got before the lock, be it new or not.
Store(a) ==
    /\ ask[a].pc = "store"
    /\ LET k == Key(ask[a].q)
           swept == {x \in DOMAIN cache : Fresh(cache[x])}
       IN \E out \in Evictions(k, swept) :
            cache' = [x \in (swept \ out) \cup {k} |->
                        IF x = k THEN [res |-> ask[a].res, age |-> ask[a].age] ELSE cache[x]]
    /\ Becomes(a, "done", ask[a].q, ask[a].res)
    /\ UNCHANGED <<file, groups>>

\* The answer has been used.
Return(a) ==
    /\ ask[a].pc = "done"
    /\ ask' = [ask EXCEPT ![a] = Idle]
    /\ UNCHANGED <<file, groups, cache>>

\* A unit of time passes, for the entries and for the stamps of answers that
\* wait for the lock.
TimePasses ==
    LET older(n) == IF n < TTL THEN n + 1 ELSE n
    IN /\ cache' = [k \in DOMAIN cache |->
                      [res |-> cache[k].res, age |-> older(cache[k].age)]]
       /\ ask' = [a \in Askers |->
                    [pc |-> ask[a].pc, q |-> ask[a].q, res |-> ask[a].res,
                     age |-> IF ask[a].pc = "store" THEN older(ask[a].age) ELSE ask[a].age]]
       /\ UNCHANGED <<file, groups>>

\* A reload that succeeds: the groups are initialised for the new file and a
\* new matcher replaces the old one, all while the workers are stopped.
Reload(f) ==
    /\ \A a \in Askers : ask[a].pc = "idle"
    /\ f # file
    /\ file' = f
    /\ groups' = InitGroups(Parse(Content[f]), groups)
    /\ cache' = [k \in {} |-> None]
    /\ UNCHANGED ask

Next ==
    \/ \E a \in Askers, q \in Queries : AskDead(a, q) \/ Hit(a, q) \/ Miss(a, q)
    \/ \E a \in Askers : Compute(a) \/ Store(a) \/ Return(a)
    \/ TimePasses
    \/ \E f \in Files : Reload(f)

Spec == Init /\ [][Next]_vars

----------------------------------------------------------------------------

\* The bucket never holds more entries than its limit, whichever askers store
\* at the same time, and no age runs past the TTL (thread_matcher.hpp,
\* cache_process_result).
TypeOK ==
    /\ file \in Files
    /\ IsFiniteSet(DOMAIN cache)
    /\ Cardinality(DOMAIN cache) <= kMaxProcessCacheEntriesPerBucket
    /\ \A k \in DOMAIN cache : cache[k].age \in 0 .. TTL
    /\ DOMAIN ask = Askers
    /\ \A a \in Askers : /\ ask[a].pc \in {"idle", "compute", "store", "done"}
                         /\ ask[a].pc # "idle" => ask[a].q \in Queries
                         /\ ask[a].age \in 0 .. TTL

\* The rules of the file that can match at all, and match q.
InForce == Content[file]
Contenders(q) == {i \in KeptRules(InForce) : /\ InForce.rules[i].regex \in DOMAIN Language
                                           /\ MatchesProcess(InForce.rules[i], q)}
ThreadContenders(i, q) ==
    {k \in DOMAIN InForce.rules[i].rules :
       LET t == ParsedThread(InForce.rules[i].rules[k], <<>>, <<>>)
       IN (IsMainRule(t) \/ t.k \in DOMAIN Language) /\ MatchesThread(t, q)}

\* An answer, fresh or from the cache, is the one the file in force asks for
\* in the words of the user's file: the first rule that matches, its first
\* thread rule that does, the mask its class names for the state the rule
\* gives the process, none if that mask has no CPU.  Nothing of another
\* state, thread, process or of an earlier file is left in it
\* (thread_matcher.hpp, match_impl).
AnswerRight ==
    \A a \in Askers : ask[a].pc = "done" =>
      LET q == ask[a].q
          r == ask[a].res
          i == Min(Contenders(q))
          rule == InForce.rules[i]
          k == Min(ThreadContenders(i, q))
          ac == rule.rules[k].ac
          scene == InForce.affinity[ac]
          m == IF r.state = "top" /\ scene.touch \notin {None, Bad} THEN scene.touch
               ELSE scene[r.state]
          named == /\ ThreadContenders(i, q) # {}
                   /\ ac \in DOMAIN InForce.affinity \ {"", "auto"}
                   /\ m \in DOMAIN InForce.cpumask \ UnsafeNames
                   /\ \E c \in InForce.cpumask[m] : c >= 0 /\ c < CPU_SETSIZE
      IN IF q.proc = Dead \/ Contenders(q) = {}
         THEN r.rule = None /\ r.mask = "" /\ ~r.enable_limit
         ELSE /\ r.rule = rule.name
              /\ r.state = IF rule.pinned THEN "top"
                           ELSE IF rule.topfore THEN (IF q.state = "bg" THEN "bg" ELSE "top")
                           ELSE q.state
              /\ IF ThreadContenders(i, q) = {} THEN r.index = 0 /\ ~r.enable_limit
                 ELSE r.index = k /\ r.enable_limit = rule.rules[k].enable_limit
              /\ r.mask = IF named THEN m ELSE ""

\* An answer can be carried out: the cpuset group it names exists and has
\* exactly the CPUs the mask names and the platform knows, at least one; the
\* limit group it names exists and carries the limits of its own thread rule
\* and of no earlier file; the priority is one set_priority accepts
\* (config_parser.hpp, cgroup_init.hpp and the setters agree).
AnswerApplicable ==
    \A a \in Askers : ask[a].pc = "done" =>
      LET r == ask[a].res
          cfg == Parse(Content[file])
          t == InForce.rules[Min(Contenders(ask[a].q))].rules[r.index]
          limit(v, top) == IF v \in 0 .. top THEN v ELSE Inherited
      IN /\ r.mask # "" =>
              /\ r.mask \in DOMAIN groups.cpuset
              /\ groups.cpuset[r.mask] = get_cpus_for_affinity(cfg, r.ac, r.state)
              /\ groups.cpuset[r.mask] = {c \in InForce.cpumask[r.mask] :
                                            c >= 0 /\ c < CPU_SETSIZE}
              /\ groups.cpuset[r.mask] # {}
         /\ r.enable_limit =>
              /\ <<r.rule, r.index>> \in DOMAIN groups.cpuctl
              /\ groups.cpuctl[<<r.rule, r.index>>] =
                   [uclamp_max |-> limit(t.uclamp_max, 100),
                    cpu_share |-> limit(t.cpu_share, 1024)]
         /\ get_prio_value(cfg, r.pc, r.state) \in (-3 .. 139) \ {99}
=============================================================================
