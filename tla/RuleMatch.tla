------------------------------ MODULE RuleMatch ------------------------------
(***************************************************************************)
(* From the configuration file to the match result of a thread: what       *)
(* ConfigParser keeps of a file, what ThreadMatcher compiles of that, which*)
(* rule a thread gets, and what CgroupInitializer writes for the rules.    *)
(* These are pure functions; MatcherCache is the machine that runs them.   *)
(*                                                                         *)
(* A file is a record of the fields the parser reads.  None is a field     *)
(* that is missing, Bad one of the wrong JSON type.  A list of rules is a  *)
(* function on their places in the file: a rule that is dropped leaves a   *)
(* gap, and the order of the places is the order in which the code's loops *)
(* push the others back and later search them.  A regular expression       *)
(* is an element of the file; Language gives the names it is found in, and *)
(* has no entry for one that does not compile or is too long.  Text macros *)
(* and the (?i) prefix are settled by Language, /MAIN_THREAD/ excepted.    *)
(*                                                                         *)
(* A number of the file is what get<int>() makes of it: one beyond the     *)
(* range of int is narrowed before the parser's range checks see it, and   *)
(* may pass them as another number.                                        *)
(***************************************************************************)
EXTENDS Integers, FiniteSets, FiniteSetsExt

CONSTANTS
    CPU_SETSIZE,   \* CPU numbers are below it
    Language,      \* for each regular expression that compiles, what it matches
    UnsafeNames,   \* names that cannot be a directory
    Dead,          \* the name of a process that is gone
    None, Bad,
    Inherited      \* the value of a limit in the parent group

States == {"bg", "fg", "top"}

----------------------------------------------------------------------------
(* ConfigParser: names stand for parse_..., fields for SchedConfig.        *)

is_safe_cgroup_component(n) == n \notin UnsafeNames

parse_cpumask(file) ==
    LET valid(n) == file.cpumask[n] \cap (0 .. CPU_SETSIZE - 1)
    IN [n \in {m \in DOMAIN file.cpumask : is_safe_cgroup_component(m) /\ valid(m) # {}}
          |-> valid(n)]

\* A string, or the empty one.
Text(v) == IF v \in {None, Bad} THEN "" ELSE v

\* validate_affinity_mask included: a mask that is not there disables the
\* state.
parse_affinity(file, masks) ==
    LET scene(s) == [bg |-> Text(s.bg), fg |-> Text(s.fg),
                     top |-> IF s.touch \in {None, Bad} THEN Text(s.top) ELSE s.touch]
        known(m) == IF m \in DOMAIN masks THEN m ELSE ""
    IN [c \in DOMAIN file.affinity |->
          [s \in States |-> known(scene(file.affinity[c])[s])]]

is_valid_prio_value(v) == v \in (0 .. 98) \cup (100 .. 139) \cup {-1, -2, -3}

\* Unlike an affinity's, a touch value that is there but invalid wins over
\* the top value.
parse_prio(file) ==
    LET value(v) == IF v \notin {None, Bad} /\ is_valid_prio_value(v) THEN v ELSE 0
    IN [c \in DOMAIN file.prio |->
          LET s == file.prio[c]
          IN [bg |-> value(s.bg), fg |-> value(s.fg),
              top |-> value(IF s.touch = None THEN s.top ELSE s.touch)]]

\* A class that is not there, or a limit out of range, counts as not given.
ParsedThread(t, affinity, prio) ==
    LET class(c, table) == IF c \in DOMAIN table \cup {""} THEN c ELSE "auto"
        within(v, top) == IF v \in 0 .. top THEN v ELSE None
    IN [k |-> IF t.k \in {None, Bad} THEN "." ELSE t.k,
        ac |-> class(t.ac, affinity), pc |-> class(t.pc, prio),
        uclamp_max |-> within(t.uclamp_max, 100), cpu_share |-> within(t.cpu_share, 1024),
        enable_limit |-> t.enable_limit]

\* The rules that are kept, by their place in the file.  A name is taken by
\* the first rule that has it, even if that one is dropped for its regex.
KeptRules(file) ==
    {i \in DOMAIN file.rules :
       /\ is_safe_cgroup_component(file.rules[i].name)
       /\ \A j \in 1 .. i - 1 : file.rules[j].name # file.rules[i].name
       /\ file.rules[i].regex \notin {None, Bad, ""}}

parse_rules(file, affinity, prio) ==
    [i \in KeptRules(file) |->
       [name |-> file.rules[i].name, regex |-> file.rules[i].regex,
        pinned |-> file.rules[i].pinned, topfore |-> file.rules[i].topfore,
        thread_rules |-> [k \in DOMAIN file.rules[i].rules |->
                            ParsedThread(file.rules[i].rules[k], affinity, prio)]]]

\* parse_sched and validate_references.
Parse(file) ==
    LET masks == parse_cpumask(file)
        affinity == parse_affinity(file, masks)
        prio == parse_prio(file)
    IN [cpumask |-> masks, affinity |-> affinity, prio |-> prio,
        rules |-> parse_rules(file, affinity, prio)]

----------------------------------------------------------------------------
(* ThreadMatcher.  A query is what a task says of its thread.              *)

IsMainRule(t) == t.k = "/MAIN_THREAD/"

\* One process rule with the thread rules that compile.  Their places are
\* source_rule_index (counted from one, as the groups are).
Compiled(r) ==
    [rule |-> r,
     threads |-> [k \in {j \in DOMAIN r.thread_rules :
                           IsMainRule(r.thread_rules[j]) \/ r.thread_rules[j].k \in DOMAIN Language}
                    |-> r.thread_rules[k]]]

\* The constructor: the process rules that compile.
Compile(cfg) ==
    [i \in {j \in DOMAIN cfg.rules : cfg.rules[j].regex \in DOMAIN Language}
       |-> Compiled(cfg.rules[i])]

\* A process without a command line (a kernel thread) is known by its name.
MatchesProcess(r, q) ==
    ({q.proc} \cup ({q.cmdline} \ {""})) \cap Language[r.regex] # {}
MatchesThread(t, q) == IF IsMainRule(t) THEN q.main ELSE q.thread \in Language[t.k]

EffectiveState(r, s) ==
    IF r.pinned \/ (r.topfore /\ s = "fg") THEN "top" ELSE s

get_cpumask_name_for_affinity(cfg, ac, s) ==
    IF ac \in DOMAIN cfg.affinity \ {"", "auto"} THEN cfg.affinity[ac][s] ELSE ""

get_cpus_for_affinity(cfg, ac, s) ==
    LET m == get_cpumask_name_for_affinity(cfg, ac, s)
    IN IF m \in DOMAIN cfg.cpumask THEN cfg.cpumask[m] ELSE {}

get_prio_value(cfg, pc, s) ==
    IF pc \in DOMAIN cfg.prio \ {"", "auto"} THEN cfg.prio[pc][s] ELSE 0

\* What a result says while no thread rule, or no rule at all, has matched.
NoThreadRule == [ac |-> "", pc |-> "", uclamp_max |-> None, cpu_share |-> None,
                 enable_limit |-> FALSE]
Unmatched(q) == [rule |-> None, state |-> q.state, ac |-> "", pc |-> "", mask |-> "",
                 uclamp_max |-> None, cpu_share |-> None, enable_limit |-> FALSE,
                 index |-> 0, pinned |-> FALSE, topfore |-> FALSE]

\* The process rules a query matches, and in one of them the thread rules.
MatchingRules(rules, q) == {i \in DOMAIN rules : MatchesProcess(rules[i].rule, q)}
MatchingThreads(r, q) == {k \in DOMAIN r.threads : MatchesThread(r.threads[k], q)}

\* match_impl without its cache: the first process rule, and in it the
\* first thread rule.
Match(cfg, q) ==
    LET rules == Compile(cfg)
        candidates == MatchingRules(rules, q)
        r == rules[Min(candidates)]
        places == MatchingThreads(r, q)
        t == IF places = {} THEN NoThreadRule ELSE r.threads[Min(places)]
        s == EffectiveState(r.rule, q.state)
    IN IF q.proc = Dead \/ candidates = {} THEN Unmatched(q)
       ELSE [rule |-> r.rule.name, state |-> s, ac |-> t.ac, pc |-> t.pc,
             mask |-> get_cpumask_name_for_affinity(cfg, t.ac, s),
             uclamp_max |-> t.uclamp_max, cpu_share |-> t.cpu_share,
             enable_limit |-> t.enable_limit,
             index |-> IF places = {} THEN 0 ELSE Min(places),
             pinned |-> r.rule.pinned, topfore |-> r.rule.topfore]

----------------------------------------------------------------------------
(* CgroupInitializer: the values it writes.                                *)

\* CpuMask::to_string, and the kernel's reading of it: maximal runs, each
\* written as its first and its last CPU.
Ranges(cpus) ==
    {x \in cpus \X cpus : /\ x[1] <= x[2] /\ x[1] .. x[2] \subseteq cpus
                         /\ x[1] - 1 \notin cpus /\ x[2] + 1 \notin cpus}
ReadRanges(ranges) == UNION {x[1] .. x[2] : x \in ranges}

requires_cpuset(cfg) ==
    \E r \in Range(cfg.rules) : \E t \in Range(r.thread_rules) :
      \E s \in States : get_cpumask_name_for_affinity(cfg, t.ac, s) # ""

requires_cpuctl(cfg) ==
    \E r \in Range(cfg.rules) : \E t \in Range(r.thread_rules) : t.enable_limit

\* init_cpuset: one group per mask, if any rule needs one.
CpusetGroups(cfg) ==
    [m \in (IF requires_cpuset(cfg) THEN DOMAIN cfg.cpumask ELSE {}) |->
       ReadRanges(Ranges(cfg.cpumask[m]))]

\* MUTANT: a limit that is not configured is not written.
LimitValue_Unwritten(configured, old) == IF configured = None THEN old ELSE configured

\* write_optional_limit: a limit that is not configured is written too, as
\* the value of the parent, which nobody sets (Inherited).
LimitValue(configured, old) == IF configured = None THEN Inherited ELSE configured

\* init_cpuctl: one group A<n> for each thread rule with a limit.
CpuctlGroups(cfg) ==
    LET limited(r) == {i \in DOMAIN r.thread_rules : r.thread_rules[i].enable_limit}
    IN IF requires_cpuctl(cfg)
       THEN UNION {{<<r.name, k>> : k \in limited(r)} : r \in Range(cfg.rules)} ELSE {}

RuleOf(cfg, name) == CHOOSE r \in Range(cfg.rules) : r.name = name

\* The groups once init has succeeded: the ones of this configuration with
\* its values, and stale ones of earlier configurations as they were.
InitGroups(cfg, old) ==
    LET cpu == CpusetGroups(cfg)
        lim == CpuctlGroups(cfg)
        limits(g) == LET t == RuleOf(cfg, g[1]).thread_rules[g[2]]
                         was == IF g \in DOMAIN old.cpuctl THEN old.cpuctl[g]
                                ELSE [uclamp_max |-> Inherited, cpu_share |-> Inherited]
                     IN [uclamp_max |-> LimitValue(t.uclamp_max, was.uclamp_max),
                         cpu_share |-> LimitValue(t.cpu_share, was.cpu_share)]
    IN [cpuset |-> [m \in DOMAIN cpu \cup DOMAIN old.cpuset |->
                      IF m \in DOMAIN cpu THEN cpu[m] ELSE old.cpuset[m]],
        cpuctl |-> [g \in lim \cup DOMAIN old.cpuctl |->
                      IF g \in lim THEN limits(g) ELSE old.cpuctl[g]]]
=============================================================================
