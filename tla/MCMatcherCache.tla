--------------------------- MODULE MCMatcherCache ---------------------------
(***************************************************************************)
(* Three files that take every branch of the parser: masks that are empty  *)
(* or reach past the last CPU, classes that do not exist, the touch fields,*)
(* priorities at the ends of their ranges, limits out of range, names that *)
(* are unsafe or taken, and expressions that do not compile.               *)
(***************************************************************************)
EXTENDS MatcherCache, Sequences, TLC

CONSTANTS w1, w2
AskerSymmetry == Permutations({w1, w2})

\* Which of the names below each expression is found in.  "(" does not
\* compile; "launcher" stands for /HOME_PACKAGE/.
Found == [x \in {"app", "launcher", "render", ".", ""} |->
            CASE x = "app" -> {"com.app"}
              [] x = "launcher" -> {"com.home"}
              [] x = "render" -> {"Render"}
              [] OTHER -> {"com.app", "com.home", "Render"}]

Scene(bg, fg, top, touch) == [bg |-> bg, fg |-> fg, top |-> top, touch |-> touch]
Thread(k, ac, pc, uclamp, share, limit) ==
    [k |-> k, ac |-> ac, pc |-> pc, uclamp_max |-> uclamp, cpu_share |-> share,
     enable_limit |-> limit]
Rule(name, regex, pinned, topfore, rules) ==
    [name |-> name, regex |-> regex, pinned |-> pinned, topfore |-> topfore,
     rules |-> rules]

Masks(little) == [m \in {"little", "big", "wide", "none", ".."} |->
                    CASE m = "little" -> little
                      [] m = "big" -> {2, 3, 5}
                      [] m = "wide" -> {1, 8}
                      [] m = "none" -> {-1}
                      [] OTHER -> {0}]
Classes == [c \in {"game", "ui"} |->
              IF c = "game" THEN Scene("little", "big", "wide", None)
              ELSE Scene(Bad, "none", "little", "big")]
Prios == [c \in {"hi", "lo"} |->
            IF c = "hi" THEN Scene(0, 100, 98, 99) ELSE Scene(-3, 139, Bad, None)]

Early ==
    [process_cache_ttl_ms |-> 2,
     cpumask |-> Masks({0, 1, 2}), affinity |-> Classes, prio |-> Prios,
     rules |-> << Rule("a/b", "app", TRUE, FALSE, <<>>),
                  Rule("App", "app", FALSE, TRUE,
                    << Thread("(", "game", "hi", 10, 10, TRUE),
                       Thread("/MAIN_THREAD/", "ui", "hi", 50, 1025, TRUE),
                       Thread("render", "game", "lo", 0, 1024, FALSE) >>),
                  Rule("App", ".", TRUE, FALSE,
                    << Thread(".", "game", None, None, None, FALSE) >>),
                  Rule("Home", "launcher", TRUE, FALSE,
                    << Thread("render", "gone", "gone", None, 512, TRUE),
                       Thread(None, "game", "lo", None, None, FALSE) >>) >>]

\* The limits of one rule are withdrawn, a mask is narrowed, and the rules
\* come in another order.
Late ==
    [Early EXCEPT !.process_cache_ttl_ms = 1, !.cpumask = Masks({0}),
       !.rules = << Rule("Home", "(", FALSE, FALSE,
                      << Thread(".", "ui", None, None, None, FALSE) >>),
                    Rule("Off", None, FALSE, FALSE, <<>>),
                    Rule("Off", "app", FALSE, FALSE,
                      << Thread(".", "game", "hi", 1, 1, TRUE) >>),
                    Rule("App", "app", FALSE, FALSE,
                      << Thread("", "game", "hi", None, None, FALSE),
                         Thread("/MAIN_THREAD/", "game", "hi", 101, 3, TRUE) >>),
                    Rule("All", ".", FALSE, TRUE,
                      << Thread(Bad, "ui", "lo", 100, None, TRUE) >>) >>]

\* No rule needs a cpuset, and no answer outlives its storing.
Plain ==
    [Early EXCEPT !.process_cache_ttl_ms = 0,
       !.rules = << Rule("App", "app", FALSE, FALSE,
                      << Thread("render", "auto", "lo", None, None, FALSE),
                         Thread("/MAIN_THREAD/", None, "hi", None, 0, TRUE) >>) >>]

Written == [early |-> Early, late |-> Late, plain |-> Plain]

Query(proc, thread, cmdline, state) ==
    [proc |-> proc, thread |-> thread, cmdline |-> cmdline, state |-> state,
     main |-> thread = proc]
Asked == {Query("com.app", "com.app", "", s) : s \in States}
         \cup {Query("sh", "Render", "com.app", s) : s \in {"fg", "top"}}
         \cup {Query("com.home", "Render", "", "bg"),
               Query("com.home", "com.home", "", "bg"),
               Query("sh", "sh", "", "bg"), Query("[dead]", "Render", "", "bg")}
=============================================================================
