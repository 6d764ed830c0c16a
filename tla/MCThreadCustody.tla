-------------------------- MODULE MCThreadCustody --------------------------
(***************************************************************************)
(* Small instances of ThreadCustody for TLC.  Three rules are enough to    *)
(* take every path: Big manages affinity and priority, Lim manages         *)
(* priority and the cpuctl limit, Off manages nothing; moving a thread     *)
(* from one to another removes, keeps and adds dimensions.                 *)
(***************************************************************************)
EXTENDS ThreadCustody

CONSTANTS t1, t2, p1, p2, w1, w2, Big, Lim, Off, c1, c2

RuleNeeds == [r \in {Big, Lim, Off} |->
                CASE r = Big -> {"affinity", "priority"}
                  [] r = Lim -> {"priority", "cpuctl"}
                  [] OTHER -> {}]

\* The second configuration manages only the limit of what the first one
\* manages, and leaves the rest alone.
RuleMatch == [c \in Configs |-> [l \in Labels |->
                IF c = c1 THEN (CASE l = "top" -> Big [] l = "fg" -> Lim [] OTHER -> Off)
                ELSE (IF l = "top" THEN Lim ELSE Off)]]

\* Two identities of one key hash to different workers.
ByStart == [x \in Threads \X Starts |-> IF x[2] % 2 = 1 THEN w1 ELSE w2]

\* One worker, several threads.
OneWorker == [x \in Threads \X Starts |-> w1]

\* Two threads of one process; two processes.
OneProcess == [t \in Threads |-> p1]
TwoProcesses == [t \in Threads |-> IF t = t1 THEN p1 ELSE p2]

\* What a capture may fail to read: nothing; the cpuctl path; all but the
\* scheduler and the cpuctl path.
AllRead == {{}}
SomeUnread == {{}, {"group"}}
FewRead == {{"mask", "cset"}}
============================================================================
