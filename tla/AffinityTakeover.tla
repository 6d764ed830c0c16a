-------------------------- MODULE AffinityTakeover -------------------------
(***************************************************************************)
(* What the takeover of a thread's affinity mask and cpuset promises,      *)
(* whatever steps it takes.                                                *)
(*                                                                         *)
(* A takeover is about one thread (owner, its start time) but its calls    *)
(* reach whichever thread has the TID.  It may change the thread only      *)
(* once after each identity check, writes nothing but the target values    *)
(* or the top-app parent group, and reports success only if it has read    *)
(* both attributes back as the target's since its last change.             *)
(***************************************************************************)
EXTENDS Naturals

CONSTANTS
    GroupCpus    \* the CPUs of each cpuset; "target" and "parent" are two

VARIABLES
    id,          \* start time of the thread that has the TID, 0 if none
    cset, mask,  \* its cpuset and its affinity mask
    owner,       \* the thread the takeover is about, 0 when none is running
    fresh,       \* its identity was checked and nothing changed since
    landed,      \* calls of this takeover that took effect
    strays,      \* those that reached another thread
    seen,        \* attributes read back as wanted since the last change
    outcome      \* what the last takeover reported

vars == <<id, cset, mask, owner, fresh, landed, strays, seen, outcome>>
thread == <<id, cset, mask>>
Expected == GroupCpus["target"]

Init ==
    /\ id \in Nat
    /\ cset \in DOMAIN GroupCpus /\ mask \subseteq GroupCpus[cset]
    /\ owner = 0 /\ fresh = FALSE /\ landed = 0 /\ strays = 0
    /\ seen = {} /\ outcome = "none"

\* Threads come and go, and Android moves them.
System ==
    /\ thread' # thread
    /\ UNCHANGED <<owner, fresh, landed, strays, seen, outcome>>

Begin ==
    /\ owner = 0 /\ id # 0
    /\ owner' = id
    /\ fresh' = FALSE /\ landed' = 0 /\ strays' = 0 /\ seen' = {} /\ outcome' = "none"
    /\ UNCHANGED thread

Check ==
    /\ owner # 0 /\ id = owner
    /\ fresh' = TRUE
    /\ UNCHANGED <<thread, owner, landed, strays, seen, outcome>>

\* A call that takes effect: the mask becomes the target's within the
\* cpuset, or the thread moves to the target or to its parent.
Change ==
    /\ owner # 0 /\ fresh /\ id # 0
    /\ \/ cset' = cset /\ mask' = Expected \cap GroupCpus[cset]
       \/ cset' \in {"target", "parent"} /\ mask' \subseteq GroupCpus[cset']
    /\ fresh' = FALSE /\ seen' = {}
    /\ landed' = landed + 1
    /\ strays' = IF id = owner THEN strays ELSE strays + 1
    /\ UNCHANGED <<id, owner, outcome>>

\* The check is used up without an effect, or what was seen is dropped.
Lapse ==
    /\ owner # 0
    /\ fresh' = FALSE
    /\ seen' \in {seen, {}}
    /\ UNCHANGED <<thread, owner, landed, strays, outcome>>

Observe ==
    /\ owner # 0
    /\ \/ cset = "target" /\ seen' = seen \cup {"cset"}
       \/ mask = Expected /\ seen' = seen \cup {"mask"}
    /\ fresh' = FALSE
    /\ UNCHANGED <<thread, owner, landed, strays, outcome>>

Report ==
    /\ owner # 0
    /\ outcome' = IF seen = {"cset", "mask"} THEN "success" ELSE "failure"
    /\ owner' = 0 /\ fresh' = FALSE /\ seen' = {}
    /\ UNCHANGED <<thread, landed, strays>>

Next == System \/ Begin \/ Check \/ Change \/ Lapse \/ Observe \/ Report

Spec == Init /\ [][Next]_vars
============================================================================
