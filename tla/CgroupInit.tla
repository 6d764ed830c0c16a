----------------------------- MODULE CgroupInit ----------------------------
(***************************************************************************)
(* CgroupInitializer::init as a transaction on control files.              *)
(*                                                                         *)
(* A configuration's groups are visited one after the other, the cpuset    *)
(* groups first.  Each control file is read, to be able to roll it back,   *)
(* and written; a failure is counted and the visit goes on, and at the     *)
(* end either everything is committed or the files already written are     *)
(* put back in reverse order.  Any call may fail, and any step may throw.  *)
(*                                                                         *)
(* Every control file of a group comes with its directory: a kernel that   *)
(* lacks an optional one (a limit that is not configured, an exclusive     *)
(* flag), which the code then skips, is left out.                          *)
(***************************************************************************)
EXTENDS Naturals, Sequences

CONSTANTS
    Groups,      \* control groups ReUperf may create
    Plan,        \* for each configuration, its groups in the order of init
    Kind,        \* "cpuset" or "limit", for each group
    Want,        \* for each configuration and group, the value of each file
    Configs

VARIABLES
    ctl,         \* the control files: their value, "absent" or "empty"
    ipc,         \* where init is: idle, group, write, rollback
    icfg,        \* the configuration it is for
    gi, fi,      \* the group and the file it is at
    ready,       \* group_was_ready
    failed,      \* whether something has failed
    saved,       \* ControlFileTransaction::original_values_
    order,       \* ControlFileTransaction::write_order_
    result,      \* what init returned last
    rolled,      \* history: every rollback write succeeded
    misread,     \* history: groups in use whose readiness could not be read
    before,      \* history: the control files when init began
    faults       \* bound: failures left

tx == <<saved, order>>
vars == <<ctl, ipc, icfg, gi, fi, ready, failed, tx, result, rolled, misread, before, faults>>

CpusetFiles == <<"cpus", "mems", "exclusive">>
LimitFiles == <<"uclamp", "shares">>
FilesOf(g) == IF Kind[g] = "cpuset" THEN CpusetFiles ELSE LimitFiles
Files == {x \in Groups \X {"cpus", "mems", "exclusive", "uclamp", "shares"} :
            \E k \in DOMAIN FilesOf(x[1]) : FilesOf(x[1])[k] = x[2]}

\* What a new directory has: an unconfigured cpuset, the kernel's limits.
Created(g, f) == IF f \in {"cpus", "mems"} THEN "empty" ELSE "default"
Configured(g, v) == \A f \in {"cpus", "mems"} : v[<<g, f>>] \notin {"absent", "empty"}
Exists(g, v) == v[<<g, FilesOf(g)[1]>>] # "absent"

\* A limit that is not configured is set to its parent's value, which
\* nothing ever changes.
resolve_limit_value(g, f) == IF Want[icfg][g][f] = "inherit" THEN "default"
                             ELSE Want[icfg][g][f]

Init ==
    /\ ctl = [x \in Files |-> "absent"]
    /\ ipc = "idle" /\ icfg \in Configs /\ gi = 1 /\ fi = 1
    /\ ready = FALSE /\ failed = FALSE
    /\ saved = [x \in Files |-> "none"] /\ order = <<>>
    /\ result = "none" /\ rolled = TRUE /\ misread = {} /\ before = ctl

Fault == faults > 0 /\ faults' = faults - 1

\* The transaction and the counters are locals of init.
Locals(c) ==
    /\ icfg' = c /\ gi' = 1 /\ fi' = 1 /\ ready' = FALSE /\ failed' = FALSE
    /\ saved' = [x \in Files |-> "none"] /\ order' = <<>>
    /\ result' = "none" /\ rolled' = TRUE /\ misread' = {} /\ before' = ctl
    /\ UNCHANGED <<ctl, faults>>

Begin(c) == ipc = "idle" /\ ipc' = "group" /\ Locals(c)

\* The caller has taken the result.
Left == ipc = "idle" /\ UNCHANGED ipc /\ Locals(icfg)

Group == Plan[icfg][gi]

\* cpuset_group_requires_rollback, looked at before the directory is made.
\* A limit is always rolled back.
WasReady(g) == Kind[g] = "limit" \/ Configured(g, ctl)

\* group_was_ready.  Read_file has "" for a file it cannot read, and the
\* group it belongs to then counts as one that was not in use.
ReadsReadiness(g) ==
    \/ ready' = WasReady(g) /\ UNCHANGED <<misread, faults>>
    \/ /\ Kind[g] = "cpuset" /\ Configured(g, ctl) /\ Fault
       /\ ready' = FALSE
       /\ misread' = misread \cup {g}

\* init_cpuctl is not reached after a failure in init_cpuset.
FirstLimit == Kind[Group] = "limit" /\ (gi = 1 \/ Kind[Plan[icfg][gi - 1]] = "cpuset")
Finished == gi <= Len(Plan[icfg]) => failed /\ FirstLimit

GroupBegins ==
    /\ ipc = "group" /\ ~Finished
    /\ \/ /\ ctl' = [x \in Files |-> IF x[1] = Group /\ ctl[x] = "absent"
                                     THEN Created(Group, x[2]) ELSE ctl[x]]
          /\ ReadsReadiness(Group)
          /\ ipc' = "write" /\ fi' = 1
          /\ UNCHANGED <<gi, failed>>
       \/ /\ Fault                \* mkdir or a missing control file
          /\ failed' = TRUE
          /\ gi' = gi + 1
          /\ UNCHANGED <<ctl, ready, ipc, fi, misread>>
    /\ UNCHANGED <<icfg, tx, result, rolled, before>>

File == <<Group, FilesOf(Group)[fi]>>

\* A failure to set the CPUs or the memory nodes ends the group.
Gate == File[2] \in {"cpus", "mems"}

NextFile(ok) ==
    IF (~ok /\ Gate) \/ fi = Len(FilesOf(Group))
    THEN ipc' = "group" /\ gi' = gi + 1 /\ UNCHANGED fi
    ELSE fi' = fi + 1 /\ UNCHANGED <<ipc, gi>>

\* MUTANT: the snapshot is taken of what the file will be.
Snapshot_Late(x) == saved' = [saved EXCEPT ![x] = resolve_limit_value(x[1], x[2])]

Snapshot(x) == saved' = [saved EXCEPT ![x] = ctl[x]]

\* ControlFileTransaction::write.
WritesFile ==
    LET x == File
        snapshot == ready /\ saved[x] = "none"
    IN /\ ipc = "write"
       /\ \/ /\ IF snapshot THEN Snapshot(x) /\ order' = Append(order, x) ELSE UNCHANGED tx
             /\ \/ /\ ctl' = [ctl EXCEPT ![x] = resolve_limit_value(x[1], x[2])]
                   /\ NextFile(TRUE)
                   /\ UNCHANGED <<failed, faults>>
                \/ /\ Fault
                   /\ failed' = TRUE
                   /\ NextFile(FALSE)
                   /\ UNCHANGED ctl
          \/ /\ snapshot /\ Fault          \* the file cannot be read
             /\ failed' = TRUE
             /\ NextFile(FALSE)
             /\ UNCHANGED <<ctl, tx>>
       /\ UNCHANGED <<icfg, ready, result, rolled, misread, before>>

Commits ==
    /\ ipc = "group" /\ Finished /\ ~failed
    /\ ipc' = "idle" /\ result' = "ok"
    /\ UNCHANGED <<ctl, icfg, gi, fi, ready, failed, tx, rolled, misread, before, faults>>

\* A failure was counted, or an exception unwinds the transaction.
RollbackBegins ==
    /\ \/ ipc = "group" /\ Finished /\ failed /\ UNCHANGED faults
       \/ ipc \in {"group", "write"} /\ Fault
    /\ ipc' = "rollback"
    /\ UNCHANGED <<ctl, icfg, gi, fi, ready, failed, tx, result, rolled, misread, before>>

\* One file of ControlFileTransaction::rollback, newest first.
RollsBack ==
    LET x == order[Len(order)]
    IN /\ ipc = "rollback" /\ order # <<>>
       /\ \/ /\ ctl' = [ctl EXCEPT ![x] = saved[x]]
             /\ UNCHANGED <<rolled, faults>>
          \/ Fault /\ rolled' = FALSE /\ UNCHANGED ctl
       /\ order' = SubSeq(order, 1, Len(order) - 1)
       /\ UNCHANGED <<ipc, icfg, gi, fi, ready, failed, saved, result, misread, before>>

RollbackEnds ==
    /\ ipc = "rollback" /\ order = <<>>
    /\ ipc' = "idle" /\ result' = "failed"
    /\ UNCHANGED <<ctl, icfg, gi, fi, ready, failed, tx, rolled, misread, before, faults>>

Next == \/ GroupBegins \/ WritesFile \/ Commits
        \/ RollbackBegins \/ RollsBack \/ RollbackEnds

\* Every file of configuration c holds what c wants.
Applied(c) ==
    \A k \in DOMAIN Plan[c] : \A f \in DOMAIN Want[c][Plan[c][k]] :
        ctl[<<Plan[c][k], f>>] = IF Want[c][Plan[c][k]][f] = "inherit" THEN "default"
                                 ELSE Want[c][Plan[c][k]][f]

\* File x belongs to a group that was in use when init began.
WasInUse(x) ==
    Exists(x[1], before) /\ (Kind[x[1]] = "cpuset" => Configured(x[1], before))

\* Every group in use when init began is as it was; of one that was taken
\* for unused, each file has its old value or the one asked for.
Preserved ==
    \A x \in Files : WasInUse(x) =>
        \/ ctl[x] = before[x]
        \/ x[1] \in misread /\ ctl[x] = resolve_limit_value(x[1], x[2])
============================================================================
