--------------------------- MODULE LauncherFinder --------------------------
(***************************************************************************)
(* LauncherFinder::find: two platform commands run in a child process      *)
(* with a deadline, and the choice among the packages they name.           *)
(*                                                                         *)
(* The child may print, close its output, exit or hang, and may ignore     *)
(* SIGTERM.  The deadline is an event.  A package is what is_home_package  *)
(* and its prefix make of it: "home", "android_home" or "other"; lines     *)
(* without a valid package are left out of the output.                     *)
(***************************************************************************)
EXTENDS Naturals, Sequences

CONSTANTS
    Outputs,      \* what a command may have printed: sequences of packages
    KindOf,       \* the kind of each package
    Default,      \* the package used when none is found
    kTermPolls    \* attempts of terminate_child before SIGKILL

VARIABLES
    lpc,          \* idle, spawn, poll, reap, term, grace, kill, wait, choose
    child,        \* none (or reaped), running, closed (its output), exited
    late,         \* the deadline has passed
    polls,
    command,      \* 1 resolve-activity, 2 query-activities
    output,       \* candidates collected
    launcher,     \* the package found
    lost,         \* history: a waitpid failed, the child was given up
    misfired,     \* history: a signal was sent when the child was reaped
    faults

lvars == <<lpc, child, late, polls, command, output, launcher, lost, misfired, faults>>

Init ==
    /\ lpc = "idle" /\ child = "none" /\ late = FALSE /\ polls = 0 /\ command = 1
    /\ output = <<>> /\ launcher = Default /\ lost = FALSE /\ misfired = FALSE

Fault == faults > 0 /\ faults' = faults - 1

Begin ==
    /\ lpc' = "spawn" /\ child' = "none" /\ late' = FALSE /\ polls' = 0 /\ command' = 1
    /\ output' = <<>> /\ launcher' = Default /\ lost' = FALSE /\ misfired' = FALSE
    /\ UNCHANGED faults

\* execute_command returns out; find goes on to the second command only
\* when the first has named no package.
Returns(out) ==
    /\ output' = out
    /\ IF out = <<>> /\ command = 1 THEN lpc' = "spawn" /\ command' = 2
       ELSE lpc' = "choose" /\ UNCHANGED command

Spawn ==
    /\ lpc = "spawn"
    /\ \/ lpc' = "poll" /\ child' = "running" /\ UNCHANGED <<command, output, faults>>
       \/ Fault /\ Returns(<<>>) /\ child' = "none"           \* pipe or fork
       \/ Fault /\ lpc' = "term" /\ child' = "running" /\ UNCHANGED <<command, output>>
    /\ late' = FALSE /\ polls' = 0
    /\ UNCHANGED <<launcher, lost, misfired>>

\* The child and the clock.
ChildMoves ==
    /\ \/ child = "running" /\ child' \in {"closed", "exited"} /\ UNCHANGED late
       \/ child = "closed" /\ child' = "exited" /\ UNCHANGED late
       \/ lpc \in {"poll", "reap"} /\ ~late /\ late' = TRUE /\ UNCHANGED child
    /\ UNCHANGED <<lpc, polls, command, output, launcher, lost, misfired, faults>>

\* The poll loop ends at the end of the output, at the deadline, on an
\* error of poll or on too much output; an error of read counts as the end.
PollEnds ==
    /\ lpc = "poll"
    /\ \/ /\ child \in {"closed", "exited"}
          /\ \E out \in Outputs : output' = out
          /\ lpc' = "reap" /\ UNCHANGED faults
       \/ /\ Fault
          /\ \E out \in Outputs : output' = out
          /\ lpc' = "reap"
       \/ late /\ lpc' = "term" /\ UNCHANGED <<output, faults>>
       \/ Fault /\ lpc' = "term" /\ UNCHANGED output
    /\ UNCHANGED <<child, late, polls, command, launcher, lost, misfired>>

\* MUTANT: a child already reaped is terminated when it was late.
Reaps_Late ==
    /\ lpc = "reap" /\ (child = "exited" \/ late)
    /\ child' = IF child = "exited" THEN "none" ELSE child
    /\ IF late THEN lpc' = "term" /\ UNCHANGED <<command, output>> ELSE Returns(output)
    /\ UNCHANGED <<late, polls, launcher, lost, misfired, faults>>

\* waitpid with WNOHANG until the child has exited or it is too late.
Reaps ==
    /\ lpc = "reap"
    /\ \/ child = "exited" /\ child' = "none" /\ Returns(output)
          /\ UNCHANGED <<lost, faults>>
       \/ Fault /\ Returns(<<>>) /\ lost' = TRUE /\ UNCHANGED child
       \/ child # "exited" /\ late /\ lpc' = "term"
          /\ UNCHANGED <<child, command, output, lost, faults>>
    /\ UNCHANGED <<late, polls, launcher, misfired>>

Signalled == misfired' = (misfired \/ child = "none")

\* terminate_child: SIGTERM, which the child may ignore ...
Terminates ==
    /\ lpc = "term" /\ lpc' = "grace" /\ polls' = 0
    /\ Signalled
    /\ child' \in {child, "exited"}
    /\ UNCHANGED <<late, command, output, launcher, lost, faults>>

\* ... some polls ...
GracePoll ==
    /\ lpc = "grace"
    /\ \/ child = "exited" /\ child' = "none" /\ Returns(<<>>)
          /\ UNCHANGED <<polls, lost, faults>>
       \/ Fault /\ Returns(<<>>) /\ lost' = TRUE /\ UNCHANGED <<child, polls>>
       \/ /\ child # "exited"
          /\ IF polls < kTermPolls THEN polls' = polls + 1 /\ UNCHANGED lpc
             ELSE lpc' = "kill" /\ UNCHANGED polls
          /\ UNCHANGED <<child, command, output, lost, faults>>
    /\ UNCHANGED <<late, launcher, misfired>>

\* ... then SIGKILL and a blocking wait.
Kills ==
    /\ lpc = "kill" /\ lpc' = "wait"
    /\ Signalled
    /\ child' = "exited"
    /\ UNCHANGED <<late, polls, command, output, launcher, lost, faults>>

Waits ==
    /\ lpc = "wait" /\ child = "exited" /\ child' = "none"
    /\ Returns(<<>>)
    /\ UNCHANGED <<late, polls, launcher, lost, misfired, faults>>

\* find() prefers a launcher that is not Android's own, then Android's, then
\* any other package, and among equals the first one named.
Preference == [home |-> 1, android_home |-> 2, other |-> 3]
Rank(k) == Preference[KindOf[output[k]]]
Best == {k \in DOMAIN output : \A j \in DOMAIN output : Rank(k) <= Rank(j)}
Choice == IF output = <<>> THEN Default
          ELSE output[CHOOSE k \in Best : \A j \in Best : k <= j]

Chooses ==
    /\ lpc = "choose" /\ lpc' = "idle"
    /\ launcher' = Choice
    /\ late' = FALSE /\ polls' = 0 /\ command' = 1 /\ output' = <<>>    \* locals
    /\ UNCHANGED <<child, lost, misfired, faults>>

\* The caller has taken the package into its configuration.
Left ==
    /\ launcher' = Default /\ lost' = FALSE /\ child' = "none"
    /\ UNCHANGED <<lpc, late, polls, command, output, misfired>>

Finder == \/ Spawn \/ PollEnds \/ Reaps \/ Terminates \/ GracePoll \/ Kills \/ Waits
          \/ Chooses
Next == Finder \/ ChildMoves
============================================================================
