--------------------------- MODULE MCConfigReload --------------------------
(***************************************************************************)
(* Two configurations that share a cpuset group with different CPUs and a  *)
(* limit group in which each leaves another limit to be inherited; the     *)
(* second has a cpuset group of its own.                                   *)
(***************************************************************************)
EXTENDS ConfigReload

PlanOf == [A |-> <<"big", "A1">>, B |-> <<"big", "mid", "A1">>]
KindOfGroup == [big |-> "cpuset", mid |-> "cpuset", A1 |-> "limit"]
Cpuset(cpus) == [cpus |-> cpus, mems |-> "0", exclusive |-> "off"]
WantOf == [A |-> [big |-> Cpuset("4-7"), A1 |-> [uclamp |-> "50", shares |-> "inherit"]],
           B |-> [big |-> Cpuset("6-7"), mid |-> Cpuset("4-5"),
                  A1 |-> [uclamp |-> "inherit", shares |-> "128"]]]

Packages == [own |-> "home", system |-> "android_home", fallback |-> "other"]
Lists == {<<>>, <<"fallback", "system", "own">>}
============================================================================
