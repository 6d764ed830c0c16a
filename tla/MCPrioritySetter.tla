-------------------------- MODULE MCPrioritySetter --------------------------
(***************************************************************************)
(* An instance of PrioritySetter for TLC: the ends of every range a rule's *)
(* value can lie in, the value between two ranges, and the extreme nice    *)
(* values.                                                                 *)
(***************************************************************************)
EXTENDS PrioritySetter

RulePrios == {1, 98, 99, 100, 121, 139, -1, -2, -3}
SystemNices == {-20, 19}
============================================================================
