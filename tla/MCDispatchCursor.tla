-------------------------- MODULE MCDispatchCursor -------------------------
(***************************************************************************)
(* Two processes, the second with two threads, so that a slice can end     *)
(* between them; each belongs to two of the lists.                         *)
(***************************************************************************)
EXTENDS DispatchCursor

OwnerOf == [t \in {11, 21, 22} |-> IF t = 11 THEN 1 ELSE 2]
ClassesOf == [p \in {1, 2} |-> IF p = 1 THEN "BG" ELSE "FG"]
RulesOf == [p \in {1, 2} |-> IF p = 1 THEN "pinned" ELSE "topfore"]
============================================================================
