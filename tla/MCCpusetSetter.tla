--------------------------- MODULE MCCpusetSetter --------------------------
(***************************************************************************)
(* Three CPUs: the target shares one with the foreground group and none    *)
(* with the background group, so that every answer of the kernel occurs.   *)
(***************************************************************************)
EXTENDS CpusetSetter

CpusOf == [background |-> {0}, foreground |-> {0, 1}, parent |-> {0, 1, 2},
           target |-> {1, 2}]
============================================================================
