-------------------------- MODULE MCSidecarProcess --------------------------
(* A small instance of SidecarProcess. *)
EXTENDS SidecarProcess
CONSTANTS c1, c2, c3, s1, s2
MCCallers == [k \in Kinds |-> IF k = "art" THEN {c1, c2, c3} ELSE {c1, c2}]
=============================================================================
