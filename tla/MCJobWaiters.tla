---------------------------- MODULE MCJobWaiters ----------------------------
(* Small instances of JobWaiters. *)
EXTENDS JobWaiters, TLC

=============================================================================
