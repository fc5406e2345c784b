----------------------------- MODULE MCArtJobs -----------------------------
(* Small instances of ArtJobs. *)
EXTENDS ArtJobs, TLC
=============================================================================
