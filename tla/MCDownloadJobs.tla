--------------------------- MODULE MCDownloadJobs ---------------------------
(* Small instances of DownloadJobs. *)
EXTENDS DownloadJobs, TLC

EveryKind == AllKinds
=============================================================================
