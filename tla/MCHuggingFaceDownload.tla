----------------------- MODULE MCHuggingFaceDownload -----------------------
(* Small instances of HuggingFaceDownload. *)
EXTENDS HuggingFaceDownload
=============================================================================
