---------------------------- MODULE MCLLMStream ----------------------------
(* A small instance of LLMStream. *)
EXTENDS LLMStream
=============================================================================
