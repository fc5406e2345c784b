---------------------------- MODULE MCLLMWorker ----------------------------
(* Small instances of LLMWorker. *)
EXTENDS LLMWorker
CONSTANTS r1, r2, u1, o1, d1
MCThreads == Requests \cup Unloaders \cup Outsiders \cup Downloaders \cup {Worker}
MCMessages == Requests \cup {Unload}
MCScenarios ==
  {{r1, u1, o1}, {r1, r2, u1}, {r1, u1, d1}, {r1, o1, d1}, {r1, r2, d1}}
AllTogether == {Requests \cup Unloaders \cup Outsiders \cup Downloaders}
=============================================================================
