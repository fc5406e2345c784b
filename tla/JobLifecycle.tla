---------------------------- MODULE JobLifecycle ----------------------------
(***************************************************************************)
(* What a client of a background job is promised, whatever runs it: a job  *)
(* that was started gets one verdict, and keeps it.                        *)
(***************************************************************************)
CONSTANT Jobs

VARIABLE verdict

Verdicts == {"completed", "failed", "cancelled"}

LifecycleInit == verdict = [j \in Jobs |-> "none"]

Open(j) ==
  /\ verdict[j] = "none"
  /\ verdict' = [verdict EXCEPT ![j] = "open"]

Close(j) ==
  /\ verdict[j] = "open"
  /\ \E v \in Verdicts : verdict' = [verdict EXCEPT ![j] = v]

LifecycleNext == \E j \in Jobs : Open(j) \/ Close(j)

LifecycleSafety == LifecycleInit /\ [][LifecycleNext]_verdict

LifecycleSpec == LifecycleSafety /\ \A j \in Jobs : WF_verdict(Close(j))

=============================================================================
