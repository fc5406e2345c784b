----------------------------- MODULE JobWaiters -----------------------------
(***************************************************************************)
(* JobTracker.get_result: coroutines that wait for the future of a job.    *)
(*                                                                         *)
(* Each waiter looks at the job under the lock, releases it, and awaits    *)
(* the future of the job through asyncio.wait_for.  All the waiters of a   *)
(* job await the SAME future object, and wait_for cancels what it awaits   *)
(* when its timeout expires.                                               *)
(***************************************************************************)
EXTENDS JobTracker

CONSTANT Waiters

VARIABLE waiter     \* the progress of each call of get_result

waiterVars == <<jobs, futures, waiter>>

Outcomes == {"not_found", "result", "failed", "cancelled", "timed_out",
             "cancelled_error"}

WaiterStates == [state: {"idle"}]
                  \cup [state: {"waiting"}, job: Jobs]
                  \cup [state: {"returned"}, job: Jobs, outcome: Outcomes]

TypeOK == TrackerTypeOK /\ waiter \in [Waiters -> WaiterStates]

Init == TrackerInit /\ waiter = [w \in Waiters |-> [state |-> "idle"]]

Return(w, j, outcome) ==
  waiter' = [waiter EXCEPT ![w] =
               [state |-> "returned", job |-> j, outcome |-> outcome]]

\* Mutant: answers with the raw status.
AnswerRaw(s) == s

\* The part under the lock: answer at once or go and await the future.  A job
\* that was never created and one that was dropped are both "not found".
Answer(s) == CASE s \in Missing    -> "not_found"
               [] s = "completed"  -> "result"
               [] s = "failed"     -> "failed"
               [] s = "cancelled"  -> "cancelled"

GetResult(w, j) ==
  /\ waiter[w].state = "idle"
  /\ IF Status(j) \in Open
     THEN waiter' = [waiter EXCEPT ![w] = [state |-> "waiting", job |-> j]]
     ELSE Return(w, j, Answer(Status(j)))
  /\ UNCHANGED trackerVars

Waiting(w, j) == waiter[w].state = "waiting" /\ waiter[w].job = j

\* The future the waiter holds is done.  The record may have been dropped since;
\* the waiter keeps its reference, but which outcome it held is then gone from
\* the table, so a dropped job's waiter is woken when it is dropped (below).
WakeUp(w, j) ==
  /\ Waiting(w, j)
  /\ futures[j] \in {"result", "exception", "cancelled"}
  /\ Return(w, j, CASE futures[j] = "result"    -> "result"
                    [] futures[j] = "exception" -> "failed"
                    [] futures[j] = "cancelled" -> "cancelled_error")
  /\ UNCHANGED trackerVars

\* asyncio.wait_for gives up and cancels the future it was awaiting.
TimeOut(w, j) ==
  /\ Waiting(w, j)
  /\ futures[j] = "open"
  /\ futures' = [futures EXCEPT ![j] = "cancelled"]
  /\ Return(w, j, "timed_out")
  /\ UNCHANGED jobs

\* Old jobs have been terminal for an hour, their waiters were woken long ago.
TrackerStep ==
  \/ \E j \in Jobs : CreateJob(j) \/ CompleteJob(j) \/ FailJob(j) \/ CancelJob(j)
  \/ CallUpdate
  \/ \E old \in SUBSET Jobs :
        /\ \A w \in Waiters, j \in old : ~Waiting(w, j)
        /\ CleanupOldJobs(old)

Next ==
  \/ TrackerStep /\ UNCHANGED waiter
  \/ \E w \in Waiters, j \in Jobs : GetResult(w, j) \/ WakeUp(w, j) \/ TimeOut(w, j)

\* The event loop runs a coroutine whose future is done.
Fairness == \A w \in Waiters : WF_waiterVars(\E j \in Jobs : WakeUp(w, j))

Spec == Init /\ [][Next]_waiterVars /\ Fairness

-----------------------------------------------------------------------------
(* Properties *)

\* Every call that waits for a job some verdict has settled returns.
SettledWaitersReturn ==
  \A w \in Waiters, j \in Jobs :
    Waiting(w, j) /\ Status(j) \in Terminal ~> ~Waiting(w, j)

=============================================================================
