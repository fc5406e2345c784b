------------------------- MODULE JobWaiters_proofs -------------------------
(***************************************************************************)
(* Proofs about the job table and the calls of get_result that wait on its *)
(* futures, for any set of jobs and any number of waiters.                 *)
(*                                                                         *)
(* A waiter writes the table in one place only: asyncio.wait_for cancels   *)
(* the future it gives up.  That future is open, so its job is tracked and *)
(* the cancelled future still wakes everybody else.                        *)
(***************************************************************************)
EXTENDS JobWaiters, JobTracker_proofs

WInv == IInv /\ TypeOK

-----------------------------------------------------------------------------
LEMMA InitWInv == Init => WInv
<1> SUFFICES ASSUME Init PROVE WInv
  OBVIOUS
<1>1. IInv
  BY InitIInv DEF Init
<1>2. [state |-> "idle"] \in WaiterStates
  BY DEF WaiterStates
<1> QED BY <1>1, <1>2 DEF Init, WInv, IInv, TypeOK

\* The tracker's own steps are steps of its specification under arbitrary callers.
LEMMA TrackerStepIsNext == TrackerStep => TrackerNext
BY DEF TrackerStep, TrackerNext

\* Giving up on an open future keeps the table sound and touches no settled future.
LEMMA TimeOutKeepsTable ==
  ASSUME IInv, NEW w \in Waiters, NEW j \in Jobs, TimeOut(w, j)
  PROVE  IInv' /\ FuturesKept /\ DroppedKept
<1>1. jobs \in [Jobs -> JobRecord] /\ futures \in [Jobs -> FutureStates]
      /\ futures[j] = "open" /\ futures' = [futures EXCEPT ![j] = "cancelled"]
      /\ UNCHANGED jobs
  BY DEF IInv, TrackerTypeOK, TimeOut
<1>2. TrackerTypeOK'
  BY <1>1 DEF TrackerTypeOK, FutureStates
<1>3. \A k \in Jobs : Status(k)' = Status(k)
                       /\ futures'[k] = (IF k = j THEN "cancelled" ELSE futures[k])
  BY <1>1 DEF Status
<1>4. TrackedHasFuture'
  BY <1>1, <1>3 DEF IInv, TrackedHasFuture, Tracked
<1>5. TerminalJobsWakeWaiters'
  BY <1>3 DEF IInv, TerminalJobsWakeWaiters
<1>6. FuturesKept
  BY <1>1, <1>3 DEF FuturesKept
<1>7. DroppedKept
  BY <1>1, <1>3 DEF DroppedKept, IInv, TrackedHasFuture, Tracked, Missing
<1> QED BY <1>2, <1>4, <1>5, <1>6, <1>7 DEF IInv

\* What get_result answers is always one of its outcomes.
LEMMA ReturnsAnOutcome ==
  ASSUME WInv, NEW w \in Waiters, NEW j \in Jobs,
         GetResult(w, j) \/ WakeUp(w, j) \/ TimeOut(w, j)
  PROVE  waiter' \in [Waiters -> WaiterStates]
<1>1. waiter \in [Waiters -> WaiterStates] /\ jobs[j] \in JobRecord
  BY DEF WInv, TypeOK, TrackerTypeOK
<1>2. \A o \in Outcomes : Return(w, j, o) => waiter' \in [Waiters -> WaiterStates]
  BY <1>1 DEF Return, WaiterStates
<1>3. CASE GetResult(w, j)
  <2>1. CASE Status(j) \in Open
    BY <1>1, <1>3, <2>1 DEF GetResult, WaiterStates
  <2>2. CASE Status(j) \notin Open
    <3>1. Answer(Status(j)) \in Outcomes
      BY <1>1, <2>2 DEF Answer, Outcomes, Status, JobRecord, Terminal, Missing, Open
    <3> QED BY <1>2, <1>3, <2>2, <3>1 DEF GetResult
  <2> QED BY <2>1, <2>2
<1>4. CASE WakeUp(w, j)
  <2>1. \E o \in Outcomes : Return(w, j, o)
    BY <1>4 DEF WakeUp, Outcomes
  <2> QED BY <1>2, <2>1
<1>5. CASE TimeOut(w, j)
  BY <1>2, <1>5 DEF TimeOut, Outcomes
<1> QED BY <1>3, <1>4, <1>5

LEMMA NextWInv ==
  ASSUME WInv, [Next]_waiterVars
  PROVE  WInv' /\ FuturesKept /\ DroppedKept
<1>1. CASE TrackerStep /\ UNCHANGED waiter
  <2>1. IInv' /\ FuturesKept /\ DroppedKept
    BY <1>1, TrackerStepIsNext, NextIInv, OperationsKeepFutures DEF WInv
  <2> QED BY <1>1, <2>1 DEF WInv, IInv, TypeOK
<1>2. CASE UNCHANGED waiterVars
  <2>1. UNCHANGED trackerVars /\ UNCHANGED waiter
    BY <1>2 DEF waiterVars, trackerVars
  <2>2. IInv' /\ FuturesKept /\ DroppedKept
    BY <2>1, StutterKeepsIInv, OperationsKeepFutures DEF WInv
  <2> QED BY <2>1, <2>2 DEF WInv, IInv, TypeOK
<1>3. ASSUME NEW w \in Waiters, NEW j \in Jobs,
             GetResult(w, j) \/ WakeUp(w, j) \/ TimeOut(w, j)
      PROVE  WInv' /\ FuturesKept /\ DroppedKept
  <2>1. waiter' \in [Waiters -> WaiterStates]
    BY <1>3, ReturnsAnOutcome
  <2>2. IInv' /\ FuturesKept /\ DroppedKept
    BY <1>3, TimeOutKeepsTable, StutterKeepsIInv, OperationsKeepFutures
       DEF WInv, GetResult, WakeUp
  <2> QED BY <2>1, <2>2 DEF WInv, IInv, TypeOK
<1> QED BY <1>1, <1>2, <1>3 DEF Next

-----------------------------------------------------------------------------
(* The theorems *)

LEMMA SpecWInv == Spec => []WInv
BY InitWInv, NextWInv, PTL DEF Spec

\* The table and every call of get_result are well typed: whatever a call finds, it
\* returns one of the outcomes the code has (job_tracker.py: get_result).
THEOREM JobWaitersTypeOK == Spec => []TypeOK
<1>1. WInv => TypeOK
  BY DEF WInv
<1> QED BY <1>1, SpecWInv, PTL

\* With waiters that give up at any time, no job in a terminal status leaves
\* another waiter on an open future (job_tracker.py: get_result, wait_for).
THEOREM WaitersOfTerminalJobsWake == Spec => []TerminalJobsWakeWaiters
<1>1. WInv => TerminalJobsWakeWaiters
  BY DEF WInv, IInv
<1> QED BY <1>1, SpecWInv, PTL

\* No second verdict, time-out or late report reaches a future that holds a result
\* or an exception (job_tracker.py: the guard on future.done()).
THEOREM FutureSettledOnceTheorem == Spec => FutureSettledOnce
<1>1. WInv /\ [Next]_waiterVars =>
        [\A j \in Jobs : futures[j] \in {"result", "exception"} =>
            futures'[j] \in {futures[j], "none"}]_trackerVars
  BY NextWInv DEF FuturesKept
<1> QED BY <1>1, SpecWInv, PTL DEF Spec, FutureSettledOnce

\* A job that cleanup_old_jobs removed stays removed, whatever is still reported of
\* it, and its future with it (job_tracker.py: cleanup_old_jobs).
THEOREM DroppedStaysDroppedTheorem == Spec => DroppedStaysDropped
<1>1. WInv /\ [Next]_waiterVars =>
        [\A j \in Jobs : Status(j) = "dropped" =>
            /\ Status(j)' = "dropped"
            /\ futures'[j] = "none"]_trackerVars
  BY NextWInv DEF DroppedKept
<1> QED BY <1>1, SpecWInv, PTL DEF Spec, DroppedStaysDropped

=============================================================================
