------------------------- MODULE JobTracker_proofs -------------------------
(***************************************************************************)
(* Proofs about the job table under arbitrary callers, for any set of jobs *)
(* and any progress levels.                                                *)
(***************************************************************************)
EXTENDS JobTracker, TLAPS

\* The inductive strengthening: the tracked jobs are those with a future.
TrackedHasFuture == \A j \in Jobs : Tracked(j) <=> futures[j] # "none"

IInv == TrackerTypeOK /\ TrackedHasFuture /\ TerminalJobsWakeWaiters

-----------------------------------------------------------------------------
(* Each operation, whoever calls it, keeps the table in IInv.  The modules   *)
(* that use an operation inside a larger action cite these lemmas.           *)

LEMMA CreateJobKeepsIInv ==
  ASSUME IInv, NEW j \in Jobs, CreateJob(j)
  PROVE  IInv'
BY DEF IInv, TrackerTypeOK, TrackedHasFuture, TerminalJobsWakeWaiters, CreateJob,
       Status, Tracked, JobRecord, Open, Terminal, Missing, FutureStates

LEMMA UpdateProgressKeepsIInv ==
  ASSUME IInv, NEW j \in Jobs, NEW p \in 0..100, NEW s \in {"keep", "running"},
         UpdateProgress(j, p, s)
  PROVE  IInv'
<1>1. TrackerTypeOK'
  BY DEF IInv, TrackerTypeOK, UpdateProgress, Status, Tracked, JobRecord, Open,
         Terminal, Missing
<1>2. \A k \in Jobs : Status(k)' \in {Status(k)} \cup Open
                       /\ (Status(k) \in Missing => Status(k)' = Status(k))
  BY DEF IInv, TrackerTypeOK, UpdateProgress, Status, Tracked, JobRecord, Open,
         Terminal, Missing
<1>3. futures' = futures
  BY DEF UpdateProgress
<1>4. TrackedHasFuture'
  BY <1>2, <1>3 DEF IInv, TrackedHasFuture, Tracked, Open, Missing
<1>5. TerminalJobsWakeWaiters'
  BY <1>2, <1>3 DEF IInv, TerminalJobsWakeWaiters, Terminal, Open
<1> QED BY <1>1, <1>4, <1>5 DEF IInv

\* What complete_job, fail_job and cancel_job have in common.
LEMMA SettleKeepsIInv ==
  ASSUME IInv, NEW j \in Jobs, Tracked(j),
         NEW r \in JobRecord, r.status \in Terminal, jobs' = [jobs EXCEPT ![j] = r],
         NEW o \in {"result", "exception"}, ResolveFuture(j, o)
  PROVE  IInv'
<1>1. jobs \in [Jobs -> JobRecord] /\ futures \in [Jobs -> FutureStates]
  BY DEF IInv, TrackerTypeOK
<1>2. futures' \in [Jobs -> FutureStates]
  BY <1>1 DEF ResolveFuture, FutureStates
<1>3. futures'[j] \notin {"none", "open"}
  BY <1>1 DEF ResolveFuture, IInv, TrackedHasFuture, FutureStates
<1>4. \A k \in Jobs \ {j} : futures'[k] = futures[k] /\ jobs'[k] = jobs[k]
  BY <1>1 DEF ResolveFuture
<1>5. TrackerTypeOK'
  BY <1>1, <1>2 DEF TrackerTypeOK
<1>6. TrackedHasFuture'
  <2>1. jobs'[j] = r /\ r.status \notin Missing
    BY <1>1 DEF Terminal, Missing
  <2> QED BY <1>3, <1>4, <2>1 DEF IInv, TrackedHasFuture, Tracked, Status
<1>7. TerminalJobsWakeWaiters'
  BY <1>3, <1>4 DEF IInv, TerminalJobsWakeWaiters, Status
<1> QED BY <1>5, <1>6, <1>7 DEF IInv

LEMMA StutterKeepsIInv == IInv /\ UNCHANGED trackerVars => IInv'
BY DEF IInv, TrackerTypeOK, TrackedHasFuture, TerminalJobsWakeWaiters, Status,
       Tracked, trackerVars

LEMMA CompleteJobKeepsIInv ==
  ASSUME IInv, NEW j \in Jobs, CompleteJob(j)
  PROVE  IInv'
<1>1. CASE Tracked(j)
  <2>1. [status |-> "completed", progress |-> 100] \in JobRecord
    BY DEF JobRecord, Terminal
  <2> QED BY <1>1, <2>1, SettleKeepsIInv DEF CompleteJob, Terminal
<1>2. CASE ~Tracked(j)
  BY <1>2, StutterKeepsIInv DEF CompleteJob
<1> QED BY <1>1, <1>2

\* SetStatus replaces the record by one with another status.
LEMMA SetStatusRecord ==
  ASSUME TrackerTypeOK, NEW j \in Jobs, NEW s \in Open \cup Terminal \cup Missing,
         SetStatus(j, s)
  PROVE  \E r \in JobRecord : r.status = s /\ jobs' = [jobs EXCEPT ![j] = r]
<1> DEFINE r == [jobs[j] EXCEPT !.status = s]
<1>1. jobs[j] \in JobRecord
  BY DEF TrackerTypeOK
<1>2. r \in JobRecord /\ r.status = s
  BY <1>1 DEF JobRecord
<1>3. jobs' = [jobs EXCEPT ![j] = r]
  BY DEF SetStatus
<1> QED BY <1>2, <1>3

LEMMA FailJobKeepsIInv ==
  ASSUME IInv, NEW j \in Jobs, FailJob(j)
  PROVE  IInv'
<1>1. CASE Tracked(j)
  <2>1. PICK r \in JobRecord : r.status = "failed" /\ jobs' = [jobs EXCEPT ![j] = r]
    BY <1>1, SetStatusRecord DEF FailJob, IInv, Terminal
  <2> QED BY <1>1, <2>1, SettleKeepsIInv DEF FailJob, Terminal
<1>2. CASE ~Tracked(j)
  BY <1>2, StutterKeepsIInv DEF FailJob
<1> QED BY <1>1, <1>2

LEMMA CancelJobKeepsIInv ==
  ASSUME IInv, NEW j \in Jobs, CancelJob(j)
  PROVE  IInv'
<1>1. CASE Cancellable(j)
  <2>1. PICK r \in JobRecord : r.status = "cancelled" /\ jobs' = [jobs EXCEPT ![j] = r]
    BY <1>1, SetStatusRecord DEF CancelJob, IInv, Terminal
  <2>2. Tracked(j)
    BY <1>1 DEF Cancellable, Tracked, Open, Missing
  <2> QED BY <1>1, <2>1, <2>2, SettleKeepsIInv DEF CancelJob, Terminal
<1>2. CASE ~Cancellable(j)
  BY <1>2, StutterKeepsIInv DEF CancelJob
<1> QED BY <1>1, <1>2

LEMMA CleanupKeepsIInv ==
  ASSUME IInv, NEW old \in SUBSET Jobs, CleanupOldJobs(old)
  PROVE  IInv'
BY DEF IInv, TrackerTypeOK, TrackedHasFuture, TerminalJobsWakeWaiters,
       CleanupOldJobs, Status, Tracked, JobRecord, Open, Terminal, Missing,
       FutureStates

-----------------------------------------------------------------------------
(* What an operation does to futures that are settled, and to dropped jobs   *)

FuturesKept ==
  \A j \in Jobs : futures[j] \in {"result", "exception"} =>
                    futures'[j] \in {futures[j], "none"}

DroppedKept ==
  \A j \in Jobs : Status(j) = "dropped" => Status(j)' = "dropped" /\ futures'[j] = "none"

\* An operation on a tracked job that replaces its record and resolves its future.
LEMMA SettleKeepsFutures ==
  ASSUME IInv, NEW j \in Jobs, Tracked(j), NEW r, jobs' = [jobs EXCEPT ![j] = r],
         NEW o, ResolveFuture(j, o)
  PROVE  FuturesKept /\ DroppedKept
<1>1. jobs \in [Jobs -> JobRecord] /\ futures \in [Jobs -> FutureStates]
  BY DEF IInv, TrackerTypeOK
<1>2. FuturesKept
  BY <1>1 DEF FuturesKept, ResolveFuture
<1>3. \A k \in Jobs : Status(k) = "dropped" => k # j /\ futures[k] = "none"
  BY DEF IInv, TrackedHasFuture, Tracked, Missing
<1>4. \A k \in Jobs \ {j} : futures'[k] = futures[k] /\ jobs'[k] = jobs[k]
  BY <1>1 DEF ResolveFuture
<1> QED BY <1>2, <1>3, <1>4 DEF DroppedKept, Status

LEMMA OperationsKeepFutures ==
  ASSUME IInv, [TrackerNext]_trackerVars
  PROVE  FuturesKept /\ DroppedKept
<1>1. jobs \in [Jobs -> JobRecord] /\ futures \in [Jobs -> FutureStates]
  BY DEF IInv, TrackerTypeOK
<1>2. \A k \in Jobs : Status(k) \in Missing <=> futures[k] = "none"
  BY DEF IInv, TrackedHasFuture, Tracked
<1>3. ASSUME NEW j \in Jobs, CreateJob(j)
      PROVE  FuturesKept /\ DroppedKept
  BY <1>1, <1>2, <1>3 DEF CreateJob, FuturesKept, DroppedKept, Status, Missing
<1>4. CASE CallUpdate
  <2>1. futures' = futures
        /\ \A k \in Jobs : Status(k) \in Missing => jobs'[k] = jobs[k]
    BY <1>1, <1>4 DEF CallUpdate, UpdateProgress, Tracked, Status
  <2> QED BY <1>2, <2>1 DEF FuturesKept, DroppedKept, Missing, Status
<1>5. CASE UNCHANGED trackerVars
  BY <1>2, <1>5 DEF trackerVars, FuturesKept, DroppedKept, Status, Missing
<1>6. ASSUME NEW j \in Jobs, CompleteJob(j) \/ FailJob(j) \/ CancelJob(j)
      PROVE  FuturesKept /\ DroppedKept
  <2>1. CASE UNCHANGED trackerVars
    BY <1>5, <2>1
  <2>2. CASE ~UNCHANGED trackerVars
    <3>1. Tracked(j)
      BY <1>6, <2>2 DEF CompleteJob, FailJob, CancelJob, Cancellable, Tracked, Open, Missing
    <3>2. \E r, o : jobs' = [jobs EXCEPT ![j] = r] /\ ResolveFuture(j, o)
      BY <1>6, <2>2 DEF CompleteJob, FailJob, CancelJob, SetStatus
    <3> QED BY <3>1, <3>2, SettleKeepsFutures
  <2> QED BY <2>1, <2>2
<1>7. ASSUME NEW old \in SUBSET Jobs, CleanupOldJobs(old)
      PROVE  FuturesKept /\ DroppedKept
  BY <1>1, <1>2, <1>7
     DEF CleanupOldJobs, FuturesKept, DroppedKept, Status, Terminal, Missing, JobRecord
<1> QED BY <1>3, <1>4, <1>5, <1>6, <1>7 DEF TrackerNext

-----------------------------------------------------------------------------
LEMMA InitIInv == TrackerInit => IInv
BY DEF TrackerInit, IInv, TrackerTypeOK, TrackedHasFuture, TerminalJobsWakeWaiters,
       Status, Tracked, JobRecord, Open, Terminal, Missing, FutureStates

LEMMA NextIInv == IInv /\ [TrackerNext]_trackerVars => IInv'
<1> SUFFICES ASSUME IInv, [TrackerNext]_trackerVars
             PROVE  IInv'
  OBVIOUS
<1>1. ASSUME NEW j \in Jobs, CreateJob(j)
      PROVE  IInv'
  BY <1>1, CreateJobKeepsIInv
<1>2. ASSUME CallUpdate
      PROVE  IInv'
  <2>1. PICK j \in Jobs, p \in ProgressLevels, s \in {"keep", "running"} :
          UpdateProgress(j, p, s)
    BY <1>2 DEF CallUpdate
  <2>2. p \in 0..100
    BY ProgressAssumption
  <2> QED BY <2>1, <2>2, UpdateProgressKeepsIInv
<1>3. ASSUME NEW j \in Jobs, CompleteJob(j)
      PROVE  IInv'
  BY <1>3, CompleteJobKeepsIInv
<1>4. ASSUME NEW j \in Jobs, FailJob(j)
      PROVE  IInv'
  BY <1>4, FailJobKeepsIInv
<1>5. ASSUME NEW j \in Jobs, CancelJob(j)
      PROVE  IInv'
  BY <1>5, CancelJobKeepsIInv
<1>6. ASSUME NEW old \in SUBSET Jobs, CleanupOldJobs(old)
      PROVE  IInv'
  BY <1>6, CleanupKeepsIInv
<1>7. CASE UNCHANGED trackerVars
  BY <1>7, StutterKeepsIInv
<1> QED BY <1>1, <1>2, <1>3, <1>4, <1>5, <1>6, <1>7 DEF TrackerNext

\* No job in a terminal status leaves a waiter hanging, and the table is well
\* typed, under any sequence of operations (JobTracker.complete_job, fail_job,
\* cancel_job, update_progress, cleanup_old_jobs).
THEOREM TerminalJobsWakeWaitersTheorem ==
  TrackerSpec => [](TrackerTypeOK /\ TerminalJobsWakeWaiters)
<1>1. IInv => TrackerTypeOK /\ TerminalJobsWakeWaiters
  BY DEF IInv
<1> QED BY <1>1, InitIInv, NextIInv, PTL DEF TrackerSpec

=============================================================================
