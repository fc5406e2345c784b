----------------------------- MODULE JobTracker -----------------------------
(***************************************************************************)
(* The process-wide table of asynchronous jobs                             *)
(* (airunner_services/utils/job_tracker.py).                               *)
(*                                                                         *)
(* Every operation of the class runs its whole body under one lock and     *)
(* never suspends inside it, so each is one step.  Nothing in the class    *)
(* looks at who the caller is: the runner threads, the HTTP routes and     *)
(* the cleanup all reach the same record.  The modules that model those    *)
(* callers extend this one and use its operations inside their actions.    *)
(*                                                                         *)
(* Job identifiers are uuid4 strings, hence never reused: "unborn" is an   *)
(* identifier not handed out yet, "dropped" one whose record is deleted.   *)
(***************************************************************************)
EXTENDS Integers

CONSTANT Jobs          \* the identifiers create_job may hand out

VARIABLES jobs,        \* JobTracker._jobs: status and progress per identifier
          futures      \* JobTracker._futures: how each future stands

trackerVars == <<jobs, futures>>

Terminal == {"completed", "failed", "cancelled"}
Open     == {"pending", "running"}
Missing  == {"unborn", "dropped"}

\* "cancelled" is the asyncio state of a future that was cancelled, which
\* JobTracker never does itself but a waiter of get_result may (JobWaiters).
FutureStates == {"none", "open", "result", "exception", "cancelled"}

JobRecord == [status: Open \cup Terminal \cup Missing, progress: 0..100]

TrackerTypeOK ==
  /\ jobs \in [Jobs -> JobRecord]
  /\ futures \in [Jobs -> FutureStates]

TrackerInit ==
  /\ jobs = [j \in Jobs |-> [status |-> "unborn", progress |-> 0]]
  /\ futures = [j \in Jobs |-> "none"]

Status(j) == jobs[j].status
Tracked(j) == Status(j) \notin Missing

SetStatus(j, s) == jobs' = [jobs EXCEPT ![j].status = s]

\* Mutant: settles a future that is done again.
ResolveAgain(j, outcome) ==
  futures' = IF futures[j] # "none"
             THEN [futures EXCEPT ![j] = outcome]
             ELSE futures

\* `if future is not None and not future.done()`
ResolveFuture(j, outcome) ==
  futures' = IF futures[j] = "open"
             THEN [futures EXCEPT ![j] = outcome]
             ELSE futures

-----------------------------------------------------------------------------
CreateJob(j) ==
  /\ Status(j) = "unborn"
  /\ jobs' = [jobs EXCEPT ![j] = [status |-> "pending", progress |-> 0]]
  /\ futures' = [futures EXCEPT ![j] = "open"]

\* Mutant: writes the record of a job that is gone.
UpdateUntracked(j, p, s) ==
  /\ jobs' = [jobs EXCEPT ![j] =
                [status |-> IF s = "keep" THEN Status(j) ELSE s, progress |-> p]]
  /\ UNCHANGED futures

\* The status argument is optional: "keep" stands for None.
UpdateProgress(j, p, s) ==
  /\ jobs' = IF Tracked(j)
             THEN [jobs EXCEPT ![j] =
                     [status   |-> IF s = "keep" THEN Status(j) ELSE s,
                      progress |-> p]]
             ELSE jobs
  /\ UNCHANGED futures

\* Mutant: leaves the progress where the last report put it.
CompleteWithoutProgress(j) ==
  IF Tracked(j)
  THEN SetStatus(j, "completed") /\ ResolveFuture(j, "result")
  ELSE UNCHANGED trackerVars

CompleteJob(j) ==
  IF Tracked(j)
  THEN /\ jobs' = [jobs EXCEPT ![j] = [status |-> "completed", progress |-> 100]]
       /\ ResolveFuture(j, "result")
  ELSE UNCHANGED trackerVars

\* Mutant: marks the record and forgets the future.
FailSilently(j) ==
  IF Tracked(j)
  THEN SetStatus(j, "failed") /\ UNCHANGED futures
  ELSE UNCHANGED trackerVars

FailJob(j) ==
  IF Tracked(j)
  THEN SetStatus(j, "failed") /\ ResolveFuture(j, "exception")
  ELSE UNCHANGED trackerVars

\* Mutant: also cancels what is over.
CancellableWhenever(j) == Tracked(j)

\* What cancel_job answers in this state.
Cancellable(j) == Status(j) \in Open

CancelJob(j) ==
  IF Cancellable(j)
  THEN SetStatus(j, "cancelled") /\ ResolveFuture(j, "exception")
  ELSE UNCHANGED trackerVars

\* Which terminal jobs are old enough is left open: any non-empty set.
CleanupOldJobs(old) ==
  /\ old # {}
  /\ \A j \in old : Status(j) \in Terminal
  /\ jobs' = [j \in Jobs |-> IF j \in old
                             THEN [jobs[j] EXCEPT !.status = "dropped"]
                             ELSE jobs[j]]
  /\ futures' = [j \in Jobs |-> IF j \in old THEN "none" ELSE futures[j]]

-----------------------------------------------------------------------------
(* The table under arbitrary callers.  Every call site passes RUNNING or no *)
(* status at all to update_progress.                                        *)

CONSTANT ProgressLevels   \* the progress values callers report

ASSUME ProgressAssumption == ProgressLevels \subseteq 0..100

CallUpdate == \E j \in Jobs, p \in ProgressLevels, s \in {"keep", "running"} :
                UpdateProgress(j, p, s)

TrackerNext ==
  \/ \E j \in Jobs : CreateJob(j)
  \/ CallUpdate
  \/ \E j \in Jobs : CompleteJob(j)
  \/ \E j \in Jobs : FailJob(j)
  \/ \E j \in Jobs : CancelJob(j)
  \/ \E old \in SUBSET Jobs : CleanupOldJobs(old)

TrackerSpec == TrackerInit /\ [][TrackerNext]_trackerVars

-----------------------------------------------------------------------------
(* Properties *)

\* No job in a terminal status leaves a waiter of get_result hanging: whichever
\* of complete_job, fail_job and cancel_job came first has settled its future,
\* whatever progress updates came in between.
TerminalJobsWakeWaiters ==
  \A j \in Jobs : Status(j) \in Terminal => futures[j] \notin {"none", "open"}

\* A future is settled once and for all: the second verdict of a job (a cancel
\* that races the runner's own ending) never reaches a future that is done,
\* which asyncio would answer with InvalidStateError inside the lock.
FutureSettledOnce ==
  [][\A j \in Jobs : futures[j] \in {"result", "exception"} =>
        futures'[j] \in {futures[j], "none"}]_trackerVars

\* A dropped job never comes back: a late update, verdict or cancel of an
\* identifier that cleanup_old_jobs removed is ignored, and its future with it.
DroppedStaysDropped ==
  [][\A j \in Jobs : Status(j) = "dropped" =>
        /\ Status(j)' = "dropped"
        /\ futures'[j] = "none"]_trackerVars

=============================================================================
