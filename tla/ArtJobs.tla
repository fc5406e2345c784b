------------------------------ MODULE ArtJobs ------------------------------
(***************************************************************************)
(* Image generation jobs: the routes of api/routes/art_*.py, the task that *)
(* run_art_job is, and SidecarArtClient, which executes one request at a   *)
(* time against the art sidecar from a pool thread.                        *)
(*                                                                         *)
(* The event loop owns the tracker here: every step of a route or a task   *)
(* between two awaits is one step.  A pool thread reaches the loop only by *)
(* call_soon_threadsafe, a single FIFO (inbox), both for the progress      *)
(* updates it schedules and for the response it returns.  Cancelling has   *)
(* two halves: the record on the loop, then the client in a pool thread.   *)
(***************************************************************************)
EXTENDS JobTracker, Sequences

CONSTANTS Free,          \* the invoke lock is free
          MaxReports     \* bound: changes of the remote progress per job

ASSUME FreeAssumption == Free \notin Jobs
ASSUME MaxReportsAssumption == MaxReports \in Nat

VARIABLES
  call,          \* where the pool thread of each job stands
  reports,       \* remote progress changes left
  lock,          \* SidecarArtClient._invoke_lock
  active,        \* SidecarArtClient._active_jobs
  remote,        \* the sidecar's own record of each job
  inbox,         \* callbacks scheduled on the event loop
  toCancel,      \* client.cancel calls on their way in pool threads
  answered       \* jobs whose DELETE was answered {"status": "cancelled"}

vars == <<jobs, futures, call, reports, lock, active, remote, inbox, toCancel,
          answered>>

Outcomes == {"image", "failed", "cancelled"}
\* What the call is about to return in the states that end it.
OutcomeOf == [got_image     |-> "image",
              got_failed    |-> "failed",
              got_cancelled |-> "cancelled"]
CallStates == {"none", "queued", "submit", "announce", "track", "poll",
               "returned", "done"} \cup DOMAIN OutcomeOf
RemoteStates == {"none", "running", "completed", "failed", "cancelled"}

Progress(j) == [job |-> j, what |-> "progress"]
Response(j, outcome) == [job |-> j, what |-> outcome]

TypeOK ==
  /\ TrackerTypeOK
  /\ call \in [Jobs -> CallStates]
  /\ reports \in [Jobs -> 0..MaxReports]
  /\ lock \in Jobs \cup {Free}
  /\ {active, toCancel, answered} \subseteq SUBSET Jobs
  /\ remote \in [Jobs -> RemoteStates]
  /\ inbox \in Seq([job : Jobs, what : {"progress"} \cup Outcomes])

Init ==
  /\ TrackerInit
  /\ call = [j \in Jobs |-> "none"]
  /\ reports = [j \in Jobs |-> MaxReports]
  /\ lock = Free
  /\ active = {} /\ toCancel = {} /\ answered = {}
  /\ remote = [j \in Jobs |-> "none"]
  /\ inbox = <<>>

Goto(j, label) == call' = [call EXCEPT ![j] = label]
\* Mutant: the latest callback first.
ScheduleFirst(callback) == inbox' = <<callback>> \o inbox

Schedule(callback) == inbox' = Append(inbox, callback)

-----------------------------------------------------------------------------
(* Routes, on the event loop *)

\* create_generation_job: create, RUNNING at 1 percent, start the task, whose
\* first step hands the request to a pool thread.
Generate(j) ==
  /\ Status(j) = "unborn"
  /\ jobs' = [jobs EXCEPT ![j] = [status |-> "running", progress |-> 1]]
  /\ futures' = [futures EXCEPT ![j] = "open"]
  /\ Goto(j, "queued")
  /\ UNCHANGED <<reports, lock, active, remote, inbox, toCancel, answered>>

\* DELETE /cancel/{job_id}; a refusal (400) changes nothing.
CancelRoute(j) ==
  /\ Cancellable(j)
  /\ CancelJob(j)
  /\ toCancel' = toCancel \cup {j}
  /\ answered' = answered \cup {j}
  /\ UNCHANGED <<call, reports, lock, active, remote, inbox>>

\* SidecarArtClient.cancel: only a job it tracks is cancelled remotely, and the
\* remote call may fail, which is swallowed.
ClientCancel(j) ==
  /\ j \in toCancel
  /\ toCancel' = toCancel \ {j}
  /\ active' = active \ {j}
  /\ \/ /\ j \in active /\ remote[j] = "running"
        /\ remote' = [remote EXCEPT ![j] = "cancelled"]
     \/ UNCHANGED remote
  /\ UNCHANGED <<jobs, futures, call, reports, lock, inbox, answered>>

-----------------------------------------------------------------------------
(* SidecarArtClient._generate_image, in a pool thread *)

ThreadOnly == UNCHANGED <<jobs, futures, toCancel, answered>>

\* Mutant: does not wait for the lock.
AcquireUnlocked(j) ==
  /\ call[j] = "queued"
  /\ lock' = j
  /\ Goto(j, "submit")
  /\ UNCHANGED <<reports, active, remote, inbox>>
  /\ ThreadOnly

Acquire(j) ==
  /\ call[j] = "queued"
  /\ lock = Free
  /\ lock' = j
  /\ Goto(j, "submit")
  /\ UNCHANGED <<reports, active, remote, inbox>>
  /\ ThreadOnly

Submit(j) ==
  /\ call[j] = "submit"
  /\ remote' = [remote EXCEPT ![j] = "running"]
  /\ Goto(j, "announce")
  /\ UNCHANGED <<reports, lock, active, inbox>>
  /\ ThreadOnly

\* The launcher does not start, the sidecar does not take the job, or it does and
\* its answer is lost.
SubmitFails(j) ==
  /\ call[j] = "submit"
  /\ \/ UNCHANGED remote
     \/ remote' = [remote EXCEPT ![j] = "running"]
  /\ Goto(j, "got_failed")
  /\ UNCHANGED <<reports, lock, active, inbox>>
  /\ ThreadOnly

Announce(j) ==
  /\ call[j] = "announce"
  /\ Schedule(Progress(j))
  /\ Goto(j, "track")
  /\ UNCHANGED <<reports, lock, active, remote>>
  /\ ThreadOnly

TrackJob(j) ==
  /\ call[j] = "track"
  /\ active' = active \cup {j}
  /\ Goto(j, "poll")
  /\ UNCHANGED <<reports, lock, remote, inbox>>
  /\ ThreadOnly

\* A poll that finds new progress, or a new status, calls the progress callback
\* before it looks at what the status is; the callback schedules nothing when the
\* answer has no number for the progress.
PollProgress(j) ==
  /\ call[j] = "poll"
  /\ remote[j] = "running"
  /\ reports[j] > 0
  /\ reports' = [reports EXCEPT ![j] = @ - 1]
  /\ Schedule(Progress(j))
  /\ UNCHANGED <<call, lock, active, remote>>
  /\ ThreadOnly

\* Mutant: takes every terminal status but "failed" for success.
PollEndCoarse(j) ==
  /\ call[j] = "poll"
  /\ remote[j] \in {"completed", "failed", "cancelled"}
  /\ Schedule(Progress(j))
  /\ Goto(j, IF remote[j] = "failed" THEN "got_failed" ELSE "got_image")
  /\ UNCHANGED <<reports, lock, active, remote>>
  /\ ThreadOnly

PollEnd(j) ==
  /\ call[j] = "poll"
  /\ remote[j] \in {"completed", "failed", "cancelled"}
  /\ Schedule(Progress(j)) \/ UNCHANGED inbox
  /\ \/ remote[j] = "completed" /\ Goto(j, "got_image")
     \/ remote[j] = "cancelled" /\ Goto(j, "got_cancelled")
     \/ remote[j] \in {"completed", "failed"} /\ Goto(j, "got_failed")
  /\ UNCHANGED <<reports, lock, active, remote>>
  /\ ThreadOnly

\* A status request fails, or the deadline passes; only in the latter case is the
\* remote job cancelled, best effort.
PollFails(j) ==
  /\ call[j] = "poll"
  /\ \/ UNCHANGED remote
     \/ /\ remote[j] = "running"
        /\ remote' = [remote EXCEPT ![j] = "cancelled"]
  /\ Goto(j, "got_failed")
  /\ UNCHANGED <<reports, lock, active, inbox>>
  /\ ThreadOnly

\* Mutant: answers with its own state instead of an outcome.
ReturnRaw(j) ==
  /\ call[j] \in DOMAIN OutcomeOf
  /\ Schedule(Response(j, call[j]))
  /\ active' = active \ {j}
  /\ lock' = Free
  /\ Goto(j, "returned")
  /\ UNCHANGED <<reports, remote>>
  /\ ThreadOnly

Return(j) ==
  /\ call[j] \in DOMAIN OutcomeOf
  /\ Schedule(Response(j, OutcomeOf[call[j]]))
  /\ active' = active \ {j}
  /\ lock' = Free
  /\ Goto(j, "returned")
  /\ UNCHANGED <<reports, remote>>
  /\ ThreadOnly

Invoke(j) ==
  \/ Acquire(j) \/ Submit(j) \/ SubmitFails(j) \/ Announce(j) \/ TrackJob(j)
  \/ PollProgress(j) \/ PollEnd(j) \/ PollFails(j) \/ Return(j)

-----------------------------------------------------------------------------
(* The sidecar is the daemon of the same program in a process of its own: these  *)
(* are its run_art_job and its progress callback, seen through its status route. *)

SidecarOnly ==
  UNCHANGED <<jobs, futures, call, reports, lock, active, inbox, toCancel, answered>>

RemoteEnds(j) ==
  /\ remote[j] = "running"
  /\ \E s \in {"completed", "failed"} : remote' = [remote EXCEPT ![j] = s]
  /\ SidecarOnly

\* A progress update that comes after the cancel takes the sidecar's record back
\* to running, as DeliverProgress does here: its image is still being computed.
RemoteRevives(j) ==
  /\ remote[j] = "cancelled"
  /\ remote' = [remote EXCEPT ![j] = "running"]
  /\ SidecarOnly

-----------------------------------------------------------------------------
(* The event loop runs what the pool threads scheduled *)

DeliverProgress ==
  /\ inbox # <<>>
  /\ Head(inbox).what = "progress"
  /\ \E p \in ProgressLevels : UpdateProgress(Head(inbox).job, p, "running")
  /\ inbox' = Tail(inbox)
  /\ UNCHANGED <<call, reports, lock, active, remote, toCancel, answered>>

\* The end of run_art_job.  A response without a decodable image raises and counts
\* as a failure; fail_art_job and apply_art_response leave a cancelled job alone.
ApplyResponse ==
  /\ inbox # <<>>
  /\ LET j == Head(inbox).job
         outcome == Head(inbox).what
     IN /\ outcome \in Outcomes
        /\ CASE outcome = "cancelled"        -> CancelJob(j)
             [] Status(j) = "cancelled"      -> UNCHANGED trackerVars
             [] outcome = "failed"           -> FailJob(j)
             [] outcome = "image"            -> CompleteJob(j) \/ FailJob(j)
        /\ Goto(j, "done")
  /\ inbox' = Tail(inbox)
  /\ UNCHANGED <<reports, lock, active, remote, toCancel, answered>>

Deliver == DeliverProgress \/ ApplyResponse

-----------------------------------------------------------------------------
Next ==
  \/ \E j \in Jobs : Generate(j) \/ CancelRoute(j) \/ ClientCancel(j)
                       \/ Invoke(j) \/ RemoteEnds(j) \/ RemoteRevives(j)
  \/ Deliver

\* The loop runs what is scheduled; pool threads run, and a poll ends at its
\* deadline whatever the sidecar does.  No fairness for the routes.
Fairness ==
  /\ WF_vars(Deliver)
  /\ \A j \in Jobs : WF_vars(Invoke(j))

Spec == Init /\ [][Next]_vars /\ Fairness

-----------------------------------------------------------------------------
(* Properties *)

Verdict(j) == CASE call[j] = "none" -> "none"
                [] call[j] = "done" -> Status(j)
                [] OTHER            -> "open"

Lifecycle == INSTANCE JobLifecycle WITH verdict <- [j \in Jobs |-> Verdict(j)]

\* Seen from the end of its task, an art job gets one verdict and keeps it: the
\* progress updates a pool thread scheduled are applied before its response, so
\* none is left to revive a finished job.
ImplementsLifecycle == Lifecycle!LifecycleSpec

\* The call of j has given its job up: its answer will be a failure or "cancelled".
GivenUp(j) == call[j] \in {"got_failed", "got_cancelled", "returned", "done"}

\* The sidecar works for one call at a time.  It may run a second job only beside
\* one that was given up: the answer to its submission was lost, a poll of it
\* failed, or its cancelled record was revived after the poll that read it.
OneAwaitedJob ==
  \A i, j \in Jobs :
    i # j /\ remote[i] = "running" /\ remote[j] = "running" => GivenUp(i) \/ GivenUp(j)

\* A job that is complete here is complete in the sidecar: no image is made of a
\* job the sidecar failed, still runs or holds as cancelled, although a cancelled
\* record there may come back to life.
CompletedAtSidecar ==
  \A j \in Jobs : Status(j) = "completed" => remote[j] = "completed"

\* art_generation_job_routes.py:125 "the tracker state is the authoritative source
\* for callers polling this route surface": a job whose cancellation was answered
\* with "cancelled" is cancelled when it is over.
CancelAnswerHolds ==
  \A j \in Jobs : j \in answered /\ call[j] = "done" => Status(j) = "cancelled"

=============================================================================
