--------------------------- MODULE ArtJobs_proofs ---------------------------
(***************************************************************************)
(* Proofs about ArtJobs for any set of jobs and any number of reports.     *)
(*                                                                         *)
(* That the sidecar works for one call at a time is the lock's doing: who  *)
(* is between acquiring and releasing holds it, and a job the sidecar runs *)
(* is one of such a call or given up (JobInv).  The verdicts rest          *)
(* on the order of the event loop's inbox: what a pool thread schedules    *)
(* for its job is delivered before its response, so the response is the    *)
(* last callback of its job and the one that ends it (InboxInv); and an    *)
(* image comes only of a remote job that completed.                        *)
(***************************************************************************)
EXTENDS ArtJobs, JobTracker_proofs, SequenceTheorems

\* The places between acquiring and releasing the invoke lock.
Holding == {"submit", "announce", "track", "poll", "got_image", "got_failed", "got_cancelled"}

\* What holds of one job: its call against its record, the lock and the sidecar.
JobInv(j) ==
  /\ call[j] = "none" => Status(j) = "unborn"
  /\ call[j] \notin {"none", "done"} => Status(j) \in {"running", "cancelled"}
  /\ call[j] = "done" => Status(j) \in Terminal
  /\ call[j] \in Holding => lock = j
  /\ call[j] \in {"none", "queued", "submit"} => remote[j] = "none"
  /\ call[j] = "got_image" => remote[j] = "completed"
  /\ Status(j) = "completed" => remote[j] = "completed"

Callbacks == [job : Jobs, what : {"progress"} \cup Outcomes]

\* A callback that waits in the inbox is one of a call that is not over; a response
\* is one of a call that has returned.
CallbackInv(m) ==
  /\ call[m.job] \notin {"none", "done"}
  /\ m.what # "progress" => call[m.job] = "returned"
  /\ m.what = "image" => remote[m.job] = "completed"

\* A response is the last callback of its job.
ResponseIsLast ==
  \A i, k \in DOMAIN inbox :
    i < k /\ inbox[i].what # "progress" => inbox[k].job # inbox[i].job

InboxInv == ResponseIsLast /\ \A i \in DOMAIN inbox : CallbackInv(inbox[i])

AInv == TypeOK /\ IInv /\ InboxInv /\ \A j \in Jobs : JobInv(j)

-----------------------------------------------------------------------------
LEMMA InitAInv == Init => AInv
<1> SUFFICES ASSUME Init PROVE AInv
  OBVIOUS
<1>1. IInv
  BY InitIInv DEF Init
<1>2. TypeOK
  BY <1>1, MaxReportsAssumption DEF Init, IInv, TypeOK, CallStates, RemoteStates
<1>3. InboxInv
  BY DEF Init, InboxInv, ResponseIsLast
<1>4. ASSUME NEW j \in Jobs PROVE JobInv(j)
  BY DEF Init, TrackerInit, JobInv, Status, Holding
<1> QED BY <1>1, <1>2, <1>3, <1>4 DEF AInv

-----------------------------------------------------------------------------
(* The inbox *)

\* What makes a callback a true one is never undone while it waits.
Forward ==
  \A j \in Jobs :
    /\ call[j] \notin {"none", "done"} => call'[j] \notin {"none", "done"}
    /\ call[j] = "returned" => call'[j] = "returned"
    /\ remote[j] = "completed" => remote'[j] = "completed"

LEMMA ForwardKeepsInbox ==
  ASSUME AInv, Forward, UNCHANGED inbox
  PROVE  InboxInv'
<1>1. inbox \in Seq(Callbacks)
  BY DEF AInv, TypeOK, Callbacks
<1>2. ASSUME NEW i \in DOMAIN inbox PROVE CallbackInv(inbox[i])'
  <2>1. inbox[i] \in Callbacks
    BY <1>1
  <2>2. inbox[i].job \in Jobs
    BY <2>1 DEF Callbacks
  <2> QED BY <2>2 DEF AInv, InboxInv, CallbackInv, Forward
<1> QED BY <1>2 DEF AInv, InboxInv, ResponseIsLast

\* A callback may be scheduled as long as its job has not responded.
LEMMA ScheduleKeepsInbox ==
  ASSUME AInv, NEW m \in Callbacks, Schedule(m), Forward, call[m.job] # "returned",
         call'[m.job] \notin {"none", "done"},
         m.what # "progress" => call'[m.job] = "returned",
         m.what = "image" => remote'[m.job] = "completed"
  PROVE  InboxInv' /\ inbox' \in Seq(Callbacks)
<1>1. inbox \in Seq(Callbacks)
  BY DEF AInv, TypeOK, Callbacks
<1>2. inbox' \in Seq(Callbacks) /\ Len(inbox') = Len(inbox) + 1
      /\ inbox'[Len(inbox) + 1] = m /\ \A i \in 1..Len(inbox) : inbox'[i] = inbox[i]
  BY <1>1, AppendProperties DEF Schedule
<1>3. DOMAIN inbox = 1..Len(inbox) /\ DOMAIN inbox' = 1..(Len(inbox) + 1)
      /\ Len(inbox) \in Nat
  BY <1>1, <1>2, LenProperties
<1>4. ASSUME NEW i \in DOMAIN inbox PROVE CallbackInv(inbox[i])' /\ CallbackInv(inbox[i])
  <2>1. inbox[i] \in Callbacks
    BY <1>1
  <2>2. inbox[i].job \in Jobs /\ CallbackInv(inbox[i])
    BY <2>1 DEF Callbacks, AInv, InboxInv
  <2>3. inbox'[i] = inbox[i]
    BY <1>2, <1>3
  <2> QED BY <2>2, <2>3 DEF CallbackInv, Forward
<1>5. \A i \in DOMAIN inbox' : CallbackInv(inbox[i])'
  <2>1. CallbackInv(m)'
    BY DEF CallbackInv
  <2> QED BY <1>2, <1>3, <1>4, <2>1 DEF CallbackInv
<1>6. \A i \in DOMAIN inbox : inbox[i].what # "progress" => inbox[i].job # m.job
  BY <1>4 DEF CallbackInv
<1>7. ResponseIsLast'
  BY <1>2, <1>3, <1>6 DEF AInv, InboxInv, ResponseIsLast
<1> QED BY <1>2, <1>5, <1>7 DEF InboxInv

\* What the event loop finds at the head of the inbox, and what is left behind it.
LEMMA DeliveredFromInbox ==
  ASSUME AInv, inbox # <<>>, inbox' = Tail(inbox)
  PROVE  /\ Head(inbox) \in Callbacks /\ CallbackInv(Head(inbox))
         /\ inbox' \in Seq(Callbacks)
         /\ ResponseIsLast'
         /\ \A i \in DOMAIN inbox' :
              /\ inbox'[i] \in Callbacks /\ CallbackInv(inbox'[i])
              /\ Head(inbox).what # "progress" => inbox'[i].job # Head(inbox).job
<1>1. inbox \in Seq(Callbacks)
  BY DEF AInv, TypeOK, Callbacks
<1>2. Head(inbox) = inbox[1] /\ Len(inbox) \in Nat /\ 1 \in DOMAIN inbox
      /\ DOMAIN inbox = 1..Len(inbox)
  BY <1>1
<1>3. inbox' \in Seq(Callbacks) /\ Len(inbox') = Len(inbox) - 1
      /\ \A i \in 1..(Len(inbox) - 1) : inbox'[i] = inbox[i + 1]
  BY <1>1
<1>4. DOMAIN inbox' = 1..(Len(inbox) - 1)
  BY <1>3
<1>5. \A i \in DOMAIN inbox' : i + 1 \in DOMAIN inbox /\ inbox'[i] = inbox[i + 1]
  BY <1>2, <1>3, <1>4
<1>6. \A i \in DOMAIN inbox : inbox[i] \in Callbacks /\ CallbackInv(inbox[i])
  BY <1>1 DEF AInv, InboxInv
<1>7. ResponseIsLast'
  BY <1>4, <1>5 DEF AInv, InboxInv, ResponseIsLast
<1>8. \A i \in DOMAIN inbox' : Head(inbox).what # "progress" => inbox'[i].job # Head(inbox).job
  BY <1>2, <1>4, <1>5 DEF AInv, InboxInv, ResponseIsLast
<1> QED BY <1>2, <1>3, <1>5, <1>6, <1>7, <1>8

-----------------------------------------------------------------------------
(* A step that concerns the job j only *)

Frame(j) ==
  /\ \A k \in Jobs \ {j} : call'[k] = call[k] /\ remote'[k] = remote[k] /\ jobs'[k] = jobs[k]
  /\ lock' # lock => lock \in {Free, j}

LEMMA FrameKeepsAInv ==
  ASSUME AInv, NEW j \in Jobs, Frame(j), TypeOK', IInv', InboxInv', JobInv(j)'
  PROVE  AInv'
<1>1. ASSUME NEW k \in Jobs, k # j PROVE JobInv(k)'
  <2>1. JobInv(k) /\ call'[k] = call[k] /\ remote'[k] = remote[k] /\ jobs'[k] = jobs[k]
    BY <1>1 DEF AInv, Frame
  <2>2. lock = k => lock' = k
    BY <1>1, FreeAssumption DEF Frame
  <2> QED BY <2>1, <2>2 DEF JobInv, Status
<1> QED BY <1>1 DEF AInv

\* A step of a pool thread, of a cancel on its way or of the sidecar leaves the
\* table alone.
LEMMA OffLoopKeepsAInv ==
  ASSUME AInv, NEW j \in Jobs, Frame(j), UNCHANGED trackerVars, InboxInv', JobInv(j)',
         call' \in [Jobs -> CallStates], reports' \in [Jobs -> 0..MaxReports],
         lock' \in Jobs \cup {Free}, remote' \in [Jobs -> RemoteStates],
         inbox' \in Seq(Callbacks), {active, toCancel, answered}' \subseteq SUBSET Jobs
  PROVE  AInv'
<1>1. IInv'
  BY StutterKeepsIInv DEF AInv
<1>2. TypeOK'
  BY <1>1 DEF IInv, TypeOK, Callbacks
<1> QED BY <1>1, <1>2, FrameKeepsAInv

LEMMA OffLoopTypes ==
  ASSUME AInv
  PROVE  /\ call \in [Jobs -> CallStates] /\ reports \in [Jobs -> 0..MaxReports]
         /\ lock \in Jobs \cup {Free} /\ remote \in [Jobs -> RemoteStates]
         /\ inbox \in Seq(Callbacks)
         /\ active \in SUBSET Jobs /\ toCancel \in SUBSET Jobs /\ answered \in SUBSET Jobs
         /\ DOMAIN OutcomeOf = {"got_image", "got_failed", "got_cancelled"}
         /\ OutcomeOf["got_image"] = "image" /\ OutcomeOf["got_failed"] = "failed"
         /\ OutcomeOf["got_cancelled"] = "cancelled"
BY DEF AInv, TypeOK, Callbacks, OutcomeOf

-----------------------------------------------------------------------------
(* The pool threads *)

\* The steps of a pool thread that schedule nothing.
LEMMA SilentStepsKeepAInv ==
  ASSUME AInv, NEW j \in Jobs,
         Acquire(j) \/ Submit(j) \/ SubmitFails(j) \/ TrackJob(j) \/ PollFails(j)
  PROVE  AInv'
<1> USE OffLoopTypes DEF ThreadOnly, Goto, Frame, JobInv, Holding, Status
<1>1. JobInv(j) /\ UNCHANGED trackerVars /\ UNCHANGED inbox
  BY DEF AInv, Acquire, Submit, SubmitFails, TrackJob, PollFails, trackerVars
<1>2. Forward /\ call' \in [Jobs -> CallStates] /\ remote' \in [Jobs -> RemoteStates]
      /\ Frame(j) /\ JobInv(j)'
  <2>1. CASE Acquire(j)
    BY <1>1, <2>1 DEF Acquire, Forward, CallStates, RemoteStates, trackerVars
  <2>2. CASE Submit(j)
    BY <1>1, <2>2 DEF Submit, Forward, CallStates, RemoteStates, trackerVars
  <2>3. CASE SubmitFails(j)
    BY <1>1, <2>3 DEF SubmitFails, Forward, CallStates, RemoteStates, trackerVars
  <2>4. CASE TrackJob(j)
    BY <1>1, <2>4 DEF TrackJob, Forward, CallStates, RemoteStates, trackerVars
  <2>5. CASE PollFails(j)
    BY <1>1, <2>5 DEF PollFails, Forward, CallStates, RemoteStates, trackerVars
  <2> QED BY <2>1, <2>2, <2>3, <2>4, <2>5
<1>3. InboxInv'
  BY <1>1, <1>2, ForwardKeepsInbox
<1>4. reports' \in [Jobs -> 0..MaxReports] /\ lock' \in Jobs \cup {Free}
      /\ {active, toCancel, answered}' \subseteq SUBSET Jobs
  BY DEF Acquire, Submit, SubmitFails, TrackJob, PollFails
<1> QED BY <1>1, <1>2, <1>3, <1>4, OffLoopKeepsAInv

\* The steps that schedule a progress report.
LEMMA AnnouncementsKeepAInv ==
  ASSUME AInv, NEW j \in Jobs, Announce(j) \/ PollProgress(j) \/ PollEnd(j)
  PROVE  AInv'
<1> USE OffLoopTypes DEF ThreadOnly, Goto, Frame, JobInv, Holding, Status
<1>1. JobInv(j) /\ UNCHANGED trackerVars /\ (Schedule(Progress(j)) \/ UNCHANGED inbox)
      /\ call[j] \in {"announce", "poll"}
  BY DEF AInv, Announce, PollProgress, PollEnd, trackerVars
<1>2. Forward /\ call' \in [Jobs -> CallStates] /\ remote' \in [Jobs -> RemoteStates]
      /\ Frame(j) /\ JobInv(j)' /\ call'[j] \notin {"none", "done"}
  <2>1. CASE Announce(j)
    BY <1>1, <2>1 DEF Announce, Forward, CallStates, RemoteStates, trackerVars
  <2>2. CASE PollProgress(j)
    BY <1>1, <2>2 DEF PollProgress, Forward, CallStates, RemoteStates, trackerVars
  <2>3. CASE PollEnd(j)
    BY <1>1, <2>3 DEF PollEnd, Forward, CallStates, RemoteStates, trackerVars
  <2> QED BY <2>1, <2>2, <2>3
<1>3. Progress(j) \in Callbacks /\ Progress(j).what = "progress" /\ Progress(j).job = j
  BY DEF Callbacks, Progress
<1>4. InboxInv' /\ inbox' \in Seq(Callbacks)
  <2>1. CASE Schedule(Progress(j))
    BY <1>1, <1>2, <1>3, <2>1, ScheduleKeepsInbox
  <2>2. CASE UNCHANGED inbox
    BY <1>2, <2>2, ForwardKeepsInbox
  <2> QED BY <1>1, <2>1, <2>2
<1>5. reports' \in [Jobs -> 0..MaxReports]
  <2>1. reports \in [Jobs -> 0..MaxReports] /\ reports[j] \in 0..MaxReports
    OBVIOUS
  <2>2. reports[j] > 0 => reports[j] - 1 \in 0..MaxReports
    BY <2>1, MaxReportsAssumption
  <2>3. UNCHANGED reports \/ (reports[j] > 0 /\ reports' = [reports EXCEPT ![j] = @ - 1])
    BY DEF Announce, PollProgress, PollEnd
  <2> QED BY <2>1, <2>2, <2>3
<1>6. lock' \in Jobs \cup {Free} /\ {active, toCancel, answered}' \subseteq SUBSET Jobs
  BY DEF Announce, PollProgress, PollEnd
<1> QED BY <1>1, <1>2, <1>4, <1>5, <1>6, OffLoopKeepsAInv

\* The response, and the release of the lock.
LEMMA ReturnKeepsAInv ==
  ASSUME AInv, NEW j \in Jobs, Return(j)
  PROVE  AInv'
<1> DEFINE m == Response(j, OutcomeOf[call[j]])
<1> USE OffLoopTypes
<1>1. JobInv(j) /\ UNCHANGED trackerVars /\ Schedule(m) /\ UNCHANGED <<remote, reports>>
      /\ call[j] \in {"got_image", "got_failed", "got_cancelled"}
      /\ call' = [call EXCEPT ![j] = "returned"] /\ lock' = Free /\ lock = j
      /\ active' = active \ {j} /\ UNCHANGED <<toCancel, answered>>
  BY DEF AInv, Return, ThreadOnly, Goto, trackerVars, JobInv, Holding
<1>2. Forward /\ call' \in [Jobs -> CallStates] /\ Frame(j) /\ call'[j] = "returned"
  BY <1>1 DEF Forward, CallStates, Frame, trackerVars
<1>3. JobInv(j)'
  BY <1>1, <1>2 DEF JobInv, Holding, Status, trackerVars
<1>4. OutcomeOf[call[j]] \in Outcomes
      /\ (OutcomeOf[call[j]] = "image" => remote[j] = "completed")
  BY <1>1 DEF JobInv, Outcomes
<1>5. m \in Callbacks /\ m.job = j /\ m.what = OutcomeOf[call[j]]
  BY <1>4 DEF Callbacks, Response
<1>6. InboxInv' /\ inbox' \in Seq(Callbacks)
  <2>1. \A c \in Callbacks : c = m => InboxInv' /\ inbox' \in Seq(Callbacks)
    BY <1>1, <1>2, <1>4, <1>5, ScheduleKeepsInbox
  <2> QED BY <1>5, <2>1
<1> QED BY <1>1, <1>2, <1>3, <1>6, OffLoopKeepsAInv

\* The other half of a cancellation, and the sidecar's own end of a job.
LEMMA RemoteStepsKeepAInv ==
  ASSUME AInv, NEW j \in Jobs, ClientCancel(j) \/ RemoteEnds(j) \/ RemoteRevives(j)
  PROVE  AInv'
<1> USE OffLoopTypes
<1>1. JobInv(j) /\ UNCHANGED <<jobs, futures, inbox, call, lock, reports, answered>>
      /\ \/ UNCHANGED remote
         \/ /\ remote[j] \in {"running", "cancelled"}
            /\ \E s \in RemoteStates \ {"none"} : remote' = [remote EXCEPT ![j] = s]
  BY DEF AInv, ClientCancel, RemoteEnds, RemoteRevives, SidecarOnly, RemoteStates
<1>2. Forward /\ remote' \in [Jobs -> RemoteStates] /\ Frame(j) /\ JobInv(j)'
  BY <1>1 DEF Forward, RemoteStates, Frame, JobInv, Status
<1>3. InboxInv'
  BY <1>1, <1>2, ForwardKeepsInbox
<1>4. {active, toCancel, answered}' \subseteq SUBSET Jobs
  BY DEF ClientCancel, RemoteEnds, RemoteRevives, SidecarOnly
<1> QED BY <1>1, <1>2, <1>3, <1>4, OffLoopKeepsAInv DEF trackerVars

-----------------------------------------------------------------------------
(* The event loop *)

\* The record of the job j is replaced, if anything; its call goes on.
LoopOnly == UNCHANGED <<reports, lock, active, remote>>

LEMMA OnLoopKeepsAInv ==
  ASSUME AInv, NEW j \in Jobs, IInv', InboxInv', JobInv(j)', LoopOnly,
         \A k \in Jobs \ {j} : jobs'[k] = jobs[k],
         NEW label \in CallStates, call' = [call EXCEPT ![j] = label],
         inbox' \in Seq(Callbacks), {toCancel, answered}' \subseteq SUBSET Jobs
  PROVE  AInv'
<1>1. call \in [Jobs -> CallStates]
  BY OffLoopTypes
<1>2. Frame(j)
  BY <1>1 DEF Frame, LoopOnly
<1>3. TypeOK'
  BY <1>1, OffLoopTypes DEF TypeOK, Callbacks, IInv, LoopOnly
<1> QED BY <1>2, <1>3, FrameKeepsAInv

\* Leaving a call alone is a special case.
LEMMA CallUnchanged ==
  ASSUME AInv, NEW j \in Jobs, UNCHANGED call
  PROVE  call[j] \in CallStates /\ call' = [call EXCEPT ![j] = call[j]]
BY OffLoopTypes

LEMMA GenerateKeepsAInv ==
  ASSUME AInv, NEW j \in Jobs, Generate(j)
  PROVE  AInv'
<1> DEFINE r == [status |-> "running", progress |-> 1]
<1>1. Status(j) = "unborn" /\ jobs' = [jobs EXCEPT ![j] = r]
      /\ futures' = [futures EXCEPT ![j] = "open"] /\ call' = [call EXCEPT ![j] = "queued"]
      /\ LoopOnly /\ UNCHANGED <<inbox, toCancel, answered>>
  BY DEF Generate, Goto, LoopOnly
<1>2. jobs \in [Jobs -> JobRecord] /\ futures \in [Jobs -> FutureStates]
      /\ call \in [Jobs -> CallStates] /\ JobInv(j)
  BY OffLoopTypes DEF AInv, IInv, TrackerTypeOK
<1>3. call[j] = "none"
  BY <1>1, <1>2 DEF JobInv, Terminal
<1>4. IInv'
  <2>1. r \in JobRecord /\ r.status = "running"
    BY DEF JobRecord, Open
  <2>2. \A k \in Jobs : /\ Status(k)' = (IF k = j THEN "running" ELSE Status(k))
                         /\ futures'[k] = (IF k = j THEN "open" ELSE futures[k])
    BY <1>1, <1>2, <2>1 DEF Status
  <2>3. TrackerTypeOK'
    BY <1>1, <1>2, <2>1 DEF TrackerTypeOK, FutureStates
  <2>4. TrackedHasFuture'
    BY <2>2 DEF AInv, IInv, TrackedHasFuture, Tracked, Missing
  <2>5. TerminalJobsWakeWaiters'
    BY <2>2 DEF AInv, IInv, TerminalJobsWakeWaiters, Terminal
  <2> QED BY <2>3, <2>4, <2>5 DEF IInv
<1>5. Forward
  BY <1>1, <1>2, <1>3 DEF Forward, LoopOnly
<1>6. InboxInv'
  BY <1>1, <1>5, ForwardKeepsInbox
<1>7. JobInv(j)'
  BY <1>1, <1>2, <1>3 DEF JobInv, Status, LoopOnly, Holding
<1>8. "queued" \in CallStates
  BY DEF CallStates
<1> QED BY <1>1, <1>2, <1>4, <1>6, <1>7, <1>8, OffLoopTypes, OnLoopKeepsAInv

LEMMA CancelRouteKeepsAInv ==
  ASSUME AInv, NEW j \in Jobs, CancelRoute(j)
  PROVE  AInv'
<1>1. Cancellable(j) /\ CancelJob(j) /\ UNCHANGED <<call, inbox>> /\ LoopOnly
      /\ {toCancel, answered}' \subseteq SUBSET Jobs
  BY OffLoopTypes DEF CancelRoute, LoopOnly
<1>2. jobs \in [Jobs -> JobRecord] /\ JobInv(j)
  BY DEF AInv, IInv, TrackerTypeOK
<1>3. Status(j)' = "cancelled" /\ \A k \in Jobs \ {j} : jobs'[k] = jobs[k]
  BY <1>1, <1>2 DEF CancelJob, SetStatus, Status, JobRecord
<1>4. IInv'
  BY <1>1, CancelJobKeepsIInv DEF AInv
<1>5. InboxInv'
  BY <1>1, ForwardKeepsInbox DEF Forward, LoopOnly
<1>6. JobInv(j)'
  BY <1>1, <1>2, <1>3 DEF JobInv, Cancellable, Open, Terminal, LoopOnly
<1> QED BY <1>1, <1>3, <1>4, <1>5, <1>6, OffLoopTypes, CallUnchanged, OnLoopKeepsAInv

\* A report that is delivered finds its job at work, so it revives no verdict.
LEMMA DeliverProgressKeepsAInv ==
  ASSUME AInv, DeliverProgress
  PROVE  AInv'
<1>1. inbox # <<>> /\ inbox' = Tail(inbox) /\ UNCHANGED <<call, toCancel, answered>> /\ LoopOnly
  BY DEF DeliverProgress, LoopOnly
<1>0. PICK j \in Jobs : j = Head(inbox).job
  BY <1>1, DeliveredFromInbox DEF Callbacks
<1>2. PICK p \in ProgressLevels : UpdateProgress(j, p, "running")
  BY <1>0 DEF DeliverProgress
<1>3. call[j] \notin {"none", "done"} /\ inbox' \in Seq(Callbacks)
  BY <1>0, <1>1, DeliveredFromInbox DEF CallbackInv
<1>4. p \in 0..100 /\ JobInv(j) /\ jobs \in [Jobs -> JobRecord]
  BY <1>3, ProgressAssumption DEF AInv, IInv, TrackerTypeOK
<1>5. IInv'
  BY <1>2, <1>3, <1>4, UpdateProgressKeepsIInv DEF AInv
<1>6. jobs' = [jobs EXCEPT ![j] = [status |-> "running", progress |-> p]]
  BY <1>2, <1>3, <1>4 DEF UpdateProgress, JobInv, Tracked, Missing
<1>7. InboxInv'
  <2>1. \A i \in DOMAIN inbox' : inbox'[i] \in Callbacks /\ CallbackInv(inbox'[i])
    BY <1>1, DeliveredFromInbox
  <2>2. ASSUME NEW i \in DOMAIN inbox' PROVE CallbackInv(inbox[i])'
    BY <1>1, <2>1, <2>2 DEF CallbackInv, LoopOnly
  <2> QED BY <1>1, <2>2, DeliveredFromInbox DEF InboxInv
<1>8. JobInv(j)'
  BY <1>1, <1>3, <1>4, <1>6 DEF JobInv, Status, LoopOnly
<1>9. \A k \in Jobs \ {j} : jobs'[k] = jobs[k]
  BY <1>4, <1>6
<1> QED BY <1>1, <1>3, <1>5, <1>7, <1>8, <1>9, OffLoopTypes, CallUnchanged, OnLoopKeepsAInv

\* The verdict the end of run_art_job gives: a terminal one, and "completed" only
\* for an image.
LEMMA ResponseVerdict ==
  ASSUME AInv, NEW j \in Jobs, NEW o \in Outcomes, Status(j) \in {"running", "cancelled"},
         CASE o = "cancelled"        -> CancelJob(j)
           [] Status(j) = "cancelled" -> UNCHANGED trackerVars
           [] o = "failed"           -> FailJob(j)
           [] o = "image"            -> CompleteJob(j) \/ FailJob(j)
  PROVE  /\ IInv'
         /\ Status(j)' \in Terminal
         /\ Status(j)' = "completed" => o = "image"
         /\ \A k \in Jobs \ {j} : jobs'[k] = jobs[k]
<1>1. jobs \in [Jobs -> JobRecord] /\ Tracked(j)
  BY DEF AInv, IInv, TrackerTypeOK, Tracked, Missing
<1>2. \/ CancelJob(j) /\ Status(j) = "running"
      \/ UNCHANGED trackerVars /\ Status(j) = "cancelled"
      \/ FailJob(j)
      \/ CompleteJob(j) /\ o = "image"
  BY DEF Outcomes, CancelJob, Cancellable, Open
<1>3. CASE CancelJob(j) /\ Status(j) = "running"
  BY <1>1, <1>3, CancelJobKeepsIInv
     DEF AInv, CancelJob, Cancellable, Open, SetStatus, Status, Terminal, JobRecord
<1>4. CASE UNCHANGED trackerVars /\ Status(j) = "cancelled"
  BY <1>1, <1>4, StutterKeepsIInv DEF AInv, trackerVars, Status, Terminal
<1>5. CASE FailJob(j)
  BY <1>1, <1>5, FailJobKeepsIInv DEF AInv, FailJob, SetStatus, Status, Terminal, JobRecord
<1>6. CASE CompleteJob(j) /\ o = "image"
  BY <1>1, <1>6, CompleteJobKeepsIInv DEF AInv, CompleteJob, Status, Terminal
<1> QED BY <1>2, <1>3, <1>4, <1>5, <1>6

\* The response is the last callback of its job, so no report outlives the verdict.
LEMMA ApplyResponseKeepsAInv ==
  ASSUME AInv, ApplyResponse
  PROVE  AInv'
<1>1. inbox # <<>> /\ inbox' = Tail(inbox) /\ UNCHANGED <<toCancel, answered>> /\ LoopOnly
  BY DEF ApplyResponse, LoopOnly
<1>2. PICK j \in Jobs, o \in Outcomes : j = Head(inbox).job /\ o = Head(inbox).what
  BY <1>1, DeliveredFromInbox DEF Callbacks, ApplyResponse
<1>3. call[j] = "returned" /\ (o = "image" => remote[j] = "completed")
  BY <1>1, <1>2, DeliveredFromInbox DEF CallbackInv, Outcomes
<1>4. JobInv(j) /\ Status(j) \in {"running", "cancelled"}
  BY <1>3 DEF AInv, JobInv
<1>5. IInv' /\ Status(j)' \in Terminal /\ (Status(j)' = "completed" => o = "image")
      /\ \A k \in Jobs \ {j} : jobs'[k] = jobs[k]
  BY <1>2, <1>4, ResponseVerdict DEF ApplyResponse
<1>6. call' = [call EXCEPT ![j] = "done"] /\ call \in [Jobs -> CallStates]
  BY <1>2, OffLoopTypes DEF ApplyResponse, Goto
<1>7. InboxInv' /\ inbox' \in Seq(Callbacks)
  <2>1. \A i \in DOMAIN inbox' :
          inbox'[i] \in Callbacks /\ CallbackInv(inbox'[i]) /\ inbox'[i].job # j
    BY <1>1, <1>2, DeliveredFromInbox DEF Outcomes
  <2>2. ASSUME NEW i \in DOMAIN inbox' PROVE CallbackInv(inbox[i])'
    BY <1>1, <1>6, <2>1, <2>2 DEF CallbackInv, LoopOnly, Callbacks
  <2> QED BY <1>1, <2>2, DeliveredFromInbox DEF InboxInv
<1>8. JobInv(j)'
  BY <1>1, <1>3, <1>4, <1>5, <1>6 DEF JobInv, LoopOnly, Holding
<1>9. "done" \in CallStates
  BY DEF CallStates
<1> QED BY <1>1, <1>5, <1>6, <1>7, <1>8, <1>9, OffLoopTypes, OnLoopKeepsAInv

-----------------------------------------------------------------------------
LEMMA StutterKeepsAInv ==
  ASSUME AInv, UNCHANGED vars
  PROVE  AInv'
<1>1. IInv'
  BY StutterKeepsIInv DEF AInv, vars, trackerVars
<1>2. TypeOK'
  BY <1>1 DEF AInv, TypeOK, IInv, vars
<1>3. InboxInv'
  BY ForwardKeepsInbox DEF Forward, vars
<1>4. \A j \in Jobs : JobInv(j)'
  BY DEF AInv, JobInv, Status, vars
<1> QED BY <1>1, <1>2, <1>3, <1>4 DEF AInv

LEMMA NextAInv == AInv /\ [Next]_vars => AInv'
<1> SUFFICES ASSUME AInv, [Next]_vars
             PROVE  AInv'
  OBVIOUS
<1>1. ASSUME NEW j \in Jobs, Generate(j)
      PROVE  AInv'
  BY <1>1, GenerateKeepsAInv
<1>2. ASSUME NEW j \in Jobs, CancelRoute(j)
      PROVE  AInv'
  BY <1>2, CancelRouteKeepsAInv
<1>3. ASSUME NEW j \in Jobs, ClientCancel(j) \/ RemoteEnds(j) \/ RemoteRevives(j)
      PROVE  AInv'
  BY <1>3, RemoteStepsKeepAInv
<1>4. ASSUME NEW j \in Jobs, Invoke(j)
      PROVE  AInv'
  BY <1>4, SilentStepsKeepAInv, AnnouncementsKeepAInv, ReturnKeepsAInv DEF Invoke
<1>5. CASE Deliver
  BY <1>5, DeliverProgressKeepsAInv, ApplyResponseKeepsAInv DEF Deliver
<1>6. CASE UNCHANGED vars
  BY <1>6, StutterKeepsAInv
<1> QED BY <1>1, <1>2, <1>3, <1>4, <1>5, <1>6 DEF Next

LEMMA SpecAInv == Spec => []AInv
BY InitAInv, NextAInv, PTL DEF Spec

-----------------------------------------------------------------------------
(* The refinement *)

\* An ended job is out of reach: it is not cancellable, and no callback of it is
\* left.  Every other step leaves the calls in the same third of their lives.
VerdictStays(j) ==
  /\ call[j] = "none" <=> call'[j] = "none"
  /\ call[j] = "done" <=> call'[j] = "done"
  /\ call[j] = "done" => jobs'[j] = jobs[j]

LEMMA VerdictStaysMeansStutter ==
  ASSUME \A j \in Jobs : VerdictStays(j)
  PROVE  UNCHANGED [j \in Jobs |-> Verdict(j)]
<1>1. \A j \in Jobs : Verdict(j)' = Verdict(j)
  BY DEF VerdictStays, Verdict, Status
<1> QED BY <1>1

LEMMA OffLoopKeepsVerdicts ==
  ASSUME AInv, NEW j \in Jobs, ClientCancel(j) \/ RemoteEnds(j) \/ RemoteRevives(j) \/ Invoke(j)
  PROVE  \A k \in Jobs : VerdictStays(k)
<1>1. call \in [Jobs -> CallStates] /\ UNCHANGED jobs
  BY OffLoopTypes
     DEF ClientCancel, RemoteEnds, RemoteRevives, SidecarOnly, Invoke, Acquire, Submit, SubmitFails, Announce, TrackJob,
         PollProgress, PollEnd, PollFails, Return, ThreadOnly
<1>2. \/ UNCHANGED call
      \/ call[j] \notin {"none", "done"}
         /\ \E label \in CallStates \ {"none", "done"} : call' = [call EXCEPT ![j] = label]
  BY DEF ClientCancel, RemoteEnds, RemoteRevives, SidecarOnly, Invoke, Acquire, Submit, SubmitFails, Announce, TrackJob,
         PollProgress, PollEnd, PollFails, Return, Goto, CallStates, OutcomeOf
<1> QED BY <1>1, <1>2 DEF VerdictStays

LEMMA CancelRouteKeepsVerdicts ==
  ASSUME AInv, NEW j \in Jobs, CancelRoute(j)
  PROVE  \A k \in Jobs : VerdictStays(k)
<1>1. UNCHANGED call /\ Cancellable(j) /\ SetStatus(j, "cancelled")
  BY DEF CancelRoute, CancelJob
<1>2. call[j] # "done"
  BY <1>1 DEF AInv, JobInv, Cancellable, Open, Terminal
<1>3. \A k \in Jobs \ {j} : jobs'[k] = jobs[k]
  BY <1>1 DEF SetStatus, AInv, IInv, TrackerTypeOK
<1> QED BY <1>1, <1>2, <1>3 DEF VerdictStays

LEMMA ProgressKeepsVerdicts ==
  ASSUME AInv, DeliverProgress
  PROVE  \A k \in Jobs : VerdictStays(k)
<1>1. PICK j \in Jobs : j = Head(inbox).job /\ call[j] \notin {"none", "done"}
  BY DeliveredFromInbox DEF DeliverProgress, Callbacks, CallbackInv
<1>2. UNCHANGED call /\ \E p \in ProgressLevels : UpdateProgress(j, p, "running")
  BY <1>1 DEF DeliverProgress
<1>3. \A k \in Jobs \ {j} : jobs'[k] = jobs[k]
  BY <1>2 DEF UpdateProgress, AInv, IInv, TrackerTypeOK
<1> QED BY <1>1, <1>2, <1>3 DEF VerdictStays

LEMMA GenerateOpens ==
  ASSUME AInv, NEW j \in Jobs, Generate(j)
  PROVE  Lifecycle!Open(j)
<1>1. call \in [Jobs -> CallStates] /\ call' = [call EXCEPT ![j] = "queued"]
      /\ Status(j) = "unborn" /\ JobInv(j)
  BY OffLoopTypes DEF Generate, Goto, AInv
<1>2. call[j] = "none"
  BY <1>1 DEF JobInv, Terminal
<1>3. \A k \in Jobs \ {j} : jobs'[k] = jobs[k]
  BY DEF Generate, AInv, IInv, TrackerTypeOK
<1>4. \A k \in Jobs : Verdict(k)' = IF k = j THEN "open" ELSE Verdict(k)
  BY <1>1, <1>3 DEF Verdict, Status
<1>5. Verdict(j) = "none"
  BY <1>2 DEF Verdict
<1> QED BY <1>4, <1>5 DEF Lifecycle!Open

LEMMA ResponseCloses ==
  ASSUME AInv, ApplyResponse
  PROVE  \E j \in Jobs : Lifecycle!Close(j)
<1>1. PICK j \in Jobs, o \in Outcomes : j = Head(inbox).job /\ o = Head(inbox).what
  BY DeliveredFromInbox DEF Callbacks, ApplyResponse
<1>2. call[j] = "returned"
  BY <1>1, DeliveredFromInbox DEF ApplyResponse, CallbackInv, Outcomes
<1>3. Status(j) \in {"running", "cancelled"}
  BY <1>2 DEF AInv, JobInv
<1>4. Status(j)' \in Terminal /\ \A k \in Jobs \ {j} : jobs'[k] = jobs[k]
  BY <1>1, <1>3, ResponseVerdict DEF ApplyResponse
<1>5. call \in [Jobs -> CallStates] /\ call' = [call EXCEPT ![j] = "done"]
  BY <1>1, OffLoopTypes DEF ApplyResponse, Goto
<1>6. Verdict(j) = "open" /\ Verdict(j)' = Status(j)'
  BY <1>2, <1>5 DEF Verdict
<1>7. \A k \in Jobs \ {j} : Verdict(k)' = Verdict(k)
  BY <1>4, <1>5 DEF Verdict, Status
<1>8. [k \in Jobs |-> Verdict(k)]' = [[k \in Jobs |-> Verdict(k)] EXCEPT ![j] = Status(j)']
  BY <1>6, <1>7
<1> QED BY <1>4, <1>6, <1>8 DEF Lifecycle!Close, Lifecycle!Verdicts, Terminal

LEMMA StepsRefineLifecycle ==
  ASSUME AInv, [Next]_vars
  PROVE  [Lifecycle!LifecycleNext]_([j \in Jobs |-> Verdict(j)])
<1>1. ASSUME NEW j \in Jobs, Generate(j)
      PROVE  Lifecycle!LifecycleNext
  BY <1>1, GenerateOpens DEF Lifecycle!LifecycleNext
<1>2. CASE ApplyResponse
  BY <1>2, ResponseCloses DEF Lifecycle!LifecycleNext
<1>3. ASSUME NEW j \in Jobs, ClientCancel(j) \/ RemoteEnds(j) \/ RemoteRevives(j) \/ Invoke(j) \/ CancelRoute(j)
      PROVE  UNCHANGED [k \in Jobs |-> Verdict(k)]
  BY <1>3, OffLoopKeepsVerdicts, CancelRouteKeepsVerdicts, VerdictStaysMeansStutter
<1>4. CASE DeliverProgress
  BY <1>4, ProgressKeepsVerdicts, VerdictStaysMeansStutter
<1>5. CASE UNCHANGED vars
  <2>1. \A j \in Jobs : VerdictStays(j)
    BY <1>5 DEF vars, VerdictStays
  <2> QED BY <2>1, VerdictStaysMeansStutter
<1> QED BY <1>1, <1>2, <1>3, <1>4, <1>5 DEF Next, Deliver

-----------------------------------------------------------------------------
\* The table, the calls, the lock, the sidecar's view and the inbox are well typed.
THEOREM ArtJobsTypeOK == Spec => []TypeOK
<1>1. AInv => TypeOK
  BY DEF AInv
<1> QED BY <1>1, SpecAInv, PTL

\* SidecarArtClient._generate_image, over every error path out of the lock: of two
\* jobs that run at the sidecar, one at least has been given up by its call.
THEOREM OneAwaitedJobTheorem == Spec => []OneAwaitedJob
<1>1. ASSUME AInv, NEW j \in Jobs, remote[j] = "running", ~GivenUp(j)
      PROVE  lock = j
  <2>1. JobInv(j) /\ call[j] \in CallStates
    BY <1>1, OffLoopTypes DEF AInv
  <2> QED BY <1>1, <2>1 DEF JobInv, GivenUp, Holding, CallStates, OutcomeOf
<1>2. AInv => OneAwaitedJob
  BY <1>1 DEF OneAwaitedJob
<1> QED BY <1>2, SpecAInv, PTL

\* A job is complete here only when the sidecar completed it, whichever of the
\* cancel, the poll and the delivery of the response comes first, and although the
\* sidecar's cancelled record may be revived.
THEOREM CompletedAtSidecarTheorem == Spec => []CompletedAtSidecar
<1>1. AInv => CompletedAtSidecar
  BY DEF AInv, JobInv, CompletedAtSidecar
<1> QED BY <1>1, SpecAInv, PTL

\* ArtJobs implements the safety half of JobLifecycle: a job that was started is
\* given one verdict by the end of run_art_job, and neither a report still on its
\* way nor a cancel changes it.
THEOREM ArtJobsImplementLifecycle == Spec => Lifecycle!LifecycleSafety
<1>1. Init => Lifecycle!LifecycleInit
  BY DEF Init, Verdict, Lifecycle!LifecycleInit
<1>2. AInv /\ [Next]_vars => [Lifecycle!LifecycleNext]_([j \in Jobs |-> Verdict(j)])
  BY StepsRefineLifecycle
<1> QED BY <1>1, <1>2, SpecAInv, PTL DEF Spec, Lifecycle!LifecycleSafety

=============================================================================
