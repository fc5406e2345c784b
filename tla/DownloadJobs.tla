---------------------------- MODULE DownloadJobs ----------------------------
(***************************************************************************)
(* DownloadJobService (airunner_services/downloads/job_service.py): every  *)
(* download job has a runner thread, a cancel event the runner polls, and  *)
(* a record in the shared JobTracker.  Three parties work on one job:      *)
(*   - the runner, which reports progress, looks at its cancel event at    *)
(*     its gates, settles the job and forgets it;                          *)
(*   - the callers of cancel(), which look the event up under the service  *)
(*     lock, set it outside the lock, and then cancel the tracker record;  *)
(*   - ServiceDownloadWorker, which polls the record of the job it started *)
(*     and turns its status into one completion or failure signal.         *)
(* The threaded HuggingFace model download, and the bridge worker polling  *)
(* it, are HuggingFaceDownload.                                            *)
(*                                                                         *)
(* Every call into the tracker runs in an event loop of its own            *)
(* (asyncio.run) and may raise before it has changed the record.           *)
(***************************************************************************)
EXTENDS JobTracker

CONSTANTS Cancellers,   \* concurrent callers of DownloadJobService.cancel
          Kinds,        \* the kinds of runner in play
          MaxUnits,     \* bound: chunks or items one download consists of
          None          \* no job

AllKinds == {"hf_file", "civitai_model", "civitai_file", "url", "nltk"}

ASSUME KindsAssumption == Kinds \subseteq AllKinds
ASSUME MaxUnitsAssumption == MaxUnits \in Nat
ASSUME NoneAssumption == None \notin Jobs
\* _coerce_progress and the NLTK runner cap what they report at 99.
ASSUME CappedProgressAssumption == ProgressLevels \subseteq 0..99

VARIABLES pc,           \* where the runner thread of each job stands
          kind,         \* which runner it is
          units,        \* chunks or items still to fetch
          signalled,    \* the jobs whose threading.Event is set
          registered,   \* the keys of _cancel_events and _threads
          canceller,    \* the progress of each call of cancel
          monitor       \* ServiceDownloadWorker.handle_message

runnerVars == <<pc, kind, units>>
vars == <<jobs, futures, pc, kind, units, signalled, registered, canceller, monitor>>

\* The runners that look at the event once more when the last file is there.
ChecksAtEnd(k) == k \in {"civitai_model", "civitai_file", "url", "nltk"}

Settling == {"settle_completed", "settle_failed", "settle_cancelled"}
RunnerStates == {"none", "begin", "prepare", "gate", "fetch", "report", "last",
                 "extract", "forget", "done", "dead", "give_up", "lost"} \cup Settling

CancellerStates == [state : {"idle", "found", "missed", "signalled"}, job : Jobs \cup {None}]
MonitorStates == [state : {"idle", "polling", "reported"}, job : Jobs \cup {None},
                  signal : Terminal \cup {"none"}]

TypeOK ==
  /\ TrackerTypeOK
  /\ pc \in [Jobs -> RunnerStates]
  /\ kind \in [Jobs -> AllKinds]
  /\ units \in [Jobs -> 0..MaxUnits]
  /\ signalled \in SUBSET Jobs
  /\ registered \in SUBSET Jobs
  /\ canceller \in [Cancellers -> CancellerStates]
  /\ monitor \in MonitorStates

Init ==
  /\ TrackerInit
  /\ pc = [j \in Jobs |-> "none"]
  /\ kind \in [Jobs -> Kinds]
  /\ units = [j \in Jobs |-> 0]
  /\ signalled = {}
  /\ registered = {}
  /\ canceller = [c \in Cancellers |-> [state |-> "idle", job |-> None]]
  /\ monitor = [state |-> "idle", job |-> None, signal |-> "none"]

Goto(j, label) == pc' = [pc EXCEPT ![j] = label]

-----------------------------------------------------------------------------
(* _start_job: nobody knows the identifier before it returns, and the record *)
(* is created, the event and the thread registered and the thread started    *)
(* by then.                                                                  *)
StartJob(j) ==
  /\ pc[j] = "none"
  /\ CreateJob(j)
  /\ registered' = registered \cup {j}
  /\ Goto(j, "begin")
  /\ UNCHANGED <<kind, units, signalled, canceller>>

StartFromApi(j) == StartJob(j) /\ UNCHANGED monitor

\* The openvoice_zip branch of ServiceDownloadWorker._start_job.  The other one, a
\* HuggingFace model, is HuggingFaceDownload.
StartFromWorker(j) ==
  /\ monitor.state = "idle"
  /\ kind[j] = "url"
  /\ StartJob(j)
  /\ monitor' = [state |-> "polling", job |-> j, signal |-> "none"]

-----------------------------------------------------------------------------
(* The runner thread *)

RunnerOnly == UNCHANGED <<kind, signalled, registered, canceller, monitor>>

Begin(j) ==
  /\ pc[j] = "begin"
  /\ UpdateProgress(j, 0, "running")
  /\ Goto(j, "prepare")
  /\ UNCHANGED units
  /\ RunnerOnly

\* The kinds downloads/civitai.download_file serves report once more at the end
\* of the stream, so an empty stream is reported too.
AfterPrepare(k, n) == IF n > 0 THEN "gate"
                      ELSE IF k = "hf_file" THEN "last" ELSE "report"

\* Validation of the url and the paths, the lookup of the model, opening the
\* stream: whatever comes before the first look at the cancel event.
Prepare(j) ==
  /\ pc[j] = "prepare"
  /\ \E n \in 0..MaxUnits :
        /\ kind[j] = "nltk" => n > 0
        /\ units' = [units EXCEPT ![j] = n]
        /\ Goto(j, AfterPrepare(kind[j], n))
  /\ UNCHANGED trackerVars
  /\ RunnerOnly

PrepareFails(j) ==
  /\ pc[j] = "prepare"
  /\ Goto(j, "settle_failed")
  /\ UNCHANGED <<jobs, futures, units>>
  /\ RunnerOnly

\* What stands outside the try blocks of a runner: the first _update_job of all of
\* them; output_root.mkdir of the url runner; the log message of the url and file
\* runners; the _fail_job of the url and NLTK runners for what they reject.  When
\* it raises, the thread ends and nobody settles or forgets the job.
RunnerDies(j) ==
  /\ \/ pc[j] = "begin"
     \/ pc[j] = "prepare" /\ kind[j] \in {"hf_file", "nltk", "url"}
  /\ Goto(j, "dead")
  /\ UNCHANGED <<jobs, futures, units>>
  /\ RunnerOnly

\* The HuggingFace file is there already, or the CivitAI model has no file left
\* to download: the runner completes without having looked at its event.
NothingToFetch(j) ==
  /\ pc[j] = "prepare"
  /\ kind[j] \in {"hf_file", "civitai_model"}
  /\ Goto(j, "settle_completed")
  /\ UNCHANGED <<jobs, futures, units>>
  /\ RunnerOnly

\* Mutant: skips the item instead of ending the job.
GateSpins(j) ==
  /\ pc[j] = "gate"
  /\ Goto(j, IF j \in signalled THEN "gate" ELSE "fetch")
  /\ UNCHANGED <<jobs, futures, units>>
  /\ RunnerOnly

\* cancel_callback() before each chunk, cancel_event.is_set() before each item.
Gate(j) ==
  /\ pc[j] = "gate"
  /\ Goto(j, IF j \in signalled THEN "settle_cancelled" ELSE "fetch")
  /\ UNCHANGED <<jobs, futures, units>>
  /\ RunnerOnly

Fetch(j) ==
  /\ pc[j] = "fetch"
  /\ units' = [units EXCEPT ![j] = @ - 1]
  /\ Goto(j, "report")
  /\ UNCHANGED trackerVars
  /\ RunnerOnly

\* The stream breaks, or the report of its progress raises.
FetchFails(j) ==
  /\ pc[j] \in {"fetch", "report"}
  /\ Goto(j, "settle_failed")
  /\ UNCHANGED <<jobs, futures, units>>
  /\ RunnerOnly

\* Mutant: asks for one unit too many.
ReportOffByOne(j) ==
  /\ pc[j] = "report"
  /\ UNCHANGED trackerVars
  /\ Goto(j, IF units[j] >= 0 THEN "gate" ELSE "last")
  /\ UNCHANGED units
  /\ RunnerOnly

\* The progress callback: throttled away, or pushed with status RUNNING.
Report(j) ==
  /\ pc[j] = "report"
  /\ \/ kind[j] # "nltk" /\ UNCHANGED trackerVars
     \/ \E p \in ProgressLevels : UpdateProgress(j, p, "running")
  /\ Goto(j, IF units[j] > 0 THEN "gate" ELSE "last")
  /\ UNCHANGED units
  /\ RunnerOnly

Last(j) ==
  /\ pc[j] = "last"
  /\ \/ /\ ChecksAtEnd(kind[j]) /\ j \in signalled
        /\ Goto(j, "settle_cancelled")
     \/ /\ ~(ChecksAtEnd(kind[j]) /\ j \in signalled)
        /\ \/ Goto(j, "settle_completed")
           \/ kind[j] = "url" /\ Goto(j, "extract")
  /\ UNCHANGED <<jobs, futures, units>>
  /\ RunnerOnly

\* extract_zip, after the last look at the event.
Extract(j) ==
  /\ pc[j] = "extract"
  /\ \E label \in {"settle_completed", "settle_failed"} : Goto(j, label)
  /\ UNCHANGED <<jobs, futures, units>>
  /\ RunnerOnly

\* Mutant: trusts the caller of cancel() to have marked the record.
SettleLeavesCancel(j) ==
  /\ pc[j] \in Settling
  /\ \/ pc[j] = "settle_completed" /\ CompleteJob(j)
     \/ pc[j] = "settle_failed" /\ FailJob(j)
     \/ pc[j] = "settle_cancelled" /\ UNCHANGED trackerVars
  /\ Goto(j, "forget")
  /\ UNCHANGED units
  /\ RunnerOnly

Settle(j) ==
  /\ \/ pc[j] = "settle_completed" /\ CompleteJob(j)
     \/ pc[j] = "settle_failed" /\ FailJob(j)
     \/ pc[j] = "settle_cancelled" /\ CancelJob(j)
  /\ Goto(j, "forget")
  /\ UNCHANGED units
  /\ RunnerOnly

\* A verdict that raises is a failure; a failure that raises leaves the record.
SettleRaises(j) ==
  /\ pc[j] \in Settling
  /\ Goto(j, IF pc[j] = "settle_failed" THEN "give_up" ELSE "settle_failed")
  /\ UNCHANGED <<jobs, futures, units>>
  /\ RunnerOnly

\* The finally block.
Forget(j) ==
  /\ pc[j] \in {"forget", "give_up"}
  /\ registered' = registered \ {j}
  /\ Goto(j, IF pc[j] = "forget" THEN "done" ELSE "lost")
  /\ UNCHANGED <<jobs, futures, kind, units, signalled, canceller, monitor>>

Run(j) ==
  \/ Begin(j) \/ Prepare(j) \/ PrepareFails(j) \/ RunnerDies(j) \/ NothingToFetch(j)
  \/ Gate(j) \/ Fetch(j) \/ FetchFails(j) \/ Report(j)
  \/ Last(j) \/ Extract(j) \/ Settle(j) \/ SettleRaises(j) \/ Forget(j)

-----------------------------------------------------------------------------
(* cancel(job_id): three steps with the runner in between *)

CancellerOnly == UNCHANGED <<pc, kind, units, registered, monitor>>

LookUpEvent(c, j) ==
  /\ canceller[c].state = "idle"
  /\ Tracked(j)
  /\ canceller' = [canceller EXCEPT ![c] =
        [state |-> IF j \in registered THEN "found" ELSE "missed", job |-> j]]
  /\ UNCHANGED <<jobs, futures, signalled>>
  /\ CancellerOnly

SetEvent(c) ==
  /\ canceller[c].state = "found"
  /\ signalled' = signalled \cup {canceller[c].job}
  /\ canceller' = [canceller EXCEPT ![c].state = "signalled"]
  /\ UNCHANGED trackerVars
  /\ CancellerOnly

\* Mutant: marks the record before the event is set.
CancelRecordFirst(c) ==
  /\ canceller[c].state # "idle"
  /\ CancelJob(canceller[c].job)
  /\ canceller' = [canceller EXCEPT ![c] = [state |-> "idle", job |-> None]]
  /\ UNCHANGED signalled
  /\ CancellerOnly

CancelRecord(c) ==
  /\ canceller[c].state \in {"signalled", "missed"}
  /\ CancelJob(canceller[c].job)
  /\ canceller' = [canceller EXCEPT ![c] = [state |-> "idle", job |-> None]]
  /\ UNCHANGED signalled
  /\ CancellerOnly

Cancel(c) == (\E j \in Jobs : LookUpEvent(c, j)) \/ SetEvent(c) \/ CancelRecord(c)

-----------------------------------------------------------------------------
(* ServiceDownloadWorker._monitor_job *)


Poll ==
  /\ monitor.state = "polling"
  /\ Status(monitor.job) \in Terminal
  /\ monitor' = [monitor EXCEPT !.state = "reported",
                                !.signal = Status(monitor.job)]
  /\ UNCHANGED <<jobs, futures, pc, kind, units, signalled, registered, canceller>>

-----------------------------------------------------------------------------
Next ==
  \/ \E j \in Jobs : StartFromApi(j) \/ StartFromWorker(j) \/ Run(j)
  \/ \E c \in Cancellers : Cancel(c)
  \/ Poll

\* nltk.download opens its addresses without a timeout, so that it may never return.
Hanging(j) == kind[j] = "nltk" /\ pc[j] = "fetch"

\* The other runners are threads whose network reads time out; the monitor polls on
\* a timer in a thread of its own.  Nobody is obliged to call cancel.
Fairness ==
  /\ \A j \in Jobs : WF_vars(~Hanging(j) /\ Run(j))
  /\ WF_vars(Poll)

Spec == Init /\ [][Next]_vars /\ Fairness

-----------------------------------------------------------------------------
(* Properties *)

\* The runner has written its verdict into the record.
Settled(j) == pc[j] \in {"forget", "done"}

Forgotten(j) == pc[j] = "done"

\* When the runner of a job has settled it, its record is in a terminal status:
\* no progress report of the runner and no half-done cancel is left that could
\* show a finished job as running, which its pollers would wait on forever.
SettledJobsAreTerminal ==
  \A j \in Jobs : Settled(j) => Status(j) \in Terminal

\* ... and nobody changes the verdict after that, a cancel that looked its event
\* up before the runner forgot it included.
VerdictIsFinal ==
  [][\A j \in Jobs : Settled(j) => jobs'[j] = jobs[j]]_vars

\* A job whose record says cancelled while its runner is at work has been told to
\* stop: cancel() never marks a record it has not signalled, so the transfer
\* does not go on behind a cancelled record unnoticed by its runner.  (The record of
\* a runner that could not write its verdict may be marked when it is gone.)
CancelledMeansSignalled ==
  \A j \in Jobs : Status(j) = "cancelled" => j \in signalled \/ pc[j] = "lost"

\* A job is reported complete with its progress at 100, and never below that by
\* a progress report that arrives after the verdict.
CompletedIsFull ==
  \A j \in Jobs : Status(j) = "completed" => jobs[j].progress = 100

\* A statement outside the try blocks raised, or the verdict could not be written.
Gone(j) == pc[j] \in {"dead", "lost"}

\* Every started download reaches its verdict and is forgotten, however cancels
\* interleave with it, unless its runner is gone or nltk.download never returns.
EveryJobSettles ==
  \A j \in Jobs : pc[j] = "begin" ~> Forgotten(j) \/ Gone(j) \/ []Hanging(j)


=============================================================================
