------------------------ MODULE HuggingFaceDownload ------------------------
(***************************************************************************)
(* One HuggingFace model download: DownloadJobService._run_huggingface_job *)
(* driving HuggingFaceDownloadWorker.  Concurrent parties:                 *)
(*   - the runner thread, which runs the worker's _download_model and then *)
(*     settles the job from what the worker signalled and what it finds in *)
(*     the cancel flags;                                                   *)
(*   - the watcher thread, which copies the job's cancel event into        *)
(*     worker.is_cancelled and then ends;                                  *)
(*   - one thread per file, which downloads into .downloading, reports     *)
(*     progress straight into the job record, moves the file into place    *)
(*     and marks it complete or failed;                                    *)
(*   - a caller of cancel(), and the bridge worker that polls the record.  *)
(* The runner polls the file threads; it never joins them.                 *)
(*                                                                         *)
(* Every signal of the worker runs handle_signal in the emitting thread,   *)
(* which calls the tracker in an event loop of its own: a log message, a   *)
(* report and a verdict may each raise before they change the record.      *)
(***************************************************************************)
EXTENDS JobTracker, FiniteSets

CONSTANTS Job,          \* the job this module follows
          Files,        \* the files of the model
          MaxChunks,    \* bound: chunks a file consists of
          MaxRaising    \* bound: the most files wanted where bookkeeping raises

ASSUME JobAssumption == Job \in Jobs
ASSUME FilesAssumption == IsFiniteSet(Files)
ASSUME MaxChunksAssumption == MaxChunks \in Nat \ {0}
ASSUME MaxRaisingAssumption == MaxRaising \in Nat

VARIABLES
  pc,            \* where the runner stands
  event,         \* the job's cancel event is set
  registered,    \* the event can still be found by cancel()
  watcher,       \* the watch_cancel thread
  isCancelled,   \* worker.is_cancelled
  failure,       \* the worker signalled HUGGINGFACE_DOWNLOAD_FAILED
  completion,    \* the worker signalled HUGGINGFACE_DOWNLOAD_COMPLETE
  wanted,        \* files_to_download
  toStart,       \* those whose thread is still to be started
  toScan,        \* those the current pass over _file_threads has yet to visit
  suspect,       \* the file that pass found without a terminal mark
  thread,        \* where each file thread stands
  chunks,        \* chunks left in each stream
  temp,          \* files with data in .downloading
  moved,         \* files in their final place
  completed,     \* worker._completed_files
  failed,        \* worker._failed_files
  raised,        \* the files whose _mark_file_complete raised after the mark
  canceller,     \* the caller of cancel()
  monitor        \* ServiceDownloadWorker._monitor_job

signals    == <<failure, completion>>
plan       == <<wanted, toStart>>
scanVars   == <<toScan, suspect>>
runnerVars == <<pc, signals, plan, scanVars>>
fileVars   == <<thread, chunks, moved>>
markVars   == <<completed, failed, raised>>
sharedVars == <<markVars, isCancelled, temp>>
clients    == <<canceller, monitor>>
cancelVars == <<event, watcher, clients, registered>>
vars == <<trackerVars, runnerVars, fileVars, sharedVars, cancelVars>>

Settling     == {"settle_completed", "settle_failed", "settle_cancelled"}
RunnerStates == {"begin", "resolve", "reset", "list", "launch", "launch_gguf", "wait",
                 "scan", "judge", "verdict", "forget", "done", "dead", "give_up", "lost"}
                \cup Settling
ThreadStates == {"idle", "open", "check", "report", "final", "rename", "mark",
                 "mark_leftover", "fail", "leave", "stopped", "dead"}

\* The bookkeeping of runner and worker may raise.
Raising == Cardinality(wanted) <= MaxRaising

Dead(f) == thread[f] \in {"stopped", "dead"}
Started(f) == thread[f] # "idle"

TypeOK ==
  /\ TrackerTypeOK
  /\ pc \in RunnerStates
  /\ {event, registered, isCancelled, failure, completion} \subseteq BOOLEAN
  /\ watcher \in {"off", "polling", "fired", "stopped"}
  /\ {wanted, toStart, toScan, suspect, temp, moved, completed, failed, raised}
        \subseteq SUBSET Files
  /\ thread \in [Files -> ThreadStates]
  /\ chunks \in [Files -> 0..MaxChunks]
  /\ canceller \in {"idle", "found", "cancelling"}
  /\ monitor \in {"polling", "reported"}

\* _start_job has created the record, registered the event and started the runner,
\* for the bridge worker or for the route; a poll does not disturb anybody else.
Init ==
  /\ jobs = [j \in Jobs |-> [status |-> "pending", progress |-> 0]]
  /\ futures = [j \in Jobs |-> "open"]
  /\ pc = "begin" /\ registered = TRUE
  /\ event = FALSE /\ watcher = "off" /\ isCancelled = FALSE
  /\ failure = FALSE /\ completion = FALSE
  /\ wanted = {} /\ toStart = {} /\ toScan = {} /\ suspect = {}
  /\ thread = [f \in Files |-> "idle"]
  /\ chunks \in [Files -> 1..MaxChunks]
  /\ temp \in SUBSET Files   \* left by an attempt of the last 24 hours
  /\ moved = {} /\ completed = {} /\ failed = {} /\ raised = {}
  /\ canceller = "idle" /\ monitor = "polling"

-----------------------------------------------------------------------------
(* The runner *)

Goto(label) == pc' = label

\* UpdateProgress(0, RUNNING), the worker, the watcher thread.
Begin ==
  /\ pc = "begin"
  /\ UpdateProgress(Job, 0, "running")
  /\ watcher' = "polling"
  /\ Goto("resolve")
  /\ UNCHANGED <<signals, plan, scanVars, fileVars, sharedVars, event, clients, registered>>

\* _update_job, the worker's constructor and the start of the watcher thread stand in
\* front of the try block: the thread ends and the job stays registered.
BeginFails ==
  /\ Raising
  /\ pc = "begin"
  /\ UNCHANGED trackerVars \/ UpdateProgress(Job, 0, "running")
  /\ Goto("dead")
  /\ UNCHANGED <<signals, plan, scanVars, fileVars, sharedVars, cancelVars>>

\* An art model whose version cannot be resolved fails before anything else.
Resolve ==
  /\ pc = "resolve"
  /\ \/ Goto("reset") /\ UNCHANGED failure
     \/ Goto("verdict") /\ failure' = TRUE
  /\ UNCHANGED <<trackerVars, completion, plan, scanVars, fileVars, sharedVars, cancelVars>>

\* "Initialize download state"
Reset ==
  /\ pc = "reset"
  /\ isCancelled' = FALSE
  /\ completed' = {} /\ failed' = {}
  /\ UNCHANGED raised
  /\ Goto("list")
  /\ UNCHANGED <<trackerVars, signals, plan, scanVars, fileVars, temp, cancelVars>>

\* The file list cannot be had, or every file is there already, or some are needed;
\* _download_gguf_model takes its one file without asking for a list.
ListFiles ==
  /\ pc = "list"
  /\ \/ /\ failure' = TRUE /\ Goto("verdict")
        /\ UNCHANGED <<completion, wanted, toStart>>
     \/ /\ completion' = TRUE /\ Goto("verdict")
        /\ UNCHANGED <<failure, wanted, toStart>>
     \/ /\ wanted' \in SUBSET Files \ {{}}
        /\ toStart' = wanted'
        /\ \/ Goto("launch")
           \/ Goto("launch_gguf") /\ \E f \in Files : wanted' = {f}
        /\ UNCHANGED <<failure, completion>>
  /\ UNCHANGED <<trackerVars, scanVars, fileVars, sharedVars, cancelVars>>

\* The loop looks at the flag before each thread, the gguf download does not.
StartThread ==
  /\ \/ pc = "launch" /\ ~isCancelled
     \/ pc = "launch_gguf"
  /\ \E f \in toStart :
        /\ thread' = [thread EXCEPT ![f] = "open"]
        /\ toStart' = toStart \ {f}
  /\ UNCHANGED <<trackerVars, pc, signals, wanted, scanVars, chunks, moved, sharedVars, cancelVars>>

\* `if self.is_cancelled: return` in the start loop: no cleanup.
StopLaunching ==
  /\ pc = "launch"
  /\ isCancelled /\ toStart # {}
  /\ Goto("verdict")
  /\ UNCHANGED <<trackerVars, signals, plan, scanVars, fileVars, sharedVars, cancelVars>>

Launched ==
  /\ pc \in {"launch", "launch_gguf"}
  /\ toStart = {}
  /\ Goto("wait")
  /\ UNCHANGED <<trackerVars, signals, plan, scanVars, fileVars, sharedVars, cancelVars>>

\* Mutant: the wait ends only when the marks add up.
WaitIgnoresCancel ==
  /\ pc = "wait"
  /\ Goto("scan")
  /\ toScan' = {f \in Files : Started(f)}
  /\ UNCHANGED <<trackerVars, signals, plan, suspect, fileVars, sharedVars, cancelVars>>

\* while not self.is_cancelled
WaitLoop ==
  /\ pc = "wait"
  /\ IF isCancelled
     THEN Goto("judge") /\ UNCHANGED toScan
     ELSE Goto("scan") /\ toScan' = {f \in Files : Started(f)}
  /\ UNCHANGED <<trackerVars, signals, plan, suspect, fileVars, sharedVars, cancelVars>>

\* _mark_orphaned_threads_failed looks at the marks of a file first ...
ScanMarks ==
  /\ pc = "scan"
  /\ suspect = {}
  /\ \E f \in toScan :
        /\ toScan' = toScan \ {f}
        /\ suspect' = IF f \in completed \cup failed THEN {} ELSE {f}
  /\ UNCHANGED <<trackerVars, pc, signals, plan, fileVars, sharedVars, cancelVars>>

\* ... and at its thread afterwards.
ScanThread ==
  /\ pc = "scan"
  /\ \E f \in suspect : failed' = IF Dead(f) THEN failed \cup {f} ELSE failed
  /\ suspect' = {}
  /\ UNCHANGED <<trackerVars, pc, signals, plan, toScan, fileVars, completed, raised, isCancelled,
                 temp, cancelVars>>

\* Mutant: is content with all files but one.
CountMarksOffByOne ==
  /\ pc = "scan"
  /\ toScan = {} /\ suspect = {}
  /\ Goto(IF Cardinality(completed) + Cardinality(failed) + 1 >= Cardinality(wanted)
          THEN "judge" ELSE "wait")
  /\ UNCHANGED <<trackerVars, signals, plan, scanVars, fileVars, sharedVars, cancelVars>>

CountMarks ==
  /\ pc = "scan"
  /\ toScan = {} /\ suspect = {}
  /\ Goto(IF Cardinality(completed) + Cardinality(failed) = Cardinality(wanted)
          THEN "judge" ELSE "wait")
  /\ UNCHANGED <<trackerVars, signals, plan, scanVars, fileVars, sharedVars, cancelVars>>

\* Mutant: does not look at the failed files.
JudgeIgnoresFailures ==
  /\ pc = "judge"
  /\ temp' = {}
  /\ completion' = ~isCancelled
  /\ Goto("verdict")
  /\ UNCHANGED <<trackerVars, failure, plan, scanVars, fileVars, markVars, isCancelled, cancelVars>>

\* The end of _wait_for_completion, and of _download_model after it.
Judge ==
  /\ pc = "judge"
  /\ \/ /\ isCancelled
        /\ temp' = {}
        /\ UNCHANGED <<failure, completion>>
     \/ /\ ~isCancelled /\ failed # {}
        /\ failure' = TRUE
        /\ UNCHANGED <<completion, temp>>
     \/ /\ ~isCancelled /\ failed = {}
        /\ completion' = TRUE
        /\ temp' = {}
        /\ UNCHANGED failure
  /\ Goto("verdict")
  /\ UNCHANGED <<trackerVars, plan, scanVars, fileVars, markVars, isCancelled, cancelVars>>

\* A log message raises, or the start of a thread, or after the temporary directory is
\* gone a post-download patch: BaseDownloadWorker.handle_message signals the failure,
\* whatever the file threads are doing.
RunnerRaises ==
  /\ Raising
  /\ \/ pc \in {"launch", "launch_gguf"} /\ UNCHANGED temp
     \/ pc = "scan" /\ (\E f \in suspect : Dead(f)) /\ UNCHANGED temp
     \/ pc = "judge" /\ isCancelled /\ UNCHANGED temp
     \/ pc = "judge" /\ ~isCancelled /\ failed = {} /\ temp' = {}
  /\ failure' = TRUE
  /\ Goto("verdict")
  /\ UNCHANGED <<trackerVars, completion, plan, scanVars, fileVars, markVars, isCancelled, cancelVars>>

ReachVerdict ==
  /\ pc = "verdict"
  /\ Goto(IF event \/ isCancelled THEN "settle_cancelled"
          ELSE IF failure \/ ~completion THEN "settle_failed"
          ELSE "settle_completed")
  /\ UNCHANGED <<trackerVars, signals, plan, scanVars, fileVars, sharedVars, cancelVars>>

Settle ==
  /\ \/ pc = "settle_completed" /\ CompleteJob(Job)
     \/ pc = "settle_failed"    /\ FailJob(Job)
     \/ pc = "settle_cancelled" /\ CancelJob(Job)
  /\ Goto("forget")
  /\ UNCHANGED <<signals, plan, scanVars, fileVars, sharedVars, cancelVars>>

\* A verdict that raises is a failure; a failure that raises leaves the record.
SettleRaises ==
  /\ Raising
  /\ pc \in Settling
  /\ Goto(IF pc = "settle_failed" THEN "give_up" ELSE "settle_failed")
  /\ UNCHANGED <<trackerVars, signals, plan, scanVars, fileVars, sharedVars, cancelVars>>

\* The finally block: stop_watch.set() and _forget_job.
Forget ==
  /\ pc \in {"forget", "give_up"}
  /\ watcher' = IF watcher = "fired" THEN watcher ELSE "stopped"
  /\ registered' = FALSE
  /\ Goto(IF pc = "forget" THEN "done" ELSE "lost")
  /\ UNCHANGED <<trackerVars, signals, plan, scanVars, fileVars, sharedVars, event, clients>>

Runner ==
  \/ Begin \/ BeginFails \/ Resolve \/ Reset \/ ListFiles
  \/ StartThread \/ StopLaunching \/ Launched
  \/ WaitLoop \/ ScanMarks \/ ScanThread \/ CountMarks \/ Judge \/ RunnerRaises
  \/ ReachVerdict \/ Settle \/ SettleRaises \/ Forget

-----------------------------------------------------------------------------
(* The watcher *)

Watch ==
  /\ watcher = "polling"
  /\ event
  /\ isCancelled' = TRUE
  /\ watcher' = "fired"
  /\ UNCHANGED <<trackerVars, runnerVars, fileVars, markVars, temp, event, clients, registered>>

-----------------------------------------------------------------------------
(* A file thread: _download_file *)

Step(f, label) == thread' = [thread EXCEPT ![f] = label]
ThreadOnly == UNCHANGED <<runnerVars, cancelVars, isCancelled>>

\* Create the directories, ask the server, open the temporary file.  A stale
\* partial file (HTTP 416) is deleted before the second request.  The mkdir in
\* front of the try block kills the thread without a mark when it fails.
OpenStream(f) ==
  /\ thread[f] = "open"
  /\ \/ Step(f, "check") /\ temp' = temp \cup {f}
     \/ Step(f, "fail")  /\ temp' \in {temp, temp \ {f}}
     \/ Step(f, "dead")  /\ UNCHANGED temp
  /\ UNCHANGED <<trackerVars, chunks, moved, markVars>>
  /\ ThreadOnly

\* An earlier attempt left the file in .downloading: it is moved at once.  It is whole
\* where the size is known; with file_size 0 any part of it passes for whole, so that
\* moved says of a file that it is in place and not how much of it.
TakeLeftover(f) ==
  /\ thread[f] = "open"
  /\ f \in temp
  /\ moved' = moved \cup {f}
  /\ temp' = temp \ {f}
  /\ Step(f, "mark_leftover")
  /\ UNCHANGED <<trackerVars, chunks, markVars>>
  /\ ThreadOnly

\* "Don't delete temp file on cancel - can resume later": exit without a mark.
NoticeCancel(f) ==
  /\ thread[f] = "check"
  /\ isCancelled
  /\ Step(f, "stopped")
  /\ UNCHANGED <<trackerVars, chunks, moved, markVars, temp>>
  /\ ThreadOnly

ReadChunk(f) ==
  /\ thread[f] = "check"
  /\ ~isCancelled
  /\ chunks' = [chunks EXCEPT ![f] = @ - 1]
  /\ Step(f, "report")
  /\ UNCHANGED <<trackerVars, moved, markVars, temp>>
  /\ ThreadOnly

\* ... or the report of its progress raises.
StreamBreaks(f) ==
  /\ thread[f] = "check" \/ (Raising /\ thread[f] = "report")
  /\ Step(f, "fail")
  /\ UNCHANGED <<trackerVars, chunks, moved, markVars, temp>>
  /\ ThreadOnly

\* Mutant: asks the stream for one chunk too many.
ReportOffByOne(f) ==
  /\ thread[f] = "report"
  /\ UNCHANGED trackerVars
  /\ Step(f, IF chunks[f] >= 0 THEN "check" ELSE "final")
  /\ UNCHANGED <<chunks, moved, markVars, temp>>
  /\ ThreadOnly

\* _update_file_progress through handle_signal: RUNNING, whatever the record says.
\* It reports once per megabyte, so a chunk may also go unreported.
ReportChunk(f) ==
  /\ thread[f] = "report"
  /\ \/ UNCHANGED trackerVars
     \/ \E p \in ProgressLevels : UpdateProgress(Job, p, "running")
  /\ Step(f, IF chunks[f] > 0 THEN "check" ELSE "final")
  /\ UNCHANGED <<chunks, moved, markVars, temp>>
  /\ ThreadOnly

\* The report after the stream, then the size check.  There is nothing to report
\* while no file has a known size.
FinalReport(f) ==
  /\ thread[f] = "final"
  /\ \/ UNCHANGED trackerVars
     \/ \E p \in ProgressLevels : UpdateProgress(Job, p, "running")
  /\ \E label \in {"rename", "fail"} : Step(f, label)
  /\ UNCHANGED <<chunks, moved, markVars, temp>>
  /\ ThreadOnly

\* Mutant: waits for the temporary file to come back.
MoveRetries(f) ==
  /\ thread[f] = "rename"
  /\ f \in temp
  /\ moved' = moved \cup {f}
  /\ temp' = temp \ {f}
  /\ Step(f, "mark")
  /\ UNCHANGED <<trackerVars, chunks, markVars>>
  /\ ThreadOnly

\* A file in the final place is removed first.  The rename raises when the runner has
\* removed the directory.
MoveIntoPlace(f) ==
  /\ thread[f] = "rename"
  /\ IF f \in temp
     THEN /\ moved' = moved \cup {f}
          /\ temp' = temp \ {f}
          /\ Step(f, "mark")
     ELSE /\ moved' = moved \ {f}
          /\ Step(f, "fail")
          /\ UNCHANGED temp
  /\ UNCHANGED <<trackerVars, chunks, markVars>>
  /\ ThreadOnly

\* _mark_file_complete adds the file under the lock and logs; then the thread ends.
MarkComplete(f) ==
  /\ thread[f] \in {"mark", "mark_leftover"}
  /\ completed' = completed \cup {f}
  /\ Step(f, "leave")
  /\ UNCHANGED <<trackerVars, chunks, moved, failed, raised, temp>>
  /\ ThreadOnly

\* It is called inside the try block: when the log message raises, the file, marked
\* complete by then, is marked failed as well or, if it was a leftover, downloaded again.
MarkRaises(f) ==
  /\ Raising
  /\ thread[f] \in {"mark", "mark_leftover"}
  /\ completed' = completed \cup {f}
  /\ raised' = raised \cup {f}
  /\ Step(f, IF thread[f] = "mark" THEN "fail" ELSE "open")
  /\ UNCHANGED <<trackerVars, chunks, moved, failed, temp>>
  /\ ThreadOnly

\* The log message in front of _mark_file_failed may raise too: no mark then.
MarkFailed(f) ==
  /\ thread[f] = "fail"
  /\ \/ failed' = failed \cup {f} /\ Step(f, "leave")
     \/ Raising /\ UNCHANGED failed /\ Step(f, "dead")
  /\ UNCHANGED <<trackerVars, chunks, moved, completed, raised, temp>>
  /\ ThreadOnly

Leave(f) ==
  /\ thread[f] = "leave"
  /\ Step(f, "dead")
  /\ UNCHANGED <<trackerVars, chunks, moved, markVars, temp>>
  /\ ThreadOnly

FileThread(f) ==
  \/ OpenStream(f) \/ TakeLeftover(f) \/ NoticeCancel(f) \/ ReadChunk(f) \/ StreamBreaks(f)
  \/ ReportChunk(f) \/ FinalReport(f) \/ MoveIntoPlace(f)
  \/ MarkComplete(f) \/ MarkRaises(f) \/ MarkFailed(f) \/ Leave(f)

-----------------------------------------------------------------------------
(* cancel() *)

CancelOnly == UNCHANGED <<runnerVars, fileVars, sharedVars, watcher, registered, monitor>>

LookUpEvent ==
  /\ canceller = "idle"
  /\ canceller' = IF registered THEN "found" ELSE "cancelling"
  /\ UNCHANGED <<trackerVars, event>>
  /\ CancelOnly

SetEvent ==
  /\ canceller = "found"
  /\ event' = TRUE
  /\ canceller' = "cancelling"
  /\ UNCHANGED trackerVars
  /\ CancelOnly

CancelRecord ==
  /\ canceller = "cancelling"
  /\ CancelJob(Job)
  /\ canceller' = "idle"
  /\ UNCHANGED event
  /\ CancelOnly

-----------------------------------------------------------------------------
(* ServiceDownloadWorker: the repo_id branch of _start_job, and _monitor_job *)


Poll ==
  /\ monitor = "polling"
  /\ Status(Job) \in Terminal
  /\ monitor' = "reported"
  /\ UNCHANGED <<trackerVars, runnerVars, fileVars, sharedVars, event, watcher, canceller, registered>>

-----------------------------------------------------------------------------
Next ==
  \/ Runner
  \/ Watch
  \/ \E f \in Files : FileThread(f)
  \/ LookUpEvent \/ SetEvent \/ CancelRecord
  \/ Poll

\* Threads are scheduled, reads time out after 30 seconds.
Fairness ==
  /\ WF_vars(Runner)
  /\ WF_vars(Watch)
  /\ WF_vars(Poll)
  /\ \A f \in Files : WF_vars(FileThread(f))

Spec == Init /\ [][Next]_vars /\ Fairness

-----------------------------------------------------------------------------
(* Properties *)

Transferring == pc \in {"launch", "launch_gguf", "wait", "scan", "judge"}
Settled == pc \in {"forget", "done"}
\* A statement outside the try block raised, or the verdict could not be written.
Gone == pc \in {"dead", "lost"}

\* A job reported complete has every wanted file in its final place: counting
\* marks instead of joining threads never completes a model with a hole in it,
\* but for the files whose thread went on after it had marked them (raised).
CompletedMeansAllMoved ==
  Status(Job) = "completed" => wanted \ raised \subseteq moved /\ failed \subseteq raised

\* The files that are downloaded again although they are marked complete.
Again == {f \in raised : ~Dead(f) /\ thread[f] \notin {"fail", "leave"}}

\* A completed job stays completed: no file thread that could still report
\* progress is left once the runner has counted every file as complete, unless
\* one downloads a file it has marked complete before.
CompletedVerdictIsFinal ==
  [][Settled /\ Status(Job) = "completed" /\ Again = {} => jobs'[Job] = jobs[Job]]_vars

\* A cancel that reached the worker, and was not reset, ends the job, also when the
\* marks will never add up.
CancelledTransferEnds == <>[](isCancelled => pc \in {"done", "lost"})

\* No file thread lives for ever: each one ends after the cancel flag is up or
\* its stream is over, whether or not its runner is still there.
FileThreadsEnd == \A f \in Files : <>[](Started(f) => Dead(f))


\* _wait_for_completion, base_download_worker.py:247: "Wait for all download
\* threads to complete."  A file thread that outlives the runner's wait reports
\* RUNNING into a job that has its verdict.
SettledStaysTerminal == Settled => Status(Job) \in Terminal

\* _wait_for_completion, base_download_worker.py:252: "Returns: True if all files
\* completed successfully, False otherwise": the wait returns.
WaitReturns == pc = "wait" ~> pc = "verdict"

\* BaseDownloadWorker.cancel, base_download_worker.py:336: "Sets cancellation flag
\* which is checked by download threads": what the watcher has set stays set
\* while files are transferred.
CancelFlagSticks == watcher = "fired" /\ Transferring => isCancelled

=============================================================================
