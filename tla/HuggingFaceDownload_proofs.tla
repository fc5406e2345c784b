---------------------- MODULE HuggingFaceDownload_proofs ----------------------
(***************************************************************************)
(* Proofs about HuggingFaceDownload for any set of files, any number of    *)
(* chunks and any progress levels.                                         *)
(*                                                                         *)
(* The runner decides by counting marks, not by joining threads.  A file   *)
(* may carry both marks (its thread completes it between the two looks of  *)
(* _mark_orphaned_threads_failed), so a count alone proves nothing; but    *)
(* without a failure the marks are those of different wanted files, and    *)
(* as many of them as wanted files are all of them (CountedMeansComplete). *)
(* A thread marks its file after its last report and its move, so when     *)
(* every wanted file is marked no thread is left that could touch the      *)
(* record or the marks, but for the threads whose log message raised after *)
(* the mark (HInv): those of the files in raised.                          *)
(***************************************************************************)
EXTENDS HuggingFaceDownload, JobTracker_proofs, FiniteSetTheorems

Early == {"begin", "resolve", "reset", "list"}
Late  == {"verdict", "forget", "done", "dead", "give_up", "lost"} \cup Settling

\* Every wanted file is marked complete, and failed only what is marked twice.
Complete == completed = wanted /\ failed \subseteq raised

RecordInv ==
  /\ Tracked(Job)
  /\ Status(Job) = "completed" => completion /\ Settled

\* Nothing is wanted, started or marked before the file list is there; then only
\* wanted files are started, each once.
PlanInv ==
  /\ pc \in Early => wanted = {} /\ completed = {} /\ failed = {}
  /\ toStart \subseteq wanted
  /\ \A f \in Files : thread[f] # "idle" => f \in wanted
  /\ \A f \in toStart : thread[f] = "idle"

\* A file is marked complete by its own thread, after its last report and its move;
\* the thread ends then, unless the mark raised.
MarkInv ==
  \A f \in Files :
    /\ thread[f] \in {"mark", "mark_leftover"} => f \in moved
    /\ f \in completed => thread[f] # "idle"
    /\ f \in completed \ raised => f \in moved /\ thread[f] \in {"leave", "dead"}
    /\ f \in raised => f \in completed

\* A thread asks for another chunk only while its stream has one.
ChunkInv ==
  \A f \in Files : thread[f] \in {"idle", "open", "check", "mark_leftover"} => chunks[f] > 0

\* What the runner concludes from the marks.
VerdictInv ==
  /\ completion => Complete /\ pc \in Late
  /\ pc = "settle_completed" => completion
  /\ pc = "judge" /\ ~isCancelled /\ failed = {} => Complete

HInv == TypeOK /\ IInv /\ RecordInv /\ PlanInv /\ MarkInv /\ ChunkInv /\ VerdictInv

-----------------------------------------------------------------------------
LEMMA InitHInv == Init => HInv
<1> SUFFICES ASSUME Init PROVE HInv
  OBVIOUS
<1>1. jobs \in [Jobs -> JobRecord] /\ futures \in [Jobs -> FutureStates]
      /\ \A j \in Jobs : Status(j) = "pending" /\ futures[j] = "open"
  BY DEF Init, JobRecord, Open, FutureStates, Status
<1>2. IInv /\ RecordInv
  BY <1>1, JobAssumption
     DEF IInv, TrackerTypeOK, TrackedHasFuture, TerminalJobsWakeWaiters, Tracked, Missing,
         Terminal, RecordInv
<1>3. {event, registered, isCancelled, failure, completion} \subseteq BOOLEAN
  BY DEF Init
<1>4. chunks \in [Files -> 0..MaxChunks] /\ ChunkInv
  BY MaxChunksAssumption DEF Init, ChunkInv
<1>5. {wanted, toStart, toScan, suspect, temp, moved, completed, failed, raised}
           \subseteq SUBSET Files
      /\ thread \in [Files -> ThreadStates]
  BY DEF Init, ThreadStates
<1>6. TypeOK
  BY <1>2, <1>3, <1>4, <1>5 DEF TypeOK, IInv, Init, RunnerStates
<1>7. PlanInv /\ MarkInv /\ VerdictInv
  BY DEF Init, PlanInv, MarkInv, VerdictInv
<1> QED BY <1>2, <1>4, <1>6, <1>7 DEF HInv

\* The typing in the form the steps below use.
LEMMA Types ==
  ASSUME HInv
  PROVE  /\ event \in BOOLEAN /\ registered \in BOOLEAN /\ isCancelled \in BOOLEAN
         /\ failure \in BOOLEAN /\ completion \in BOOLEAN
         /\ wanted \in SUBSET Files /\ toStart \in SUBSET Files /\ toScan \in SUBSET Files
         /\ suspect \in SUBSET Files /\ temp \in SUBSET Files /\ moved \in SUBSET Files
         /\ completed \in SUBSET Files /\ failed \in SUBSET Files
         /\ raised \in SUBSET Files
         /\ thread \in [Files -> ThreadStates] /\ chunks \in [Files -> 0..MaxChunks]
BY DEF HInv, TypeOK

\* Marks of wanted files without a failure that are as many as the wanted files
\* are all of them.
LEMMA CountedMeansComplete ==
  ASSUME HInv, failed = {}, Cardinality(completed) + Cardinality(failed) = Cardinality(wanted)
  PROVE  Complete
<1>1. IsFiniteSet(wanted) /\ completed \subseteq wanted
  BY Types, FS_Subset, FilesAssumption DEF HInv, MarkInv, PlanInv
<1>2. IsFiniteSet(completed) /\ Cardinality(failed) = 0 /\ Cardinality(completed) \in Nat
  BY <1>1, FS_Subset, FS_EmptySet, FS_CardinalityType
<1>3. Cardinality(completed) = Cardinality(wanted)
  BY <1>2
<1>4. completed = wanted
  BY <1>1, <1>3, FS_Subset
<1> QED BY <1>4 DEF Complete

\* When every wanted file is complete, only a thread whose mark raised is still at work.
LEMMA WorkingThreadRaised ==
  ASSUME HInv, NEW f \in Files, thread[f] \notin {"idle", "leave", "dead"}, Complete
  PROVE  f \in raised
BY DEF HInv, PlanInv, MarkInv, Complete

-----------------------------------------------------------------------------
(* The record *)

\* The runner and the file threads report RUNNING, cancel() cancels; neither
\* touches a record that is complete while it may not be.
LEMMA ReportKeepsRecord ==
  ASSUME HInv, UNCHANGED trackerVars \/ \E p \in 0..100 : UpdateProgress(Job, p, "running")
  PROVE  IInv' /\ Tracked(Job)' /\ (Status(Job)' = "completed" => Status(Job) = "completed")
<1>1. CASE UNCHANGED trackerVars
  BY <1>1, StutterKeepsIInv DEF HInv, RecordInv, trackerVars, Tracked, Status
<1>2. ASSUME NEW p \in 0..100, UpdateProgress(Job, p, "running")
      PROVE  IInv' /\ Tracked(Job)' /\ Status(Job)' # "completed"
  <2>1. IInv'
    BY <1>2, JobAssumption, UpdateProgressKeepsIInv DEF HInv
  <2>2. Status(Job)' = "running"
    BY <1>2, JobAssumption DEF HInv, IInv, TrackerTypeOK, RecordInv, UpdateProgress, Status
  <2> QED BY <2>1, <2>2 DEF Tracked, Missing
<1> QED BY <1>1, <1>2

LEMMA CancelKeepsRecord ==
  ASSUME HInv, CancelJob(Job)
  PROVE  IInv' /\ Tracked(Job)' /\ (Status(Job)' = "completed" => Status(Job) = "completed")
<1>1. IInv'
  BY JobAssumption, CancelJobKeepsIInv DEF HInv
<1>2. CASE Cancellable(Job)
  <2>1. Status(Job)' = "cancelled"
    BY <1>2, JobAssumption DEF CancelJob, SetStatus, Status, HInv, IInv, TrackerTypeOK, JobRecord
  <2> QED BY <1>1, <2>1 DEF Tracked, Missing
<1>3. CASE ~Cancellable(Job)
  BY <1>1, <1>3 DEF CancelJob, trackerVars, Tracked, Status, HInv, RecordInv
<1> QED BY <1>2, <1>3

\* A step that does not touch the record.
LEMMA IdleRecord ==
  ASSUME HInv, UNCHANGED trackerVars
  PROVE  IInv' /\ Tracked(Job)' /\ Status(Job)' = Status(Job)
BY StutterKeepsIInv DEF HInv, RecordInv, trackerVars, Tracked, Status

-----------------------------------------------------------------------------
(* The runner *)

\* The steps before the file list is there.
LEMMA EarlyStepsKeepHInv ==
  ASSUME HInv, Begin \/ BeginFails \/ Resolve \/ Reset \/ ListFiles
  PROVE  HInv'
<1> USE Types
<1>1. pc \in Early /\ wanted = {} /\ completed = {} /\ failed = {} /\ raised = {} /\ toStart = {}
      /\ ~completion
      /\ Status(Job) # "completed" /\ \A f \in Files : thread[f] = "idle"
  BY DEF Begin, BeginFails, Resolve, Reset, ListFiles, Early, Late, Settling, HInv,
         PlanInv, VerdictInv, RecordInv, MarkInv
<1>2. IInv' /\ Tracked(Job)' /\ Status(Job)' # "completed"
  <2>1. UNCHANGED trackerVars \/ \E p \in 0..100 : UpdateProgress(Job, p, "running")
    BY DEF Begin, BeginFails, Resolve, Reset, ListFiles
  <2> QED BY <1>1, <2>1, ReportKeepsRecord
<1>3. UNCHANGED fileVars /\ completed' = {} /\ failed' = {} /\ raised' = {}
  BY <1>1 DEF Begin, BeginFails, Resolve, Reset, ListFiles, sharedVars, markVars
<1>4. \/ pc' \in Early /\ UNCHANGED <<plan, completion>>
      \/ pc' = "verdict" /\ UNCHANGED plan
      \/ pc' = "dead" /\ UNCHANGED <<plan, completion>>
      \/ pc' \in {"launch", "launch_gguf"} /\ toStart' = wanted' /\ ~completion'
  BY <1>1 DEF Begin, BeginFails, Resolve, Reset, ListFiles, Goto, Early, signals, plan
<1>5. TypeOK'
  <2>1. pc' \in RunnerStates /\ watcher' \in {"off", "polling", "fired", "stopped"}
        /\ canceller' \in {"idle", "found", "cancelling"} /\ monitor' \in {"polling", "reported"}
    BY DEF HInv, TypeOK, Begin, BeginFails, Resolve, Reset, ListFiles, Goto, RunnerStates, cancelVars,
           clients
  <2>2. {event, registered, isCancelled, failure, completion}' \subseteq BOOLEAN
    BY DEF Begin, BeginFails, Resolve, Reset, ListFiles, cancelVars, sharedVars, signals
  <2>3. {wanted, toStart, toScan, suspect, temp, moved, completed, failed, raised}'
           \subseteq SUBSET Files
    BY <1>1 DEF Begin, BeginFails, Resolve, Reset, ListFiles, cancelVars, sharedVars, markVars, plan, scanVars,
           fileVars
  <2> QED BY <1>2, <1>3, <2>1, <2>2, <2>3 DEF TypeOK, IInv, fileVars
<1>6. RecordInv'
  BY <1>2 DEF RecordInv
<1>7. PlanInv'
  BY <1>1, <1>3, <1>4, <1>5 DEF PlanInv, Early, fileVars, plan, TypeOK
<1>8. MarkInv' /\ ChunkInv'
  BY <1>1, <1>3 DEF HInv, MarkInv, ChunkInv, fileVars
<1>9. VerdictInv'
  BY <1>1, <1>3, <1>4 DEF VerdictInv, Complete, Early, Late, Settling, plan
<1> QED BY <1>2, <1>5, <1>6, <1>7, <1>8, <1>9 DEF HInv

\* The steps of the transfer up to the judgement.
LEMMA TransferStepsKeepHInv ==
  ASSUME HInv, StartThread \/ StopLaunching \/ Launched \/ WaitLoop \/ ScanMarks \/ ScanThread \/ CountMarks
  PROVE  HInv'
<1> USE Types
<1>1. pc \in {"launch", "launch_gguf", "wait", "scan"} /\ ~completion /\ Status(Job) # "completed"
  BY DEF StartThread, StopLaunching, Launched, WaitLoop, ScanMarks, ScanThread, CountMarks, HInv,
         VerdictInv, RecordInv, Late, Settling
<1>2. IInv' /\ Tracked(Job)' /\ Status(Job)' # "completed"
  <2>1. UNCHANGED trackerVars
    BY DEF StartThread, StopLaunching, Launched, WaitLoop, ScanMarks, ScanThread, CountMarks
  <2> QED BY <1>1, <2>1, IdleRecord
<1>3. UNCHANGED <<wanted, completed, raised, moved, completion, isCancelled>>
  BY DEF StartThread, StopLaunching, Launched, WaitLoop, ScanMarks, ScanThread, CountMarks, signals, plan,
         sharedVars, markVars, fileVars
<1>4. pc' \in {"launch", "launch_gguf", "wait", "scan", "judge", "verdict"}
  BY <1>1 DEF StartThread, StopLaunching, Launched, WaitLoop, ScanMarks, ScanThread, CountMarks, Goto
<1>5. \/ UNCHANGED <<thread, toStart>>
      \/ \E f \in toStart : thread' = [thread EXCEPT ![f] = "open"] /\ toStart' = toStart \ {f}
  BY DEF StartThread, StopLaunching, Launched, WaitLoop, ScanMarks, ScanThread, CountMarks, plan, fileVars
<1>6. TypeOK'
  <2>1. pc' \in RunnerStates /\ watcher' \in {"off", "polling", "fired", "stopped"}
        /\ canceller' \in {"idle", "found", "cancelling"} /\ monitor' \in {"polling", "reported"}
    BY <1>4 DEF HInv, TypeOK, StartThread, StopLaunching, Launched, WaitLoop, ScanMarks, ScanThread,
         CountMarks, RunnerStates, cancelVars, clients
  <2>2. UNCHANGED <<event, registered, isCancelled, failure, completion, temp, chunks>>
    BY DEF StartThread, StopLaunching, Launched, WaitLoop, ScanMarks, ScanThread, CountMarks, cancelVars,
           sharedVars, signals, fileVars
  <2>3. toScan' \in SUBSET Files /\ suspect' \in SUBSET Files /\ failed' \in SUBSET Files
    BY DEF StartThread, StopLaunching, Launched, WaitLoop, ScanMarks, ScanThread, CountMarks, scanVars,
           sharedVars, markVars
  <2>4. thread' \in [Files -> ThreadStates] /\ toStart' \in SUBSET Files
    BY <1>5 DEF ThreadStates
  <2> QED BY <1>2, <1>3, <2>1, <2>2, <2>3, <2>4 DEF TypeOK, IInv
<1>7. RecordInv'
  BY <1>2 DEF RecordInv
<1>8. PlanInv'
  BY <1>3, <1>4, <1>5 DEF HInv, PlanInv, Early
<1>9. MarkInv' /\ ChunkInv'
  <2>1. UNCHANGED chunks
    BY DEF StartThread, StopLaunching, Launched, WaitLoop, ScanMarks, ScanThread, CountMarks, fileVars
  <2> QED BY <1>3, <1>5, <2>1 DEF HInv, MarkInv, PlanInv, ChunkInv
<1>10. pc' = "judge" /\ ~isCancelled' /\ failed' = {} => Complete'
  <2>1. ASSUME pc' = "judge", ~isCancelled', failed' = {}
        PROVE  Complete'
    <3>1. CountMarks
      BY <1>1, <2>1, <1>3 DEF StartThread, StopLaunching, Launched, WaitLoop, ScanMarks, ScanThread,
         CountMarks, Goto
    <3>2. failed = {} /\ Cardinality(completed) + Cardinality(failed) = Cardinality(wanted)
      BY <2>1, <3>1 DEF CountMarks, Goto, sharedVars, markVars
    <3>3. Complete
      BY <3>2, CountedMeansComplete
    <3> QED BY <1>3, <2>1, <3>3 DEF Complete
  <2> QED BY <2>1
<1>11. VerdictInv'
  BY <1>1, <1>3, <1>4, <1>10 DEF VerdictInv
<1> QED BY <1>2, <1>6, <1>7, <1>8, <1>9, <1>11 DEF HInv

\* The judgement and what follows; settling is apart.
LEMMA LateStepsKeepHInv ==
  ASSUME HInv, Judge \/ ReachVerdict \/ SettleRaises \/ Forget
  PROVE  HInv'
<1> USE Types
<1>1. UNCHANGED trackerVars /\ UNCHANGED <<plan, scanVars, fileVars, markVars, isCancelled, event,
                                            clients>>
  BY DEF Judge, ReachVerdict, SettleRaises, Forget, sharedVars, cancelVars
<1>2. IInv' /\ Tracked(Job)' /\ Status(Job)' = Status(Job)
  BY <1>1, IdleRecord
<1>3. pc \in {"judge", "verdict", "forget", "give_up"} \cup Settling /\ pc' \in Late
      /\ (Settled => Settled')
  BY DEF Judge, ReachVerdict, SettleRaises, Forget, Goto, Late, Settling, Settled
<1>4. pc' = "settle_completed" => completion'
  BY DEF Judge, ReachVerdict, SettleRaises, Forget, Goto, signals, Settling
<1>5. completion' => completion \/ Complete
  BY DEF Judge, ReachVerdict, SettleRaises, Forget, signals, HInv, VerdictInv, Complete
<1>6. completion => completion'
  BY DEF Judge, ReachVerdict, SettleRaises, Forget, signals
<1>7. TypeOK'
  <2>1. pc' \in RunnerStates /\ watcher' \in {"off", "polling", "fired", "stopped"}
        /\ canceller' \in {"idle", "found", "cancelling"} /\ registered' \in BOOLEAN
        /\ monitor' \in {"polling", "reported"}
    BY <1>1, <1>3 DEF HInv, TypeOK, Judge, ReachVerdict, SettleRaises, Forget, RunnerStates, Late,
           cancelVars, clients
  <2>2. failure' \in BOOLEAN /\ completion' \in BOOLEAN /\ temp' \in SUBSET Files
    BY DEF Judge, ReachVerdict, SettleRaises, Forget, signals, sharedVars
  <2>3. {event, registered, isCancelled, failure, completion}' \subseteq BOOLEAN
    BY <1>1, <2>1, <2>2
  <2>4. {wanted, toStart, toScan, suspect, temp, moved, completed, failed, raised}'
           \subseteq SUBSET Files
    BY <1>1, <2>2 DEF plan, scanVars, fileVars, markVars
  <2>5. thread' \in [Files -> ThreadStates] /\ chunks' \in [Files -> 0..MaxChunks]
    BY <1>1 DEF fileVars
  <2> QED BY <1>2, <2>1, <2>3, <2>4, <2>5 DEF TypeOK, IInv
<1>8. RecordInv'
  BY <1>2, <1>3, <1>6 DEF HInv, RecordInv
<1>9. PlanInv' /\ MarkInv' /\ ChunkInv'
  BY <1>1, <1>3 DEF HInv, PlanInv, MarkInv, ChunkInv, Early, Late, Settling, plan, fileVars, markVars
<1>10. VerdictInv'
  BY <1>1, <1>3, <1>4, <1>5 DEF HInv, VerdictInv, Complete, Late, Settling, plan, markVars
<1> QED BY <1>2, <1>7, <1>8, <1>9, <1>10 DEF HInv

\* What raises ends the transfer without a completion.
LEMMA RunnerRaisesKeepsHInv ==
  ASSUME HInv, RunnerRaises
  PROVE  HInv'
<1> USE Types
<1>1. UNCHANGED trackerVars
      /\ UNCHANGED <<completion, plan, scanVars, fileVars, markVars, isCancelled, cancelVars>>
      /\ failure' = TRUE /\ pc' = "verdict" /\ temp' \in SUBSET Files
  BY DEF RunnerRaises, Goto
<1>2. IInv' /\ Tracked(Job)' /\ Status(Job)' = Status(Job)
  BY <1>1, IdleRecord
<1>3. ~completion /\ Status(Job) # "completed"
  BY DEF RunnerRaises, HInv, VerdictInv, RecordInv, Late, Settling
<1>4. TypeOK'
  BY <1>1, <1>2 DEF HInv, TypeOK, IInv, RunnerStates, plan, scanVars, fileVars, markVars,
                    cancelVars, clients
<1>5. RecordInv' /\ VerdictInv'
  BY <1>1, <1>2, <1>3 DEF RecordInv, VerdictInv
<1>6. PlanInv' /\ MarkInv' /\ ChunkInv'
  BY <1>1 DEF HInv, PlanInv, MarkInv, ChunkInv, Early, plan, fileVars, markVars
<1> QED BY <1>2, <1>4, <1>5, <1>6 DEF HInv

\* Only a complete transfer is settled as completed.
LEMMA SettleKeepsHInv ==
  ASSUME HInv, Settle
  PROVE  HInv'
<1> USE Types
<1>1. UNCHANGED <<signals, plan, scanVars, fileVars, sharedVars, cancelVars>> /\ pc' = "forget"
  BY DEF Settle, Goto
<1>2. IInv' /\ Tracked(Job)' /\ (Status(Job)' = "completed" => completion)
  <2>1. CASE pc = "settle_completed" /\ CompleteJob(Job)
    <3>1. IInv'
      BY <2>1, JobAssumption, CompleteJobKeepsIInv DEF HInv
    <3>2. Status(Job)' = "completed"
      BY <2>1, JobAssumption DEF CompleteJob, HInv, RecordInv, IInv, TrackerTypeOK, Status
    <3> QED BY <2>1, <3>1, <3>2 DEF HInv, VerdictInv, Tracked, Missing
  <2>2. CASE pc = "settle_failed" /\ FailJob(Job)
    <3>1. IInv'
      BY <2>2, JobAssumption, FailJobKeepsIInv DEF HInv
    <3>2. Status(Job)' = "failed"
      BY <2>2, JobAssumption DEF FailJob, SetStatus, HInv, RecordInv, IInv, TrackerTypeOK, Status,
            JobRecord
    <3> QED BY <3>1, <3>2 DEF Tracked, Missing
  <2>3. CASE pc = "settle_cancelled" /\ CancelJob(Job)
    BY <2>3, CancelKeepsRecord DEF HInv, RecordInv
  <2> QED BY <2>1, <2>2, <2>3 DEF Settle
<1>3. TypeOK'
  BY <1>1, <1>2 DEF HInv, TypeOK, IInv, RunnerStates, signals, plan, scanVars, fileVars,
                    sharedVars, markVars, cancelVars, clients
<1>4. RecordInv'
  BY <1>1, <1>2 DEF RecordInv, Settled, signals
<1>5. PlanInv' /\ MarkInv' /\ ChunkInv'
  BY <1>1 DEF HInv, PlanInv, MarkInv, ChunkInv, Early, plan, fileVars, sharedVars,
              markVars
<1>6. VerdictInv'
  BY <1>1 DEF HInv, VerdictInv, Complete, Late, Settling, plan, sharedVars, markVars, signals
<1> QED BY <1>2, <1>3, <1>4, <1>5, <1>6 DEF HInv

-----------------------------------------------------------------------------
(* The file threads *)

\* What a step of a file thread may do: it takes its thread to another state, may move
\* the file or, downloading it again, remove it, and marks it as its last act.
FileStep(f, label) ==
  /\ thread[f] \notin {"idle", "dead", "stopped"} /\ label # "idle"
  /\ thread' = [thread EXCEPT ![f] = label]
  /\ moved' \in {moved, moved \cup {f}, moved \ {f}}
  /\ label \in {"mark", "mark_leftover"} => f \in moved'
  /\ thread[f] = "leave" => label = "dead" /\ UNCHANGED <<failed, raised, moved>>
  /\ thread[f] \in {"leave", "fail"} => UNCHANGED trackerVars
  /\ \/ UNCHANGED completed /\ UNCHANGED raised
     \/ completed' = completed \cup {f} /\ UNCHANGED raised /\ label = "leave" /\ f \in moved'
     \/ completed' = completed \cup {f} /\ raised' = raised \cup {f}
  /\ failed' \in {failed, failed \cup {f}}
  /\ temp' \in SUBSET Files
  /\ chunks' \in [Files -> 0..MaxChunks]
  /\ label \in {"open", "check", "mark_leftover"} => chunks'[f] > 0
  /\ UNCHANGED trackerVars \/ \E p \in 0..100 : UpdateProgress(Job, p, "running")
  /\ UNCHANGED <<runnerVars, cancelVars, isCancelled>>
  /\ \A g \in Files \ {f} : chunks'[g] = chunks[g]

LEMMA FileStepKeepsHInv ==
  ASSUME HInv, NEW f \in Files, NEW label \in ThreadStates, FileStep(f, label)
  PROVE  HInv'
<1> USE Types DEF FileStep
<1>1. f \in wanted
  BY DEF HInv, PlanInv
<1>2. IInv' /\ Tracked(Job)' /\ (Status(Job)' = "completed" => Status(Job) = "completed")
  BY ReportKeepsRecord
<1>3. UNCHANGED <<pc, failure, completion, wanted, toStart, toScan, suspect, event, watcher,
                  canceller, monitor, registered, isCancelled>>
  BY DEF runnerVars, signals, plan, scanVars, cancelVars, clients
<1>4. TypeOK'
  <2>1. thread' \in [Files -> ThreadStates] /\ moved' \in SUBSET Files
        /\ completed' \in SUBSET Files /\ failed' \in SUBSET Files /\ raised' \in SUBSET Files
    OBVIOUS
  <2> QED BY <1>2, <1>3, <2>1 DEF HInv, TypeOK, IInv
<1>5. RecordInv'
  BY <1>2, <1>3 DEF HInv, RecordInv, Settled
<1>6. PlanInv'
  <2>1. pc \notin Early
    BY <1>1 DEF HInv, PlanInv
  <2> QED BY <1>1, <1>3, <2>1 DEF HInv, PlanInv
<1>7. MarkInv'
  <2>1. ASSUME NEW g \in Files
        PROVE  thread'[g] \in {"mark", "mark_leftover"} => g \in moved'
    BY DEF HInv, MarkInv
  <2>2. ASSUME NEW g \in Files, g # f
        PROVE  /\ g \in completed' => thread'[g] # "idle"
               /\ g \in completed' \ raised' => g \in moved' /\ thread'[g] \in {"leave", "dead"}
               /\ g \in raised' => g \in completed'
    BY <2>2 DEF HInv, MarkInv
  <2>3. f \in completed' => thread'[f] # "idle"
    OBVIOUS
  <2>4. f \in raised' => f \in completed'
    BY DEF HInv, MarkInv
  <2>5. f \in completed' \ raised' => f \in moved' /\ thread'[f] \in {"leave", "dead"}
    <3>1. CASE f \in completed
      BY <3>1 DEF HInv, MarkInv
    <3>2. CASE f \notin completed
      BY <3>2
    <3> QED BY <3>1, <3>2
  <2> QED BY <2>1, <2>2, <2>3, <2>4, <2>5 DEF MarkInv
<1>8. ChunkInv'
  BY DEF HInv, ChunkInv
<1>9. VerdictInv'
  <2>1. Complete => Complete'
    <3>1. CASE thread[f] = "leave"
      BY <1>1, <1>3, <3>1 DEF Complete
    <3>2. CASE thread[f] # "leave"
      BY <1>1, <1>3, <3>2, WorkingThreadRaised DEF Complete
    <3> QED BY <3>1, <3>2
  <2>2. failed' = {} => failed = {}
    OBVIOUS
  <2> QED BY <1>3, <2>1, <2>2 DEF HInv, VerdictInv
<1> QED BY <1>2, <1>4, <1>5, <1>6, <1>7, <1>8, <1>9 DEF HInv

LEMMA FileThreadSteps ==
  ASSUME HInv, NEW f \in Files, FileThread(f)
  PROVE  \E label \in ThreadStates : FileStep(f, label)
<1> USE Types, ProgressAssumption DEF ThreadStates, ThreadOnly, Step, FileStep
<1>0. thread[f] \in {"open", "check", "mark_leftover"} => chunks[f] > 0
  BY DEF HInv, ChunkInv
<1>1. CASE OpenStream(f)
  BY <1>0, <1>1 DEF OpenStream, markVars
<1>2. CASE TakeLeftover(f)
  BY <1>0, <1>2 DEF TakeLeftover, markVars
<1>3. CASE NoticeCancel(f)
  BY <1>3 DEF NoticeCancel, markVars
<1>4. CASE ReadChunk(f)
  <2>1. chunks[f] - 1 \in 0..MaxChunks
    BY <1>0, <1>4, MaxChunksAssumption DEF ReadChunk
  <2>2. chunks' \in [Files -> 0..MaxChunks] /\ \A g \in Files \ {f} : chunks'[g] = chunks[g]
    BY <1>4, <2>1 DEF ReadChunk
  <2> QED BY <1>4, <2>2 DEF ReadChunk, markVars
<1>5. CASE StreamBreaks(f)
  BY <1>5 DEF StreamBreaks, markVars
<1>6. CASE ReportChunk(f)
  BY <1>6 DEF ReportChunk, markVars
<1>7. CASE FinalReport(f)
  BY <1>7 DEF FinalReport, markVars
<1>8. CASE MoveIntoPlace(f)
  BY <1>8 DEF MoveIntoPlace, markVars
<1>9. CASE MarkComplete(f)
  BY <1>9 DEF MarkComplete, HInv, MarkInv
<1>10. CASE MarkRaises(f)
  BY <1>0, <1>10 DEF MarkRaises
<1>11. CASE MarkFailed(f)
  BY <1>11 DEF MarkFailed
<1>12. CASE Leave(f)
  BY <1>12 DEF Leave, markVars
<1> QED BY <1>1, <1>2, <1>3, <1>4, <1>5, <1>6, <1>7, <1>8, <1>9, <1>10, <1>11, <1>12
        DEF FileThread

-----------------------------------------------------------------------------
(* The watcher and cancel() *)

LEMMA CancelStepsKeepHInv ==
  ASSUME HInv, Watch \/ LookUpEvent \/ SetEvent \/ CancelRecord \/ Poll \/ UNCHANGED vars
  PROVE  HInv'
<1> USE Types
<1>1. UNCHANGED <<runnerVars, fileVars, markVars, temp, registered>>
  BY DEF Watch, LookUpEvent, SetEvent, CancelRecord, CancelOnly, Poll, sharedVars, vars, cancelVars
<1>2. isCancelled' \in BOOLEAN /\ event' \in BOOLEAN /\ (~isCancelled' => ~isCancelled)
      /\ watcher' \in {"off", "polling", "fired", "stopped"}
      /\ canceller' \in {"idle", "found", "cancelling"} /\ monitor' \in {"polling", "reported"}
  <2>1. isCancelled \in BOOLEAN /\ event \in BOOLEAN
        /\ watcher \in {"off", "polling", "fired", "stopped"}
        /\ canceller \in {"idle", "found", "cancelling"} /\ monitor \in {"polling", "reported"}
    BY DEF HInv, TypeOK
  <2>2. CASE Watch
    BY <2>1, <2>2 DEF Watch, clients
  <2>3. CASE LookUpEvent
    BY <2>1, <2>3 DEF LookUpEvent, CancelOnly, sharedVars
  <2>4. CASE SetEvent
    BY <2>1, <2>4 DEF SetEvent, CancelOnly, sharedVars
  <2>5. CASE CancelRecord
    BY <2>1, <2>5 DEF CancelRecord, CancelOnly, sharedVars
  <2>6. CASE UNCHANGED vars
    BY <2>1, <2>6 DEF vars, sharedVars, cancelVars, clients
  <2>7. CASE Poll
    BY <2>1, <2>7 DEF Poll, sharedVars
  <2> QED BY <2>2, <2>3, <2>4, <2>5, <2>6, <2>7
<1>3. IInv' /\ Tracked(Job)' /\ (Status(Job)' = "completed" => Status(Job) = "completed")
  <2>1. UNCHANGED trackerVars \/ CancelJob(Job)
    BY DEF Watch, LookUpEvent, SetEvent, CancelRecord, Poll, vars
  <2> QED BY <2>1, IdleRecord, CancelKeepsRecord
<1>4. TypeOK'
  BY <1>1, <1>2, <1>3 DEF HInv, TypeOK, IInv, runnerVars, signals, plan, scanVars, fileVars, markVars
<1>5. RecordInv'
  BY <1>1, <1>3 DEF HInv, RecordInv, Settled, runnerVars, signals
<1>6. PlanInv' /\ MarkInv' /\ ChunkInv'
  BY <1>1 DEF HInv, PlanInv, MarkInv, ChunkInv, runnerVars, plan, fileVars,
              markVars
<1>7. VerdictInv'
  BY <1>1, <1>2 DEF HInv, VerdictInv, Complete, runnerVars, plan, signals, markVars
<1> QED BY <1>3, <1>4, <1>5, <1>6, <1>7 DEF HInv

-----------------------------------------------------------------------------
LEMMA NextHInv == HInv /\ [Next]_vars => HInv'
<1> SUFFICES ASSUME HInv, [Next]_vars
             PROVE  HInv'
  OBVIOUS
<1>1. CASE Runner
  BY <1>1, EarlyStepsKeepHInv, TransferStepsKeepHInv, LateStepsKeepHInv, RunnerRaisesKeepsHInv,
     SettleKeepsHInv
     DEF Runner
<1>2. ASSUME NEW f \in Files, FileThread(f)
      PROVE  HInv'
  BY <1>2, FileThreadSteps, FileStepKeepsHInv
<1>3. CASE Watch \/ LookUpEvent \/ SetEvent \/ CancelRecord \/ Poll \/ UNCHANGED vars
  BY <1>3, CancelStepsKeepHInv
<1> QED BY <1>1, <1>2, <1>3 DEF Next

LEMMA SpecHInv == Spec => []HInv
BY InitHInv, NextHInv, PTL DEF Spec

\* No step touches the record of a job that was settled as completed: the threads
\* are past their reports, unless one downloads its file again, and cancel() refuses.
LEMMA CompletedRecordStays ==
  ASSUME HInv, [Next]_vars, Settled, Status(Job) = "completed", Again = {}
  PROVE  jobs'[Job] = jobs[Job]
<1>1. Complete /\ ~Cancellable(Job)
  BY DEF HInv, RecordInv, VerdictInv, Cancellable, Open
<1>2. CASE Runner
  BY <1>2 DEF Runner, Begin, BeginFails, Resolve, Reset, ListFiles, StartThread, StopLaunching,
              Launched, WaitLoop, ScanMarks, ScanThread, CountMarks, Judge, RunnerRaises,
              ReachVerdict, Settle, SettleRaises, Forget, Settled, Settling, trackerVars
<1>3. ASSUME NEW f \in Files, FileThread(f)
      PROVE  jobs'[Job] = jobs[Job]
  <2>1. PICK label \in ThreadStates : FileStep(f, label)
    BY <1>3, FileThreadSteps
  <2>2. thread[f] \in {"leave", "fail"}
    BY <1>1, <2>1, WorkingThreadRaised DEF FileStep, Again, Dead
  <2> QED BY <2>1, <2>2 DEF FileStep, trackerVars
<1>4. CASE Watch \/ LookUpEvent \/ SetEvent \/ CancelRecord \/ Poll \/ UNCHANGED vars
  BY <1>1, <1>4 DEF Watch, LookUpEvent, SetEvent, CancelRecord, CancelJob, Poll, trackerVars, vars
<1> QED BY <1>2, <1>3, <1>4 DEF Next

-----------------------------------------------------------------------------
\* The runner, the watcher, the file threads and cancel() keep their state typed.
THEOREM HuggingFaceDownloadTypeOK == Spec => []TypeOK
<1>1. HInv => TypeOK
  BY DEF HInv
<1> QED BY <1>1, SpecHInv, PTL

\* BaseDownloadWorker._wait_for_completion counts marks instead of joining threads,
\* and yet never completes a model with a file missing or failed, but for a file whose
\* thread went on after its mark because the log message raised.
THEOREM CompletedMeansAllMovedTheorem == Spec => []CompletedMeansAllMoved
<1>1. HInv => CompletedMeansAllMoved
  BY Types DEF HInv, RecordInv, VerdictInv, Complete, MarkInv, CompletedMeansAllMoved
<1> QED BY <1>1, SpecHInv, PTL

\* A job settled as completed is never revived by a report of a file thread that the
\* runner did not join, nor changed by a late cancel(), as long as no thread downloads
\* again what it has marked complete.
THEOREM CompletedVerdictIsFinalTheorem == Spec => CompletedVerdictIsFinal
<1>1. HInv /\ [Next]_vars =>
        [Settled /\ Status(Job) = "completed" /\ Again = {} => jobs'[Job] = jobs[Job]]_vars
  BY CompletedRecordStays
<1> QED BY <1>1, SpecHInv, PTL DEF Spec, CompletedVerdictIsFinal

=============================================================================
