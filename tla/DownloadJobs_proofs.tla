------------------------ MODULE DownloadJobs_proofs ------------------------
(***************************************************************************)
(* Proofs about DownloadJobs for any set of jobs, any number of concurrent *)
(* cancel() callers, any kinds of runner and any length of download.       *)
(*                                                                         *)
(* The properties are not inductive by themselves: that a settled job      *)
(* stays terminal rests on which step of the runner may still write the    *)
(* record, and that a cancelled record is a signalled one rests on what a  *)
(* cancel() caller that missed the event knows about the runner.           *)
(***************************************************************************)
EXTENDS DownloadJobs, JobTracker_proofs

\* What holds of one job: where its runner stands against record, registry, event.
JobInv(j) ==
  /\ Status(j) # "dropped"
  /\ Status(j) = "unborn" <=> pc[j] = "none"
  /\ j \in registered <=> pc[j] \notin {"none", "done", "lost"}
  /\ Settled(j) => Status(j) \in Terminal
  /\ Status(j) = "cancelled" => j \in signalled \/ pc[j] = "lost"
  /\ pc[j] = "settle_cancelled" => j \in signalled
  /\ Status(j) = "completed" => jobs[j].progress = 100
  /\ pc[j] \in {"gate", "fetch"} => units[j] > 0

\* What a cancel() call in flight knows: a missed event means a finished runner.
CancellerInv(c) ==
  canceller[c].state # "idle" =>
    /\ canceller[c].job \in Jobs
    /\ pc[canceller[c].job] # "none"
    /\ canceller[c].state = "missed" => pc[canceller[c].job] \in {"done", "lost"}
    /\ canceller[c].state = "signalled" => canceller[c].job \in signalled

DInv ==
  /\ TypeOK
  /\ IInv
  /\ \A j \in Jobs : JobInv(j)
  /\ \A c \in Cancellers : CancellerInv(c)

-----------------------------------------------------------------------------
(* What the tracker operations do to the record of a tracked job *)

LEMMA UpdateEffect ==
  ASSUME NEW j \in Jobs, NEW p, Tracked(j), UpdateProgress(j, p, "running")
  PROVE  jobs' = [jobs EXCEPT ![j] = [status |-> "running", progress |-> p]]
BY DEF UpdateProgress

LEMMA SettleEffect ==
  ASSUME TrackerTypeOK, NEW j \in Jobs, Tracked(j),
         CompleteJob(j) \/ FailJob(j) \/ CancelJob(j)
  PROVE  /\ \A k \in Jobs \ {j} : jobs'[k] = jobs[k]
         /\ Status(j)' \in Terminal
         /\ Status(j)' = "completed" =>
              jobs'[j].progress = 100 \/ jobs'[j] = jobs[j]
         /\ Status(j)' = "cancelled" => CancelJob(j)
<1>1. jobs \in [Jobs -> JobRecord] /\ jobs[j] \in JobRecord
  BY DEF TrackerTypeOK
<1>2. CASE CompleteJob(j)
  BY <1>1, <1>2 DEF CompleteJob, Status, Terminal
<1>3. CASE FailJob(j)
  BY <1>1, <1>3 DEF FailJob, SetStatus, Status, Terminal, JobRecord
<1>4. CASE CancelJob(j)
  <2>1. CASE Cancellable(j)
    BY <1>1, <1>4, <2>1 DEF CancelJob, SetStatus, Status, Terminal, JobRecord
  <2>2. CASE ~Cancellable(j)
    <3>1. jobs' = jobs
      BY <1>4, <2>2 DEF CancelJob, trackerVars
    <3>2. Status(j) \in Terminal
      BY <1>1, <2>2 DEF Cancellable, Tracked, Status, JobRecord
    <3> QED BY <1>4, <3>1, <3>2 DEF Status
  <2> QED BY <2>1, <2>2
<1> QED BY <1>2, <1>3, <1>4

-----------------------------------------------------------------------------
LEMMA InitDInv == Init => DInv
<1> SUFFICES ASSUME Init PROVE DInv
  OBVIOUS
<1>1. IInv
  BY InitIInv DEF Init
<1>2. TypeOK
  BY <1>1, KindsAssumption, MaxUnitsAssumption
     DEF Init, IInv, TypeOK, RunnerStates, CancellerStates, MonitorStates
<1>3. ASSUME NEW j \in Jobs PROVE JobInv(j)
  BY DEF Init, TrackerInit, JobInv, Status, Settled
<1>4. ASSUME NEW c \in Cancellers PROVE CancellerInv(c)
  BY DEF Init, CancellerInv
<1> QED BY <1>1, <1>2, <1>3, <1>4 DEF DInv

-----------------------------------------------------------------------------
(* Starting a job *)

LEMMA StartKeepsDInv ==
  ASSUME DInv, NEW j \in Jobs, StartFromApi(j) \/ StartFromWorker(j)
  PROVE  DInv'
<1>1. StartJob(j) /\ CreateJob(j)
  BY DEF StartFromApi, StartFromWorker, StartJob
<1>2. IInv'
  BY <1>1, CreateJobKeepsIInv DEF DInv
<1>3. monitor' \in MonitorStates
  BY DEF StartFromApi, StartFromWorker, DInv, TypeOK, MonitorStates
<1>4. TypeOK'
  BY <1>1, <1>2, <1>3 DEF IInv, DInv, TypeOK, StartJob, Goto, RunnerStates
<1>5. jobs' = [jobs EXCEPT ![j] = [status |-> "pending", progress |-> 0]]
  BY <1>1 DEF CreateJob
<1>6. jobs \in [Jobs -> JobRecord] /\ pc \in [Jobs -> RunnerStates]
  BY DEF DInv, TypeOK, TrackerTypeOK
<1>7. pc' = [pc EXCEPT ![j] = "begin"] /\ pc[j] = "none"
      /\ registered' = registered \cup {j}
      /\ UNCHANGED <<signalled, canceller, units>>
  BY <1>1 DEF StartJob, Goto
<1>8. ASSUME NEW k \in Jobs PROVE JobInv(k)'
  <2>1. JobInv(k)
    BY DEF DInv
  <2>2. CASE k = j
    BY <2>1, <2>2, <1>5, <1>6, <1>7 DEF JobInv, Status, Settled
  <2>3. CASE k # j
    BY <2>1, <2>3, <1>5, <1>6, <1>7 DEF JobInv, Status, Settled
  <2> QED BY <2>2, <2>3
<1>9. ASSUME NEW c \in Cancellers PROVE CancellerInv(c)'
  <2>1. CancellerInv(c)
    BY DEF DInv
  <2> QED BY <2>1, <1>6, <1>7 DEF CancellerInv
<1> QED BY <1>2, <1>4, <1>8, <1>9 DEF DInv

-----------------------------------------------------------------------------
(* A step of a runner touches its own job only; what it does to that job is  *)
(* left to the lemma of the step.                                            *)

RunFrame(j) ==
  /\ pc[j] \notin {"none", "done", "lost"}
  /\ \E label \in RunnerStates \ {"none"} : pc' = [pc EXCEPT ![j] = label]
  /\ \E n \in 0..MaxUnits : units' = [units EXCEPT ![j] = n]
  /\ \A k \in Jobs \ {j} : jobs'[k] = jobs[k]
  /\ registered' \in SUBSET Jobs
  /\ \A k \in Jobs \ {j} : k \in registered' <=> k \in registered
  /\ UNCHANGED <<kind, signalled, canceller, monitor>>

LEMMA RunFrameKeepsDInv ==
  ASSUME DInv, NEW j \in Jobs, RunFrame(j), IInv', JobInv(j)'
  PROVE  DInv'
<1>1. pc \in [Jobs -> RunnerStates] /\ units \in [Jobs -> 0..MaxUnits]
  BY DEF DInv, TypeOK
<1>2. PICK label \in RunnerStates \ {"none"} : pc' = [pc EXCEPT ![j] = label]
  BY DEF RunFrame
<1>3. PICK n \in 0..MaxUnits : units' = [units EXCEPT ![j] = n]
  BY DEF RunFrame
<1>4. TypeOK'
  BY <1>1, <1>2, <1>3 DEF RunFrame, DInv, TypeOK, IInv
<1>5. ASSUME NEW k \in Jobs, k # j PROVE JobInv(k)'
  <2>1. JobInv(k)
    BY DEF DInv
  <2>2. pc'[k] = pc[k] /\ units'[k] = units[k] /\ jobs'[k] = jobs[k]
        /\ signalled' = signalled /\ (k \in registered' <=> k \in registered)
    BY <1>1, <1>2, <1>3, <1>5 DEF RunFrame
  <2> QED BY <2>1, <2>2 DEF JobInv, Status, Settled
<1>6. ASSUME NEW c \in Cancellers PROVE CancellerInv(c)'
  <2>1. CancellerInv(c) /\ JobInv(j)' /\ pc'[j] = label
    BY <1>1, <1>2 DEF DInv
  <2>2. canceller' = canceller /\ signalled' = signalled /\ pc[j] \notin {"none", "done", "lost"}
    BY DEF RunFrame
  <2>3. ASSUME NEW k \in Jobs, k # j PROVE pc'[k] = pc[k]
    BY <1>1, <1>2, <2>3
  <2>4. pc'[j] # "none"
    BY <2>1
  <2> QED BY <2>1, <2>2, <2>3, <2>4 DEF CancellerInv
<1> QED BY <1>4, <1>5, <1>6 DEF DInv

-----------------------------------------------------------------------------
(* The steps that leave the record and the registry alone *)

QuietStep(j, label, n) ==
  /\ label \in RunnerStates \ {"none", "done", "forget", "lost"}
  /\ n \in 0..MaxUnits
  /\ label \in {"gate", "fetch"} => n > 0
  /\ label = "settle_cancelled" => j \in signalled
  /\ pc[j] \notin {"none", "done", "forget", "lost"}
  /\ pc' = [pc EXCEPT ![j] = label]
  /\ units' = [units EXCEPT ![j] = n]
  /\ UNCHANGED trackerVars
  /\ RunnerOnly

LEMMA QuietStepKeepsDInv ==
  ASSUME DInv, NEW j \in Jobs, NEW label, NEW n, QuietStep(j, label, n)
  PROVE  DInv'
<1>1. pc'[j] = label /\ units'[j] = n /\ UNCHANGED <<jobs, futures, registered, signalled>>
  BY DEF DInv, TypeOK, trackerVars, RunnerOnly, QuietStep
<1>2. JobInv(j) /\ registered \in SUBSET Jobs
  BY DEF DInv, TypeOK
<1>3. JobInv(j)'
  BY <1>1, <1>2 DEF JobInv, Status, Settled, QuietStep
<1>4. RunFrame(j)
  BY <1>1, <1>2 DEF RunFrame, RunnerOnly, QuietStep
<1>5. IInv'
  BY StutterKeepsIInv DEF DInv, QuietStep
<1> QED BY <1>3, <1>4, <1>5, RunFrameKeepsDInv

\* Leaving units alone is a special case of the frame.
LEMMA UnitsUnchanged ==
  ASSUME DInv, NEW j \in Jobs, UNCHANGED units
  PROVE  units[j] \in 0..MaxUnits /\ units' = [units EXCEPT ![j] = units[j]]
BY DEF DInv, TypeOK

LEMMA PrepareKeepsDInv ==
  ASSUME DInv, NEW j \in Jobs, Prepare(j)
  PROVE  DInv'
<1>1. PICK n \in 0..MaxUnits : units' = [units EXCEPT ![j] = n]
                                /\ Goto(j, AfterPrepare(kind[j], n))
  BY DEF Prepare
<1>2. pc[j] = "prepare" /\ UNCHANGED trackerVars /\ RunnerOnly
  BY DEF Prepare
<1>3. CASE n > 0
  <2>1. QuietStep(j, "gate", n)
    BY <1>1, <1>2, <1>3 DEF QuietStep, AfterPrepare, Goto, RunnerStates, Settling
  <2> QED BY <2>1, QuietStepKeepsDInv
<1>4. CASE ~(n > 0)
  <2>1. QuietStep(j, AfterPrepare(kind[j], n), n)
    BY <1>1, <1>2, <1>4 DEF QuietStep, AfterPrepare, Goto, RunnerStates, Settling
  <2> QED BY <2>1, QuietStepKeepsDInv
<1> QED BY <1>3, <1>4

LEMMA FetchKeepsDInv ==
  ASSUME DInv, NEW j \in Jobs, Fetch(j)
  PROVE  DInv'
<1>1. JobInv(j) /\ units[j] \in 0..MaxUnits /\ pc[j] = "fetch"
  BY DEF DInv, TypeOK, Fetch
<1>2. units[j] - 1 \in 0..MaxUnits /\ units' = [units EXCEPT ![j] = units[j] - 1]
  BY <1>1, MaxUnitsAssumption DEF Fetch, JobInv
<1>3. UNCHANGED trackerVars /\ RunnerOnly /\ pc' = [pc EXCEPT ![j] = "report"]
  BY DEF Fetch, Goto
<1>4. QuietStep(j, "report", units[j] - 1)
  BY <1>1, <1>2, <1>3 DEF QuietStep, RunnerStates, Settling
<1> QED BY <1>4, QuietStepKeepsDInv

\* The steps that only decide where the runner goes next.
LEMMA DecisionsKeepDInv ==
  ASSUME DInv, NEW j \in Jobs,
         \/ PrepareFails(j) \/ RunnerDies(j) \/ NothingToFetch(j) \/ Gate(j) \/ FetchFails(j)
         \/ Last(j) \/ Extract(j) \/ SettleRaises(j)
  PROVE  DInv'
<1> DEFINE NextLabels == {"settle_completed", "settle_failed", "settle_cancelled",
                          "fetch", "extract", "dead", "give_up"}
<1>1. UNCHANGED trackerVars /\ UNCHANGED units /\ RunnerOnly
  BY DEF PrepareFails, RunnerDies, NothingToFetch, Gate, FetchFails, Last, Extract,
         SettleRaises, trackerVars
<1>2. pc[j] \in {"begin", "prepare", "gate", "fetch", "report", "last", "extract"} \cup Settling
  BY DEF PrepareFails, RunnerDies, NothingToFetch, Gate, FetchFails, Last, Extract, SettleRaises
<1>3. \E label \in NextLabels :
         /\ pc' = [pc EXCEPT ![j] = label]
         /\ label = "fetch" => pc[j] = "gate"
         /\ label = "settle_cancelled" => j \in signalled
  <2>1. CASE PrepareFails(j) \/ RunnerDies(j) \/ FetchFails(j)
    BY <2>1 DEF PrepareFails, RunnerDies, FetchFails, Goto
  <2>2. CASE NothingToFetch(j)
    BY <2>2 DEF NothingToFetch, Goto
  <2>3. CASE Gate(j)
    BY <2>3 DEF Gate, Goto
  <2>4. CASE Last(j)
    BY <2>4 DEF Last, Goto
  <2>5. CASE Extract(j)
    BY <2>5 DEF Extract, Goto
  <2>6. CASE SettleRaises(j)
    BY <2>6 DEF SettleRaises, Goto
  <2> QED BY <2>1, <2>2, <2>3, <2>4, <2>5, <2>6
<1>4. PICK label \in NextLabels :
         /\ pc' = [pc EXCEPT ![j] = label]
         /\ label = "fetch" => pc[j] = "gate"
         /\ label = "settle_cancelled" => j \in signalled
  BY <1>3
<1>5. label \in RunnerStates \ {"none", "done", "forget", "lost"} /\ label # "gate"
  BY DEF RunnerStates, Settling
<1>6. label = "fetch" => units[j] > 0
  BY <1>4 DEF DInv, JobInv
<1>7. QuietStep(j, label, units[j])
  BY <1>1, <1>2, <1>4, <1>5, <1>6, UnitsUnchanged DEF QuietStep, Settling
<1> QED BY <1>7, QuietStepKeepsDInv

-----------------------------------------------------------------------------
(* The steps that write the record or the registry *)

\* A runner at work has a tracked record.
LEMMA WorkingIsTracked ==
  ASSUME DInv, NEW j \in Jobs, pc[j] # "none"
  PROVE  Tracked(j)
<1>1. JobInv(j)
  BY DEF DInv
<1> QED BY <1>1 DEF JobInv, Tracked, Missing

LEMMA ReportsKeepDInv ==
  ASSUME DInv, NEW j \in Jobs, NEW p \in 0..100, NEW label \in {"prepare", "gate", "last"},
         pc[j] \in {"begin", "report"}, Goto(j, label), label = "gate" => units[j] > 0,
         UpdateProgress(j, p, "running"), UNCHANGED units, RunnerOnly
  PROVE  DInv'
<1>1. IInv'
  BY UpdateProgressKeepsIInv DEF DInv
<1>2. jobs' = [jobs EXCEPT ![j] = [status |-> "running", progress |-> p]]
  BY WorkingIsTracked, UpdateEffect
<1>3. jobs \in [Jobs -> JobRecord] /\ pc \in [Jobs -> RunnerStates] /\ registered \in SUBSET Jobs
  BY DEF DInv, TypeOK, TrackerTypeOK
<1>4. pc' = [pc EXCEPT ![j] = label] /\ label \in RunnerStates \ {"none"}
  BY DEF Goto, RunnerStates
<1>5. RunFrame(j)
  BY <1>2, <1>3, <1>4, UnitsUnchanged DEF RunFrame, RunnerOnly
<1>6. JobInv(j) /\ pc'[j] = label /\ jobs'[j].status = "running"
      /\ registered' = registered /\ units' = units
  BY <1>2, <1>3, <1>4 DEF DInv, RunnerOnly
<1>7. JobInv(j)'
  BY <1>6 DEF JobInv, Status, Settled
<1> QED BY <1>1, <1>5, <1>7, RunFrameKeepsDInv

LEMMA BeginKeepsDInv ==
  ASSUME DInv, NEW j \in Jobs, Begin(j)
  PROVE  DInv'
BY ReportsKeepDInv DEF Begin

LEMMA ReportKeepsDInv ==
  ASSUME DInv, NEW j \in Jobs, Report(j)
  PROVE  DInv'
<1> DEFINE label == IF units[j] > 0 THEN "gate" ELSE "last"
<1>1. pc[j] = "report" /\ Goto(j, label) /\ UNCHANGED units /\ RunnerOnly
  BY DEF Report
<1>2. CASE UNCHANGED trackerVars
  <2>1. QuietStep(j, label, units[j])
    BY <1>1, <1>2, UnitsUnchanged DEF QuietStep, Goto, RunnerStates, Settling
  <2> QED BY <2>1, QuietStepKeepsDInv
<1>3. CASE \E p \in ProgressLevels : UpdateProgress(j, p, "running")
  <2>1. PICK p \in ProgressLevels : UpdateProgress(j, p, "running")
    BY <1>3
  <2>2. p \in 0..100
    BY ProgressAssumption
  <2> QED BY <1>1, <2>1, <2>2, ReportsKeepDInv
<1> QED BY <1>2, <1>3 DEF Report

\* Forgetting the job comes after the verdict, so it only empties the registry.
LEMMA ForgetKeepsDInv ==
  ASSUME DInv, NEW j \in Jobs, Forget(j)
  PROVE  DInv'
<1>1. JobInv(j) /\ pc \in [Jobs -> RunnerStates] /\ registered \in SUBSET Jobs
  BY DEF DInv, TypeOK
<1> DEFINE label == IF pc[j] = "forget" THEN "done" ELSE "lost"
<1>2. pc[j] \in {"forget", "give_up"} /\ pc' = [pc EXCEPT ![j] = label]
      /\ registered' = registered \ {j}
      /\ UNCHANGED <<jobs, futures, kind, units, signalled, canceller, monitor>>
  BY DEF Forget, Goto
<1>3. IInv'
  BY <1>2, StutterKeepsIInv DEF DInv, trackerVars
<1>4. RunFrame(j)
  BY <1>1, <1>2, UnitsUnchanged DEF RunFrame, RunnerStates
<1>5. JobInv(j)'
  BY <1>1, <1>2 DEF JobInv, Status, Settled
<1> QED BY <1>3, <1>4, <1>5, RunFrameKeepsDInv

LEMMA SettleKeepsDInv ==
  ASSUME DInv, NEW j \in Jobs, Settle(j)
  PROVE  DInv'
<1>1. pc[j] \in Settling /\ pc' = [pc EXCEPT ![j] = "forget"] /\ UNCHANGED units /\ RunnerOnly
  BY DEF Settle, Settling, Goto
<1>2. CompleteJob(j) \/ FailJob(j) \/ CancelJob(j)
  BY DEF Settle, Settling
<1>3. IInv'
  BY <1>2, CompleteJobKeepsIInv, FailJobKeepsIInv, CancelJobKeepsIInv DEF DInv
<1>4. Tracked(j) /\ JobInv(j) /\ TrackerTypeOK /\ pc \in [Jobs -> RunnerStates]
      /\ registered \in SUBSET Jobs
  BY <1>1, WorkingIsTracked DEF DInv, TypeOK, Settling
<1>5. /\ \A k \in Jobs \ {j} : jobs'[k] = jobs[k]
      /\ Status(j)' \in Terminal
      /\ Status(j)' = "completed" => jobs'[j].progress = 100 \/ jobs'[j] = jobs[j]
  BY <1>2, <1>4, SettleEffect
<1>6. Status(j)' = "cancelled" => j \in signalled
  <2>1. CASE pc[j] = "settle_cancelled"
    BY <2>1, <1>4 DEF JobInv
  <2>2. CASE pc[j] = "settle_completed"
    BY <2>2, <1>4 DEF Settle, CompleteJob, Status, TrackerTypeOK
  <2>3. CASE pc[j] = "settle_failed"
    BY <2>3, <1>4 DEF Settle, FailJob, SetStatus, Status, TrackerTypeOK, JobRecord
  <2> QED BY <1>1, <2>1, <2>2, <2>3 DEF Settling
<1>7. RunFrame(j)
  BY <1>1, <1>4, <1>5, UnitsUnchanged DEF RunFrame, RunnerOnly, Settling, RunnerStates
<1>8. JobInv(j)'
  BY <1>1, <1>4, <1>5, <1>6 DEF JobInv, Status, Settled, Terminal, RunnerOnly, Settling
<1> QED BY <1>3, <1>7, <1>8, RunFrameKeepsDInv

LEMMA RunKeepsDInv ==
  ASSUME DInv, NEW j \in Jobs, Run(j)
  PROVE  DInv'
BY BeginKeepsDInv, PrepareKeepsDInv, DecisionsKeepDInv, FetchKeepsDInv, ReportKeepsDInv,
   SettleKeepsDInv, ForgetKeepsDInv DEF Run

-----------------------------------------------------------------------------
(* The steps of cancel(), and of the bridge worker *)

LEMMA LookUpEventKeepsDInv ==
  ASSUME DInv, NEW c \in Cancellers, NEW j \in Jobs, LookUpEvent(c, j)
  PROVE  DInv'
<1> DEFINE entry == [state |-> IF j \in registered THEN "found" ELSE "missed", job |-> j]
<1>1. canceller' = [canceller EXCEPT ![c] = entry] /\ Tracked(j)
      /\ UNCHANGED <<jobs, futures, signalled, pc, kind, units, registered, monitor>>
  BY DEF LookUpEvent, CancellerOnly
<1>2. entry \in CancellerStates
  BY DEF CancellerStates
<1>3. canceller \in [Cancellers -> CancellerStates] /\ JobInv(j)
  BY DEF DInv, TypeOK
<1>4. IInv'
  BY <1>1, StutterKeepsIInv DEF DInv, trackerVars
<1>5. TypeOK'
  BY <1>1, <1>2, <1>3, <1>4 DEF DInv, TypeOK, IInv
<1>6. ASSUME NEW k \in Jobs PROVE JobInv(k)'
  <2>1. JobInv(k)
    BY DEF DInv
  <2> QED BY <2>1, <1>1 DEF JobInv, Status, Settled
<1>7. ASSUME NEW d \in Cancellers PROVE CancellerInv(d)'
  <2>1. CASE d = c
    <3>1. canceller'[d] = entry
      BY <1>1, <1>3, <2>1
    <3>2. pc[j] # "none" /\ (j \notin registered => pc[j] \in {"done", "lost"})
      BY <1>1, <1>3 DEF JobInv, Tracked, Missing
    <3> QED BY <1>1, <3>1, <3>2 DEF CancellerInv
  <2>2. CASE d # c
    <3>1. canceller'[d] = canceller[d] /\ CancellerInv(d)
      BY <1>1, <1>3, <2>2 DEF DInv
    <3> QED BY <1>1, <3>1 DEF CancellerInv
  <2> QED BY <2>1, <2>2
<1> QED BY <1>4, <1>5, <1>6, <1>7 DEF DInv

LEMMA SetEventKeepsDInv ==
  ASSUME DInv, NEW c \in Cancellers, SetEvent(c)
  PROVE  DInv'
<1>1. canceller' = [canceller EXCEPT ![c].state = "signalled"]
      /\ canceller[c].state = "found" /\ signalled' = signalled \cup {canceller[c].job}
      /\ UNCHANGED <<jobs, futures, pc, kind, units, registered, monitor>>
  BY DEF SetEvent, CancellerOnly, trackerVars
<1>2. canceller \in [Cancellers -> CancellerStates] /\ CancellerInv(c) /\ canceller[c].job \in Jobs
  BY <1>1 DEF DInv, TypeOK, CancellerInv
<1>3. IInv'
  BY <1>1, StutterKeepsIInv DEF DInv, trackerVars
<1>4. canceller' \in [Cancellers -> CancellerStates] /\ signalled' \in SUBSET Jobs
  BY <1>1, <1>2 DEF CancellerStates, DInv, TypeOK
<1>5. TypeOK'
  BY <1>1, <1>3, <1>4 DEF DInv, TypeOK, IInv
<1>6. ASSUME NEW k \in Jobs PROVE JobInv(k)'
  <2>1. JobInv(k)
    BY DEF DInv
  <2> QED BY <2>1, <1>1 DEF JobInv, Status, Settled
<1>7. ASSUME NEW d \in Cancellers PROVE CancellerInv(d)'
  <2>1. CASE d = c
    <3>1. canceller'[d].state = "signalled" /\ canceller'[d].job = canceller[c].job
      BY <1>1, <1>2, <2>1 DEF CancellerStates
    <3> QED BY <1>1, <1>2, <3>1 DEF CancellerInv
  <2>2. CASE d # c
    <3>1. canceller'[d] = canceller[d] /\ CancellerInv(d)
      BY <1>1, <1>2, <2>2 DEF DInv
    <3> QED BY <1>1, <3>1 DEF CancellerInv
  <2> QED BY <2>1, <2>2
<1> QED BY <1>3, <1>5, <1>6, <1>7 DEF DInv

\* The record is cancelled only by a caller that signalled the runner, or that
\* came when the runner had ended: done with a terminal record, or lost.
LEMMA CancelRecordKeepsDInv ==
  ASSUME DInv, NEW c \in Cancellers, CancelRecord(c)
  PROVE  DInv'
<1> DEFINE j == canceller[c].job
<1> DEFINE entry == [state |-> "idle", job |-> None]
<1>1. canceller' = [canceller EXCEPT ![c] = entry] /\ CancelJob(j)
      /\ canceller[c].state \in {"signalled", "missed"}
      /\ UNCHANGED <<signalled, pc, kind, units, registered, monitor>>
  BY DEF CancelRecord, CancellerOnly
<1>2. canceller \in [Cancellers -> CancellerStates] /\ CancellerInv(c)
      /\ jobs \in [Jobs -> JobRecord]
  BY DEF DInv, TypeOK, TrackerTypeOK
<1>3. j \in Jobs /\ (j \in signalled \/ pc[j] \in {"done", "lost"})
  BY <1>1, <1>2 DEF CancellerInv
<1>4. IInv'
  BY <1>1, <1>3, CancelJobKeepsIInv DEF DInv
<1>5. TypeOK'
  BY <1>1, <1>2, <1>4 DEF DInv, TypeOK, IInv, CancellerStates
<1>6. ASSUME NEW k \in Jobs PROVE JobInv(k)'
  <2>1. JobInv(k) /\ JobInv(j)
    BY <1>3 DEF DInv
  <2>2. CASE k # j \/ ~Cancellable(j)
    <3>1. jobs'[k] = jobs[k]
      BY <1>1, <1>2, <2>2 DEF CancelJob, SetStatus, trackerVars
    <3> QED BY <1>1, <2>1, <3>1 DEF JobInv, Status, Settled
  <2>3. CASE k = j /\ Cancellable(j)
    <3>1. jobs'[j].status = "cancelled"
      BY <1>1, <1>2, <1>3, <2>3 DEF CancelJob, SetStatus, JobRecord
    <3>2. (j \in signalled \/ pc[j] = "lost") /\ pc[j] # "none"
      BY <1>3, <2>1, <2>3 DEF JobInv, Cancellable, Settled, Open, Terminal
    <3> QED BY <1>1, <2>1, <2>3, <3>1, <3>2 DEF JobInv, Status, Settled, Terminal
  <2> QED BY <2>2, <2>3
<1>7. ASSUME NEW d \in Cancellers PROVE CancellerInv(d)'
  <2>1. CancellerInv(d) /\ (canceller'[d] = entry \/ canceller'[d] = canceller[d])
    BY <1>1, <1>2 DEF DInv
  <2> QED BY <1>1, <2>1 DEF CancellerInv
<1> QED BY <1>4, <1>5, <1>6, <1>7 DEF DInv

\* Polling, and standing still, change nothing the invariant speaks of but the monitor.
LEMMA PollKeepsDInv ==
  ASSUME DInv, Poll \/ UNCHANGED vars
  PROVE  DInv'
<1>1. UNCHANGED <<jobs, futures, pc, kind, units, signalled, registered, canceller>>
  BY DEF Poll, vars
<1>2. monitor' \in MonitorStates
  BY DEF Poll, vars, DInv, TypeOK, MonitorStates
<1>3. IInv'
  BY <1>1, StutterKeepsIInv DEF DInv, trackerVars
<1>4. TypeOK'
  BY <1>1, <1>2, <1>3 DEF DInv, TypeOK, IInv
<1>5. ASSUME NEW k \in Jobs PROVE JobInv(k)'
  BY <1>1 DEF DInv, JobInv, Status, Settled
<1>6. ASSUME NEW c \in Cancellers PROVE CancellerInv(c)'
  BY <1>1 DEF DInv, CancellerInv
<1> QED BY <1>3, <1>4, <1>5, <1>6 DEF DInv

LEMMA NextDInv == DInv /\ [Next]_vars => DInv'
<1> SUFFICES ASSUME DInv, [Next]_vars
             PROVE  DInv'
  OBVIOUS
<1>1. ASSUME NEW j \in Jobs, StartFromApi(j) \/ StartFromWorker(j)
      PROVE  DInv'
  BY <1>1, StartKeepsDInv
<1>2. ASSUME NEW j \in Jobs, Run(j)
      PROVE  DInv'
  BY <1>2, RunKeepsDInv
<1>3. ASSUME NEW c \in Cancellers, Cancel(c)
      PROVE  DInv'
  BY <1>3, LookUpEventKeepsDInv, SetEventKeepsDInv, CancelRecordKeepsDInv DEF Cancel
<1>4. CASE Poll \/ UNCHANGED vars
  BY <1>4, PollKeepsDInv
<1> QED BY <1>1, <1>2, <1>3, <1>4 DEF Next

-----------------------------------------------------------------------------
(* What each step does to the verdict of a job *)

VerdictKept(j) == Settled(j) => jobs'[j] = jobs[j]

\* An unsettled job may be written by its runner and by cancel(); a settled one
\* by nobody.
LEMMA StepsKeepVerdicts ==
  ASSUME DInv, [Next]_vars, NEW j \in Jobs
  PROVE  VerdictKept(j)
<1>1. jobs \in [Jobs -> JobRecord] /\ JobInv(j)
  BY DEF DInv, TypeOK, TrackerTypeOK
<1>2. ASSUME NEW k \in Jobs, StartFromApi(k) \/ StartFromWorker(k)
      PROVE  VerdictKept(j)
  <2>1. pc[k] = "none" /\ CreateJob(k)
    BY <1>2 DEF StartFromApi, StartFromWorker, StartJob
  <2> QED BY <1>1, <2>1 DEF CreateJob, VerdictKept, Settled
<1>3. ASSUME NEW k \in Jobs, Run(k)
      PROVE  VerdictKept(j)
  <2>1. CASE Begin(k) \/ Report(k)
    <3>1. pc[k] \in {"begin", "report"}
          /\ (UNCHANGED trackerVars \/ \E p, s : UpdateProgress(k, p, s))
      BY <2>1 DEF Begin, Report
    <3> QED BY <1>1, <3>1 DEF VerdictKept, Settled, UpdateProgress, trackerVars
  <2>2. CASE Settle(k)
    <3>1. pc[k] \in Settling /\ (CompleteJob(k) \/ FailJob(k) \/ CancelJob(k))
      BY <2>2 DEF Settle, Settling
    <3>2. Tracked(k) /\ TrackerTypeOK
      BY <3>1, WorkingIsTracked DEF Settling, DInv, TypeOK
    <3> QED BY <3>1, <3>2, SettleEffect DEF VerdictKept, Settled, Settling
  <2>3. CASE ~(Begin(k) \/ Report(k) \/ Settle(k))
    <3>1. UNCHANGED jobs
      BY <1>3, <2>3 DEF Run, Prepare, PrepareFails, RunnerDies, NothingToFetch, Gate, Fetch,
                        FetchFails, Last, Extract, SettleRaises, Forget, trackerVars
    <3> QED BY <3>1 DEF VerdictKept
  <2> QED BY <2>1, <2>2, <2>3
<1>4. ASSUME NEW c \in Cancellers, Cancel(c)
      PROVE  VerdictKept(j)
  <2>1. UNCHANGED jobs \/ \E k : CancelJob(k)
    BY <1>4 DEF Cancel, LookUpEvent, SetEvent, CancelRecord, trackerVars
  <2>2. Settled(j) => ~Cancellable(j)
    BY <1>1 DEF JobInv, Cancellable, Open, Terminal
  <2> QED BY <1>1, <2>1, <2>2 DEF CancelJob, SetStatus, VerdictKept, trackerVars
<1>5. CASE Poll \/ UNCHANGED vars
  BY <1>5 DEF Poll, vars, VerdictKept
<1> QED BY <1>2, <1>3, <1>4, <1>5 DEF Next

-----------------------------------------------------------------------------
(* The theorems *)

LEMMA SpecDInv == Spec => []DInv
BY InitDInv, NextDInv, PTL DEF Spec

\* Records, runners, cancel() callers and the bridge worker keep their types.
THEOREM DownloadJobsTypeOK == Spec => []TypeOK
<1>1. DInv => TypeOK
  BY DEF DInv
<1> QED BY <1>1, SpecDInv, PTL

\* job_service.py _run_*_job: once a runner has given its verdict, the record of the
\* job is in a terminal status, whatever cancel() callers do meanwhile.
THEOREM SettledJobsAreTerminalTheorem == Spec => []SettledJobsAreTerminal
<1>1. DInv => SettledJobsAreTerminal
  BY DEF DInv, JobInv, SettledJobsAreTerminal
<1> QED BY <1>1, SpecDInv, PTL

\* cancel(): a job whose record says cancelled has its event set, so that the
\* download behind it stops.
THEOREM CancelledMeansSignalledTheorem == Spec => []CancelledMeansSignalled
<1>1. DInv => CancelledMeansSignalled
  BY DEF DInv, JobInv, CancelledMeansSignalled
<1> QED BY <1>1, SpecDInv, PTL

\* complete_job: a completed record is at 100 percent, and no late report of the
\* runner takes it back.
THEOREM CompletedIsFullTheorem == Spec => []CompletedIsFull
<1>1. DInv => CompletedIsFull
  BY DEF DInv, JobInv, CompletedIsFull
<1> QED BY <1>1, SpecDInv, PTL

\* The verdict a runner gave its job is never changed by a cancel() call or by
\* anything else (job_service.py: cancel, _forget_job).
THEOREM VerdictIsFinalTheorem == Spec => VerdictIsFinal
<1>1. DInv /\ [Next]_vars => [\A j \in Jobs : Settled(j) => jobs'[j] = jobs[j]]_vars
  BY StepsKeepVerdicts DEF VerdictKept
<1> QED BY <1>1, InitDInv, NextDInv, PTL DEF Spec, VerdictIsFinal

=============================================================================
