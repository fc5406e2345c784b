------------------------------ MODULE LLMWorker ------------------------------
(***************************************************************************)
(* LLMGenerateWorker: requests and unloads that reach its queue, the loop  *)
(* that handles them, the download thread that repeats a request once its  *)
(* model is there, and the one model manager they all call without a lock. *)
(*                                                                         *)
(* A thread is a program counter.  The worker loop and the download        *)
(* threads run handle_message; they, the routes that load the model and    *)
(* the inactivity timer run LLMModelManager.load and unload, whose place   *)
(* to return to is on the stack cont.                                      *)
(***************************************************************************)
EXTENDS WorkerQueue, Functions

CONSTANTS
  Requests,      \* requests, each sent once by a thread of its own
  Unloaders,     \* calls of request_unload_after_interrupt
  Outsiders,     \* threads that use the manager and not the queue: a route that
                 \* emits LLM_LOAD_SIGNAL, or the inactivity timer; once each (bound)
  Downloaders,   \* bound: the download threads that may be started
  Scenarios,     \* bound: the sets of callers and download threads that come
                 \* together
  Overriding,    \* requests that change the model settings for themselves
  AutoUnload,    \* AIRUNNER_LLM_AUTO_UNLOAD
  Worker,        \* the worker loop
  Unload         \* the llm_unload message

Handlers == {Worker} \cup Downloaders
Managing == Handlers \cup Outsiders

ASSUME ThreadsAssumption == Threads = Requests \cup Unloaders \cup Managing
ASSUME MessagesAssumption == Messages = Requests \cup {Unload}
ASSUME ScenariosAssumption ==
  Scenarios \subseteq SUBSET (Requests \cup Unloaders \cup Outsiders \cup Downloaders)
ASSUME OverridingAssumption == Overriding \subseteq Requests
ASSUME AutoUnloadAssumption == AutoUnload \in BOOLEAN

VARIABLES
  callers,        \* those of one scenario
  pc, cont,       \* where a thread stands; the stack of places to return to
  msg,            \* what each handler handles
  outcome,        \* how its request ended
  seen,           \* the status a thread in load() has read
  interrupted,    \* LLMGenerateWorker._interrupted
  pendingRequest, \* _pending_llm_request
  pendingUnload,  \* whether _pending_unload_request is set
  downloading,    \* _download_dialog_showing
  stamped,        \* whether _last_request_time is set
  status,         \* the manager's status of the LLM; "none" without a manager
  answered,       \* requests that got an end-of-message response
  kept,           \* requests answered "queued until the download completes"
  raised,         \* requests whose handling raised where nothing answers them
  dropped,        \* requests an interrupt removed
  ran,            \* unloaders after whose asking a queued unload found or left the
                  \* model unloaded
  missed,         \* those for whom it found another thread loading, or raised
  stranded        \* a pending unload was left to a request nobody is at work on

workerVars == <<pc, cont, msg, outcome, seen, interrupted, pendingRequest,
                pendingUnload, downloading, stamped, status, answered, kept,
                raised, dropped, ran, missed, stranded>>
vars == <<callers, queueVars, workerVars>>

Statuses == {"none", "unloaded", "loading", "loaded", "failed"}
Outcomes == {"none", "ok", "failed", "retry"}
Locations == {"start", "idle", "off", "add", "done", "refused", "clear", "pend",
              "look", "take", "check", "keep", "gather", "load", "decide",
              "announce", "build", "components", "unload", "release",
              "prepare", "ensure", "generate", "restore", "settle", "queue",
              "begin", "fetch", "auto", "forget", "close", "stamp"}

TypeOK ==
  /\ callers \in Scenarios
  /\ QueueTypeOK
  /\ pc \in [Threads -> Locations]
  /\ cont \in [Managing -> Seq(Locations)]
  /\ msg \in [Handlers -> Requests \cup {NoMessage}]
  /\ outcome \in [Handlers -> Outcomes]
  /\ seen \in [Managing -> Statuses]
  /\ {interrupted, pendingUnload, downloading, stamped, stranded} \subseteq BOOLEAN
  /\ pendingRequest \in Requests \cup {NoMessage}
  /\ status \in Statuses
  /\ {answered, kept, raised, dropped} \subseteq SUBSET Requests
  /\ {ran, missed} \subseteq SUBSET Unloaders

StartOf(t) == IF t \in Downloaders THEN "off"
              ELSE IF t = Worker THEN "idle" ELSE "start"

Init ==
  /\ callers \in Scenarios
  /\ QueueInit
  /\ pc = [t \in Threads |-> StartOf(t)]
  /\ cont = [t \in Managing |-> <<>>]
  /\ msg = [h \in Handlers |-> NoMessage]
  /\ outcome = [h \in Handlers |-> "none"]
  /\ seen = [t \in Managing |-> "none"]
  /\ interrupted = FALSE /\ pendingUnload = FALSE
  /\ downloading = FALSE /\ stamped = FALSE
  /\ pendingRequest = NoMessage
  /\ status = "none"
  /\ answered = {} /\ kept = {} /\ raised = {} /\ dropped = {}
  /\ ran = {} /\ missed = {} /\ stranded = FALSE

flags == <<interrupted, pendingRequest, pendingUnload, downloading, stamped>>
locals == <<cont, msg, outcome, seen>>
unloads == <<ran, missed>>
history == <<answered, kept, raised, dropped, unloads, stranded>>

At(t, label) == pc[t] = label
Comes(t) == At(t, "start") /\ t \in callers
Goto(t, label) == pc' = [pc EXCEPT ![t] = label]
\* Go through the places of a path one after the other, then to where it was
\* called from.
Run(t, path) ==
  /\ Goto(t, Head(path))
  /\ cont' = [cont EXCEPT ![t] = Tail(path) \o @]
Return(t) ==
  /\ Goto(t, Head(cont[t]))
  /\ cont' = [cont EXCEPT ![t] = Tail(@)]
\* The place of its own program a thread is at, or will come back to.
PlaceOf(t) == IF cont[t] = <<>> THEN pc[t] ELSE cont[t][Len(cont[t])]

\* The manager is created on first use.
ManagerExists == status' = IF status = "none" THEN "unloaded" ELSE status

-----------------------------------------------------------------------------
(* Callers *)

\* on_llm_request_signal, up to add_to_queue.
Send(r) ==
  /\ Comes(r)
  /\ interrupted' = FALSE
  /\ stamped' = TRUE
  /\ Goto(r, "add")
  /\ UNCHANGED <<queueVars, locals, pendingRequest, pendingUnload, downloading,
                 status, history>>

\* request_unload_after_interrupt: without a manager it answers False.
Interrupt(u) ==
  /\ Comes(u)
  /\ \/ status = "none" /\ Goto(u, "refused") /\ UNCHANGED interrupted
     \/ status # "none" /\ Goto(u, "clear") /\ interrupted' = TRUE
  /\ UNCHANGED <<queueVars, locals, pendingRequest, pendingUnload, downloading,
                 stamped, status, history>>

Clear(u) ==
  /\ At(u, "clear")
  /\ ClearQueue
  /\ dropped' = dropped \cup (Queued \cap Requests)
  /\ Goto(u, "pend")
  /\ UNCHANGED <<locals, flags, status, answered, kept, raised, unloads, stranded>>

Pend(u) ==
  /\ At(u, "pend")
  /\ pendingUnload' = TRUE
  /\ Goto(u, "look")
  /\ UNCHANGED <<queueVars, locals, interrupted, pendingRequest, downloading,
                 stamped, status, history>>

\* A handler whose way out of handle_message goes by the pending unload.
Handles(h) == msg[h] # NoMessage /\ ~At(h, "check")

\* Only without a request in progress is the unload queued here and now.  A request
\* that is stored and not in progress, because it waits for its download or its
\* handling raised, looks the same.
Look(u) ==
  /\ At(u, "look")
  /\ Goto(u, IF pendingRequest = NoMessage THEN "take" ELSE "done")
  /\ stranded' = \/ stranded
                  \/ /\ pendingRequest \in kept \cup raised
                     /\ \A h \in Handlers : ~Handles(h)
  /\ UNCHANGED <<queueVars, locals, flags, status, answered, kept, raised, dropped,
                 unloads>>

\* A route that needs the model: LLM_LOAD_SIGNAL, handled in its own thread.
LoadRoute(o) ==
  /\ Comes(o)
  /\ ManagerExists
  /\ Run(o, <<"load", "done">>)
  /\ UNCHANGED <<queueVars, msg, outcome, seen, flags, history>>

\* _check_inactivity, on the one thread of the timer, when its time has come.
CheckInactivity(o) ==
  /\ Comes(o)
  /\ \A s \in Outsiders : "stamp" \notin Range(cont[s]) \cup {pc[s]}
  /\ AutoUnload /\ stamped /\ status = "loaded"
  /\ Run(o, <<"unload", "stamp">>)
  /\ UNCHANGED <<queueVars, msg, outcome, seen, flags, status, history>>

ForgetActivity(o) ==
  /\ At(o, "stamp")
  /\ stamped' = FALSE
  /\ Goto(o, "done")
  /\ UNCHANGED <<queueVars, locals, interrupted, pendingRequest, pendingUnload,
                 downloading, status, history>>

-----------------------------------------------------------------------------
(* add_to_queue and _queue_pending_unload_request, for whoever calls them *)

AfterHandling(h) == IF h = Worker THEN "idle" ELSE "forget"
AfterAdding(t) == IF t \in Handlers THEN AfterHandling(t) ELSE "done"

Add(t) ==
  /\ At(t, "add")
  /\ \/ /\ WriteSlot(t, IF t \in Requests THEN t ELSE Unload) \/ PutIndex(t)
        /\ UNCHANGED pc
     \/ BumpIndex(t) /\ Goto(t, AfterAdding(t))
  /\ UNCHANGED <<locals, flags, status, history>>

\* Whoever finds the pending unload takes it and queues it.
QueuePendingUnload(t) ==
  /\ pc[t] \in {"take", "queue"}
  /\ Goto(t, IF pendingUnload THEN "add" ELSE AfterAdding(t))
  /\ pendingUnload' = FALSE
  /\ stranded' = FALSE
  /\ UNCHANGED <<queueVars, locals, interrupted, pendingRequest, downloading,
                 stamped, status, answered, kept, raised, dropped, unloads>>

-----------------------------------------------------------------------------
(* LLMModelManager.load and unload, in the thread that calls them *)

ManagerOnly == UNCHANGED <<queueVars, msg, outcome, flags, history>>

\* load reads the status, then looks for the model.
ReadStatus(t) ==
  /\ At(t, "load")
  /\ seen' = [seen EXCEPT ![t] = status]
  /\ Goto(t, "decide")
  /\ UNCHANGED <<cont, status>>
  /\ ManagerOnly

\* No model configured, its files missing, or nothing to load: load returns.
Forgotten(t) == seen' = [seen EXCEPT ![t] = "none"]

NothingToLoad(t) ==
  /\ At(t, "decide")
  /\ Return(t)
  /\ Forgotten(t)
  /\ UNCHANGED status
  /\ ManagerOnly

\* Missing files are announced, unless a download is on; the bound is a thread left
\* for each announcement.
AnnounceMissing(t) ==
  /\ At(t, "decide")
  /\ ~downloading
  /\ Cardinality({s \in Managing : At(s, "announce")})
       < Cardinality({d \in Downloaders \cap callers : At(d, "off")})
  /\ Goto(t, "announce")
  /\ Forgotten(t)
  /\ UNCHANGED <<cont, status>>
  /\ ManagerOnly

\* The flag is set some time after it was looked at.
StartDownload(t) ==
  /\ At(t, "announce")
  /\ downloading' = TRUE
  /\ \E d \in Downloaders \cap callers :
       /\ At(d, "off")
       /\ pc' = [pc EXCEPT ![t] = Head(cont[t]), ![d] = "begin"]
  /\ cont' = [cont EXCEPT ![t] = Tail(@)]
  /\ UNCHANGED <<queueVars, msg, outcome, seen, interrupted, pendingRequest,
                 pendingUnload, stamped, status, history>>

\* The model is there.  What to do depends on the status read before: another
\* model or profile is unloaded first.
Decide(t) ==
  /\ At(t, "decide")
  /\ \/ /\ seen[t] = "loaded"
        /\ Run(t, <<"unload", "build">>)
        /\ UNCHANGED status
     \/ /\ seen[t] \in {"unloaded", "failed"}
        /\ status' = "loading"
        /\ Goto(t, "components")
        /\ UNCHANGED cont
  /\ Forgotten(t)
  /\ ManagerOnly

Build(t) ==
  /\ At(t, "build")
  /\ status' = "loading"
  /\ Goto(t, "components")
  /\ UNCHANGED <<cont, seen>>
  /\ ManagerOnly

\* Errors of the loaders are caught and show as missing components.
Components(t) ==
  /\ At(t, "components")
  /\ status' \in {"loaded", "failed"}
  /\ Return(t)
  /\ UNCHANGED seen
  /\ ManagerOnly

\* The unload of the queue, and those who asked before it.
IsQueuedUnload(t) == t = Worker /\ cont[t] = <<"idle">>
Asking == {u \in Unloaders : pc[u] \in {"look", "take", "add", "done"}}
Serves(t, whom) == IF IsQueuedUnload(t) THEN whom \cup Asking ELSE whom

\* The status decides; while it is loading, unload does nothing.
UnloadModel(t) ==
  /\ At(t, "unload")
  /\ \/ /\ status \in {"none", "loading", "unloaded"}
        /\ Return(t)
        /\ IF status = "loading"
             THEN missed' = Serves(t, missed) /\ UNCHANGED ran
             ELSE ran' = Serves(t, ran) /\ UNCHANGED missed
        /\ UNCHANGED status
     \/ /\ status \in {"loaded", "failed"}
        /\ status' = "loading"
        /\ Goto(t, "release")
        /\ UNCHANGED <<cont, unloads>>
  /\ UNCHANGED <<queueVars, msg, outcome, seen, flags, answered, kept, raised,
                 dropped, stranded>>

Release(t) ==
  /\ At(t, "release")
  /\ status' = "unloaded"
  /\ Return(t)
  /\ ran' = Serves(t, ran)
  /\ UNCHANGED <<queueVars, msg, outcome, seen, flags, answered, kept, raised,
                 dropped, missed, stranded>>

\* Where an exception of load or unload is caught: handle_request turns it into a
\* failed request, from within its try by way of the restored settings; a
\* download thread is over, and the timer forgets nothing.
CaughtAt(place) ==
  CASE place = "prepare" -> "settle"
    [] place = "ensure"  -> "restore"
    [] place = "auto"    -> "close"
    [] place = "stamp"   -> "done"
    [] OTHER             -> place

\* What load and unload do around the loaders is under no try.  They raise with
\* the status as they left it: loading, or one that load has just reported.
ManagerRaises(t) ==
  /\ pc[t] \in {"decide", "components", "unload", "release"}
  /\ At(t, "unload") => status \in {"loaded", "failed"}
  /\ status' \in {status} \cup IF At(t, "components") THEN {"loaded", "failed"} ELSE {}
  /\ Goto(t, CaughtAt(PlaceOf(t)))
  /\ cont' = [cont EXCEPT ![t] = <<>>]
  /\ outcome' = IF t \in Handlers /\ msg[t] # NoMessage
                  THEN [outcome EXCEPT ![t] = "failed"] ELSE outcome
  /\ Forgotten(t)
  /\ missed' = Serves(t, missed)
  /\ UNCHANGED <<queueVars, msg, flags, answered, kept, raised, dropped, ran,
                 stranded>>

Manage(t) ==
  \/ ReadStatus(t) \/ NothingToLoad(t) \/ AnnounceMissing(t) \/ StartDownload(t)
  \/ Decide(t) \/ Build(t) \/ Components(t)
  \/ UnloadModel(t) \/ Release(t) \/ ManagerRaises(t)

-----------------------------------------------------------------------------
(* The worker loop *)

Taken == items[Head(queue)]

TakeNothing ==
  /\ At(Worker, "idle")
  /\ TakeNext
  /\ Taken = NoMessage
  /\ UNCHANGED workerVars

TakeUnload ==
  /\ At(Worker, "idle")
  /\ TakeNext
  /\ Taken = Unload
  /\ Run(Worker, <<"unload", "idle">>)
  /\ UNCHANGED <<msg, outcome, seen, flags, status, history>>

TakeRequest ==
  /\ At(Worker, "idle")
  /\ TakeNext
  /\ Taken \in Requests
  /\ msg' = [msg EXCEPT ![Worker] = Taken]
  /\ Goto(Worker, "check")
  /\ UNCHANGED <<cont, outcome, seen, flags, status, history>>

-----------------------------------------------------------------------------
(* handle_message for a request, in the worker loop or a download thread *)

Check(h) ==
  /\ At(h, "check")
  /\ \/ /\ interrupted
        /\ dropped' = dropped \cup {msg[h]}
        /\ msg' = [msg EXCEPT ![h] = NoMessage]
        /\ Goto(h, AfterHandling(h))
     \/ ~interrupted /\ Goto(h, "keep") /\ UNCHANGED <<dropped, msg>>
  /\ UNCHANGED <<queueVars, cont, outcome, seen, flags, status, answered, kept,
                 raised, unloads, stranded>>

\* The request is stored, before there is a manager for it.
Keep(h) ==
  /\ At(h, "keep")
  /\ pendingRequest' = msg[h]
  /\ Goto(h, "gather")
  /\ UNCHANGED <<queueVars, cont, msg, outcome, seen, interrupted, pendingUnload,
                 downloading, stamped, status, history>>

\* A request that brings settings of its own has the model unloaded for them, and
\* once more when they are taken back.
Overrides(h) == IF msg[h] \in Overriding THEN <<"unload">> ELSE <<>>

\* With a manager and the documents of the request, handle_request loads the model.
Gather(h) ==
  /\ At(h, "gather")
  /\ ManagerExists
  /\ Run(h, Overrides(h) \o <<"load", "prepare">>)
  /\ UNCHANGED <<queueVars, msg, outcome, seen, flags, history>>

\* Both may raise outside the try that answers: the worker loop or the download
\* thread catches it, and the request stays stored, unanswered, the pending unload
\* unqueued.
GatherRaises(h) ==
  /\ At(h, "gather")
  /\ status' \in {status} \cup IF status = "none" THEN {"unloaded"} ELSE {}
  /\ raised' = raised \cup {msg[h]}
  /\ stranded' = (stranded \/ pendingUnload)
  /\ msg' = [msg EXCEPT ![h] = NoMessage]
  /\ Goto(h, IF h = Worker THEN "idle" ELSE "close")
  /\ UNCHANGED <<queueVars, cont, outcome, seen, flags, answered, kept, dropped,
                 unloads>>

EndsAs(h, o) == outcome' = [outcome EXCEPT ![h] = o]

\* What handle_request prepares after the load is outside the try that restores
\* the settings.  Within it the model is loaded anew when its path is not that of
\* the settings.
Prepare(h) ==
  /\ At(h, "prepare")
  /\ \/ EndsAs(h, "failed") /\ Goto(h, "settle") /\ UNCHANGED cont
     \/ Goto(h, "ensure") /\ UNCHANGED <<cont, outcome>>
     \/ Run(h, <<"unload", "load", "ensure">>) /\ UNCHANGED outcome
  /\ UNCHANGED <<queueVars, msg, seen, flags, status, history>>

\* A workflow is all that generation needs.  Without one the request fails, or asks
\* for a retry while its files are missing; with the files there the model is
\* loaded once more, for the next request.
Ensure(h) ==
  /\ At(h, "ensure")
  /\ \/ Goto(h, "generate") /\ UNCHANGED <<cont, outcome>>
     \/ EndsAs(h, "failed") /\ Goto(h, "restore") /\ UNCHANGED cont
     \/ /\ status # "loaded"
        /\ EndsAs(h, "retry") /\ Goto(h, "restore") /\ UNCHANGED cont
     \/ /\ status # "loaded"
        /\ EndsAs(h, "failed") /\ Run(h, <<"load", "restore">>)
  /\ UNCHANGED <<queueVars, msg, seen, flags, status, history>>

\* Generation ends with an end-of-message response, by itself or interrupted, or
\* raises.
Generate(h) ==
  /\ At(h, "generate")
  /\ \/ EndsAs(h, "ok") /\ answered' = answered \cup {msg[h]}
     \/ EndsAs(h, "failed") /\ UNCHANGED answered
  /\ Goto(h, "restore")
  /\ UNCHANGED <<queueVars, cont, msg, seen, flags, status, kept, raised, dropped,
                 unloads, stranded>>

\* The finally of handle_request.
Restore(h) ==
  /\ At(h, "restore")
  /\ Run(h, Overrides(h) \o <<"settle">>)
  /\ UNCHANGED <<queueVars, msg, outcome, seen, flags, status, history>>

\* Mutant: every error leaves the request pending.
PendingAfterError(h) ==
  IF outcome[h] \in {"retry", "failed"} THEN pendingRequest ELSE NoMessage

\* Only a request that waits for its download stays pending.
PendingAfter(h) == IF outcome[h] = "retry" THEN pendingRequest ELSE NoMessage

\* Mutant: a failed request gets no response.
AnsweredSilently(h) ==
  IF outcome[h] = "retry" THEN answered \cup {msg[h]} ELSE answered

\* What generation did not answer is answered at the end.
AnsweredAfter(h) ==
  IF outcome[h] = "ok" THEN answered ELSE answered \cup {msg[h]}

\* Mutant: the path of a failed request returns before the pending unload.
NextAfterError(h) == IF outcome[h] = "failed" THEN AfterHandling(h) ELSE "queue"

\* Every path ends with _queue_pending_unload_request.
NextAfter(h) == "queue"

Settle(h) ==
  /\ At(h, "settle")
  /\ pendingRequest' = PendingAfter(h)
  /\ answered' = AnsweredAfter(h)
  /\ kept' = IF outcome[h] = "retry" THEN kept \cup {msg[h]} ELSE kept \ {msg[h]}
  /\ msg' = [msg EXCEPT ![h] = NoMessage]
  /\ EndsAs(h, "none")
  /\ Goto(h, NextAfter(h))
  /\ UNCHANGED <<queueVars, cont, seen, interrupted, pendingUnload, downloading,
                 stamped, status, raised, dropped, unloads, stranded>>

Handle(h) ==
  \/ Check(h) \/ Keep(h) \/ Gather(h) \/ GatherRaises(h)
  \/ Prepare(h) \/ Ensure(h) \/ Generate(h) \/ Restore(h) \/ Settle(h)

-----------------------------------------------------------------------------
(* The download thread, around load and handle_message *)

DownloadOnly ==
  UNCHANGED <<queueVars, outcome, seen, interrupted, pendingUnload, stamped,
              status, history>>

\* The thread sets the flag once more.
BeginDownload(d) ==
  /\ At(d, "begin")
  /\ downloading' = TRUE
  /\ Goto(d, "fetch")
  /\ UNCHANGED <<cont, msg, pendingRequest>>
  /\ DownloadOnly

\* Failed or cancelled; or complete, then to be converted or loaded.
FetchEnds(d) ==
  /\ At(d, "fetch")
  /\ \/ Run(d, <<"close">>) /\ downloading' \in {downloading, FALSE}
     \/ Run(d, <<"load", "auto">>) /\ downloading' = FALSE
  /\ UNCHANGED <<msg, pendingRequest>>
  /\ DownloadOnly

\* Mutant: does not look whether a request is pending.
RetryAlways(d) ==
  /\ At(d, "auto")
  /\ \/ status = "loaded" /\ msg' = [msg EXCEPT ![d] = pendingRequest] /\ Goto(d, "check")
     \/ status # "loaded" /\ Goto(d, "close") /\ UNCHANGED msg
  /\ UNCHANGED <<cont, downloading, pendingRequest>>
  /\ DownloadOnly

\* _auto_load_downloaded_model, after the load.
RetryPending(d) ==
  /\ At(d, "auto")
  /\ \/ /\ status = "loaded" /\ pendingRequest # NoMessage
        /\ msg' = [msg EXCEPT ![d] = pendingRequest]
        /\ Goto(d, "check")
        /\ UNCHANGED pendingRequest
     \/ /\ status # "loaded" \/ pendingRequest = NoMessage
        /\ pendingRequest' = NoMessage
        /\ Goto(d, "close")
        /\ UNCHANGED msg
  /\ UNCHANGED <<cont, downloading>>
  /\ DownloadOnly

ForgetPending(d) ==
  /\ At(d, "forget")
  /\ pendingRequest' = NoMessage
  /\ Goto(d, "close")
  /\ UNCHANGED <<cont, msg, downloading>>
  /\ DownloadOnly

CloseDownload(d) ==
  /\ At(d, "close")
  /\ downloading' = FALSE
  /\ Goto(d, "done")
  /\ UNCHANGED <<cont, msg, pendingRequest>>
  /\ DownloadOnly

-----------------------------------------------------------------------------
\* What a thread does once it has begun.
Step(t) ==
  \/ Add(t) \/ QueuePendingUnload(t)
  \/ t \in Unloaders /\ (Clear(t) \/ Pend(t) \/ Look(t))
  \/ t \in Managing /\ Manage(t)
  \/ t \in Handlers /\ Handle(t)
  \/ /\ t \in Downloaders
     /\ \/ BeginDownload(t) \/ RetryPending(t)
        \/ ForgetPending(t) \/ CloseDownload(t)
  \/ t = Worker /\ (TakeNothing \/ TakeUnload \/ TakeRequest)
  \/ t \in Outsiders /\ ForgetActivity(t)

Next ==
  /\ \/ \E r \in Requests : Send(r)
     \/ \E u \in Unloaders : Interrupt(u)
     \/ \E o \in Outsiders : LoadRoute(o) \/ CheckInactivity(o)
     \/ \E d \in Downloaders : FetchEnds(d)
     \/ \E t \in Threads : Step(t)
  /\ UNCHANGED callers

\* Threads run, and a generation ends: it is bounded by its tokens.  Every program
\* here is finite, so fairness of all of them together is enough.  Nothing is
\* assumed of users, of downloads or of the timer's clock.
Fairness == WF_vars((\E t \in Threads : Step(t)) /\ UNCHANGED callers)

Spec == Init /\ [][Next]_vars /\ Fairness

-----------------------------------------------------------------------------
(* Properties *)

\* An unload that is pending, and not yet queued, has somebody who will queue it: its
\* caller, who has not looked yet, or a handler on its way out of handle_message
\* (llm_generate_worker.py:342).  There are two ways to lose it and no third: it is
\* left to a stored request that nobody is at work on, or the handler it was left to
\* raises before the try.
PendingUnloadHasOwner ==
  pendingUnload =>
    \/ stranded
    \/ \E u \in Unloaders : pc[u] \in {"look", "take"}
    \/ \E h \in Handlers : Handles(h) \/ At(h, "queue")

\* In the end an unload that was acknowledged was run from the queue, and the model was
\* unloaded by it or found so.  Otherwise the queued unload found another thread
\* loading, which it does not wait for, or raised; a slot collision lost the
\* message; or the unload is pending still, lost in one of the two ways above.
AcknowledgedUnloadRuns ==
  \A u \in Unloaders :
    <>[](At(u, "done") =>
           u \in ran \cup missed \/ overlapped \/ (pendingUnload /\ stranded))

\* In the end every request that was queued has got an end-of-message response,
\* unless an interrupt removed it, a slot collision lost it, or its handling raised
\* before the try (llm_generate_worker.py:485-498): every later error, in load,
\* preparation, generation or the restoring of the settings, is answered.
RequestsSettle ==
  \A r \in Requests :
    <>[](At(r, "done") => r \in answered \cup dropped \cup raised \/ overlapped)

\* "Your request is queued and will run automatically once the model download
\* completes" (llm_generate_worker.py:577): while the model is fetched, a request
\* that was told so is stored or being handled.
KeptRequestStays ==
  \A r \in kept : (\E d \in Downloaders : At(d, "fetch")) =>
                     pendingRequest = r \/ \E h \in Handlers : msg[h] = r
=============================================================================
