------------------------------ MODULE LLMStream ------------------------------
(***************************************************************************)
(* One LLM request over HTTP: the thread that registers it with the signal *)
(* mediator and sends it, the worker whose responses the mediator passes   *)
(* to a callback, and the response the client reads, which ends, times out *)
(* or is abandoned.  A "stream" reads lines from a queue the callback      *)
(* fills; a "collect" waits for the last response.                         *)
(***************************************************************************)
EXTENDS Integers, Sequences

CONSTANTS
  Modes,      \* "stream", "collect"
  MaxEvents   \* bound: the responses the worker emits for the request

ASSUME ModesAssumption == Modes \subseteq {"stream", "collect"}
ASSUME MaxEventsAssumption == MaxEvents \in Nat

VARIABLES
  mode,
  kick,        \* the thread that sends the request
  worker,      \* where the worker stands in emit_signal
  event,       \* the kind of response it emits
  emitted,     \* how many it has begun to emit
  registered,  \* the request is in _pending_requests
  queue,       \* q, by kind of line
  done,        \* the done event
  reader,      \* the generator, or the thread that waits
  last,        \* the last thing the client got, keepalives aside
  expired,     \* the time limit has passed
  gone,        \* the client has left
  interrupts,  \* interrupts asked for
  late,        \* registered after the response was cleaned up
  gap          \* a final line was put and done set between a look and the next

mediator == <<registered, late>>
answer == <<reader, last, interrupts>>
outside == <<expired, gone>>
sender == <<kick, worker, event, emitted>>
vars == <<mode, sender, mediator, queue, done, answer, outside, gap>>

Final == {"end", "error", "timeout"}
Lines == {"line"} \cup Final

TypeOK ==
  /\ mode \in Modes
  /\ kick \in {"prepare", "register", "send", "report", "fail", "done"}
  /\ worker \in {"off", "idle", "fetch", "call", "forget", "set"}
  /\ event \in {"line", "silent", "end"}
  /\ emitted \in 0..MaxEvents
  /\ queue \in Seq(Lines)
  /\ reader \in {"new", "get", "look", "time", "yield", "expire", "cleanup",
                 "judge", "closed", "dropped"}
  /\ last \in Lines \cup {"none"}
  /\ interrupts \in 0..2
  /\ {registered, done, expired, gone, late, gap} \subseteq BOOLEAN

Init ==
  /\ mode \in Modes
  /\ kick = "prepare" /\ worker = "off" /\ event = "silent" /\ emitted = 0
  /\ registered = FALSE /\ late = FALSE
  /\ queue = <<>> /\ done = FALSE
  /\ reader = "new" /\ last = "none" /\ interrupts = 0
  /\ expired = FALSE /\ gone = FALSE /\ gap = FALSE

Put(line) == queue' = Append(queue, line)
\* The event is set; the reader may have found the queue empty before the last line.
SetDone ==
  /\ done' = TRUE
  /\ gap' = (gap \/ (reader = "look" /\ queue # <<>>))

-----------------------------------------------------------------------------
(* The thread that sends: kickoff, or the route itself for a collect *)

KickOnly == UNCHANGED <<mode, event, emitted, answer, outside>>

\* send_request up to its registration may raise.
PrepareRequest ==
  /\ kick = "prepare"
  /\ kick' \in {"register", "report"}
  /\ UNCHANGED <<worker, mediator, queue, done, gap>>
  /\ KickOnly

RegisterPending ==
  /\ kick = "register"
  /\ kick' = "send"
  /\ registered' = TRUE
  /\ late' = (late \/ reader \in {"judge", "closed"})
  /\ UNCHANGED <<worker, queue, done, gap>>
  /\ KickOnly

\* The mediator first hands the request to its own callback, which ignores it, then to
\* the worker, which queues it or raises; the mediator logs what a handler raises.
SendRequest ==
  /\ kick = "send"
  /\ kick' = "done"
  /\ worker' \in {"off", "idle"}
  /\ UNCHANGED <<mediator, queue, done, gap>>
  /\ KickOnly

\* Mutant: an error ends the stream without a line.
ReportSilently ==
  /\ kick = "report"
  /\ kick' = "fail"
  /\ UNCHANGED <<worker, mediator, queue, done, gap>>
  /\ KickOnly

ReportError ==
  /\ kick = "report"
  /\ kick' = "fail"
  /\ IF mode = "stream" THEN Put("error") ELSE UNCHANGED queue
  /\ UNCHANGED <<worker, mediator, done, gap>>
  /\ KickOnly

FailRequest ==
  /\ kick = "fail" /\ mode = "stream"
  /\ kick' = "done"
  /\ SetDone
  /\ UNCHANGED <<worker, mediator, queue>>
  /\ KickOnly

Kick == PrepareRequest \/ RegisterPending \/ SendRequest \/ ReportError \/ FailRequest

-----------------------------------------------------------------------------
(* The worker's thread in SignalMediator.emit_signal *)

WorkerOnly == UNCHANGED <<mode, kick, late, answer, outside>>

\* The worker emits one more response, of any kind, or never again.
EmitSignal ==
  /\ worker = "idle" /\ emitted < MaxEvents
  /\ emitted' = emitted + 1
  /\ event' \in {"line", "silent", "end"}
  /\ worker' = IF registered THEN "fetch" ELSE "idle"
  /\ UNCHANGED <<registered, queue, done, gap>>
  /\ WorkerOnly

\* The request may have been unregistered since the look without the lock.
FetchCallback ==
  /\ worker = "fetch"
  /\ worker' = IF registered THEN "call" ELSE "idle"
  /\ UNCHANGED <<event, emitted, registered, queue, done, gap>>
  /\ WorkerOnly

\* Mutant: puts the responses that are not shown.
CallBackUnfiltered ==
  /\ worker = "call"
  /\ IF mode = "stream" THEN Put(event) ELSE UNCHANGED queue
  /\ worker' = IF event # "end" THEN "idle"
               ELSE IF mode = "stream" THEN "forget" ELSE "set"
  /\ UNCHANGED <<event, emitted, registered, done, gap>>
  /\ WorkerOnly

\* handle_stream_event puts the line, unless the response is one that is not shown;
\* the callback of a collect keeps the text.
CallBack ==
  /\ worker = "call"
  /\ IF mode = "stream" /\ event # "silent" THEN Put(event) ELSE UNCHANGED queue
  /\ worker' = IF event # "end" THEN "idle"
               ELSE IF mode = "stream" THEN "forget" ELSE "set"
  /\ UNCHANGED <<event, emitted, registered, done, gap>>
  /\ WorkerOnly

ForgetPending ==
  /\ worker = "forget"
  /\ registered' = FALSE
  /\ worker' = "set"
  /\ UNCHANGED <<event, emitted, queue, done, gap>>
  /\ WorkerOnly

EndResponse ==
  /\ worker = "set"
  /\ SetDone
  /\ worker' = "idle"
  /\ UNCHANGED <<event, emitted, registered, queue>>
  /\ WorkerOnly

Deliver == FetchCallback \/ CallBack \/ ForgetPending \/ EndResponse

-----------------------------------------------------------------------------
(* stream_lines, and the wait of collect_non_stream_response *)

ReaderOnly == UNCHANGED <<mode, sender, late, outside, gap>>

\* The first line is asked for, unless the client has left: then the generator never
\* begins, and its finally does not run.
BeginResponse ==
  /\ reader = "new" /\ mode = "stream"
  /\ reader' = IF gone THEN "dropped" ELSE "get"
  /\ UNCHANGED <<registered, queue, done, last, interrupts>>
  /\ ReaderOnly

GetLine ==
  /\ reader = "get"
  /\ \/ /\ queue # <<>>
        /\ last' = Head(queue)
        /\ queue' = Tail(queue)
        /\ reader' = "yield"
     \/ queue = <<>> /\ reader' = "look" /\ UNCHANGED <<queue, last>>
  /\ UNCHANGED <<registered, done, interrupts>>
  /\ ReaderOnly

\* The client takes the line, or has left and the generator is closed there.
ResumeReader ==
  /\ reader = "yield"
  /\ reader' = IF gone THEN "cleanup" ELSE IF last = "timeout" THEN "expire" ELSE "get"
  /\ UNCHANGED <<registered, queue, done, last, interrupts>>
  /\ ReaderOnly

LookDone ==
  /\ reader = "look"
  /\ reader' = IF done THEN "cleanup" ELSE "time"
  /\ UNCHANGED <<registered, queue, done, last, interrupts>>
  /\ ReaderOnly

\* Mutant: an idle stream only sends keepalives.
KeepAlive ==
  /\ reader = "time"
  /\ reader' \in {"yield", "get"}
  /\ UNCHANGED <<registered, queue, done, last, interrupts>>
  /\ ReaderOnly

\* Out of time, or perhaps a keepalive.
LookAtTime ==
  /\ reader = "time"
  /\ \/ expired /\ last' = "timeout" /\ reader' = "yield"
     \/ ~expired /\ reader' \in {"yield", "get"} /\ UNCHANGED last
  /\ UNCHANGED <<registered, queue, done, interrupts>>
  /\ ReaderOnly

\* Mutant: interrupts without setting the event.
ExpireOpen ==
  /\ reader = "expire"
  /\ registered' = FALSE
  /\ interrupts' = interrupts + 1
  /\ reader' = "cleanup"
  /\ UNCHANGED <<done, queue, last>>
  /\ ReaderOnly

\* Sets the event, unregisters and interrupts.
Expire ==
  /\ reader = "expire"
  /\ done' = TRUE
  /\ registered' = FALSE
  /\ interrupts' = interrupts + 1
  /\ reader' = "cleanup"
  /\ UNCHANGED <<queue, last>>
  /\ ReaderOnly

\* Mutant: only an unfinished stream is unregistered.
CleanupUnfinished ==
  /\ reader = "cleanup"
  /\ registered' = (registered /\ done)
  /\ reader' = "judge"
  /\ UNCHANGED <<queue, done, last, interrupts>>
  /\ ReaderOnly

CleanupStream ==
  /\ reader = "cleanup"
  /\ registered' = FALSE
  /\ reader' = "judge"
  /\ UNCHANGED <<queue, done, last, interrupts>>
  /\ ReaderOnly

InterruptUnfinished ==
  /\ reader = "judge"
  /\ interrupts' = IF done THEN interrupts ELSE interrupts + 1
  /\ reader' = "closed"
  /\ UNCHANGED <<registered, queue, done, last>>
  /\ ReaderOnly

\* A collect ends with the answer, or with the error its own send raised, or after
\* its time; it never unregisters.
CollectAnswer ==
  /\ reader = "new" /\ mode = "collect"
  /\ \/ kick = "fail" /\ last' = "error"
     \/ kick = "done" /\ done /\ last' = "end"
     \/ kick = "done" /\ ~done /\ expired /\ last' = "timeout"
  /\ reader' = "closed"
  /\ UNCHANGED <<registered, queue, done, interrupts>>
  /\ ReaderOnly

Read ==
  \/ BeginResponse \/ GetLine \/ ResumeReader \/ LookDone \/ LookAtTime \/ Expire
  \/ CleanupStream \/ InterruptUnfinished \/ CollectAnswer

-----------------------------------------------------------------------------
\* The limit counts from the start of the stream: the callback renews a clock of its
\* own.
TimePasses ==
  /\ ~expired
  /\ expired' = TRUE
  /\ UNCHANGED <<mode, sender, mediator, queue, done, answer, gone, gap>>

Disconnect ==
  /\ ~gone
  /\ reader \notin {"closed", "dropped"} /\ mode = "stream"
  /\ gone' = TRUE
  /\ UNCHANGED <<mode, sender, mediator, queue, done, answer, expired, gap>>

Next == Kick \/ EmitSignal \/ Deliver \/ Read \/ TimePasses \/ Disconnect

\* The threads run and time passes; the worker may fall silent, and a client reads or
\* leaves.
Fairness ==
  WF_vars(Kick) /\ WF_vars(Deliver) /\ WF_vars(Read) /\ WF_vars(TimePasses)

Spec == Init /\ [][Next]_vars /\ Fairness

-----------------------------------------------------------------------------
(* Properties *)

\* A client that stays gets a final line as its last: the end of the response, an
\* error or the time-out; not so when the end came between the reader's look at the
\* queue and its look at the event (legacy_llm_stream.py:147, 152).
EndsWithFinalLine ==
  reader = "closed" /\ ~gone => last \in Final \/ gap

\* A closed stream leaves nothing registered with the mediator, whoever ended it,
\* unless it was registered after it was cleaned up (a stream that never began and a
\* collect leave what they registered).
ClosedIsForgotten ==
  reader = "closed" /\ mode = "stream" /\ registered => late

\* A stream that ends before its response interrupts the worker once; no other does.
InterruptedOnceWhenEarly ==
  /\ interrupts <= 1
  /\ interrupts = 1 => gone \/ expired
  /\ reader = "closed" /\ mode = "stream" /\ interrupts = 0 => done

\* Every response ends, though the worker drops the request, its preparation raises or
\* the client leaves.
ResponseEnds == <>(reader \in {"closed", "dropped"})
=============================================================================
