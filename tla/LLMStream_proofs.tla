-------------------------- MODULE LLMStream_proofs --------------------------
(***************************************************************************)
(* Proofs about LLMStream for any number of responses, in both modes.      *)
(*                                                                         *)
(* The properties speak of a closed stream; what makes them true happened  *)
(* before.  That the last line is final rests on the order of the threads' *)
(* steps: a final line is put before the event is set and nothing is put   *)
(* after it (SenderInv, TipInv); a reader that finds the event set after   *)
(* an empty queue has therefore passed the final line on (ReaderInv).      *)
(***************************************************************************)
EXTENDS LLMStream, SequenceTheorems, TLAPS

\* The generator has not begun to close.
Reading == reader \in {"new", "get", "look", "time", "yield", "expire"}

\* The line a reader that goes on gets last, as things stand.
Tip == IF queue = <<>> THEN last ELSE queue[Len(queue)]

\* The worker runs only for a request that was sent, and a stream whose event was
\* set by its sender has nobody left who would put another line.
SenderInv ==
  /\ kick # "done" => worker = "off"
  /\ mode = "stream" =>
       /\ worker = "set" => ~registered
       /\ Reading /\ done =>
            kick = "done" /\ (worker = "off" \/ (worker = "idle" /\ ~registered))

\* A final line was put before the event is set.
TipInv ==
  mode = "stream" /\ (kick = "fail" \/ worker \in {"forget", "set"} \/ (Reading /\ done))
    => Tip \in Final

\* What a reader knows at each place.
ReaderInv ==
  /\ queue \in Seq({"line", "end", "error"})
  /\ mode = "collect" => reader \in {"new", "closed"}
  /\ last = "timeout" => expired
  /\ reader = "expire" => last = "timeout"
  /\ mode = "stream" /\ reader = "look" /\ done => last \in Final \/ gap
  /\ reader \in {"cleanup", "judge", "closed"} /\ ~gone => last \in Final \/ gap
  /\ reader \in {"cleanup", "judge"} => done \/ gone
  /\ reader \in {"judge", "closed"} /\ mode = "stream" /\ registered => late

InterruptInv ==
  /\ Reading \/ reader = "dropped" => interrupts = 0
  /\ interrupts <= 1
  /\ interrupts = 1 => gone \/ expired
  /\ reader \in {"cleanup", "judge"} /\ interrupts = 1 => done
  /\ reader = "closed" /\ mode = "stream" /\ interrupts = 0 => done

SInv == TypeOK /\ SenderInv /\ TipInv /\ ReaderInv /\ InterruptInv

-----------------------------------------------------------------------------
(* The queue *)

LEMMA TipAfterPut ==
  ASSUME SInv, NEW line \in {"line", "end", "error"}, Put(line)
  PROVE  /\ Tip' = line
         /\ queue' \in Seq({"line", "end", "error"})
         /\ queue' \in Seq(Lines)
<1>1. queue \in Seq({"line", "end", "error"}) /\ queue \in Seq(Lines)
  BY DEF SInv, ReaderInv, TypeOK
<1>2. queue' # <<>> /\ queue'[Len(queue')] = line
  BY <1>1, AppendProperties DEF Put
<1>3. line \in Lines
  BY DEF Lines, Final
<1> QED BY <1>1, <1>2, <1>3 DEF Put, Tip

LEMMA TipAfterGet ==
  ASSUME SInv, queue # <<>>, last' = Head(queue), queue' = Tail(queue)
  PROVE  /\ Tip' = Tip
         /\ last' \in {"line", "end", "error"}
         /\ queue' \in Seq({"line", "end", "error"})
         /\ queue' \in Seq(Lines)
<1>1. queue \in Seq({"line", "end", "error"}) /\ queue \in Seq(Lines)
  BY DEF SInv, ReaderInv, TypeOK
<1>2. last' \in {"line", "end", "error"} /\ queue' \in Seq({"line", "end", "error"})
      /\ queue' \in Seq(Lines)
  BY <1>1, HeadTailProperties
<1>3. Tip' = Tip
  BY <1>1 DEF Tip
<1> QED BY <1>2, <1>3

-----------------------------------------------------------------------------
LEMMA InitSInv == Init => SInv
<1> SUFFICES ASSUME Init PROVE SInv
  OBVIOUS
<1>1. TypeOK
  <2>1. emitted \in 0..MaxEvents /\ interrupts \in 0..2
    BY MaxEventsAssumption DEF Init
  <2>2. queue \in Seq(Lines) /\ last \in Lines \cup {"none"}
    BY DEF Init
  <2>3. {registered, done, expired, gone, late, gap} \subseteq BOOLEAN
    BY DEF Init
  <2> QED BY <2>1, <2>2, <2>3 DEF Init, TypeOK
<1>2. SenderInv /\ TipInv /\ InterruptInv
  BY DEF Init, SenderInv, TipInv, InterruptInv, Reading
<1>3. ReaderInv
  BY ModesAssumption DEF Init, ReaderInv
<1> QED BY <1>1, <1>2, <1>3 DEF SInv

\* Steps that put no line and take none.
LEMMA TipUnchanged == UNCHANGED <<queue, last>> => Tip' = Tip
BY DEF Tip

-----------------------------------------------------------------------------
(* The thread that sends *)

LEMMA KickKeepsSInv == ASSUME SInv, Kick PROVE SInv'
<1> USE DEF SInv, TypeOK, SenderInv, TipInv, ReaderInv, InterruptInv, Reading, Lines, Final,
            KickOnly, answer, outside, mediator
<1>1. CASE PrepareRequest
  BY <1>1, TipUnchanged DEF PrepareRequest
<1>2. CASE RegisterPending
  BY <1>2, TipUnchanged DEF RegisterPending
<1>3. CASE SendRequest
  BY <1>3, TipUnchanged DEF SendRequest
<1>4. CASE ReportError
  BY <1>4, TipUnchanged, TipAfterPut DEF ReportError
<1>5. CASE FailRequest
  <2>1. TypeOK'
    BY <1>5, TipUnchanged DEF FailRequest, SetDone, Tip
  <2>2. SenderInv'
    BY <1>5, TipUnchanged DEF FailRequest, SetDone, Tip
  <2>3. TipInv'
    BY <1>5, TipUnchanged DEF FailRequest, SetDone, Tip
  <2>4. ReaderInv'
    BY <1>5, TipUnchanged DEF FailRequest, SetDone, Tip
  <2>5. InterruptInv'
    BY <1>5, TipUnchanged DEF FailRequest, SetDone, Tip
  <2> QED BY <2>1, <2>2, <2>3, <2>4, <2>5
<1> QED BY <1>1, <1>2, <1>3, <1>4, <1>5 DEF Kick

(* The worker's thread *)

LEMMA WorkerKeepsSInv == ASSUME SInv, EmitSignal \/ Deliver PROVE SInv'
<1> USE DEF SInv, TypeOK, SenderInv, TipInv, ReaderInv, InterruptInv, Reading, Lines, Final,
            WorkerOnly, answer, outside, mediator
<1>1. CASE EmitSignal
  BY <1>1, TipUnchanged, MaxEventsAssumption DEF EmitSignal
<1>2. CASE FetchCallback
  BY <1>2, TipUnchanged DEF FetchCallback
<1>3. CASE CallBack
  BY <1>3, TipUnchanged, TipAfterPut DEF CallBack
<1>4. CASE ForgetPending
  <2>1. TypeOK'
    BY <1>4, TipUnchanged DEF ForgetPending
  <2>2. SenderInv'
    BY <1>4, TipUnchanged DEF ForgetPending
  <2>3. TipInv'
    BY <1>4, TipUnchanged DEF ForgetPending
  <2>4. ReaderInv'
    BY <1>4, TipUnchanged DEF ForgetPending
  <2>5. InterruptInv'
    BY <1>4, TipUnchanged DEF ForgetPending
  <2> QED BY <2>1, <2>2, <2>3, <2>4, <2>5
<1>5. CASE EndResponse
  <2>1. TypeOK'
    BY <1>5, TipUnchanged DEF EndResponse, SetDone, Tip
  <2>2. SenderInv'
    BY <1>5, TipUnchanged DEF EndResponse, SetDone, Tip
  <2>3. TipInv'
    BY <1>5, TipUnchanged DEF EndResponse, SetDone, Tip
  <2>4. ReaderInv'
    BY <1>5, TipUnchanged DEF EndResponse, SetDone, Tip
  <2>5. InterruptInv'
    BY <1>5, TipUnchanged DEF EndResponse, SetDone, Tip
  <2> QED BY <2>1, <2>2, <2>3, <2>4, <2>5
<1> QED BY <1>1, <1>2, <1>3, <1>4, <1>5 DEF Deliver

(* The response *)

LEMMA ReadKeepsSInv == ASSUME SInv, Read PROVE SInv'
<1> USE DEF SInv, TypeOK, SenderInv, TipInv, ReaderInv, InterruptInv, Reading, Lines, Final,
            ReaderOnly, sender, outside
<1>1. CASE BeginResponse
  BY <1>1, TipUnchanged DEF BeginResponse
<1>2. CASE GetLine
  BY <1>2, TipUnchanged, TipAfterGet DEF GetLine, Tip
<1>3. CASE ResumeReader
  BY <1>3, TipUnchanged DEF ResumeReader
<1>4. CASE LookDone
  <2>1. TypeOK'
    BY <1>4, ModesAssumption, TipUnchanged DEF LookDone
  <2>2. SenderInv'
    BY <1>4, ModesAssumption, TipUnchanged DEF LookDone
  <2>3. TipInv'
    BY <1>4, ModesAssumption, TipUnchanged DEF LookDone
  <2>4. ReaderInv'
    BY <1>4, ModesAssumption, TipUnchanged DEF LookDone
  <2>5. InterruptInv'
    BY <1>4, ModesAssumption, TipUnchanged DEF LookDone
  <2> QED BY <2>1, <2>2, <2>3, <2>4, <2>5
<1>5. CASE LookAtTime
  BY <1>5, TipUnchanged DEF LookAtTime, Tip
<1>6. CASE Expire
  <2>1. TypeOK'
    <3>1. interrupts' \in 0..2 /\ reader' = "cleanup"
      BY <1>6 DEF Expire
    <3>2. {registered, done, expired, gone, late, gap}' \subseteq BOOLEAN
      BY <1>6 DEF Expire
    <3> QED BY <1>6, <3>1, <3>2 DEF Expire
  <2>2. SenderInv'
    BY <1>6, TipUnchanged DEF Expire
  <2>3. TipInv'
    BY <1>6, TipUnchanged DEF Expire
  <2>4. ReaderInv'
    BY <1>6, TipUnchanged DEF Expire
  <2>5. InterruptInv'
    BY <1>6, TipUnchanged DEF Expire
  <2> QED BY <2>1, <2>2, <2>3, <2>4, <2>5
<1>7. CASE CleanupStream
  <2>1. TypeOK'
    BY <1>7, TipUnchanged DEF CleanupStream
  <2>2. SenderInv'
    BY <1>7, TipUnchanged DEF CleanupStream
  <2>3. TipInv'
    BY <1>7, TipUnchanged DEF CleanupStream
  <2>4. ReaderInv'
    BY <1>7, TipUnchanged DEF CleanupStream
  <2>5. InterruptInv'
    BY <1>7, TipUnchanged DEF CleanupStream
  <2> QED BY <2>1, <2>2, <2>3, <2>4, <2>5
<1>8. CASE InterruptUnfinished
  BY <1>8, TipUnchanged DEF InterruptUnfinished
<1>9. CASE CollectAnswer
  BY <1>9, TipUnchanged DEF CollectAnswer
<1> QED BY <1>1, <1>2, <1>3, <1>4, <1>5, <1>6, <1>7, <1>8, <1>9 DEF Read

LEMMA OutsideKeepsSInv == ASSUME SInv, TimePasses \/ Disconnect \/ UNCHANGED vars PROVE SInv'
<1> USE DEF SInv, TypeOK, SenderInv, TipInv, ReaderInv, InterruptInv, Reading, Lines, Final,
            sender, mediator, answer, outside
<1>1. CASE TimePasses
  BY <1>1, TipUnchanged DEF TimePasses
<1>2. CASE Disconnect
  BY <1>2, TipUnchanged DEF Disconnect
<1>3. CASE UNCHANGED vars
  BY <1>3, TipUnchanged DEF vars
<1> QED BY <1>1, <1>2, <1>3

-----------------------------------------------------------------------------
(* The theorems *)

LEMMA SpecSInv == Spec => []SInv
<1>1. SInv /\ [Next]_vars => SInv'
  BY KickKeepsSInv, WorkerKeepsSInv, ReadKeepsSInv, OutsideKeepsSInv DEF Next
<1> QED BY <1>1, InitSInv, PTL DEF Spec

\* Every thread and the response stay in the states the code has.
THEOREM LLMStreamTypeOK == Spec => []TypeOK
<1>1. SInv => TypeOK
  BY DEF SInv
<1> QED BY <1>1, SpecSInv, PTL

\* A client that stays gets a final line last, unless the end fell between the
\* reader's look at the queue and its look at the event (legacy_llm_stream.py:
\* stream_lines; the callback puts the last line before it sets the event).
THEOREM EndsWithFinalLineTheorem == Spec => []EndsWithFinalLine
<1>1. SInv => EndsWithFinalLine
  BY DEF SInv, ReaderInv, EndsWithFinalLine
<1> QED BY <1>1, SpecSInv, PTL

\* Whoever ends a stream, nothing stays registered with the mediator that was
\* registered before the stream was cleaned up (stream_lines: the finally block).
THEOREM ClosedIsForgottenTheorem == Spec => []ClosedIsForgotten
<1>1. SInv => ClosedIsForgotten
  BY DEF SInv, ReaderInv, ClosedIsForgotten
<1> QED BY <1>1, SpecSInv, PTL

\* The time-out and the cleanup never interrupt the worker twice, and a stream that
\* is closed before its response ended has interrupted it (stream_lines).
THEOREM InterruptedOnceWhenEarlyTheorem == Spec => []InterruptedOnceWhenEarly
<1>1. SInv => InterruptedOnceWhenEarly
  BY DEF SInv, InterruptInv, InterruptedOnceWhenEarly
<1> QED BY <1>1, SpecSInv, PTL

=============================================================================
