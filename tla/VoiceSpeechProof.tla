-------------------------- MODULE VoiceSpeechProof --------------------------
(***************************************************************************)
(* Proofs about VoiceSpeech, for every set of callers, number of           *)
(* utterances, queue limit and ring capacity.                              *)
(* First the types, the events and cancelling; then the places an accepted *)
(* utterance can be in: the order of the queue, who owns a stream, and     *)
(* that each utterance ends once; and last what the application hears:     *)
(* SPEAKING in order, success only of what was played to its end, and      *)
(* silence after close.  At the end the refinement of SpeechContract, and  *)
(* what holds as long as one thread calls the API.                         *)
(***************************************************************************)
EXTENDS VoiceSpeech, TLAPS

USE DEF NoUtt, Alive

-----------------------------------------------------------------------------
(* Streams.                                                                 *)

\* What the operators of PcmStream return is a stream again.
LEMMA WrittenStream ==
  ASSUME NEW s \in Stream, NEW n \in 1..RingCap, s.unread + n <= RingCap
  PROVE  Written(s, n) \in Stream
BY BoundsAssumption DEF Stream, Written

\* A new stream with its first samples, and finished.
LEMMA WrittenFresh ==
  ASSUME NEW n \in 1..RingCap
  PROVE  Written(Created, n) \in Stream /\ Finished(Written(Created, n)) \in Stream
<1>1. Created \in Stream /\ Created.unread + n <= RingCap
  BY BoundsAssumption DEF Stream, Created
<1>2. Written(Created, n) \in Stream
  BY <1>1, WrittenStream
<1> QED
  BY <1>2 DEF Stream, Finished

\* What the device takes out of a ring.
LEMMA ReadStream ==
  ASSUME NEW s \in Stream, NEW n \in 1..RingCap, CanRead(s, n)
  PROVE  Read(s, n) \in Stream
BY BoundsAssumption DEF Stream, CanRead, Read

\* The operators that only set flags.
LEMMA FlagStream ==
  ASSUME NEW s \in Stream
  PROVE  /\ Finished(s) \in Stream
         /\ Cancelled(s) \in Stream
         /\ Ended(s) \in Stream
         /\ FirstAudio(s) \in Stream
<1>1. Finished(s) \in Stream
  BY DEF Stream, Finished
<1>2. Cancelled(s) \in Stream
  BY DEF Stream, Cancelled
<1>3. Ended(s) \in Stream
  BY DEF Stream, Ended
<1>4. FirstAudio(s) \in Stream
  <2>1. (s.started \/ ~s.cancelled) \in BOOLEAN
    BY DEF Stream
  <2> QED
    BY <2>1 DEF Stream, FirstAudio
<1> QED
  BY <1>1, <1>2, <1>3, <1>4

-----------------------------------------------------------------------------
(* Types.                                                                   *)

\* The core as dio_voice_start leaves it is well typed.
LEMMA TypeInit == Init => TypeOK
<1> SUFFICES ASSUME Init PROVE TypeOK
  OBVIOUS
<1>1. Alive = {} /\ stream \in [Alive -> Stream]
  BY DEF Init
<1>2. next \in 1..(MaxUtt + 1) /\ cancelMark \in 0..MaxUtt
  BY BoundsAssumption DEF Init
<1>3. /\ cpc \in [Callers -> CallerPc] /\ drained \in [Callers -> Seq(Utt)]
      /\ terminals \in [Utt -> Nat] /\ result \in [Utt -> Outcomes \union {"none"}]
  BY DEF Init, CallerPc
<1>4. queue \in Seq(Utt) /\ closer \in SUBSET Callers /\ spoke \in SUBSET Utt
  BY DEF Init
<1> QED
  BY <1>1, <1>2, <1>3, <1>4 DEF Init, TypeOK, WorkerPc

\* speak and stream_start keep the types.
LEMMA TypeEnqueue ==
  ASSUME TypeOK, NEW c \in Callers, Speak(c) \/ StreamStart(c)
  PROVE  TypeOK'
<1>1. /\ next' \in 1..(MaxUtt + 1) /\ queue' \in Seq(Utt)
      /\ cpc' \in [Callers -> CallerPc] /\ idleEvent' \in BOOLEAN
  <2>1. Enqueue(c)
    BY DEF Speak, StreamStart
  <2>2. queue' \in Seq(Utt)
    BY <2>1 DEF TypeOK, Enqueue
  <2>3. next' \in 1..(MaxUtt + 1)
    BY <2>1, BoundsAssumption DEF Enqueue, Utt
  <2>4. cpc' \in [Callers -> CallerPc] /\ idleEvent' \in BOOLEAN
    BY <2>1 DEF TypeOK, Enqueue, CallerPc
  <2> QED
    BY <2>2, <2>3, <2>4
<1>2. /\ pcm' \in Utt \union {NoUtt} /\ pcmActive' \in BOOLEAN
      /\ streamed' \in SUBSET Utt
  BY DEF TypeOK, Speak, StreamStart, Enqueue
<1>3. Alive' \in SUBSET Utt /\ stream' \in [Alive' -> Stream]
  <2>1. CASE Speak(c)
    BY <2>1 DEF TypeOK, Speak
  <2>2. CASE StreamStart(c)
    <3>1. PICK n \in 1..RingCap : stream' = Alloc(next, Written(Created, n))
      BY <2>2 DEF StreamStart
    <3>2. Written(Created, n) \in Stream
      BY <3>1, WrittenFresh
    <3> QED
      BY <2>2, <3>1, <3>2 DEF TypeOK, StreamStart, Enqueue, Alloc, Alive
  <2> QED
    BY <2>1, <2>2
<1> QED
  BY <1>1, <1>2, <1>3 DEF TypeOK, Speak, StreamStart, Enqueue, worker

\* So do the calls that accept nothing.
LEMMA TypeOtherCalls ==
  ASSUME TypeOK, NEW c \in Callers,
         \/ StreamWrite(c) \/ StreamFinish(c) \/ Cancel(c) \/ Close(c)
  PROVE  TypeOK'
<1> USE DEF shared, events, heap, worker, callers, told
<1>1. ASSUME StreamWrite(c) PROVE TypeOK'
  <2>1. PICK n \in 1..RingCap : /\ CanWrite(stream[pcm], n)
                                /\ stream' = [stream EXCEPT ![pcm] = Written(@, n)]
    BY <1>1 DEF StreamWrite
  <2>2. pcm \in Alive => Written(stream[pcm], n) \in Stream
    BY <2>1, WrittenStream DEF TypeOK, CanWrite
  <2>3. Alive' \in SUBSET Utt /\ stream' \in [Alive' -> Stream]
    BY <2>1, <2>2 DEF TypeOK
  <2> QED
    BY <1>1, <2>3 DEF TypeOK, StreamWrite
<1>2. ASSUME StreamFinish(c) PROVE TypeOK'
  <2>1. Alive' \in SUBSET Utt /\ stream' \in [Alive' -> Stream]
    BY <1>2, FlagStream DEF TypeOK, StreamFinish
  <2> QED
    BY <1>2, <2>1 DEF TypeOK, StreamFinish
<1>3. ASSUME CancelBegin(c), closer' \in SUBSET Callers PROVE TypeOK'
  <2>1. cancelMark' \in 0..MaxUtt
    BY <1>3, BoundsAssumption DEF TypeOK, CancelBegin
  <2> QED
    BY <1>3, <2>1 DEF TypeOK, CancelBegin, CallerPc
<1> QED
  BY <1>1, <1>2, <1>3 DEF Cancel, Close, TypeOK

\* A SPEECH_COMPLETE is counted and its outcome kept.
LEMMA EmitType ==
  ASSUME TypeOK, NEW u, NEW o \in Outcomes \union {"none"}, EmitComplete(u, o)
  PROVE  terminals' \in [Utt -> Nat] /\ result' \in [Utt -> Outcomes \union {"none"}]
<1>1. CASE closing
  BY <1>1 DEF EmitComplete, TypeOK
<1>2. CASE ~closing
  <2>1. terminals' \in [Utt -> Nat]
    BY <1>2 DEF EmitComplete, TypeOK
  <2>2. result' \in [Utt -> Outcomes \union {"none"}]
    BY <1>2 DEF EmitComplete, TypeOK
  <2> QED
    BY <2>1, <2>2
<1> QED
  BY <1>1, <1>2

\* So do the steps inside cancel and close.
LEMMA TypeContinue ==
  ASSUME TypeOK, NEW c \in Callers, Continue(c)
  PROVE  TypeOK'
<1> USE DEF shared, events, heap, worker, callers, told
<1>1. CASE SignalSpeech(c)
  BY <1>1 DEF TypeOK, SignalSpeech, CallerPc
<1>2. CASE CancelTake(c)
  <2>1. Alive' \in SUBSET Utt /\ stream' \in [Alive' -> Stream]
    <3>1. pcm \in Alive => Cancelled(stream[pcm]) \in Stream
      BY FlagStream DEF TypeOK
    <3> QED
      BY <1>2, <3>1 DEF TypeOK, CancelTake
  <2>2. queue' \in Seq(Utt) /\ drained' \in [Callers -> Seq(Utt)]
    BY <1>2 DEF TypeOK, CancelTake
  <2>3. pcm' \in Utt \union {NoUtt} /\ idleEvent' \in BOOLEAN
        /\ cpc' \in [Callers -> CallerPc]
    BY <1>2 DEF TypeOK, CancelTake, CallerPc
  <2> QED
    BY <1>2, <2>1, <2>2, <2>3 DEF TypeOK, CancelTake
<1>3. CASE CancelAgain(c)
  BY <1>3 DEF TypeOK, CancelAgain, CallerPc
<1>4. CASE CancelReport(c)
  <2>1. Alive' \in SUBSET Utt /\ stream' \in [Alive' -> Stream]
    BY <1>4 DEF TypeOK, CancelReport, Free, Restrict, Alive
  <2>2. drained' \in [Callers -> Seq(Utt)]
    BY <1>4 DEF TypeOK, CancelReport
  <2>3. /\ terminals' \in [Utt -> Nat]
        /\ result' \in [Utt -> Outcomes \union {"none"}]
    BY <1>4, EmitType DEF CancelReport, Outcomes
  <2>4. UNCHANGED <<shared, events, closing, streamed, dev, worker, cpc, closer,
                    next, spoke, cancelMark>>
    BY <1>4 DEF CancelReport
  <2> QED
    BY <2>1, <2>2, <2>3, <2>4 DEF TypeOK
<1>5. CASE CancelReturn(c)
  BY <1>5 DEF TypeOK, CancelReturn, CallerPc
<1>6. CASE CloseIdle(c)
  BY <1>6 DEF TypeOK, CloseIdle, CallerPc
<1>7. CASE CloseStop(c)
  BY <1>7 DEF TypeOK, CloseStop, CallerPc
<1>8. CASE CloseJoin(c)
  <2>1. Alive' \in SUBSET Utt /\ stream' \in [Alive' -> Stream]
    BY <1>8 DEF TypeOK, CloseJoin, Free, Restrict, Alive
  <2>2. queue' \in Seq(Utt) /\ cpc' \in [Callers -> CallerPc]
    BY <1>8 DEF TypeOK, CloseJoin, CallerPc
  <2>3. UNCHANGED <<pcm, pcmActive, active, events, closing, streamed, dev, worker,
                    drained, closer, told>>
    BY <1>8 DEF CloseJoin
  <2> QED
    BY <2>1, <2>2, <2>3 DEF TypeOK
<1> QED
  BY <1>1, <1>2, <1>3, <1>4, <1>5, <1>6, <1>7, <1>8 DEF Continue

\* The points at which the worker has an utterance.
Holding == {"synthesize", "open", "playing", "speaking", "cleanup", "settle",
            "report", "release"}
WorkerHolds == wpc \in Holding => cur \in Utt

\* The worker's steps: its own variables ...
LEMMA TypeWorkerLocals ==
  ASSUME TypeOK, Worker
  PROVE  /\ wpc' \in WorkerPc /\ cur' \in Utt \union {NoUtt}
         /\ outcome' \in Outcomes \union {"none"}
         /\ reported' \in BOOLEAN /\ queueEmpty' \in BOOLEAN
<1> USE DEF worker, TypeOK
<1>1. CASE WorkerExit \/ WorkerWake \/ PopNothing
  BY <1>1 DEF WorkerExit, WorkerWake, PopNothing, WorkerPc
<1>2. CASE Pop
  BY <1>2 DEF Pop, WorkerPc
<1>3. CASE Synthesize
  BY <1>3 DEF Synthesize, WorkerPc, Outcomes
<1>4. CASE PlayOpen
  BY <1>4 DEF PlayOpen, WorkerPc, Outcomes
<1>5. CASE PlayStarted
  BY <1>5 DEF PlayStarted, WorkerPc, Outcomes
<1>6. CASE PlayEnded
  BY <1>6 DEF PlayEnded, WorkerPc, Outcomes
<1>7. CASE EmitSpeaking
  BY <1>7 DEF EmitSpeaking, WorkerPc
<1>8. CASE PlayCleanup
  BY <1>8 DEF PlayCleanup, WorkerPc, Outcomes
<1>9. CASE Settle \/ Report
  BY <1>9 DEF Settle, Report, WorkerPc
<1>10. CASE Release \/ SignalIdle
  BY <1>10 DEF Release, SignalIdle, WorkerPc
<1> QED
  BY <1>1, <1>2, <1>3, <1>4, <1>5, <1>6, <1>7, <1>8, <1>9, <1>10 DEF Worker

\* ... the streams ...
LEMMA TypeWorkerHeap ==
  ASSUME TypeOK, WorkerHolds, Worker
  PROVE  Alive' \in SUBSET Utt /\ stream' \in [Alive' -> Stream]
<1>1. CASE UNCHANGED stream
  BY <1>1 DEF TypeOK
<1>2. CASE \E us : stream' = Free(us)
  BY <1>2 DEF TypeOK, Free, Restrict, Alive
<1>3. CASE Synthesize
  <2>1. CASE \E n \in 1..RingCap :
               stream' = Alloc(cur, Finished(Written(Created, n)))
    <3>1. cur \in Utt
      BY <1>3 DEF WorkerHolds, Holding, Synthesize
    <3> QED
      BY <2>1, <3>1, WrittenFresh DEF TypeOK, Alloc, Alive
  <2> QED
    BY <1>1, <1>3, <2>1 DEF Synthesize
<1> QED
  BY <1>1, <1>2, <1>3 DEF Worker, heap, WorkerExit, WorkerWake, Pop, PopNothing,
     PlayOpen, PlayStarted, PlayEnded, EmitSpeaking, PlayCleanup, Settle,
     Report, Release, SignalIdle

\* ... and together.
LEMMA TypeWorker ==
  ASSUME TypeOK, WorkerHolds, Worker
  PROVE  TypeOK'
<1> USE TypeWorkerLocals, TypeWorkerHeap
        DEF shared, events, heap, worker, callers, told, TypeOK
<1>1. CASE WorkerExit \/ WorkerWake
  BY <1>1 DEF WorkerExit, WorkerWake
<1>2. CASE Pop
  <2>1. queue' \in Seq(Utt)
    BY <1>2 DEF Pop
  <2>2. pcmActive' \in BOOLEAN
    BY <1>2 DEF Pop
  <2> QED
    BY <1>2, <2>1, <2>2 DEF Pop
<1>3. CASE PopNothing
  BY <1>3 DEF PopNothing
<1>4. CASE Synthesize
  BY <1>4 DEF Synthesize
<1>5. CASE PlayOpen
  BY <1>5 DEF PlayOpen
<1>6. CASE PlayStarted \/ PlayEnded
  BY <1>6 DEF PlayStarted, PlayEnded
<1>7. CASE EmitSpeaking
  <2>1. spoke' \in SUBSET Utt
    BY <1>7 DEF EmitSpeaking, WorkerHolds, Holding
  <2> QED
    BY <1>7, <2>1 DEF EmitSpeaking
<1>8. CASE PlayCleanup
  BY <1>8 DEF PlayCleanup
<1>9. CASE Settle
  BY <1>9 DEF Settle
<1>10. CASE Report
  <2>1. /\ terminals' \in [Utt -> Nat]
        /\ result' \in [Utt -> Outcomes \union {"none"}]
    BY <1>10, EmitType DEF Report
  <2> QED
    BY <1>10, <2>1 DEF Report
<1>11. CASE Release
  <2>1. UNCHANGED <<shared, events, closing, streamed, dev, callers, told>>
    BY <1>11 DEF Release
  <2> QED
    BY <2>1
<1>12. CASE SignalIdle
  BY <1>12 DEF SignalIdle
<1> QED
  BY <1>1, <1>2, <1>3, <1>4, <1>5, <1>6, <1>7, <1>8, <1>9, <1>10, <1>11, <1>12
     DEF Worker

\* The worker has an utterance exactly while its place says so.
LEMMA HoldsStep ==
  ASSUME TypeOK, WorkerHolds, Next
  PROVE  WorkerHolds'
<1>1. CASE Worker
  <2>1. CASE Pop
    BY <1>1, <2>1 DEF Pop, TypeOK, WorkerHolds
  <2>2. CASE Release
    BY <1>1, <2>2 DEF Release, WorkerHolds, Holding
  <2> QED
    BY <1>1, <2>1, <2>2 DEF WorkerHolds, Holding, Worker, WorkerExit, WorkerWake,
       PopNothing, Synthesize, PlayOpen, PlayStarted, PlayEnded, EmitSpeaking,
       PlayCleanup, Settle, Report, SignalIdle
<1>2. CASE UNCHANGED worker
  BY <1>2 DEF WorkerHolds, worker
<1> QED
  BY <1>1, <1>2 DEF Next, Call, Continue, Device, Speak, StreamStart, Enqueue,
     StreamWrite, StreamFinish, Cancel, Close, CancelBegin, SignalSpeech,
     CancelTake, CancelAgain, CancelReport, CancelReturn, CloseIdle, CloseStop,
     CloseJoin, DeviceEnd, DeviceRead, DeviceStarted

\* The device's callback runs only while the worker is inside the playback.
LEMMA TypeDevice ==
  ASSUME TypeOK, Device
  PROVE  TypeOK'
<1>1. Alive' \in SUBSET Utt /\ stream' \in [Alive' -> Stream]
  <2>1. CASE DeviceEnd
    BY <2>1, FlagStream DEF TypeOK, DeviceEnd
  <2>2. CASE DeviceRead
    <3>1. PICK n \in 1..RingCap :
            /\ CanRead(stream[cur], n)
            /\ stream' = [stream EXCEPT ![cur] = Read(@, n)]
      BY <2>2 DEF DeviceRead
    <3>2. cur \in Alive => Read(stream[cur], n) \in Stream
      BY <3>1, ReadStream DEF TypeOK
    <3> QED
      BY <3>1, <3>2 DEF TypeOK
  <2>3. CASE DeviceStarted
    BY <2>3, FlagStream DEF TypeOK, DeviceStarted
  <2> QED
    BY <2>1, <2>2, <2>3 DEF Device
<1> QED
  BY <1>1 DEF TypeOK, Device, DeviceEnd, DeviceRead, DeviceStarted, shared,
     events, worker, callers, told

\* Every variable keeps its type.
THEOREM TypeCorrect == Spec => [](TypeOK /\ WorkerHolds)
<1>1. TypeOK /\ WorkerHolds /\ [Next]_vars => TypeOK' /\ WorkerHolds'
  <2> SUFFICES ASSUME TypeOK, WorkerHolds, [Next]_vars
               PROVE  TypeOK' /\ WorkerHolds'
    OBVIOUS
  <2>1. CASE Next
    BY <2>1, TypeEnqueue, TypeOtherCalls, TypeContinue, TypeWorker, TypeDevice,
       HoldsStep DEF Next, Call
  <2>2. CASE UNCHANGED vars
    BY <2>2 DEF TypeOK, WorkerHolds, vars, shared, events, heap, worker,
       callers, told
  <2> QED
    BY <2>1, <2>2
<1>2. Init => WorkerHolds
  BY DEF Init, WorkerHolds, Holding
<1> QED
  BY <1>1, <1>2, TypeInit, PTL DEF Spec

-----------------------------------------------------------------------------
(* What speech_idle_event says, and why close can rely on it.               *)

\* The worker between taking an utterance and the critical section after it.
Busy == {"synthesize", "open", "playing", "speaking", "cleanup", "settle"}

IdleInv ==
  /\ idleEvent => queue = <<>> /\ ~active
  /\ closing => queue = <<>> /\ ~active /\ closer # {}
  /\ wpc \in Busy => active
  /\ dev # "off" => wpc \in {"playing", "speaking", "cleanup"}
  /\ \A c \in Callers : cpc[c] = "closing" => closer # {}
  /\ \A c \in Callers : cpc[c] \in {"stop", "join", "closed"} => closing

\* No call sets speech_idle_event while something is accepted.
LEMMA IdleCalls ==
  ASSUME TypeOK, IdleInv, NEW c \in Callers, Call(c)
  PROVE  IdleInv'
<1> USE DEF shared, events, heap, worker, callers, told
<1>1. ASSUME Enqueue(c) PROVE IdleInv'
  <2>1. ~closing /\ ~idleEvent'
    BY <1>1 DEF IdleInv, Enqueue, CanCall
  <2> QED
    BY <1>1, <2>1 DEF IdleInv, Enqueue, TypeOK
<1>2. ASSUME CancelBegin(c), closer' = closer \/ closer' = {c} PROVE IdleInv'
  BY <1>2 DEF IdleInv, CancelBegin, CanCall, TypeOK
<1>3. CASE StreamWrite(c) \/ StreamFinish(c)
  BY <1>3 DEF IdleInv, StreamWrite, StreamFinish
<1> QED
  BY <1>1, <1>2, <1>3 DEF Call, Speak, StreamStart, Cancel, Close

\* cancel sets it only with the queue emptied and speech_active unset.
LEMMA IdleContinue ==
  ASSUME TypeOK, IdleInv, NEW c \in Callers, Continue(c)
  PROVE  IdleInv'
<1> USE DEF shared, events, heap, worker, callers, told
<1>1. CASE SignalSpeech(c)
  BY <1>1 DEF IdleInv, SignalSpeech, TypeOK
<1>2. CASE CancelTake(c)
  BY <1>2 DEF IdleInv, CancelTake, TypeOK
<1>3. CASE CancelAgain(c)
  BY <1>3 DEF IdleInv, CancelAgain, TypeOK
<1>4. CASE CancelReport(c)
  BY <1>4 DEF IdleInv, CancelReport
<1>5. CASE CancelReturn(c)
  BY <1>5 DEF IdleInv, CancelReturn, TypeOK
<1>6. CASE CloseIdle(c)
  BY <1>6 DEF IdleInv, CloseIdle, TypeOK
<1>7. CASE CloseStop(c)
  BY <1>7 DEF IdleInv, CloseStop, TypeOK
<1>8. CASE CloseJoin(c)
  BY <1>8 DEF IdleInv, CloseJoin, TypeOK
<1> QED
  BY <1>1, <1>2, <1>3, <1>4, <1>5, <1>6, <1>7, <1>8 DEF Continue

\* The worker sets it only when the queue is empty and it plays nothing.
LEMMA IdleWorker ==
  ASSUME TypeOK, IdleInv, Worker
  PROVE  IdleInv'
<1> USE DEF shared, events, heap, worker, callers, told, IdleInv, Busy
<1>1. CASE WorkerExit \/ WorkerWake
  BY <1>1 DEF WorkerExit, WorkerWake
<1>2. CASE Pop
  BY <1>2 DEF Pop
<1>3. CASE PopNothing
  BY <1>3 DEF PopNothing
<1>4. CASE Synthesize
  BY <1>4 DEF Synthesize
<1>5. CASE PlayOpen
  BY <1>5 DEF PlayOpen
<1>6. CASE PlayStarted \/ PlayEnded
  BY <1>6 DEF PlayStarted, PlayEnded
<1>7. CASE EmitSpeaking
  BY <1>7 DEF EmitSpeaking
<1>8. CASE PlayCleanup
  BY <1>8 DEF PlayCleanup
<1>9. CASE Settle
  BY <1>9 DEF Settle, TypeOK
<1>10. CASE Report
  BY <1>10 DEF Report
<1>11. CASE Release
  BY <1>11 DEF Release
<1>12. CASE SignalIdle
  BY <1>12 DEF SignalIdle
<1> QED
  BY <1>1, <1>2, <1>3, <1>4, <1>5, <1>6, <1>7, <1>8, <1>9, <1>10, <1>11, <1>12
     DEF Worker

\* What makes speech_idle_event trustworthy: speech_active is set whenever the
\* worker plays, and closing is set only after the event, with the queue empty.
THEOREM IdleInvariant == Spec => []IdleInv
<1>1. Init => IdleInv
  BY DEF Init, IdleInv, Busy
<1>2. TypeOK /\ IdleInv /\ [Next]_vars => IdleInv'
  <2> SUFFICES ASSUME TypeOK, IdleInv, [Next]_vars PROVE IdleInv'
    OBVIOUS
  <2>1. CASE Device
    BY <2>1 DEF Device, DeviceEnd, DeviceRead, DeviceStarted, IdleInv, shared,
       events, worker, callers, Busy
  <2>2. CASE UNCHANGED vars
    BY <2>2 DEF vars, shared, events, heap, worker, callers, IdleInv, Busy
  <2> QED
    BY <2>1, <2>2, IdleCalls, IdleContinue, IdleWorker DEF Next
<1> QED
  BY <1>1, <1>2, TypeCorrect, PTL DEF Spec

\* When speech_idle_event is set, no utterance is queued or being played.
THEOREM IdleEventIsSound == Spec => []IdleEventSound
<1>1. TypeOK /\ IdleInv => IdleEventSound
  BY DEF TypeOK, IdleInv, IdleEventSound, WorkerPc, Busy
<1> QED
  BY <1>1, TypeCorrect, IdleInvariant, PTL

\* close never sets closing while an utterance is synthesized or played.
THEOREM ClosingIsQuiet == Spec => []QuietWhileClosing
<1>1. IdleInv => QuietWhileClosing
  BY DEF IdleInv, QuietWhileClosing, Busy
<1> QED
  BY <1>1, IdleInvariant, PTL

-----------------------------------------------------------------------------
(* cancel against a worker that pops while it runs.                         *)

CancelInv ==
  /\ cancelMark < next
  /\ \A i \in 1..Len(queue) :
       queue[i] <= cancelMark => \E c \in Callers : cpc[c] = "take"
  /\ cur # NoUtt /\ cur <= cancelMark =>
       cancelEvent \/ \E c \in Callers : cpc[c] \in {"take", "recancel"}

\* No action but cancel's own steps takes a caller out of "take" or "recancel".
LEMMA CancelFrame ==
  ASSUME TypeOK, CancelInv, UNCHANGED <<cur, cancelMark, cancelEvent>>,
         next' \in {next, next + 1}, queue' = queue,
         \A c \in Callers : cpc[c] \in {"take", "recancel"} => cpc'[c] = cpc[c]
  PROVE  CancelInv'
<1>1. cancelMark' < next'
  BY DEF CancelInv, TypeOK
<1> QED
  BY <1>1 DEF CancelInv

\* A new utterance is later than every cancel; a cancel starts at "take".
LEMMA CancelCalls ==
  ASSUME TypeOK, CancelInv, NEW c \in Callers, Call(c)
  PROVE  CancelInv'
<1> USE DEF shared, events, heap, worker, callers, told
<1>1. ASSUME Enqueue(c) PROVE CancelInv'
  <2>1. /\ queue \in Seq(Utt) /\ next \in Utt /\ queue' = Append(queue, next)
        /\ next' = next + 1 /\ UNCHANGED <<cur, cancelMark, cancelEvent>>
    BY <1>1 DEF Enqueue, TypeOK
  <2>2. \A d \in Callers : cpc[d] \in {"take", "recancel"} => cpc'[d] = cpc[d]
    BY <1>1 DEF Enqueue, CanCall, TypeOK
  <2>3. cancelMark < next /\ cancelMark \in Nat /\ next \in Nat
    BY <2>1 DEF CancelInv, TypeOK, Utt
  <2>4. ASSUME NEW i \in 1..Len(queue'), queue'[i] <= cancelMark'
        PROVE  \E d \in Callers : cpc'[d] = "take"
    <3>1. i \in 1..Len(queue) /\ queue'[i] = queue[i]
      BY <2>1, <2>3, <2>4
    <3> QED
      BY <3>1, <2>1, <2>2, <2>4 DEF CancelInv
  <2> QED
    BY <2>1, <2>2, <2>3, <2>4 DEF CancelInv
<1>2. ASSUME CancelBegin(c) PROVE CancelInv'
  <2>1. cpc'[c] = "take" /\ next' = next /\ cancelMark' = next - 1
    BY <1>2 DEF CancelBegin, TypeOK
  <2>2. cancelMark' < next'
    BY <2>1 DEF TypeOK
  <2> QED
    BY <2>1, <2>2 DEF CancelInv
<1>3. CASE StreamWrite(c) \/ StreamFinish(c)
  BY <1>3, CancelFrame DEF StreamWrite, StreamFinish
<1> QED
  BY <1>1, <1>2, <1>3 DEF Call, Speak, StreamStart, Cancel, Close

\* cancel's steps empty the queue and then set the event again.
LEMMA CancelContinue ==
  ASSUME TypeOK, CancelInv, NEW c \in Callers, Continue(c)
  PROVE  CancelInv'
<1> USE DEF shared, events, heap, worker, callers, told
<1>1. CASE SignalSpeech(c)
  BY <1>1, CancelFrame DEF SignalSpeech, TypeOK
<1>2. CASE CancelTake(c)
  <2>1. /\ queue' = <<>> /\ cpc'[c] = "recancel"
        /\ UNCHANGED <<next, cancelMark, cur>>
    BY <1>2 DEF CancelTake, TypeOK
  <2> QED
    BY <2>1 DEF CancelInv
<1>3. CASE CancelAgain(c)
  <2>1. /\ cancelEvent' /\ UNCHANGED <<queue, next, cancelMark, cur>>
        /\ \A d \in Callers : cpc[d] = "take" => cpc'[d] = "take"
    BY <1>3 DEF CancelAgain, TypeOK
  <2> QED
    BY <2>1 DEF CancelInv
<1>4. CASE CancelReport(c)
  BY <1>4, CancelFrame DEF CancelReport
<1>5. CASE CancelReturn(c)
  BY <1>5, CancelFrame DEF CancelReturn, TypeOK
<1>6. CASE CloseIdle(c)
  BY <1>6, CancelFrame DEF CloseIdle, TypeOK
<1>7. CASE CloseStop(c)
  <2>1. /\ cancelEvent' /\ UNCHANGED <<queue, next, cancelMark, cur>>
        /\ \A d \in Callers : cpc[d] = "take" => cpc'[d] = "take"
    BY <1>7 DEF CloseStop, TypeOK
  <2> QED
    BY <2>1 DEF CancelInv
<1>8. CASE CloseJoin(c)
  <2>1. /\ queue' = <<>> /\ UNCHANGED <<next, cancelMark, cur, cancelEvent>>
        /\ \A d \in Callers : cpc[d] \in {"take", "recancel"} => cpc'[d] = cpc[d]
    BY <1>8 DEF CloseJoin, TypeOK
  <2> QED
    BY <2>1 DEF CancelInv
<1> QED
  BY <1>1, <1>2, <1>3, <1>4, <1>5, <1>6, <1>7, <1>8 DEF Continue

\* The worker resets the event only when it pops, while cancel is still at
\* "take" or will set the event again.
LEMMA CancelWorker ==
  ASSUME TypeOK, CancelInv, Worker
  PROVE  CancelInv'
<1> USE DEF shared, events, heap, worker, callers, told
<1>1. CASE Pop
  <2>1. /\ queue \in Seq(Utt) /\ queue # <<>> /\ queue' = Tail(queue)
        /\ cur' = queue[1] /\ UNCHANGED <<next, cancelMark, cpc>>
    BY <1>1 DEF Pop, TypeOK
  <2>2. Len(queue') = Len(queue) - 1
        /\ \A i \in 1..Len(queue') : queue'[i] = queue[i + 1] /\ i + 1 \in 1..Len(queue)
    BY <2>1
  <2>3. 1 \in 1..Len(queue)
    BY <2>1
  <2> QED
    BY <2>1, <2>2, <2>3 DEF CancelInv
<1>2. CASE Release
  BY <1>2 DEF Release, CancelInv
<1>3. CASE Worker /\ ~Pop /\ ~Release
  BY <1>3, CancelFrame DEF Worker, WorkerExit, WorkerWake, PopNothing, Synthesize,
     PlayOpen, PlayStarted, PlayEnded, EmitSpeaking, PlayCleanup, Settle,
     Report, SignalIdle
<1> QED
  BY <1>1, <1>2, <1>3

\* Why a cancel cannot be lost: what it must end is still queued only until it
\* has taken the queue, and is in the worker only with the event set or about to
\* be set once more.
THEOREM CancelInvariant == Spec => []CancelInv
<1>1. Init => CancelInv
  BY DEF Init, CancelInv
<1>2. TypeOK /\ CancelInv /\ [Next]_vars => CancelInv'
  <2> SUFFICES ASSUME TypeOK, CancelInv, [Next]_vars PROVE CancelInv'
    OBVIOUS
  <2>1. CASE Device \/ UNCHANGED vars
    BY <2>1, CancelFrame DEF Device, DeviceEnd, DeviceRead, DeviceStarted, vars,
       shared, events, heap, worker, callers, told
  <2> QED
    BY <2>1, CancelCalls, CancelContinue, CancelWorker DEF Next
<1> QED
  BY <1>1, <1>2, TypeCorrect, PTL DEF Spec

\* Once no cancel is in progress, what was accepted before the latest one is out
\* of the queue, and the worker sees the cancel event if it has such an utterance.
THEOREM CancelIsNotLost == Spec => []CancelNotLost
<1>1. TypeOK /\ CancelInv => CancelNotLost
  <2> SUFFICES ASSUME TypeOK, CancelInv,
                      \A c \in Callers : cpc[c] \notin {"take", "recancel"}
               PROVE  /\ \A u \in Range(queue) : u > cancelMark
                      /\ cur # NoUtt /\ cur <= cancelMark => cancelEvent
    BY DEF CancelNotLost
  <2>1. \A i \in 1..Len(queue) : queue[i] \in Utt
    BY DEF TypeOK
  <2>2. \A i \in 1..Len(queue) : queue[i] \in Nat /\ cancelMark \in Nat
    BY <2>1 DEF TypeOK, Utt
  <2>3. queue \in Seq(Utt)
    BY DEF TypeOK
  <2> QED
    BY <2>2, <2>3 DEF CancelInv, Range
<1> QED
  BY <1>1, TypeCorrect, CancelInvariant, PTL

HIDE DEF Alive

-----------------------------------------------------------------------------
(* Sequences of utterances in the order of acceptance.                      *)

Ascending(s) == \A i, j \in 1..Len(s) : i < j => s[i] < s[j]

\* Appending a later utterance.
LEMMA AppendAscending ==
  ASSUME NEW s \in Seq(Utt), Ascending(s), NEW e \in Utt,
         \A u \in Range(s) : u < e
  PROVE  Ascending(Append(s, e)) /\ Range(Append(s, e)) = Range(s) \union {e}
<1> DEFINE t == Append(s, e)
<1>1. /\ t \in Seq(Utt) /\ Len(t) = Len(s) + 1 /\ t[Len(s) + 1] = e
      /\ \A i \in 1..Len(s) : t[i] = s[i]
  OBVIOUS
<1>2. Range(t) = Range(s) \union {e}
  <2>1. /\ Range(t) = {t[i] : i \in 1..(Len(s) + 1)}
        /\ Range(s) = {s[i] : i \in 1..Len(s)}
    BY <1>1 DEF Range
  <2>2. 1..(Len(s) + 1) = 1..Len(s) \union {Len(s) + 1}
    OBVIOUS
  <2> HIDE DEF t
  <2> QED
    BY <1>1, <2>1, <2>2
<1>3. \A i \in 1..Len(s) : s[i] < e
  BY DEF Range
<1>4. Ascending(t)
  <2> SUFFICES ASSUME NEW i \in 1..Len(t), NEW j \in 1..Len(t), i < j
               PROVE  t[i] < t[j]
    BY DEF Ascending
  <2>1. CASE j = Len(s) + 1
    BY <1>1, <1>3, <2>1
  <2>2. CASE j # Len(s) + 1
    BY <1>1, <2>2 DEF Ascending
  <2> QED
    BY <2>1, <2>2
<1> QED
  BY <1>2, <1>4

\* Taking the first utterance off.
LEMMA TailAscending ==
  ASSUME NEW s \in Seq(Utt), s # <<>>, Ascending(s)
  PROVE  /\ Ascending(Tail(s))
         /\ Range(Tail(s)) = Range(s) \ {Head(s)}
         /\ Head(s) \in Range(s)
         /\ \A u \in Range(Tail(s)) : Head(s) < u
<1> DEFINE t == Tail(s)
<1>1. /\ t \in Seq(Utt) /\ Len(t) = Len(s) - 1 /\ Len(s) \in Nat \ {0}
      /\ \A i \in 1..Len(t) : t[i] = s[i + 1]
      /\ Head(s) = s[1] /\ 1 \in 1..Len(s)
  OBVIOUS
<1> HIDE DEF t
<1>2. /\ Range(t) = {t[i] : i \in 1..Len(t)}
      /\ Range(s) = {s[i] : i \in 1..Len(s)}
  BY <1>1 DEF Range
<1>3. \A i \in 1..Len(s) : s[i] \in Nat
  <2>1. \A i \in 1..Len(s) : s[i] \in Utt
    OBVIOUS
  <2> QED
    BY <2>1 DEF Utt
<1>4. Ascending(t)
  BY <1>1 DEF Ascending
<1>5. \A i \in 1..Len(t) : i + 1 \in 1..Len(s) /\ s[1] < s[i + 1]
  BY <1>1 DEF Ascending
<1>6. \A u \in Range(t) : u \in Range(s) /\ Head(s) < u
  BY <1>1, <1>2, <1>5
<1>7. \A u \in Range(s) : u = Head(s) \/ u \in Range(t)
  <2> SUFFICES ASSUME NEW i \in 1..Len(s) PROVE s[i] = s[1] \/ s[i] \in Range(t)
    BY <1>1, <1>2
  <2>1. CASE i = 1
    BY <2>1
  <2>2. CASE i # 1
    <3>1. i - 1 \in 1..Len(t) /\ t[i - 1] = s[i]
      BY <1>1, <2>2
    <3> QED
      BY <1>2, <3>1
  <2> QED
    BY <2>1, <2>2
<1>8. Head(s) \in Range(s) /\ Head(s) \in Nat
  BY <1>1, <1>2, <1>3
<1>9. \A u \in Range(t) : u # Head(s)
  BY <1>6, <1>8, <1>2, <1>5, <1>1, <1>3
<1> QED
  BY <1>4, <1>6, <1>7, <1>8, <1>9 DEF t

-----------------------------------------------------------------------------
(* The places of an utterance.                                              *)

OrderInv ==
  /\ Ascending(queue)
  /\ cur < next
  /\ \A u \in Range(queue) : cur < u /\ u < next
  /\ wpc \notin Holding => cur = NoUtt
  /\ \A c \in Callers :
       /\ Ascending(drained[c])
       /\ cpc[c] \notin {"recancel", "report"} => drained[c] = <<>>
       /\ \A u \in Range(drained[c]) :
            /\ u < next /\ u # cur /\ u \notin Range(queue)
            /\ \A d \in Callers : u \in Range(drained[d]) => d = c

\* The numbers of utterances, unfolded from the types.
LEMMA QueueTypes ==
  ASSUME TypeOK
  PROVE  /\ queue \in Seq(Utt) /\ Range(queue) \subseteq Utt
         /\ \A c \in Callers : drained[c] \in Seq(Utt) /\ Range(drained[c]) \subseteq Utt
         /\ next \in Nat /\ cur \in Nat /\ next > 0
         /\ \A u \in Utt : u \in Nat /\ 0 < u
<1>1. queue \in Seq(Utt) /\ \A c \in Callers : drained[c] \in Seq(Utt)
  BY DEF TypeOK
<1>2. \A s \in Seq(Utt) : Range(s) \subseteq Utt
  BY DEF Range
<1>3. \A u \in Utt : u \in Nat /\ 0 < u
  BY DEF Utt
<1>4. next \in Nat /\ cur \in Nat /\ next > 0
  BY <1>3, BoundsAssumption DEF TypeOK
<1> QED
  BY <1>1, <1>2, <1>3, <1>4

\* The empty queue.
LEMMA RangeEmpty == Range(<<>>) = {} /\ Ascending(<<>>)
BY DEF Range, Ascending

\* A step that moves no utterance.
LEMMA OrderFrame ==
  ASSUME OrderInv, UNCHANGED <<queue, cur, next, drained>>,
         wpc' \notin Holding => wpc \notin Holding,
         \A c \in Callers : cpc'[c] \notin {"recancel", "report"} =>
                              cpc[c] \notin {"recancel", "report"} \/ drained[c] = <<>>
  PROVE  OrderInv'
BY DEF OrderInv

\* The calls append the latest number.
LEMMA OrderCalls ==
  ASSUME TypeOK, OrderInv, NEW c \in Callers, Call(c)
  PROVE  OrderInv'
<1> USE DEF shared, events, heap, worker, callers, told
<1>1. ASSUME Enqueue(c) PROVE OrderInv'
  <2>1. /\ next \in Utt /\ queue' = Append(queue, next) /\ next' = next + 1
        /\ UNCHANGED <<cur, wpc, drained>>
        /\ \A d \in Callers : cpc'[d] \notin {"recancel", "report"} =>
                                cpc[d] \notin {"recancel", "report"}
    BY <1>1 DEF Enqueue, CanCall, TypeOK
  <2>2. Ascending(queue') /\ Range(queue') = Range(queue) \union {next}
    BY <2>1, AppendAscending, QueueTypes DEF OrderInv
  <2>3. \A u \in Nat : u < next => u < next' /\ u # next
    BY <2>1, QueueTypes
  <2>4. /\ cur < next' /\ next < next'
        /\ \A u \in Range(queue') : cur' < u /\ u < next'
    BY <2>1, <2>2, <2>3, QueueTypes DEF OrderInv
  <2>5. \A d \in Callers : \A u \in Range(drained[d]) : u < next' /\ u # next
    BY <2>3, QueueTypes DEF OrderInv
  <2> QED
    BY <2>1, <2>2, <2>4, <2>5 DEF OrderInv
<1>2. ASSUME CancelBegin(c) PROVE OrderInv'
  <2>1. \A d \in Callers : cpc'[d] \notin {"recancel", "report"} =>
                             cpc[d] \notin {"recancel", "report"}
    BY <1>2 DEF CancelBegin, CanCall, TypeOK
  <2> QED
    BY <1>2, <2>1, OrderFrame DEF CancelBegin
<1>3. CASE StreamWrite(c) \/ StreamFinish(c)
  BY <1>3, OrderFrame DEF StreamWrite, StreamFinish
<1> QED
  BY <1>1, <1>2, <1>3 DEF Call, Speak, StreamStart, Cancel, Close

\* cancel moves the whole queue into the caller's list.
LEMMA OrderContinue ==
  ASSUME TypeOK, OrderInv, NEW c \in Callers, Continue(c)
  PROVE  OrderInv'
<1> USE DEF shared, events, heap, worker, callers, told
<1>1. CASE SignalSpeech(c)
  BY <1>1, OrderFrame DEF SignalSpeech, TypeOK
<1>2. CASE CancelTake(c)
  <2>1. /\ queue' = <<>> /\ drained' = [drained EXCEPT ![c] = queue]
        /\ cpc' = [cpc EXCEPT ![c] = "recancel"] /\ UNCHANGED <<cur, wpc, next>>
        /\ drained[c] = <<>> /\ cpc'[c] = "recancel" /\ drained'[c] = queue
    BY <1>2 DEF CancelTake, OrderInv, TypeOK
  <2>2. \A d \in Callers : d # c => cpc'[d] = cpc[d] /\ drained'[d] = drained[d]
    BY <2>1 DEF TypeOK
  <2>3. \A u \in Range(queue) : u # cur /\ \A d \in Callers : u \notin Range(drained[d])
    BY QueueTypes DEF OrderInv, Utt
  <2> QED
    BY <2>1, <2>2, <2>3, RangeEmpty DEF OrderInv
<1>3. CASE CancelAgain(c)
  BY <1>3, OrderFrame DEF CancelAgain, TypeOK
<1>4. CASE CancelReport(c)
  <2>1. /\ drained' = [drained EXCEPT ![c] = Tail(@)] /\ drained[c] # <<>>
        /\ UNCHANGED <<queue, cur, wpc, next, cpc>>
        /\ drained'[c] = Tail(drained[c])
    BY <1>4 DEF CancelReport, TypeOK
  <2>2. \A d \in Callers : d # c => drained'[d] = drained[d]
    BY <2>1 DEF TypeOK
  <2>3. /\ Ascending(drained'[c]) /\ Range(drained'[c]) \subseteq Range(drained[c])
        /\ cpc[c] \in {"recancel", "report"}
    BY <2>1, TailAscending, QueueTypes DEF OrderInv
  <2> QED
    BY <2>1, <2>2, <2>3 DEF OrderInv
<1>5. CASE CancelReturn(c)
  BY <1>5, OrderFrame DEF CancelReturn, TypeOK
<1>6. CASE CloseIdle(c)
  BY <1>6, OrderFrame DEF CloseIdle, TypeOK
<1>7. CASE CloseStop(c)
  BY <1>7, OrderFrame DEF CloseStop, TypeOK
<1>8. CASE CloseJoin(c)
  <2>1. /\ queue' = <<>> /\ UNCHANGED <<cur, wpc, next, drained>>
        /\ \A d \in Callers : cpc'[d] \notin {"recancel", "report"} =>
                                cpc[d] \notin {"recancel", "report"}
    BY <1>8 DEF CloseJoin, TypeOK
  <2> QED
    BY <2>1, RangeEmpty DEF OrderInv
<1> QED
  BY <1>1, <1>2, <1>3, <1>4, <1>5, <1>6, <1>7, <1>8 DEF Continue

\* The worker takes the oldest utterance and forgets it after its end.
LEMMA OrderWorker ==
  ASSUME TypeOK, OrderInv, Worker
  PROVE  OrderInv'
<1> USE DEF shared, events, heap, worker, callers, told
<1>1. CASE Pop
  <2>1. /\ queue # <<>> /\ queue' = Tail(queue) /\ cur' = Head(queue)
        /\ UNCHANGED <<next, cpc, drained>> /\ wpc' \in Holding
    BY <1>1 DEF Pop, Holding
  <2>2. /\ Ascending(queue') /\ Range(queue') \subseteq Range(queue)
        /\ cur' \in Range(queue) /\ \A u \in Range(queue') : cur' < u
    BY <2>1, TailAscending, QueueTypes DEF OrderInv
  <2> QED
    BY <2>1, <2>2 DEF OrderInv
<1>2. CASE Release
  <2>1. cur' = NoUtt /\ UNCHANGED <<queue, next, cpc, drained>>
    BY <1>2 DEF Release
  <2>2. \A u \in Range(queue) : 0 < u
    BY QueueTypes
  <2>3. \A d \in Callers : \A u \in Range(drained[d]) : u # 0
    <3>1. 0 \notin Utt
      BY DEF Utt
    <3> QED
      BY <3>1, QueueTypes
  <2>4. 0 < next
    BY QueueTypes
  <2> QED
    BY <2>1, <2>2, <2>3, <2>4 DEF OrderInv
<1>3. CASE Worker /\ ~Pop /\ ~Release
  BY <1>3, OrderFrame DEF Worker, WorkerExit, WorkerWake, PopNothing, Synthesize,
     PlayOpen, PlayStarted, PlayEnded, EmitSpeaking, PlayCleanup, Settle,
     Report, SignalIdle, Holding
<1> QED
  BY <1>1, <1>2, <1>3

\* Queue, worker and drained lists hold disjoint utterances in the order of
\* acceptance.
THEOREM OrderInvariant == Spec => []OrderInv
<1>1. Init => OrderInv
  <2>1. Init => queue = <<>> /\ \A c \in Callers : drained[c] = <<>>
    BY DEF Init
  <2>2. Init => cur = NoUtt /\ cur < next
    BY DEF Init
  <2> QED
    BY <2>1, <2>2, RangeEmpty DEF OrderInv
<1>2. TypeOK /\ OrderInv /\ [Next]_vars => OrderInv'
  <2> SUFFICES ASSUME TypeOK, OrderInv, [Next]_vars PROVE OrderInv'
    OBVIOUS
  <2>1. CASE Device \/ UNCHANGED vars
    BY <2>1, OrderFrame DEF Device, DeviceEnd, DeviceRead, DeviceStarted, vars,
       shared, events, heap, worker, callers, told
  <2> QED
    BY <2>1, OrderCalls, OrderContinue, OrderWorker DEF Next
<1> QED
  BY <1>1, <1>2, TypeCorrect, PTL DEF Spec

\* The queue is served in the order of acceptance.
THEOREM QueueIsFifo == Spec => []FifoQueue
<1>1. OrderInv => FifoQueue
  BY DEF OrderInv, FifoQueue, Ascending
<1> QED
  BY <1>1, OrderInvariant, PTL

-----------------------------------------------------------------------------
(* Streams: who frees them.                                                 *)

OwnerInv ==
  /\ pcmActive => pcm # NoUtt /\ pcm = cur /\ wpc \in Busy
  /\ pcm # NoUtt => pcm \in streamed /\ pcm \in Alive
  /\ pcm # NoUtt /\ ~pcmActive => pcm \in Range(queue)
  /\ \A u \in Range(queue) : u \in streamed => pcm = u
  /\ cur \in streamed /\ wpc \in Busy => pcmActive
  /\ wpc \in {"open", "playing", "speaking"} => cur \in Alive
  /\ dev # "off" => cur \in Alive
  /\ \A u \in streamed : u < next

\* A step that leaves the queue, the worker and pcm_stream alone and frees
\* nothing they refer to.
LEMMA OwnerFrame ==
  ASSUME OwnerInv, UNCHANGED <<queue, pcm, pcmActive, wpc, cur, streamed, next>>,
         dev' # "off" => dev # "off",
         pcm \in Alive => pcm \in Alive',
         cur \in Alive => cur \in Alive'
  PROVE  OwnerInv'
BY DEF OwnerInv, Busy

\* Only stream_start installs a stream, and only when none is installed.
LEMMA OwnerCalls ==
  ASSUME TypeOK, OrderInv, OwnerInv, NEW c \in Callers, Call(c)
  PROVE  OwnerInv'
<1> USE DEF shared, events, heap, worker, callers, told
<1>1. ASSUME Enqueue(c)
      PROVE  /\ queue \in Seq(Utt) /\ Range(queue') = Range(queue) \union {next}
             /\ next' = next + 1 /\ next \in Utt /\ \A u \in Nat : u < next => u < next'
             /\ cur < next /\ UNCHANGED <<cur, wpc, dev>>
  BY <1>1, AppendAscending, QueueTypes DEF Enqueue, OrderInv
<1>2. CASE Speak(c)
  <2>1. Enqueue(c) /\ UNCHANGED <<pcm, pcmActive, streamed, stream>>
    BY <1>2 DEF Speak
  <2>2. next \notin streamed
    BY <1>1, <2>1, QueueTypes DEF OwnerInv
  <2>3. \A u \in streamed' : u < next'
    BY <1>1, <2>1, QueueTypes DEF OwnerInv, TypeOK
  <2> QED
    BY <1>1, <2>1, <2>2, <2>3 DEF OwnerInv, Busy, Alive
<1>3. CASE StreamStart(c)
  <2>1. /\ Enqueue(c) /\ pcm = NoUtt /\ pcm' = next /\ ~pcmActive'
        /\ streamed' = streamed \union {next}
        /\ Alive' = Alive \union {next}
    BY <1>3 DEF StreamStart, Alloc, Alive
  <2>2. next # NoUtt /\ cur # next /\ ~pcmActive
    BY <1>1, <2>1, QueueTypes DEF OwnerInv
  <2>3. \A u \in streamed' : u < next'
    BY <1>1, <2>1, QueueTypes DEF OwnerInv, TypeOK
  <2>4. \A u \in Range(queue) : u \notin streamed /\ u # next
    BY <2>1, QueueTypes DEF OwnerInv, OrderInv
  <2>5. cur \in streamed' => wpc \notin Busy
    BY <2>1, <2>2 DEF OwnerInv
  <2> QED
    BY <1>1, <2>1, <2>2, <2>3, <2>4, <2>5 DEF OwnerInv
<1>4. CASE StreamWrite(c) \/ StreamFinish(c)
  <2>1. Alive' = Alive
    BY <1>4 DEF StreamWrite, StreamFinish, Alive, TypeOK
  <2> QED
    BY <1>4, <2>1, OwnerFrame DEF StreamWrite, StreamFinish
<1>5. CASE Cancel(c) \/ Close(c)
  BY <1>5, OwnerFrame DEF Cancel, Close, CancelBegin, Alive
<1> QED
  BY <1>2, <1>3, <1>4, <1>5 DEF Call

\* cancel forgets the stream unless the worker owns it, and frees it only then.
LEMMA OwnerContinue ==
  ASSUME TypeOK, IdleInv, OrderInv, OwnerInv, NEW c \in Callers, Continue(c)
  PROVE  OwnerInv'
<1> USE DEF shared, events, heap, worker, callers, told
<1>1. CASE CancelTake(c)
  <2>1. /\ queue' = <<>> /\ pcm' = (IF pcmActive THEN pcm ELSE NoUtt)
        /\ UNCHANGED <<pcmActive, wpc, cur, streamed, next, dev>>
        /\ Alive' = Alive
    BY <1>1 DEF CancelTake, Alive, TypeOK
  <2> QED
    BY <2>1, RangeEmpty DEF OwnerInv, TypeOK
<1>2. CASE CancelReport(c)
  <2>1. /\ UNCHANGED <<queue, pcm, pcmActive, wpc, cur, streamed, next, dev>>
        /\ Alive' = Alive \ {Head(drained[c])} /\ drained[c] # <<>>
    BY <1>2 DEF CancelReport, Free, Restrict, Alive
  <2>2. Head(drained[c]) \in Range(drained[c])
    BY <2>1, TailAscending, QueueTypes DEF OrderInv
  <2>3. Head(drained[c]) # cur /\ Head(drained[c]) \notin Range(queue)
    BY <2>2 DEF OrderInv
  <2>4. Head(drained[c]) # pcm
    <3>1. Head(drained[c]) \in Utt
      BY <2>2, QueueTypes
    <3>2. Head(drained[c]) # NoUtt
      BY <3>1, QueueTypes
    <3>3. pcm = NoUtt \/ pcm = cur \/ pcm \in Range(queue)
      BY DEF OwnerInv, TypeOK
    <3> QED
      BY <2>3, <3>2, <3>3
  <2> QED
    BY <2>1, <2>3, <2>4, OwnerFrame
<1>3. CASE CloseJoin(c)
  <2>1. queue = <<>>
    BY <1>3 DEF CloseJoin, IdleInv
  <2>2. /\ UNCHANGED <<queue, pcm, pcmActive, wpc, cur, streamed, next, dev>>
        /\ Alive' = Alive
    BY <1>3, <2>1, RangeEmpty DEF CloseJoin, Free, Restrict, Alive
  <2> QED
    BY <2>2, OwnerFrame
<1>4. CASE SignalSpeech(c) \/ CancelAgain(c) \/ CancelReturn(c) \/ CloseIdle(c)
           \/ CloseStop(c)
  BY <1>4, OwnerFrame DEF SignalSpeech, CancelAgain, CancelReturn, CloseIdle,
     CloseStop, Alive
<1> QED
  BY <1>1, <1>2, <1>3, <1>4 DEF Continue

\* The worker becomes the owner when it pops and lets go before it frees.
LEMMA OwnerWorker ==
  ASSUME TypeOK, IdleInv, OrderInv, OwnerInv, Worker
  PROVE  OwnerInv'
<1> USE DEF shared, events, heap, worker, callers, told
<1>1. CASE Pop
  <2> DEFINE h == Head(queue)
  <2>1. /\ queue # <<>> /\ queue' = Tail(queue) /\ cur' = h
        /\ pcmActive' = (pcmActive \/ h \in streamed)
        /\ wpc' = (IF h \in streamed THEN "open" ELSE "synthesize")
        /\ UNCHANGED <<pcm, streamed, next, dev, stream>> /\ wpc = "pop"
    BY <1>1 DEF Pop
  <2>2. /\ h \in Range(queue) /\ Range(queue') = Range(queue) \ {h} /\ h \in Utt
    BY <2>1, TailAscending, QueueTypes DEF OrderInv
  <2>3. ~pcmActive /\ dev = "off"
    BY <2>1 DEF OwnerInv, IdleInv, Busy
  <2>4. h # NoUtt
    BY <2>2, QueueTypes
  <2> HIDE DEF h
  <2>5. CASE h \in streamed
    BY <2>1, <2>2, <2>3, <2>4, <2>5 DEF OwnerInv, Busy, Alive
  <2>6. CASE h \notin streamed
    BY <2>1, <2>2, <2>3, <2>4, <2>6 DEF OwnerInv, Busy, Alive
  <2> QED
    BY <2>5, <2>6
<1>2. CASE Synthesize
  <2>1. Alive' = Alive \/ Alive' = Alive \union {cur}
    BY <1>2 DEF Synthesize, Alloc, Alive
  <2>2. wpc' = "open" => cur \in Alive'
    BY <1>2 DEF Synthesize, Alloc, Alive
  <2>3. wpc = "synthesize" /\ wpc' \in {"settle", "open"}
        /\ UNCHANGED <<queue, pcm, pcmActive, cur, streamed, next, dev>>
    BY <1>2 DEF Synthesize
  <2> QED
    BY <2>1, <2>2, <2>3 DEF OwnerInv, Busy
<1>3. CASE PlayOpen \/ PlayStarted \/ PlayEnded \/ EmitSpeaking
  <2>1. /\ UNCHANGED <<queue, pcm, pcmActive, cur, streamed, next, stream>>
        /\ wpc \in {"open", "playing", "speaking"}
        /\ wpc' \in {"playing", "speaking", "cleanup"}
    BY <1>3 DEF PlayOpen, PlayStarted, PlayEnded, EmitSpeaking
  <2> QED
    BY <2>1 DEF OwnerInv, Busy, Alive
<1>4. CASE PlayCleanup
  <2>1. /\ UNCHANGED <<queue, pcm, pcmActive, cur, streamed, next>>
        /\ wpc = "cleanup" /\ wpc' = "settle" /\ dev' = "off"
        /\ Alive' = (IF cur \in streamed THEN Alive ELSE Alive \ {cur})
    BY <1>4 DEF PlayCleanup, Free, Restrict, Alive
  <2> QED
    BY <2>1 DEF OwnerInv, Busy
<1>5. CASE Settle
  <2>1. /\ UNCHANGED <<queue, cur, streamed, next, stream, dev>>
        /\ wpc = "settle" /\ wpc' = "report"
        /\ IF pcm = cur THEN pcm' = NoUtt /\ ~pcmActive'
           ELSE UNCHANGED <<pcm, pcmActive>>
    BY <1>5 DEF Settle
  <2>2. cur \notin Range(queue)
    BY QueueTypes DEF OrderInv
  <2>3. pcm = cur => \A u \in Range(queue) : u \notin streamed
    BY <2>2 DEF OwnerInv
  <2> QED
    BY <2>1, <2>2, <2>3 DEF OwnerInv, Busy, Alive
<1>6. CASE Release
  <2>1. /\ UNCHANGED <<queue, pcm, pcmActive, streamed, next, dev>>
        /\ Alive' = Alive \ {cur} /\ cur' = NoUtt /\ wpc = "release"
        /\ wpc' \in {"idle", "exited", "pop"}
    BY <1>6 DEF Release, Free, Restrict, Alive
  <2>2. dev = "off" /\ ~pcmActive
    BY <2>1 DEF IdleInv, OwnerInv, Busy
  <2>3. cur \notin Range(queue)
    BY QueueTypes DEF OrderInv
  <2> QED
    BY <2>1, <2>2, <2>3 DEF OwnerInv, Busy
<1>7. CASE WorkerExit \/ WorkerWake \/ PopNothing \/ Report \/ SignalIdle
  <2>1. /\ UNCHANGED <<queue, pcm, pcmActive, streamed, next, dev, stream, cur>>
        /\ wpc \notin Busy /\ wpc' \notin Busy
    BY <1>7 DEF WorkerExit, WorkerWake, PopNothing, Report, SignalIdle, Busy
  <2> QED
    BY <2>1 DEF OwnerInv, Busy, Alive
<1> QED
  BY <1>1, <1>2, <1>3, <1>4, <1>5, <1>6, <1>7 DEF Worker

\* Who frees a stream: the worker when pcm_stream_active is set, cancel when
\* not, and never both.
THEOREM OwnerInvariant == Spec => []OwnerInv
<1>1. Init => OwnerInv
  BY RangeEmpty DEF Init, OwnerInv, Busy
<1>2. TypeOK /\ IdleInv /\ OrderInv /\ OwnerInv /\ [Next]_vars => OwnerInv'
  <2> SUFFICES ASSUME TypeOK, IdleInv, OrderInv, OwnerInv, [Next]_vars
               PROVE  OwnerInv'
    OBVIOUS
  <2>1. CASE Device
    <3>1. UNCHANGED <<queue, pcm, pcmActive, wpc, cur, streamed, next>>
          /\ Alive' = Alive /\ dev # "off"
      BY <2>1 DEF Device, DeviceEnd, DeviceRead, DeviceStarted, shared, worker,
         told, Alive, TypeOK
    <3> QED
      BY <3>1, OwnerFrame
  <2>2. CASE UNCHANGED vars
    BY <2>2, OwnerFrame DEF vars, shared, heap, worker, told, Alive
  <2> QED
    BY <2>1, <2>2, OwnerCalls, OwnerContinue, OwnerWorker DEF Next
<1> QED
  BY <1>1, <1>2, TypeCorrect, IdleInvariant, OrderInvariant, PTL DEF Spec

\* pcm_stream never names a destroyed stream, and the device's callback never
\* runs on one.
THEOREM StreamsOutliveUse == Spec => []StreamLifetime
<1>1. OwnerInv => StreamLifetime
  BY DEF OwnerInv, StreamLifetime
<1> QED
  BY <1>1, OwnerInvariant, PTL

\* pcm_stream_active tells cancel which thread frees the stream.
THEOREM StreamHasOneOwner == Spec => []StreamOwner
<1>1. OwnerInv => StreamOwner
  BY DEF OwnerInv, StreamOwner, InQueue
<1> QED
  BY <1>1, OwnerInvariant, PTL

\* A stream is freed by the thread that owns it, and not while another may still
\* be at it: both facts follow from who owns what.
THEOREM StreamsAreSafe == Spec => []StreamSafe
BY StreamsOutliveUse, StreamHasOneOwner, PTL DEF StreamSafe

-----------------------------------------------------------------------------
(* Every accepted utterance ends exactly once while the core is open.       *)

Waiting(u) == InQueue(u) \/ InDrained(u) \/ Unreported(u)

CountInv ==
  ~closing =>
    \A u \in Utt : terminals[u] = IF u < next /\ ~Waiting(u) THEN 1 ELSE 0

\* A step that neither moves nor reports an utterance.
LEMMA CountFrame ==
  ASSUME CountInv, UNCHANGED <<queue, cur, next, drained, terminals>>,
         closing => closing',
         wpc' = "release" <=> wpc = "release"
  PROVE  CountInv'
BY DEF CountInv, Waiting, InQueue, InDrained, Unreported

\* An accepted utterance waits in the queue, unreported.
LEMMA CountCalls ==
  ASSUME TypeOK, OrderInv, CountInv, NEW c \in Callers, Call(c)
  PROVE  CountInv'
<1> USE DEF shared, events, heap, worker, callers, told
<1>1. ASSUME Enqueue(c) PROVE CountInv'
  <2>1. /\ next \in Utt /\ Range(queue') = Range(queue) \union {next}
        /\ next' = next + 1 /\ UNCHANGED <<cur, wpc, drained, terminals, closing>>
    BY <1>1, AppendAscending, QueueTypes DEF Enqueue, OrderInv
  <2>2. ASSUME NEW u \in Utt, u # next
        PROVE  (Waiting(u)' <=> Waiting(u)) /\ (u < next' <=> u < next)
    <3>1. u < next' <=> u < next
      BY <2>1, <2>2, QueueTypes
    <3> QED
      BY <2>1, <2>2, <3>1 DEF Waiting, InQueue, InDrained, Unreported
  <2>3. ASSUME NEW u \in Utt, u = next
        PROVE  Waiting(u)' /\ ~(u < next)
    BY <2>1, <2>3, QueueTypes DEF Waiting, InQueue
  <2>4. ASSUME ~closing, NEW u \in Utt
        PROVE  terminals[u] = IF u < next' /\ ~Waiting(u)' THEN 1 ELSE 0
    BY <2>1, <2>2, <2>3, <2>4 DEF CountInv
  <2> QED
    BY <2>1, <2>4 DEF CountInv, Waiting, InQueue, InDrained, Unreported
<1>2. CASE StreamWrite(c) \/ StreamFinish(c) \/ Cancel(c) \/ Close(c)
  BY <1>2, CountFrame DEF StreamWrite, StreamFinish, Cancel, Close, CancelBegin
<1> QED
  BY <1>1, <1>2 DEF Call, Speak, StreamStart

\* EmitComplete of an utterance that has left every waiting place.
LEMMA CountEmit ==
  ASSUME TypeOK, CountInv, NEW u \in Utt, NEW o, EmitComplete(u, o),
         UNCHANGED <<next, closing>>, u < next, Waiting(u), ~Waiting(u)',
         \A v \in Utt : v # u => (Waiting(v)' <=> Waiting(v))
  PROVE  CountInv'
<1>1. CASE closing
  BY <1>1 DEF CountInv
<1>2. CASE ~closing
  <2>1. terminals' = [terminals EXCEPT ![u] = @ + 1] /\ terminals[u] = 0
    BY <1>2 DEF EmitComplete, CountInv
  <2>2. \A v \in Utt : terminals'[v] = IF v = u THEN 1 ELSE terminals[v]
    BY <2>1 DEF TypeOK
  <2>3. \A v \in Utt : terminals'[v] = IF v < next /\ ~Waiting(v)' THEN 1 ELSE 0
    BY <1>2, <2>2 DEF CountInv
  <2> QED
    BY <2>3 DEF CountInv, Waiting, InQueue, InDrained, Unreported
<1> QED
  BY <1>1, <1>2

\* cancel moves utterances and reports each as it drops it.
LEMMA CountContinue ==
  ASSUME TypeOK, IdleInv, OrderInv, CountInv, NEW c \in Callers, Continue(c)
  PROVE  CountInv'
<1> USE DEF shared, events, heap, worker, callers, told
<1>1. CASE CancelTake(c)
  <2>1. /\ Range(queue') = {} /\ drained' = [drained EXCEPT ![c] = queue]
        /\ UNCHANGED <<cur, wpc, next, terminals, closing>> /\ drained[c] = <<>>
    BY <1>1, RangeEmpty DEF CancelTake, OrderInv
  <2>2. /\ drained'[c] = queue
        /\ \A d \in Callers : d # c => drained'[d] = drained[d]
    BY <2>1 DEF TypeOK
  <2>3. ASSUME NEW u \in Utt PROVE Waiting(u)' <=> Waiting(u)
    BY <2>1, <2>2, RangeEmpty DEF Waiting, InQueue, InDrained, Unreported
  <2> QED
    BY <2>1, <2>3 DEF CountInv, Waiting, InQueue, InDrained, Unreported
<1>2. CASE CancelReport(c)
  <2> DEFINE h == Head(drained[c])
  <2>1. /\ EmitComplete(h, "CANCELLED") /\ drained[c] # <<>>
        /\ drained' = [drained EXCEPT ![c] = Tail(@)]
        /\ UNCHANGED <<queue, cur, wpc, next, closing>>
    BY <1>2 DEF CancelReport
  <2>2. /\ drained'[c] = Tail(drained[c])
        /\ \A d \in Callers : d # c => drained'[d] = drained[d]
    BY <2>1 DEF TypeOK
  <2>3. /\ Range(drained'[c]) = Range(drained[c]) \ {h} /\ h \in Range(drained[c])
    BY <2>1, <2>2, TailAscending, QueueTypes DEF OrderInv
  <2> HIDE DEF h
  <2>4. /\ h \in Utt /\ h < next /\ h # cur /\ h \notin Range(queue)
        /\ \A d \in Callers : h \in Range(drained[d]) => d = c
    BY <2>3, QueueTypes DEF OrderInv
  <2>5. Waiting(h)
    BY <2>3 DEF Waiting, InDrained
  <2>6. ASSUME NEW u \in Utt, u = h PROVE ~Waiting(u)'
    BY <2>1, <2>2, <2>3, <2>4, <2>6 DEF Waiting, InQueue, InDrained, Unreported
  <2>7. ASSUME NEW u \in Utt, u # h PROVE Waiting(u)' <=> Waiting(u)
    BY <2>1, <2>2, <2>3, <2>7 DEF Waiting, InQueue, InDrained, Unreported
  <2>8. PICK u \in Utt : u = h
    BY <2>4
  <2> QED
    BY <2>1, <2>4, <2>5, <2>6, <2>7, <2>8, CountEmit
<1>3. CASE CloseJoin(c)
  BY <1>3 DEF CloseJoin, IdleInv, CountInv
<1>4. CASE SignalSpeech(c) \/ CancelAgain(c) \/ CancelReturn(c) \/ CloseIdle(c)
           \/ CloseStop(c)
  BY <1>4, CountFrame DEF SignalSpeech, CancelAgain, CancelReturn, CloseIdle,
     CloseStop
<1> QED
  BY <1>1, <1>2, <1>3, <1>4 DEF Continue

\* The worker reports the utterance it holds, once.
LEMMA CountWorker ==
  ASSUME TypeOK, WorkerHolds, OrderInv, CountInv, Worker
  PROVE  CountInv'
<1> USE DEF shared, events, heap, worker, callers, told
<1>1. CASE Pop
  <2>1. /\ queue # <<>> /\ queue' = Tail(queue) /\ cur' = Head(queue)
        /\ wpc' # "release" /\ wpc = "pop"
        /\ UNCHANGED <<drained, next, terminals, closing>>
    BY <1>1 DEF Pop
  <2>2. Range(queue') = Range(queue) \ {cur'} /\ cur' \in Range(queue)
    BY <2>1, TailAscending, QueueTypes DEF OrderInv
  <2>3. cur = NoUtt /\ NoUtt \notin Utt
    BY <2>1 DEF OrderInv, Holding, Utt
  <2>4. ASSUME NEW u \in Utt PROVE Waiting(u)' <=> Waiting(u)
    BY <2>1, <2>2, <2>3 DEF Waiting, InQueue, InDrained, Unreported
  <2> QED
    BY <2>1, <2>4 DEF CountInv, Waiting, InQueue, InDrained, Unreported
<1>2. CASE Report
  <2>1. /\ EmitComplete(cur, outcome) /\ wpc = "report" /\ wpc' = "release"
        /\ UNCHANGED <<queue, cur, next, drained, closing>>
    BY <1>2 DEF Report
  <2>2. cur \in Utt /\ cur < next /\ cur \notin Range(queue)
        /\ \A c \in Callers : cur \notin Range(drained[c])
    BY <2>1, QueueTypes DEF WorkerHolds, Holding, OrderInv
  <2>3. Waiting(cur)
    BY <2>1 DEF Waiting, Unreported
  <2>4. ASSUME NEW u \in Utt, u = cur PROVE ~Waiting(u)'
    BY <2>1, <2>2, <2>4 DEF Waiting, InQueue, InDrained, Unreported
  <2>5. ASSUME NEW u \in Utt, u # cur PROVE Waiting(u)' <=> Waiting(u)
    BY <2>1, <2>5 DEF Waiting, InQueue, InDrained, Unreported
  <2>6. PICK u \in Utt : u = cur
    BY <2>2
  <2> QED
    BY <2>1, <2>2, <2>3, <2>4, <2>5, <2>6, CountEmit
<1>3. CASE Release
  <2>1. /\ wpc = "release" /\ cur' = NoUtt
        /\ UNCHANGED <<queue, next, drained, terminals, closing>>
    BY <1>3 DEF Release
  <2>2. NoUtt \notin Utt
    BY DEF Utt
  <2>3. ASSUME NEW u \in Utt PROVE Waiting(u)' <=> Waiting(u)
    BY <2>1, <2>2 DEF Waiting, InQueue, InDrained, Unreported
  <2> QED
    BY <2>1, <2>3 DEF CountInv, Waiting, InQueue, InDrained, Unreported
<1>4. CASE Worker /\ ~Pop /\ ~Report /\ ~Release
  BY <1>4, CountFrame DEF Worker, WorkerExit, WorkerWake, PopNothing, Synthesize,
     PlayOpen, PlayStarted, PlayEnded, EmitSpeaking, PlayCleanup, Settle,
     SignalIdle
<1> QED
  BY <1>1, <1>2, <1>3, <1>4

\* Each utterance counts one terminal event when it has left its last place.
THEOREM CountInvariant == Spec => []CountInv
<1>1. Init => CountInv
  <2> SUFFICES ASSUME Init, NEW u \in Utt PROVE terminals[u] = 0 /\ ~(u < next)
    BY DEF CountInv
  <2> QED
    BY DEF Init, Utt
<1>2. TypeOK /\ WorkerHolds /\ IdleInv /\ OrderInv /\ CountInv /\ [Next]_vars => CountInv'
  <2> SUFFICES ASSUME TypeOK, WorkerHolds, IdleInv, OrderInv, CountInv, [Next]_vars
               PROVE  CountInv'
    OBVIOUS
  <2>1. CASE Device \/ UNCHANGED vars
    BY <2>1, CountFrame DEF Device, DeviceEnd, DeviceRead, DeviceStarted, vars,
       shared, events, heap, worker, callers, told
  <2> QED
    BY <2>1, CountCalls, CountContinue, CountWorker DEF Next
<1> QED
  BY <1>1, <1>2, TypeCorrect, IdleInvariant, OrderInvariant, PTL DEF Spec

\* Every accepted utterance is waiting in one place and has had no
\* SPEECH_COMPLETE, or has had exactly one.
THEOREM CompletesOnce == Spec => []ExactlyOneComplete
<1>1. CountInv => ExactlyOneComplete
  BY DEF CountInv, ExactlyOneComplete, Waiting
<1> QED
  BY <1>1, CountInvariant, PTL

-----------------------------------------------------------------------------
(* SPEAKING events in the order of acceptance.                              *)

\* Everything that has spoken is older than what waits, and not younger than
\* what the worker has.
SpokeInv ==
  /\ \A v \in spoke : v < next
  /\ \A v \in spoke : \A u \in Range(queue) : v < u
  /\ cur # NoUtt => \A v \in spoke : v <= cur

\* A step that reports no SPEAKING and gives the worker nothing new.
LEMMA SpokeFrame ==
  ASSUME TypeOK, SpokeInv, spoke' = spoke, cur' \in {cur, NoUtt},
         next' \in {next, next + 1}, Range(queue') \subseteq Range(queue) \union {next}
  PROVE  SpokeInv'
<1>1. next \in Nat /\ \A v \in spoke : v \in Nat
  BY DEF TypeOK, Utt
<1> QED
  BY <1>1 DEF SpokeInv

LEMMA SpokeStep ==
  ASSUME TypeOK, WorkerHolds, OrderInv, SpokeInv, [Next]_vars
  PROVE  SpokeInv'
<1> USE DEF shared, events, heap, worker, callers, told
<1>0. queue \in Seq(Utt) /\ spoke \subseteq Nat /\ cur \in Nat /\ next \in Nat
  BY DEF TypeOK, Utt
<1>1. CASE \E c \in Callers : Call(c)
  <2>1. PICK c \in Callers : Call(c)
    BY <1>1
  <2>2. CASE Enqueue(c)
    <3>1. Range(queue') = Range(queue) \union {next}
      BY <1>0, <2>2, AppendAscending DEF Enqueue, OrderInv
    <3> QED
      BY <2>2, <3>1, SpokeFrame DEF Enqueue
  <2>3. CASE ~Enqueue(c)
    BY <2>1, <2>3, SpokeFrame DEF Call, Speak, StreamStart, StreamWrite,
       StreamFinish, Cancel, Close, CancelBegin
  <2> QED
    BY <2>2, <2>3
<1>2. CASE \E c \in Callers : Continue(c)
  <2>1. PICK c \in Callers : Continue(c)
    BY <1>2
  <2>2. CASE CancelTake(c) \/ CloseJoin(c)
    BY <2>2, RangeEmpty, SpokeFrame DEF CancelTake, CloseJoin
  <2>3. CASE ~(CancelTake(c) \/ CloseJoin(c))
    BY <2>1, <2>3, SpokeFrame DEF Continue, SignalSpeech, CancelAgain,
       CancelReport, CancelReturn, CloseIdle, CloseStop
  <2> QED
    BY <2>2, <2>3
<1>3. CASE Worker
  <2>1. CASE Pop
    <3>1. /\ Range(queue') \subseteq Range(queue) /\ cur' \in Range(queue)
          /\ spoke' = spoke /\ next' = next
      BY <1>0, <2>1, TailAscending DEF Pop, OrderInv
    <3>2. \A u \in Range(queue) : u \in Nat
      BY QueueTypes
    <3> QED
      BY <1>0, <3>1, <3>2 DEF SpokeInv
  <2>2. CASE EmitSpeaking
    <3>1. cur # NoUtt
      BY <2>2, QueueTypes DEF EmitSpeaking, WorkerHolds, Holding, TypeOK, Utt
    <3>2. spoke' \in {spoke, spoke \union {cur}} /\ UNCHANGED <<queue, next, cur>>
      BY <2>2 DEF EmitSpeaking
    <3>3. cur < next /\ \A u \in Range(queue) : cur < u
      BY <3>1 DEF OrderInv
    <3> QED
      BY <1>0, <3>1, <3>2, <3>3 DEF SpokeInv
  <2>3. CASE ~Pop /\ ~EmitSpeaking
    BY <1>3, <2>3, SpokeFrame DEF Worker, WorkerExit, WorkerWake, PopNothing,
       Synthesize, PlayOpen, PlayStarted, PlayEnded, PlayCleanup, Settle,
       Report, Release, SignalIdle
  <2> QED
    BY <2>1, <2>2, <2>3
<1>4. CASE Device \/ UNCHANGED vars
  BY <1>4, SpokeFrame DEF Device, DeviceEnd, DeviceRead, DeviceStarted, vars
<1> QED
  BY <1>1, <1>2, <1>3, <1>4 DEF Next

\* What has spoken is not younger than what the worker has or the queue holds.
THEOREM SpokeInvariant == Spec => []SpokeInv
<1>1. Init => SpokeInv
  BY DEF Init, SpokeInv
<1> QED
  BY <1>1, SpokeStep, TypeCorrect, OrderInvariant, PTL DEF Spec

\* The application hears utterances begin in the order it gave them.
THEOREM SpeaksInOrder == Spec => SpeakInOrder
<1>1. TypeOK /\ WorkerHolds /\ SpokeInv /\ [Next]_vars =>
        [\A u \in spoke' \ spoke : \A v \in spoke : v < u]_vars
  <2> SUFFICES ASSUME TypeOK, WorkerHolds, SpokeInv, Next,
                      NEW u \in spoke' \ spoke, NEW v \in spoke
               PROVE  v < u
    OBVIOUS
  <2> USE DEF shared, events, heap, worker, callers, told
  <2>1. EmitSpeaking
    BY DEF Next, Call, Speak, StreamStart, StreamWrite, StreamFinish, Cancel,
       Close, CancelBegin, Enqueue, Continue, SignalSpeech, CancelTake,
       CancelAgain, CancelReport, CancelReturn, CloseIdle, CloseStop, CloseJoin,
       Worker, WorkerExit, WorkerWake, Pop, PopNothing, Synthesize, PlayOpen,
       PlayStarted, PlayEnded, PlayCleanup, Settle, Report, Release, SignalIdle,
       Device, DeviceEnd, DeviceRead, DeviceStarted
  <2>2. u = cur /\ v # cur
    BY <2>1 DEF EmitSpeaking
  <2>3. v \in Nat /\ cur \in Nat /\ v # NoUtt
    BY DEF TypeOK, Utt
  <2>4. cur # NoUtt => v <= cur
    BY DEF SpokeInv
  <2>5. cur # NoUtt
    BY <2>1 DEF EmitSpeaking, WorkerHolds, Holding, TypeOK, Utt
  <2> QED
    BY <2>2, <2>3, <2>4, <2>5
<1> QED
  BY <1>1, SpokeInvariant, TypeCorrect, PTL DEF Spec, SpeakInOrder

-----------------------------------------------------------------------------
(* close.                                                                   *)

\* The one caller that closes is alone in the API, and when it has returned the
\* speech thread is gone.
ClosedInv ==
  /\ \A c, d \in Callers : c \in closer /\ d # c => cpc[d] = "ready"
  /\ \A c \in Callers : cpc[c] \in {"closing", "stop", "join", "closed"} => c \in closer
  /\ \A c \in Callers : cpc[c] = "closed" => wpc = "exited"

LEMMA ClosedStep ==
  ASSUME TypeOK, ClosedInv, [Next]_vars
  PROVE  ClosedInv'
<1> USE DEF shared, events, heap, worker, callers, told
<1>1. CASE \E c \in Callers : Call(c)
  BY <1>1 DEF Call, Speak, StreamStart, Enqueue, StreamWrite, StreamFinish, Cancel,
     Close, CancelBegin, CanCall, ClosedInv, TypeOK
<1>2. CASE \E c \in Callers : Continue(c)
  <2>1. PICK c \in Callers : Continue(c)
    BY <1>2
  <2>2. closer' = closer /\ wpc' = wpc /\ cpc[c] \notin {"ready", "closed"}
    BY <2>1 DEF Continue, SignalSpeech, CancelTake, CancelAgain, CancelReport,
       CancelReturn, CloseIdle, CloseStop, CloseJoin
  <2>3. \A d \in Callers : d # c => cpc'[d] = cpc[d]
    BY <2>1 DEF Continue, SignalSpeech, CancelTake, CancelAgain, CancelReport,
       CancelReturn, CloseIdle, CloseStop, CloseJoin, TypeOK
  <2>4. cpc'[c] \in {"closing", "stop", "join", "closed"} => c \in closer
    BY <2>1 DEF Continue, SignalSpeech, CancelTake, CancelAgain, CancelReport,
       CancelReturn, CloseIdle, CloseStop, CloseJoin, TypeOK, ClosedInv
  <2>5. cpc'[c] = "closed" => wpc = "exited"
    BY <2>1 DEF Continue, SignalSpeech, CancelTake, CancelAgain, CancelReport,
       CancelReturn, CloseIdle, CloseStop, CloseJoin, TypeOK
  <2> QED
    BY <2>2, <2>3, <2>4, <2>5 DEF ClosedInv
<1>3. CASE Worker
  BY <1>3 DEF Worker, WorkerExit, WorkerWake, Pop, PopNothing, Synthesize,
     PlayOpen, PlayStarted, PlayEnded, EmitSpeaking, PlayCleanup, Settle, Report,
     Release, SignalIdle, ClosedInv
<1>4. CASE Device \/ UNCHANGED vars
  BY <1>4 DEF Device, DeviceEnd, DeviceRead, DeviceStarted, vars, ClosedInv
<1> QED
  BY <1>1, <1>2, <1>3, <1>4 DEF Next

\* The inductive invariant of close.
THEOREM ClosedInvariant == Spec => []ClosedInv
<1>1. Init => ClosedInv
  BY DEF Init, ClosedInv
<1> QED
  BY <1>1, ClosedStep, TypeCorrect, PTL DEF Spec

\* Nothing is reported and no stream is touched after dio_voice_close returned.
THEOREM SilenceAfterClose == Spec => SilentAfterClose
<1>1. IdleInv /\ ClosedInv /\ [Next]_vars =>
        [(\E c \in Callers : cpc[c] = "closed") =>
            UNCHANGED <<spoke, terminals, wpc, stream>>]_vars
  <2> SUFFICES ASSUME IdleInv, ClosedInv, Next,
                      NEW c \in Callers, cpc[c] = "closed"
               PROVE  UNCHANGED <<spoke, terminals, wpc, stream>>
    OBVIOUS
  <2> USE DEF shared, events, heap, worker, callers, told
  <2>1. wpc = "exited" /\ dev = "off"
    BY DEF IdleInv, ClosedInv
  <2>2. c \in closer /\ \A d \in Callers : d # c => cpc[d] = "ready"
    BY DEF ClosedInv
  <2>3. ASSUME NEW d \in Callers PROVE ~Call(d)
    BY <2>2, <2>3 DEF Call, Speak, StreamStart, Enqueue, StreamWrite, StreamFinish,
       Cancel, Close, CancelBegin, CanCall
  <2>4. ASSUME NEW d \in Callers PROVE ~Continue(d)
    <3>1. cpc[d] \in {"closed", "ready"}
      BY <2>2
    <3> QED
      BY <3>1 DEF Continue, SignalSpeech, CancelTake, CancelAgain, CancelReport,
         CancelReturn, CloseIdle, CloseStop, CloseJoin
  <2>5. ~Worker
    BY <2>1 DEF Worker, WorkerExit, WorkerWake, Pop, PopNothing, Synthesize,
       PlayOpen, PlayStarted, PlayEnded, EmitSpeaking, PlayCleanup, Settle,
       Report, Release, SignalIdle
  <2>6. ~Device
    BY <2>1 DEF Device, DeviceEnd, DeviceRead, DeviceStarted
  <2> QED
    BY <2>3, <2>4, <2>5, <2>6 DEF Next
<1> QED
  BY <1>1, IdleInvariant, ClosedInvariant, PTL DEF Spec, SilentAfterClose

\* What dio_voice_close relies on, and what it promises.
THEOREM ClosesSoundly == Spec => CloseSound
BY IdleEventIsSound, ClosingIsQuiet, SilenceAfterClose, PTL DEF CloseSound

-----------------------------------------------------------------------------
(* Success.                                                                 *)

\* A stream whose end was reported was played to it, and one that lost samples
\* to the device has told so; copied: the device has yet to tell.
Honest(s, copied) ==
  /\ s.terminal /\ ~s.cancelled => s.final /\ s.unread = 0 /\ s.started
  /\ s.cancelled \/ s.started \/ s.unread > 0 \/ copied

Complete(s) == s.final /\ s.unread = 0

LEMMA FreshHonest ==
  ASSUME NEW n \in 1..RingCap, NEW b \in BOOLEAN
  PROVE  Honest(Written(Created, n), b) /\ Honest(Finished(Written(Created, n)), b)
BY BoundsAssumption DEF Honest, Written, Created, Finished

\* What the API does to a stream.
LEMMA KeptHonest ==
  ASSUME NEW s \in Stream, NEW b \in BOOLEAN
  PROVE  /\ Honest(s, b) => Honest(Finished(s), b) /\ Honest(Cancelled(s), b)
         /\ Complete(s) => Complete(Finished(s)) /\ Complete(Cancelled(s))
         /\ \A n \in 1..RingCap : CanWrite(s, n) =>
              ~Complete(s) /\ (Honest(s, b) => Honest(Written(s, n), b))
BY BoundsAssumption DEF Honest, Complete, Stream, Finished, Cancelled, CanWrite, Written

\* What the device does to the stream it plays.
LEMMA PlayedHonest ==
  ASSUME NEW s \in Stream
  PROVE  /\ Honest(s, FALSE) /\ AtEnd(s) => Honest(Ended(s), FALSE)
         /\ Honest(s, FALSE) =>
              \A n \in 1..RingCap : CanRead(s, n) => Honest(Read(s, n), TRUE)
         /\ Honest(s, TRUE) => Honest(FirstAudio(s), FALSE)
         /\ Complete(s) => Complete(Ended(s)) /\ Complete(FirstAudio(s))
         /\ Complete(s) => \A n \in 1..RingCap : ~CanRead(s, n)
<1>0. s.unread \in Nat /\ RingCap \in Nat
  BY BoundsAssumption DEF Stream
<1>1. Honest(s, FALSE) /\ AtEnd(s) => Honest(Ended(s), FALSE)
  BY <1>0 DEF Honest, Stream, AtEnd, Ended
<1>2. ASSUME Honest(s, FALSE), NEW n \in 1..RingCap, CanRead(s, n)
      PROVE  Honest(Read(s, n), TRUE)
  <2>1. ~s.cancelled /\ n <= s.unread /\ n > 0
    BY <1>0, <1>2 DEF CanRead
  <2>2. ~s.terminal
    BY <1>0, <1>2, <2>1 DEF Honest
  <2> QED
    BY <2>2 DEF Honest, Stream, Read
<1>3. Honest(s, TRUE) => Honest(FirstAudio(s), FALSE)
  BY DEF Honest, Stream, FirstAudio
<1>4. Complete(s) => Complete(Ended(s)) /\ Complete(FirstAudio(s))
  BY DEF Complete, Stream, Ended, FirstAudio
<1>5. Complete(s) => \A n \in 1..RingCap : ~CanRead(s, n)
  BY <1>0 DEF Complete, CanRead
<1> QED
  BY <1>1, <1>2, <1>3, <1>4, <1>5

StreamsHonest == \A u \in Alive : Honest(stream[u], u = cur /\ dev = "copied")

\* The worker has told what it plays, and has decided on success rightly.
PlaybackInv ==
  /\ wpc \in {"playing", "speaking"} => dev # "off"
  /\ reported => wpc \in {"playing", "speaking", "cleanup"}
  /\ reported => cur \in spoke \/ wpc = "speaking"
  /\ wpc = "cleanup" /\ outcome = "SUCCEEDED" =>
       dev # "off" /\ Complete(stream[cur]) /\ cur \in spoke

\* A step of the API keeps every stream honest, and the one being played complete.
LEMMA HonestApi ==
  ASSUME TypeOK, OrderInv, OwnerInv, StreamsHonest,
         NEW c \in Callers, Call(c) \/ Continue(c)
  PROVE  /\ StreamsHonest'
         /\ cur \in Alive' /\ Complete(stream[cur]) => Complete(stream'[cur])
         /\ UNCHANGED <<cur, dev, wpc, reported, outcome, spoke>>
<1> USE DEF shared, events, heap, worker, callers, told
<1> DEFINE copied(u) == u = cur /\ dev = "copied"
           Good(u) == /\ Honest(stream'[u], copied(u))
                      /\ u = cur /\ Complete(stream[cur]) => Complete(stream'[cur])
<1>1. UNCHANGED <<cur, dev, wpc, reported, outcome, spoke>>
  BY DEF Call, Speak, StreamStart, StreamWrite, StreamFinish, Cancel, Close,
     CancelBegin, Enqueue, Continue, SignalSpeech, CancelTake, CancelAgain,
     CancelReport, CancelReturn, CloseIdle, CloseStop, CloseJoin
<1>2. /\ stream \in [Alive -> Stream] /\ (pcm # NoUtt => pcm \in Alive)
      /\ \A u : copied(u) \in BOOLEAN
      /\ \A u \in Alive : stream[u] \in Stream /\ Honest(stream[u], copied(u))
  BY DEF TypeOK, OwnerInv, StreamsHonest
<1> HIDE DEF copied
<1>3. SUFFICES \A u \in Alive' : Good(u)
  BY <1>1, <1>3 DEF StreamsHonest, copied
<1>4. CASE UNCHANGED stream \/ \E us : stream' = Free(us)
  BY <1>2, <1>4 DEF Free, Restrict, Alive
<1>5. CASE StreamStart(c)
  <2>1. PICK n \in 1..RingCap : stream' = Alloc(next, Written(Created, n))
    BY <1>5 DEF StreamStart
  <2>2. Alive' = Alive \union {next} /\ \A u \in Alive' :
          stream'[u] = IF u = next THEN Written(Created, n) ELSE stream[u]
    BY <2>1 DEF Alloc, Alive
  <2>3. cur # next
    BY QueueTypes DEF OrderInv
  <2> QED
    BY <1>2, <2>2, <2>3, FreshHonest
<1>6. CASE StreamWrite(c)
  <2>1. PICK n \in 1..RingCap : /\ CanWrite(stream[pcm], n)
                                /\ stream' = [stream EXCEPT ![pcm] = Written(@, n)]
    BY <1>6 DEF StreamWrite
  <2>2. pcm \in Alive
    BY <1>2, <1>6 DEF StreamWrite
  <2>3. Alive' = Alive /\ \A u \in Alive :
          stream'[u] = IF u = pcm THEN Written(stream[pcm], n) ELSE stream[u]
    BY <1>2, <2>1 DEF Alive
  <2> QED
    BY <1>2, <2>1, <2>2, <2>3, KeptHonest
<1>7. CASE StreamFinish(c) \/ CancelTake(c)
  <2>1. CASE pcm = NoUtt
    BY <1>4, <1>7, <2>1 DEF StreamFinish, CancelTake
  <2>2. CASE pcm # NoUtt
    <3>1. \/ stream' = [stream EXCEPT ![pcm] = Finished(stream[pcm])]
          \/ stream' = [stream EXCEPT ![pcm] = Cancelled(stream[pcm])]
      BY <1>7, <2>2 DEF StreamFinish, CancelTake
    <3>2. Alive' = Alive /\ \A u \in Alive :
            IF u = pcm THEN stream'[u] \in {Finished(stream[u]), Cancelled(stream[u])}
                       ELSE stream'[u] = stream[u]
      BY <1>2, <2>2, <3>1 DEF Alive
    <3> QED
      BY <1>2, <3>2, KeptHonest
  <2> QED
    BY <2>1, <2>2
<1>8. \/ UNCHANGED stream \/ \E us : stream' = Free(us)
      \/ StreamStart(c) \/ StreamWrite(c) \/ StreamFinish(c) \/ CancelTake(c)
  BY DEF Call, Speak, Cancel, Close, CancelBegin, Continue, SignalSpeech,
     CancelAgain, CancelReport, CancelReturn, CloseIdle, CloseStop, CloseJoin
<1> QED
  BY <1>4, <1>5, <1>6, <1>7, <1>8

\* So does a step of the device.
LEMMA HonestDevice ==
  ASSUME TypeOK, OwnerInv, StreamsHonest, Device
  PROVE  /\ StreamsHonest'
         /\ dev' # "off" /\ dev # "off"
         /\ Complete(stream[cur]) => Complete(stream'[cur])
         /\ UNCHANGED <<cur, wpc, reported, outcome, spoke>>
<1> USE DEF shared, events, heap, worker, callers, told
<1>1. /\ UNCHANGED <<cur, wpc, reported, outcome, spoke>>
      /\ dev # "off" /\ dev' # "off" /\ cur \in Alive
  BY DEF Device, DeviceEnd, DeviceRead, DeviceStarted, OwnerInv
<1>2. \A t : stream' = [stream EXCEPT ![cur] = t] =>
        Alive' = Alive /\ \A u \in Alive : stream'[u] = IF u = cur THEN t ELSE stream[u]
  BY DEF TypeOK, Alive
<1>3. stream[cur] \in Stream /\ Honest(stream[cur], dev = "copied")
  BY <1>1 DEF TypeOK, StreamsHonest
<1>4. PICK t : /\ stream' = [stream EXCEPT ![cur] = t]
               /\ Honest(t, dev' = "copied")
               /\ Complete(stream[cur]) => Complete(t)
  <2>1. CASE DeviceEnd
    <3>1. Honest(stream[cur], FALSE) /\ (dev' = "copied") = FALSE /\ AtEnd(stream[cur])
      BY <1>3, <2>1 DEF DeviceEnd
    <3> QED
      BY <1>3, <2>1, <3>1, PlayedHonest DEF DeviceEnd
  <2>2. CASE DeviceRead
    <3>1. Honest(stream[cur], FALSE) /\ (dev' = "copied") = TRUE
      BY <1>3, <2>2 DEF DeviceRead
    <3> QED
      BY <1>3, <2>2, <3>1, PlayedHonest DEF DeviceRead
  <2>3. CASE DeviceStarted
    <3>1. Honest(stream[cur], TRUE) /\ (dev' = "copied") = FALSE
      BY <1>3, <2>3 DEF DeviceStarted
    <3> QED
      BY <1>3, <2>3, <3>1, PlayedHonest DEF DeviceStarted
  <2> QED
    BY <2>1, <2>2, <2>3 DEF Device
<1>5. Alive' = Alive /\ \A u \in Alive : stream'[u] = IF u = cur THEN t ELSE stream[u]
  BY <1>2, <1>4
<1> QED
  BY <1>1, <1>4, <1>5 DEF StreamsHonest

\* The worker frees, or makes a new one that is honest.
LEMMA HonestWorker ==
  ASSUME TypeOK, WorkerHolds, IdleInv, OwnerInv, StreamsHonest, Worker
  PROVE  StreamsHonest'
<1> USE DEF shared, events, heap, worker, callers, told
<1>1. (dev = "copied") => cur' = cur /\ dev' = dev
  BY DEF IdleInv, Worker, WorkerExit, WorkerWake, Pop, PopNothing, Synthesize,
     PlayOpen, PlayStarted, PlayEnded, EmitSpeaking, PlayCleanup, Settle, Report,
     Release, SignalIdle
<1>2. ASSUME NEW u \in Alive PROVE Honest(stream[u], u = cur' /\ dev' = "copied")
  BY <1>1 DEF StreamsHonest, Honest
<1>3. CASE UNCHANGED stream \/ \E us : stream' = Free(us)
  BY <1>2, <1>3 DEF StreamsHonest, Free, Restrict, Alive
<1>4. CASE Synthesize /\ \E n \in 1..RingCap :
             stream' = Alloc(cur, Finished(Written(Created, n)))
  <2>1. PICK n \in 1..RingCap : stream' = Alloc(cur, Finished(Written(Created, n)))
    BY <1>4
  <2>2. Alive' = Alive \union {cur} /\ \A u \in Alive' :
          stream'[u] = IF u = cur THEN Finished(Written(Created, n)) ELSE stream[u]
    BY <2>1 DEF Alloc, Alive
  <2>3. \A b \in BOOLEAN : Honest(Finished(Written(Created, n)), b)
    BY FreshHonest
  <2>4. ASSUME NEW u \in Alive' PROVE Honest(stream'[u], u = cur' /\ dev' = "copied")
    <3>1. (u = cur' /\ dev' = "copied") \in BOOLEAN
      OBVIOUS
    <3> QED
      BY <1>2, <2>2, <2>3, <3>1
  <2> QED
    BY <2>4 DEF StreamsHonest
<1> QED
  BY <1>3, <1>4 DEF Worker, WorkerExit, WorkerWake, Pop, PopNothing, Synthesize,
     PlayOpen, PlayStarted, PlayEnded, EmitSpeaking, PlayCleanup, Settle, Report,
     Release, SignalIdle

\* The worker's decisions.
LEMMA PlaybackWorker ==
  ASSUME TypeOK, IdleInv, OwnerInv, StreamsHonest, PlaybackInv, Worker
  PROVE  PlaybackInv'
<1> USE DEF shared, events, heap, worker, callers, told
<1>1. CASE PlayEnded
  <2>1. dev # "off" /\ cur \in Alive /\ stream[cur] \in Stream
    BY <1>1 DEF PlayEnded, PlaybackInv, OwnerInv, TypeOK
  <2>2. Honest(stream[cur], dev = "copied")
    BY <2>1 DEF StreamsHonest
  <2>3. outcome' = "SUCCEEDED" => stream[cur].terminal /\ ~stream[cur].cancelled
    BY <1>1 DEF PlayEnded
  <2>4. outcome' = "SUCCEEDED" => Complete(stream[cur]) /\ stream[cur].started
    BY <2>2, <2>3 DEF Honest, Complete
  <2>5. outcome' = "SUCCEEDED" => reported
    BY <1>1, <2>4 DEF PlayEnded, StartedPending
  <2>6. wpc = "playing" /\ wpc' = "cleanup" /\ UNCHANGED <<dev, stream, cur, spoke, reported>>
    BY <1>1 DEF PlayEnded
  <2> QED
    BY <2>1, <2>4, <2>5, <2>6 DEF PlaybackInv
<1>2. CASE EmitSpeaking
  BY <1>2 DEF EmitSpeaking, PlaybackInv, IdleInv, Busy, TypeOK
<1>3. CASE ~PlayEnded /\ ~EmitSpeaking
  BY <1>3 DEF Worker, WorkerExit, WorkerWake, Pop, PopNothing, Synthesize,
     PlayOpen, PlayStarted, PlayCleanup, Settle, Report, Release, SignalIdle,
     PlaybackInv, TypeOK, IdleInv, Busy
<1> QED
  BY <1>1, <1>2, <1>3

\* Streams tell the truth about their end, and the worker believes them only then.
THEOREM PlaybackInvariant == Spec => [](StreamsHonest /\ PlaybackInv)
<1>1. Init => StreamsHonest /\ PlaybackInv
  BY DEF Init, StreamsHonest, PlaybackInv, Alive
<1>2. TypeOK /\ WorkerHolds /\ IdleInv /\ OrderInv /\ OwnerInv /\ OwnerInv'
        /\ StreamsHonest /\ PlaybackInv /\ [Next]_vars
      => StreamsHonest' /\ PlaybackInv'
  <2> SUFFICES ASSUME TypeOK, WorkerHolds, IdleInv, OrderInv, OwnerInv, OwnerInv',
                      StreamsHonest, PlaybackInv, [Next]_vars
               PROVE  StreamsHonest' /\ PlaybackInv'
    OBVIOUS
  <2>1. CASE \E c \in Callers : Call(c) \/ Continue(c)
    <3>1. /\ StreamsHonest'
          /\ cur \in Alive' /\ Complete(stream[cur]) => Complete(stream'[cur])
          /\ UNCHANGED <<cur, dev, wpc, reported, outcome, spoke>>
      BY <2>1, HonestApi
    <3>2. dev # "off" => cur \in Alive'
      BY <3>1 DEF OwnerInv
    <3> QED
      BY <3>1, <3>2 DEF PlaybackInv
  <2>2. CASE Worker
    BY <2>2, HonestWorker, PlaybackWorker
  <2>3. CASE Device
    BY <2>3, HonestDevice DEF PlaybackInv
  <2>4. CASE UNCHANGED vars
    BY <2>4 DEF vars, heap, worker, told, StreamsHonest, PlaybackInv, Alive
  <2> QED
    BY <2>1, <2>2, <2>3, <2>4 DEF Next
<1> QED
  BY <1>1, <1>2, TypeCorrect, IdleInvariant, OrderInvariant, OwnerInvariant, PTL DEF Spec

\* An utterance that ends SUCCEEDED was finished, was played to its last sample
\* and has had its SPEAKING event, for any number of callers.
THEOREM SuccessIsPlayed == Spec => []SuccessMeansPlayed
<1>1. PlaybackInv => SuccessMeansPlayed
  BY DEF PlaybackInv, SuccessMeansPlayed, Complete
<1> QED
  BY <1>1, PlaybackInvariant, PTL

-----------------------------------------------------------------------------
(* The contract of the header.                                              *)

\* An utterance has a result iff it was reported; what is about to be reported
\* has one, success only after SPEAKING; what a cancel drained has not spoken.
EndInv ==
  /\ \A u \in Utt : result[u] # "none" <=> terminals[u] > 0
  /\ wpc \in {"cleanup", "settle", "report"} => outcome # "none"
  /\ wpc \in {"settle", "report"} /\ outcome = "SUCCEEDED" => cur \in spoke
  /\ \A c \in Callers : \A u \in Range(drained[c]) : u \notin spoke

\* A report gives a result to what it counts.
LEMMA EmitResult ==
  ASSUME TypeOK, EndInv, NEW u \in Utt, NEW o \in Outcomes, EmitComplete(u, o)
  PROVE  \A v \in Utt : result'[v] # "none" <=> terminals'[v] > 0
<1>1. terminals \in [Utt -> Nat] /\ result \in [Utt -> Outcomes \union {"none"}]
  BY DEF TypeOK
<1>2. o # "none"
  BY DEF Outcomes
<1> QED
  BY <1>1, <1>2 DEF EmitComplete, EndInv

\* The callers.
LEMMA EndCallers ==
  ASSUME TypeOK, OrderInv, SpokeInv, EndInv, NEW c \in Callers, Call(c) \/ Continue(c)
  PROVE  EndInv'
<1> USE DEF shared, events, heap, worker, callers, told
<1>1. UNCHANGED <<wpc, outcome, cur, spoke>>
  BY DEF Call, Speak, StreamStart, StreamWrite, StreamFinish, Cancel, Close,
     CancelBegin, Enqueue, Continue, SignalSpeech, CancelTake, CancelAgain,
     CancelReport, CancelReturn, CloseIdle, CloseStop, CloseJoin
<1>2. CASE CancelTake(c)
  <2>1. /\ drained' = [drained EXCEPT ![c] = queue]
        /\ UNCHANGED <<result, terminals>>
    BY <1>2 DEF CancelTake
  <2>2. \A u \in Range(queue) : u \notin spoke
    <3>1. ASSUME NEW u \in Range(queue), u \in spoke PROVE FALSE
      BY <3>1, QueueTypes DEF SpokeInv
    <3> QED
      BY <3>1
  <2>3. \A d \in Callers : drained'[d] = IF d = c THEN queue ELSE drained[d]
    BY <2>1 DEF TypeOK
  <2> QED
    BY <1>1, <2>1, <2>2, <2>3 DEF EndInv
<1>3. CASE CancelReport(c)
  <2> DEFINE h == Head(drained[c])
  <2>1. /\ EmitComplete(h, "CANCELLED") /\ drained[c] # <<>>
        /\ drained' = [drained EXCEPT ![c] = Tail(@)]
    BY <1>3 DEF CancelReport
  <2>2. /\ drained'[c] = Tail(drained[c])
        /\ \A d \in Callers : d # c => drained'[d] = drained[d]
    BY <2>1 DEF TypeOK
  <2>3. Range(drained'[c]) \subseteq Range(drained[c]) /\ h \in Range(drained[c])
    BY <2>1, <2>2, TailAscending, QueueTypes DEF OrderInv
  <2>4. h \in Utt
    BY <2>3, QueueTypes
  <2>5. \A v \in Utt : result'[v] # "none" <=> terminals'[v] > 0
    BY <2>1, <2>4, EmitResult DEF Outcomes
  <2> QED
    BY <1>1, <2>2, <2>3, <2>5 DEF EndInv
<1>4. CASE ~CancelTake(c) /\ ~CancelReport(c)
  <2>1. UNCHANGED <<drained, result, terminals>>
    BY <1>4 DEF Call, Speak, StreamStart, StreamWrite, StreamFinish, Cancel, Close,
       CancelBegin, Enqueue, Continue, SignalSpeech, CancelAgain, CancelReturn,
       CloseIdle, CloseStop, CloseJoin
  <2> QED
    BY <1>1, <2>1 DEF EndInv
<1> QED
  BY <1>2, <1>3, <1>4

\* The worker.
LEMMA EndWorker ==
  ASSUME TypeOK, WorkerHolds, OrderInv, PlaybackInv, EndInv, Worker
  PROVE  EndInv'
<1> USE DEF shared, events, heap, worker, callers, told
<1>1. CASE Report
  <2>1. /\ wpc = "report" /\ EmitComplete(cur, outcome) /\ wpc' = "release"
        /\ UNCHANGED <<drained, spoke>>
    BY <1>1 DEF Report
  <2>2. cur \in Utt /\ outcome \in Outcomes
    BY <2>1 DEF WorkerHolds, Holding, EndInv, TypeOK
  <2>3. \A v \in Utt : result'[v] # "none" <=> terminals'[v] > 0
    BY <2>1, <2>2, EmitResult
  <2> QED
    BY <2>1, <2>3 DEF EndInv
<1>2. CASE EmitSpeaking
  <2>1. /\ wpc' = "playing" /\ spoke' \in {spoke, spoke \union {cur}}
        /\ UNCHANGED <<drained, result, terminals>>
    BY <1>2 DEF EmitSpeaking
  <2>2. \A c \in Callers : \A u \in Range(drained[c]) : u # cur
    BY DEF OrderInv
  <2> QED
    BY <2>1, <2>2 DEF EndInv
<1>3. CASE ~Report /\ ~EmitSpeaking
  <2>1. UNCHANGED <<drained, result, terminals, spoke>>
    BY <1>3 DEF Worker, WorkerExit, WorkerWake, Pop, PopNothing, Synthesize, PlayOpen,
       PlayStarted, PlayEnded, PlayCleanup, Settle, Release, SignalIdle
  <2>2. /\ wpc' \in {"cleanup", "settle", "report"} => outcome' # "none"
        /\ wpc' \in {"settle", "report"} /\ outcome' = "SUCCEEDED" => cur' \in spoke
    <3>1. CASE Synthesize \/ PlayOpen \/ PlayStarted \/ PlayEnded
      BY <3>1 DEF Synthesize, PlayOpen, PlayStarted, PlayEnded
    <3>2. CASE PlayCleanup \/ Settle
      BY <3>2 DEF PlayCleanup, Settle, EndInv, PlaybackInv
    <3>3. CASE WorkerExit \/ WorkerWake \/ Pop \/ PopNothing \/ Release \/ SignalIdle
      BY <3>3 DEF WorkerExit, WorkerWake, Pop, PopNothing, Release, SignalIdle
    <3> QED
      BY <1>3, <3>1, <3>2, <3>3 DEF Worker
  <2> QED
    BY <2>1, <2>2 DEF EndInv
<1> QED
  BY <1>1, <1>2, <1>3

\* Who is told of an end, and what of it.
THEOREM EndInvariant == Spec => []EndInv
<1>1. Init => EndInv
  <2>1. Init => \A c \in Callers : Range(drained[c]) = {}
    BY RangeEmpty DEF Init
  <2> QED
    BY <2>1 DEF Init, EndInv
<1>2. TypeOK /\ WorkerHolds /\ OrderInv /\ SpokeInv /\ PlaybackInv /\ EndInv
        /\ [Next]_vars => EndInv'
  <2> SUFFICES ASSUME TypeOK, WorkerHolds, OrderInv, SpokeInv, PlaybackInv, EndInv,
                      [Next]_vars
               PROVE  EndInv'
    OBVIOUS
  <2>1. CASE Device \/ UNCHANGED vars
    BY <2>1 DEF Device, DeviceEnd, DeviceRead, DeviceStarted, vars, shared, events,
       heap, worker, callers, told, EndInv
  <2> QED
    BY <2>1, EndCallers, EndWorker DEF Next
<1> QED
  BY <1>1, <1>2, TypeCorrect, OrderInvariant, SpokeInvariant, PlaybackInvariant, PTL
     DEF Spec

\* What the refinement rests on.
ContractInv ==
  /\ TypeOK /\ WorkerHolds /\ IdleInv /\ OrderInv /\ CountInv /\ SpokeInv /\ EndInv

\* The step of an end: of an utterance that waits and has not been reported.
LEMMA EndContract ==
  ASSUME ContractInv, NEW u \in Utt, NEW o \in Outcomes, Waiting(u), u < next, ~closing,
         EmitComplete(u, o), UNCHANGED <<spoke, next>>,
         o = "SUCCEEDED" => u \in spoke
  PROVE  Contract!Next
<1>1. terminals[u] = 0
  BY DEF ContractInv, CountInv
<1>2. result[u] = "none"
  BY <1>1 DEF ContractInv, EndInv
<1>3. \A v \in Utt : result'[v] = IF v = u THEN o ELSE result[v]
  BY DEF EmitComplete, ContractInv, TypeOK
<1>4. o # "none"
  BY DEF Outcomes
<1>5. status' = [status EXCEPT ![u] = o]
  BY <1>3, <1>4 DEF status
<1>6. status[u] \in {"pending", "speaking"} /\ (o = "SUCCEEDED" => status[u] = "speaking")
  BY <1>2 DEF status
<1>7. u \in Contract!Utt /\ o \in Contract!End
  BY DEF Contract!Utt, Contract!End, Utt, Outcomes
<1>8. Contract!Complete(u)
  BY <1>5, <1>6, <1>7 DEF Contract!Complete
<1> QED
  BY <1>7, <1>8 DEF Contract!Next

\* Every step of the voice core is one of the contract, or none.
LEMMA ContractStep ==
  ASSUME ContractInv, [Next]_vars
  PROVE  [Contract!Next]_status
<1> USE DEF shared, events, heap, worker, callers, told
<1>0. next \in Nat /\ \A u \in Utt : u \in Nat
  BY QueueTypes DEF ContractInv
<1>1. ASSUME NEW c \in Callers, Enqueue(c) PROVE Contract!Next
  <2>1. next \in Utt /\ next' = next + 1 /\ UNCHANGED <<result, spoke, terminals>>
    BY <1>1 DEF Enqueue
  <2>2. ~closing
    BY <1>1 DEF ContractInv, IdleInv, Enqueue, CanCall
  <2>3. terminals[next] = 0
    BY <1>0, <2>1, <2>2 DEF ContractInv, CountInv
  <2>4. result[next] = "none" /\ next \notin spoke
    BY <1>0, <2>1, <2>3 DEF ContractInv, EndInv, SpokeInv
  <2>5. status[next] = "new" /\ \A v \in Utt : v < next => status[v] # "new"
    BY <1>0, <2>1, <2>4 DEF status, ContractInv, TypeOK, Outcomes
  <2>6. status' = [status EXCEPT ![next] = "pending"]
    <3>1. \A v \in Utt : v < next + 1 <=> v < next \/ v = next
      BY <1>0
    <3> QED
      BY <2>1, <2>4, <3>1 DEF status
  <2>7. next \in Contract!Utt /\ Contract!Accept(next)
    BY <2>1, <2>5, <2>6 DEF Contract!Utt, Utt, Contract!Accept
  <2> QED
    BY <2>7 DEF Contract!Next
<1>2. CASE EmitSpeaking /\ ~closing /\ cur \notin spoke
  <2>1. /\ wpc = "speaking" /\ spoke' = spoke \union {cur}
        /\ UNCHANGED <<next, result>>
    BY <1>2 DEF EmitSpeaking
  <2>2. cur \in Utt /\ cur < next
    BY <2>1, <1>0 DEF ContractInv, WorkerHolds, Holding, OrderInv
  <2>3. Waiting(cur)
    BY <2>1 DEF Waiting, Unreported
  <2>4. result[cur] = "none"
    BY <1>2, <2>2, <2>3 DEF ContractInv, CountInv, EndInv
  <2>5. ASSUME NEW v \in Utt, v \in spoke, result[v] = "none" PROVE FALSE
    <3>1. v # cur /\ v < next
      BY <1>2, <2>5 DEF ContractInv, SpokeInv
    <3>2. ~InQueue(v)
      BY <1>0, <2>5 DEF InQueue, ContractInv, SpokeInv
    <3>3. ~InDrained(v)
      BY <2>5 DEF InDrained, ContractInv, EndInv
    <3>4. terminals[v] = 1
      BY <1>2, <3>1, <3>2, <3>3 DEF ContractInv, CountInv, Waiting, Unreported
    <3> QED
      BY <2>5, <3>4 DEF ContractInv, EndInv
  <2>6. status[cur] = "pending" /\ \A v \in Utt : status[v] # "speaking"
    BY <1>2, <2>2, <2>4, <2>5 DEF status, ContractInv, TypeOK, Outcomes
  <2>7. status' = [status EXCEPT ![cur] = "speaking"]
    BY <2>1, <2>2, <2>4 DEF status
  <2>8. cur \in Contract!Utt /\ Contract!Speaking(cur)
    BY <2>2, <2>6, <2>7 DEF Contract!Utt, Utt, Contract!Speaking
  <2> QED
    BY <2>8 DEF Contract!Next
<1>3. ASSUME NEW c \in Callers, CancelReport(c), ~closing PROVE Contract!Next
  <2>1. /\ EmitComplete(Head(drained[c]), "CANCELLED") /\ drained[c] # <<>>
        /\ UNCHANGED <<spoke, next>>
    BY <1>3 DEF CancelReport
  <2>2. Head(drained[c]) \in Range(drained[c])
    BY <2>1, TailAscending, QueueTypes DEF ContractInv, OrderInv
  <2>3. /\ Head(drained[c]) \in Utt /\ Head(drained[c]) < next
        /\ Waiting(Head(drained[c]))
    BY <2>2, QueueTypes DEF ContractInv, OrderInv, Waiting, InDrained
  <2> QED
    BY <1>3, <2>1, <2>3, EndContract DEF Outcomes
<1>4. CASE Report /\ ~closing
  <2>1. /\ wpc = "report" /\ EmitComplete(cur, outcome) /\ UNCHANGED <<spoke, next>>
    BY <1>4 DEF Report
  <2>2. cur \in Utt /\ cur < next /\ Waiting(cur)
    BY <2>1 DEF ContractInv, WorkerHolds, Holding, OrderInv, Waiting, Unreported
  <2>3. outcome \in Outcomes /\ (outcome = "SUCCEEDED" => cur \in spoke)
    BY <2>1 DEF ContractInv, EndInv, TypeOK
  <2> QED
    BY <1>4, <2>1, <2>2, <2>3, EndContract
<1>5. CASE /\ \A c \in Callers : ~Enqueue(c) /\ ~(CancelReport(c) /\ ~closing)
           /\ ~(Report /\ ~closing) /\ ~(EmitSpeaking /\ ~closing /\ cur \notin spoke)
  <2>1. UNCHANGED <<next, spoke, result>>
    <3>1. CASE \E c \in Callers : Call(c) \/ Continue(c)
      BY <1>5, <3>1 DEF Call, Speak, StreamStart, StreamWrite, StreamFinish, Cancel,
         Close, CancelBegin, Continue, SignalSpeech, CancelTake, CancelAgain,
         CancelReport, CancelReturn, CloseIdle, CloseStop, CloseJoin, EmitComplete
    <3>2. CASE Worker
      <4>1. CASE EmitSpeaking
        BY <1>5, <4>1 DEF EmitSpeaking
      <4>2. CASE Report
        BY <1>5, <4>2 DEF Report, EmitComplete
      <4> QED
        BY <3>2, <4>1, <4>2 DEF Worker, WorkerExit, WorkerWake, Pop, PopNothing,
           Synthesize, PlayOpen, PlayStarted, PlayEnded, PlayCleanup, Settle, Release,
           SignalIdle
    <3>3. CASE Device \/ UNCHANGED vars
      BY <3>3 DEF Device, DeviceEnd, DeviceRead, DeviceStarted, vars
    <3> QED
      BY <3>1, <3>2, <3>3 DEF Next
  <2> QED
    BY <2>1 DEF status
<1> QED
  BY <1>1, <1>2, <1>3, <1>4, <1>5

\* Queue, worker, cancel and close implement what voice_core.h promises of every
\* utterance, for any number of callers and utterances: one speaks at a time,
\* SPEAKING comes before a successful end, and nothing after the end.
THEOREM SpeechKeepsContract == Spec => ImplementsContract
<1>1. Init => Contract!Init
  <2> SUFFICES ASSUME Init PROVE Contract!Init
    OBVIOUS
  <2>1. status = [u \in Utt |-> "new"]
    BY DEF Init, status, Utt
  <2> QED
    BY <2>1 DEF Contract!Init, Contract!Utt, Utt
<1>2. ContractInv /\ [Next]_vars => [Contract!Next]_status
  BY ContractStep
<1>3. TypeOK /\ WorkerHolds /\ IdleInv /\ OrderInv /\ CountInv /\ SpokeInv /\ EndInv
        => ContractInv
  BY DEF ContractInv
<1> QED
  BY <1>1, <1>2, <1>3, TypeCorrect, IdleInvariant, OrderInvariant, CountInvariant,
     SpokeInvariant, EndInvariant, PTL DEF Spec, ImplementsContract, Contract!Spec

-----------------------------------------------------------------------------
(* A cancel of the only caller ends nothing that was accepted after it.     *)

\* The application calls the API from its worker alone.
OneCaller == \A c, d \in Callers : c = d

\* Whatever a cancel has marked, set or taken is not later than the mark, which
\* does not fall behind the queue until the caller is out of cancel and close.
StaleInv ==
  /\ \A c \in Callers :
       /\ cpc[c] \notin {"ready", "signal"} => cancelMark = next - 1
       /\ \A u \in Range(drained[c]) : u <= cancelMark
  /\ cancelMark < next
  /\ stopEvent => \E c \in Callers : cpc[c] \in {"join", "closed"}
  /\ cancelEvent => cur <= cancelMark
  /\ \A u \in Alive : stream[u].cancelled => u <= cancelMark
  /\ wpc \notin {"cleanup", "settle", "report", "release"} => outcome = "none"
  /\ outcome = "CANCELLED" => cur <= cancelMark
  /\ NoStaleCancel

\* Free keeps the streams it leaves.
LEMMA FreeKeeps ==
  ASSUME NEW us
  PROVE  /\ DOMAIN Free(us) \subseteq Alive
         /\ \A u \in DOMAIN Free(us) : Free(us)[u] = stream[u]
BY DEF Free, Restrict, Alive

\* A report of what is not later than the mark.
LEMMA StaleEmit ==
  ASSUME TypeOK, NoStaleCancel, NEW u \in Utt, NEW o \in Outcomes, EmitComplete(u, o),
         o = "CANCELLED" => u <= cancelMark, cancelMark' = cancelMark
  PROVE  NoStaleCancel'
BY DEF EmitComplete, NoStaleCancel, TypeOK

LEMMA StaleCalls ==
  ASSUME OneCaller, TypeOK, OrderInv, StaleInv, NEW c \in Callers, Call(c)
  PROVE  StaleInv'
<1> USE DEF shared, events, heap, worker, callers, told
<1>0. next \in Nat /\ cur \in Nat /\ cancelMark \in Nat /\ Alive \subseteq Nat
  BY DEF TypeOK, Utt
<1>1. cpc[c] = "ready" /\ \A d \in Callers : d = c
  BY DEF OneCaller, Call, Speak, StreamStart, StreamWrite, StreamFinish, Cancel, Close,
     CancelBegin, Enqueue, CanCall
<1>2. UNCHANGED <<cur, wpc, outcome, drained, result, stopEvent>>
  BY DEF Call, Speak, StreamStart, StreamWrite, StreamFinish, Cancel, Close,
     CancelBegin, Enqueue
<1>3. CASE Enqueue(c)
  <2>1. /\ next' = next + 1 /\ UNCHANGED <<cancelMark, cancelEvent>>
        /\ cpc' = [cpc EXCEPT ![c] = "signal"]
    BY <1>3 DEF Enqueue
  <2>2. \A u \in Alive' : stream'[u].cancelled => u <= cancelMark
    <3>1. CASE UNCHANGED stream
      BY <3>1 DEF StaleInv, Alive
    <3>2. ASSUME NEW n \in 1..RingCap, stream' = Alloc(next, Written(Created, n))
          PROVE  \A u \in Alive' : stream'[u].cancelled => u <= cancelMark
      BY <3>2 DEF Alloc, Alive, Written, Created, StaleInv
    <3> QED
      BY <1>3, <3>1, <3>2 DEF Call, Speak, StreamStart, StreamWrite, StreamFinish,
         Cancel, Close, CancelBegin, Enqueue
  <2>3. cpc' \in [Callers -> CallerPc] /\ cpc'[c] = "signal" /\ ~stopEvent
    BY <1>1, <2>1 DEF TypeOK, StaleInv, CallerPc
  <2> QED
    BY <1>0, <1>1, <1>2, <2>1, <2>2, <2>3 DEF StaleInv, NoStaleCancel
<1>4. CASE StreamWrite(c) \/ StreamFinish(c)
  <2>1. UNCHANGED <<next, cancelMark, cancelEvent, cpc>>
    BY <1>4 DEF StreamWrite, StreamFinish
  <2>2. \A u \in Alive' : u \in Alive /\ stream'[u].cancelled = stream[u].cancelled
    <3>1. \A s \in Stream : /\ \A n \in 1..RingCap : Written(s, n).cancelled = s.cancelled
                            /\ Finished(s).cancelled = s.cancelled
      BY DEF Stream, Written, Finished
    <3>2. \A u \in Alive : stream[u] \in Stream
      BY DEF TypeOK
    <3> QED
      BY <1>4, <3>1, <3>2 DEF StreamWrite, StreamFinish, Alive
  <2> QED
    BY <1>2, <2>1, <2>2 DEF StaleInv, NoStaleCancel
<1>5. CASE CancelBegin(c)
  <2>1. /\ cancelMark' = next - 1 /\ UNCHANGED <<next, stream>>
        /\ cpc' = [cpc EXCEPT ![c] = "take"]
    BY <1>5 DEF CancelBegin
  <2>2. cancelMark <= cancelMark' /\ cur <= cancelMark' /\ cancelMark' \in Int
    BY <1>0, <2>1 DEF StaleInv, OrderInv
  <2>3. /\ \A u \in Alive' : u \in Alive /\ u \in Nat /\ stream'[u] = stream[u]
        /\ \A u \in Range(drained[c]) : u \in Nat /\ u <= cancelMark
    BY <1>0, <2>1, QueueTypes DEF StaleInv, Alive
  <2>4. \A u \in Nat : u <= cancelMark => u <= cancelMark'
    BY <1>0, <2>2
  <2>5. /\ \A u \in Alive' : stream'[u].cancelled => u <= cancelMark'
        /\ \A u \in Range(drained[c]) : u <= cancelMark'
    BY <2>3, <2>4 DEF StaleInv
  <2>6. NoStaleCancel'
    BY <1>0, <1>2, <2>4, QueueTypes DEF StaleInv, NoStaleCancel
  <2>7. ~stopEvent /\ \A d \in Callers : drained'[d] = drained[c]
    BY <1>1, <1>2 DEF StaleInv
  <2> QED
    BY <1>0, <1>1, <1>2, <2>1, <2>2, <2>5, <2>6, <2>7 DEF StaleInv
<1> QED
  BY <1>3, <1>4, <1>5 DEF Call, Speak, StreamStart, Cancel, Close

LEMMA StaleContinue ==
  ASSUME OneCaller, TypeOK, OrderInv, OwnerInv, StaleInv, NEW c \in Callers, Continue(c)
  PROVE  StaleInv'
<1> USE DEF shared, events, heap, worker, callers, told
<1>0. next \in Nat /\ cur \in Nat /\ cancelMark \in Nat /\ Alive \subseteq Nat
  BY DEF TypeOK, Utt
<1>1. \A d \in Callers : d = c
  BY DEF OneCaller
<1>2. UNCHANGED <<next, cancelMark, cur, wpc, outcome>>
  BY DEF Continue, SignalSpeech, CancelTake, CancelAgain, CancelReport, CancelReturn,
     CloseIdle, CloseStop, CloseJoin
<1>3. CASE CancelTake(c)
  <2>1. /\ cpc[c] = "take" /\ cpc' = [cpc EXCEPT ![c] = "recancel"]
        /\ drained' = [drained EXCEPT ![c] = queue]
        /\ UNCHANGED <<cancelEvent, stopEvent, result>>
        /\ stream' \in {stream, [stream EXCEPT ![pcm] = Cancelled(@)]}
    BY <1>3 DEF CancelTake
  <2>2. cancelMark = next - 1 /\ ~stopEvent
    BY <1>1, <2>1 DEF StaleInv
  <2>3. \A u \in Range(queue) : u <= cancelMark
    BY <1>0, <2>2, QueueTypes DEF OrderInv, Utt
  <2>4. \A u \in Alive' : stream'[u].cancelled => u <= cancelMark
    <3>1. CASE stream' = stream
      BY <3>1 DEF StaleInv, Alive
    <3>2. CASE stream' = [stream EXCEPT ![pcm] = Cancelled(@)]
      <4>1. pcm \in Alive => pcm < next
        BY <1>0 DEF OwnerInv, TypeOK, Utt
      <4> QED
        BY <1>0, <2>2, <3>2, <4>1 DEF StaleInv, Alive
    <3> QED
      BY <2>1, <3>1, <3>2
  <2>5. cpc'[c] = "recancel" /\ drained'[c] = queue
    BY <2>1 DEF TypeOK
  <2> QED
    BY <1>1, <1>2, <2>1, <2>2, <2>3, <2>4, <2>5 DEF StaleInv, NoStaleCancel
<1>4. CASE CancelReport(c)
  <2> DEFINE h == Head(drained[c])
  <2>1. /\ EmitComplete(h, "CANCELLED") /\ drained[c] # <<>>
        /\ drained' = [drained EXCEPT ![c] = Tail(@)] /\ stream' = Free({h})
        /\ UNCHANGED <<cpc, cancelEvent, stopEvent>>
    BY <1>4 DEF CancelReport
  <2>2. drained'[c] = Tail(drained[c])
    BY <2>1 DEF TypeOK
  <2>3. Range(drained'[c]) \subseteq Range(drained[c]) /\ h \in Range(drained[c])
    BY <2>1, <2>2, TailAscending, QueueTypes DEF OrderInv
  <2>4. h \in Utt /\ h <= cancelMark
    BY <2>3, QueueTypes DEF StaleInv
  <2>5. NoStaleCancel'
    BY <1>2, <2>1, <2>4, StaleEmit DEF StaleInv, Outcomes
  <2>6. \A u \in Alive' : stream'[u].cancelled => u <= cancelMark
    BY <2>1, FreeKeeps DEF Alive, StaleInv
  <2>7. \A d \in Callers : \A u \in Range(drained'[d]) : u <= cancelMark
    BY <1>1, <2>3 DEF StaleInv
  <2> QED
    BY <1>2, <2>1, <2>5, <2>6, <2>7 DEF StaleInv
<1>5. CASE CancelAgain(c) \/ CloseStop(c)
  <2>1. cpc[c] \in {"recancel", "stop"} /\ cpc'[c] \notin {"ready", "signal"}
    BY <1>5 DEF CancelAgain, CloseStop, TypeOK
  <2>2. cancelMark = next - 1 /\ cur <= cancelMark
    BY <1>0, <2>1 DEF StaleInv, OrderInv
  <2>3. stopEvent' => cpc'[c] = "join"
    BY <1>1, <1>5 DEF CancelAgain, CloseStop, StaleInv, TypeOK
  <2>4. UNCHANGED <<drained, stream, result>>
    BY <1>5 DEF CancelAgain, CloseStop
  <2> QED
    BY <1>1, <1>2, <2>1, <2>2, <2>3, <2>4 DEF StaleInv, NoStaleCancel, Alive
<1>6. CASE SignalSpeech(c) \/ CancelReturn(c) \/ CloseIdle(c)
  BY <1>1, <1>2, <1>6 DEF SignalSpeech, CancelReturn, CloseIdle, StaleInv, NoStaleCancel,
     Alive, TypeOK
<1>7. CASE CloseJoin(c)
  <2>1. /\ cpc[c] = "join" /\ cpc' = [cpc EXCEPT ![c] = "closed"]
        /\ UNCHANGED <<drained, cancelEvent, stopEvent, result>>
        /\ stream' = Free(Range(queue))
    BY <1>7 DEF CloseJoin
  <2>2. \A u \in Alive' : stream'[u].cancelled => u <= cancelMark
    BY <2>1, FreeKeeps DEF Alive, StaleInv
  <2>3. cpc'[c] = "closed"
    BY <2>1 DEF TypeOK
  <2> QED
    BY <1>1, <1>2, <2>1, <2>2, <2>3 DEF StaleInv, NoStaleCancel
<1> QED
  BY <1>3, <1>4, <1>5, <1>6, <1>7 DEF Continue

LEMMA StaleWorker ==
  ASSUME OneCaller, TypeOK, WorkerHolds, OrderInv, OwnerInv, StaleInv, Worker \/ Device
  PROVE  StaleInv'
<1> USE DEF shared, events, heap, worker, callers, told
<1>0. next \in Nat /\ cur \in Nat /\ cancelMark \in Nat /\ Alive \subseteq Nat
  BY DEF TypeOK, Utt
<1>1. UNCHANGED <<cpc, drained, next, cancelMark, stopEvent>>
  BY DEF Worker, WorkerExit, WorkerWake, Pop, PopNothing, Synthesize, PlayOpen,
     PlayStarted, PlayEnded, EmitSpeaking, PlayCleanup, Settle, Report, Release,
     SignalIdle, Device, DeviceEnd, DeviceRead, DeviceStarted
<1>2. stopEvent => cur <= cancelMark
  BY <1>0 DEF StaleInv, OrderInv
<1>3. CASE Pop
  BY <1>1, <1>3 DEF Pop, StaleInv, NoStaleCancel, Alive
<1>4. CASE Synthesize
  <2>1. \A u \in Alive' : stream'[u].cancelled => u <= cancelMark
    <3>1. CASE UNCHANGED stream
      BY <3>1 DEF StaleInv, Alive
    <3>2. ASSUME NEW n \in 1..RingCap, stream' = Alloc(cur, Finished(Written(Created, n)))
          PROVE  \A u \in Alive' : stream'[u].cancelled => u <= cancelMark
      BY <3>2 DEF Alloc, Alive, Finished, Written, Created, StaleInv
    <3> QED
      BY <1>4, <3>1, <3>2 DEF Synthesize
  <2>2. /\ UNCHANGED <<cur, cancelEvent, result>>
        /\ wpc' \in {"settle", "open"} /\ (wpc' = "open" => outcome' = "none")
        /\ outcome' = "CANCELLED" => cur <= cancelMark
    BY <1>2, <1>4 DEF Synthesize, StaleInv
  <2> QED
    BY <1>1, <2>1, <2>2 DEF StaleInv, NoStaleCancel
<1>5. CASE PlayOpen \/ PlayStarted \/ PlayEnded
  <2>1. wpc \in {"open", "playing"} => cur \in Alive
    BY DEF OwnerInv
  <2>2. wpc \in {"open", "playing"} /\ stream[cur].cancelled => cur <= cancelMark
    BY <2>1 DEF StaleInv
  <2>3. /\ UNCHANGED <<cur, cancelEvent, result, stream>>
        /\ wpc' # "cleanup" => outcome' = "none"
        /\ outcome' = "CANCELLED" => cur <= cancelMark
    BY <1>2, <1>5, <2>2 DEF PlayOpen, PlayStarted, PlayEnded, CancelPending, StaleInv
  <2> QED
    BY <1>1, <2>3 DEF StaleInv, NoStaleCancel, Alive
<1>6. CASE PlayCleanup
  <2>1. \A u \in Alive' : stream'[u].cancelled => u <= cancelMark
    BY <1>6, FreeKeeps DEF PlayCleanup, Alive, StaleInv
  <2>2. /\ UNCHANGED <<cur, cancelEvent, result>> /\ wpc' = "settle"
        /\ outcome' = "CANCELLED" => outcome = "CANCELLED"
    BY <1>6 DEF PlayCleanup
  <2> QED
    BY <1>1, <2>1, <2>2 DEF StaleInv, NoStaleCancel
<1>7. CASE Report
  <2>1. NoStaleCancel'
    <3>1. CASE outcome \in Outcomes
      BY <1>1, <1>7, <3>1, StaleEmit DEF Report, StaleInv, WorkerHolds, Holding
    <3>2. CASE outcome = "none"
      BY <1>1, <1>7, <3>2 DEF Report, EmitComplete, StaleInv, NoStaleCancel, TypeOK
    <3> QED
      BY <3>1, <3>2 DEF TypeOK
  <2> QED
    BY <1>1, <1>7, <2>1 DEF Report, StaleInv, Alive
<1>8. CASE Release
  <2>1. \A u \in Alive' : stream'[u].cancelled => u <= cancelMark
    BY <1>8, FreeKeeps DEF Release, Alive, StaleInv
  <2>2. /\ UNCHANGED <<cancelEvent, result>> /\ outcome' = "none" /\ cur' = 0
    BY <1>8 DEF Release
  <2> QED
    BY <1>0, <1>1, <2>1, <2>2 DEF StaleInv, NoStaleCancel
<1>9. CASE Device
  <2>1. \A s \in Stream : /\ \A n \in 1..RingCap : Read(s, n).cancelled = s.cancelled
                          /\ Ended(s).cancelled = s.cancelled
                          /\ FirstAudio(s).cancelled = s.cancelled
    BY DEF Stream, Read, Ended, FirstAudio
  <2>2. cur \in Alive /\ \A u \in Alive : stream[u] \in Stream
    BY <1>9 DEF Device, DeviceEnd, DeviceRead, DeviceStarted, OwnerInv, TypeOK
  <2>3. \A u \in Alive' : u \in Alive /\ stream'[u].cancelled = stream[u].cancelled
    BY <1>9, <2>1, <2>2 DEF Device, DeviceEnd, DeviceRead, DeviceStarted, Alive
  <2>4. UNCHANGED <<cur, wpc, outcome, cancelEvent, result>>
    BY <1>9 DEF Device, DeviceEnd, DeviceRead, DeviceStarted
  <2> QED
    BY <1>1, <2>3, <2>4 DEF StaleInv, NoStaleCancel
<1>10. CASE WorkerExit \/ WorkerWake \/ PopNothing \/ EmitSpeaking \/ Settle \/ SignalIdle
  BY <1>1, <1>10 DEF WorkerExit, WorkerWake, PopNothing, EmitSpeaking, Settle, SignalIdle,
     StaleInv, NoStaleCancel, Alive
<1> QED
  BY <1>3, <1>4, <1>5, <1>6, <1>7, <1>8, <1>9, <1>10 DEF Worker

\* As long as one thread calls the API, as the application does, no utterance that
\* was accepted after the latest cancel ends CANCELLED.
THEOREM OneCallerCancelsNoLater ==
  ASSUME OneCaller
  PROVE  Spec => []NoStaleCancel
<1>1. Init => StaleInv
  <2>1. Init => \A c \in Callers : Range(drained[c]) = {}
    BY RangeEmpty DEF Init
  <2> QED
    BY <2>1 DEF Init, StaleInv, NoStaleCancel, Alive
<1>2. TypeOK /\ WorkerHolds /\ OrderInv /\ OwnerInv /\ StaleInv /\ [Next]_vars => StaleInv'
  <2> SUFFICES ASSUME TypeOK, WorkerHolds, OrderInv, OwnerInv, StaleInv, [Next]_vars
               PROVE  StaleInv'
    OBVIOUS
  <2>1. CASE UNCHANGED vars
    BY <2>1 DEF vars, shared, events, heap, worker, callers, told, StaleInv,
       NoStaleCancel, Alive
  <2> QED
    BY <2>1, StaleCalls, StaleContinue, StaleWorker DEF Next
<1>3. StaleInv => NoStaleCancel
  BY DEF StaleInv
<1> QED
  BY <1>1, <1>2, <1>3, TypeCorrect, OrderInvariant, OwnerInvariant, PTL DEF Spec

=============================================================================
