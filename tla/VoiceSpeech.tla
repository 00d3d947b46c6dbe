---------------------------- MODULE VoiceSpeech ----------------------------
(***************************************************************************)
(* The speech half of the voice core (src/core/voice_core.c): the queue of *)
(* accepted utterances, the speech worker that plays them, the PCM stream  *)
(* the agent feeds, cancel and close.                                      *)
(*                                                                         *)
(* Threads: the callers of the API, the speech worker, and the audio       *)
(* device whose data callback reads the stream being played.  A step is    *)
(* what one thread does between two points where another can be observed:  *)
(* a critical section of speech_lock is one step, and so is each SetEvent, *)
(* each event callback and each wait outside it.                           *)
(*                                                                         *)
(* Utterances are numbered in the order the queue accepts them.  A text    *)
(* utterance gets its stream from the Piper synthesis, written and final;  *)
(* a streamed one is written and finished by the caller while it plays.    *)
(* dio_voice_start has returned: both workers run.                         *)
(***************************************************************************)
EXTENDS Naturals, Sequences, FiniteSets, Functions

CONSTANTS Callers,      \* threads that call the API
          MaxUtt,       \* bound: utterances accepted in a behaviour
          QueueLimit,   \* DIO_SPEECH_QUEUE_LIMIT
          RingCap       \* frames a stream's ring holds

ASSUME CallersAssumption == IsFiniteSet(Callers)
ASSUME BoundsAssumption == /\ MaxUtt \in Nat
                           /\ QueueLimit \in Nat \ {0}
                           /\ RingCap \in Nat \ {0}

INSTANCE PcmStream

VARIABLES
  \* shared, under speech_lock
  queue,        \* speech_head .. speech_tail
  pcm,          \* the utterance pcm_stream belongs to, NoUtt when NULL
  pcmActive,    \* pcm_stream_active
  active,       \* speech_active (also read without the lock)
  \* events
  cancelEvent, idleEvent, speechEvent, stopEvent,
  closing,      \* set once by dio_voice_close; emit checks it
  \* streams on the heap
  streamed,     \* utterances accepted by dio_voice_stream_start
  stream,       \* the allocated DioPcmStreams, by utterance
  dev,          \* playback device: "off", "on", "copied" (inside its callback)
  \* the speech worker
  wpc, cur, outcome, reported, queueEmpty,
  \* the callers
  cpc, drained, closer,
  \* what the callback has been told
  next,         \* number the next accepted utterance gets
  spoke,        \* utterances whose SPEAKING event was delivered
  terminals,    \* SPEECH_COMPLETE events delivered, per utterance
  result,       \* outcome of the last of them
  cancelMark    \* the last utterance accepted before the latest cancel

shared == <<queue, pcm, pcmActive, active>>
events == <<cancelEvent, idleEvent, speechEvent, stopEvent>>
heap   == <<streamed, stream, dev>>
worker == <<wpc, cur, outcome, reported, queueEmpty>>
callers == <<cpc, drained, closer>>
told   == <<next, spoke, terminals, result, cancelMark>>
vars == <<shared, events, closing, heap, worker, callers, told>>

NoUtt == 0
Utt == 1..MaxUtt
Outcomes == {"SUCCEEDED", "CANCELLED", "FAILED"}

\* The utterances that have a stream, and what allocating and freeing does.
Alive == DOMAIN stream
Alloc(u, s) == [v \in Alive \union {u} |-> IF v = u THEN s ELSE stream[v]]
Free(us) == Restrict(stream, Alive \ us)

-----------------------------------------------------------------------------
Init ==
  /\ queue = <<>> /\ pcm = NoUtt /\ pcmActive = FALSE /\ active = FALSE
  /\ cancelEvent = FALSE /\ idleEvent = TRUE
  /\ speechEvent = FALSE /\ stopEvent = FALSE
  /\ closing = FALSE
  /\ streamed = {} /\ dev = "off"
  /\ stream = [u \in {} |-> Created]
  /\ wpc = "wait" /\ cur = NoUtt /\ outcome = "none"
  /\ reported = FALSE /\ queueEmpty = FALSE
  /\ cpc = [c \in Callers |-> "ready"]
  /\ drained = [c \in Callers |-> <<>>]
  /\ closer = {}
  /\ next = 1 /\ spoke = {} /\ cancelMark = 0
  /\ terminals = [u \in Utt |-> 0]
  /\ result = [u \in Utt |-> "none"]

\* dio_voice_emit of a SPEECH_COMPLETE: nothing is delivered once closing is set.
EmitComplete(u, o) ==
  IF closing
    THEN UNCHANGED <<terminals, result>>
    ELSE /\ terminals' = [terminals EXCEPT ![u] = @ + 1]
         /\ result' = [result EXCEPT ![u] = o]

-----------------------------------------------------------------------------
(* The API.  A call that returns NOT_READY, BUSY or INVALID_ARGUMENT leaves *)
(* the state as it is and is not an action.                                 *)

\* A caller is outside the API, and nobody has begun close: the owner
\* serializes close() against every other call.
CanCall(c) == cpc[c] = "ready" /\ closer = {}

\* Mutant: the utterance is put at the head of the queue.
EnqueueAtHead(c) ==
  /\ CanCall(c)
  /\ next \in Utt
  /\ Len(queue) < QueueLimit
  /\ queue' = <<next>> \o queue
  /\ next' = next + 1
  /\ idleEvent' = FALSE
  /\ cpc' = [cpc EXCEPT ![c] = "signal"]
  /\ UNCHANGED <<active, cancelEvent, speechEvent, stopEvent, closing, dev,
                 worker, drained, closer, spoke, terminals, result, cancelMark>>

Enqueue(c) ==
  /\ CanCall(c)
  /\ next \in Utt
  /\ Len(queue) < QueueLimit
  /\ queue' = Append(queue, next)
  /\ next' = next + 1
  /\ idleEvent' = FALSE
  /\ cpc' = [cpc EXCEPT ![c] = "signal"]
  /\ UNCHANGED <<active, cancelEvent, speechEvent, stopEvent, closing, dev,
                 worker, drained, closer, spoke, terminals, result, cancelMark>>

Speak(c) ==
  /\ Enqueue(c)
  /\ UNCHANGED <<pcm, pcmActive, streamed, stream>>

\* The stream is created and given its first samples before the lock; it is
\* destroyed again when the queue refuses it.
StreamStart(c) ==
  /\ Enqueue(c)
  /\ pcm = NoUtt
  /\ \E n \in 1..RingCap : stream' = Alloc(next, Written(Created, n))
  /\ streamed' = streamed \union {next}
  /\ pcm' = next
  /\ pcmActive' = FALSE

\* Mutant: the worker is not woken.
SignalSpeechNever(c) ==
  /\ cpc[c] = "signal"
  /\ UNCHANGED speechEvent
  /\ cpc' = [cpc EXCEPT ![c] = "ready"]
  /\ UNCHANGED <<shared, cancelEvent, idleEvent, stopEvent, closing, heap,
                 worker, drained, closer, told>>

\* SetEvent(speech_event), after the lock.
SignalSpeech(c) ==
  /\ cpc[c] = "signal"
  /\ speechEvent' = TRUE
  /\ cpc' = [cpc EXCEPT ![c] = "ready"]
  /\ UNCHANGED <<shared, cancelEvent, idleEvent, stopEvent, closing, heap,
                 worker, drained, closer, told>>

StreamWrite(c) ==
  /\ CanCall(c)
  /\ pcm # NoUtt
  /\ \E n \in 1..RingCap :
       /\ CanWrite(stream[pcm], n)
       /\ stream' = [stream EXCEPT ![pcm] = Written(@, n)]
  /\ UNCHANGED <<shared, events, closing, streamed, dev, worker,
                 callers, told>>

StreamFinish(c) ==
  /\ CanCall(c)
  /\ pcm # NoUtt
  /\ CanFinish(stream[pcm])
  /\ stream' = [stream EXCEPT ![pcm] = Finished(@)]
  /\ UNCHANGED <<shared, events, closing, streamed, dev, worker,
                 callers, told>>

-----------------------------------------------------------------------------
(* dio_voice_cancel, and dio_voice_close which begins with it.              *)

CancelBegin(c) ==
  /\ CanCall(c)
  /\ cancelEvent' = TRUE
  /\ cancelMark' = next - 1
  /\ cpc' = [cpc EXCEPT ![c] = "take"]
  /\ UNCHANGED <<shared, idleEvent, speechEvent, stopEvent, closing, heap,
                 worker, drained, next, spoke, terminals, result>>

Cancel(c) == CancelBegin(c) /\ UNCHANGED closer

Close(c) ==
  /\ CancelBegin(c)
  /\ \A d \in Callers : cpc[d] = "ready"
  /\ closer' = {c}

\* Mutant: the queue is copied and not emptied.
CancelTakeKeepsQueue(c) ==
  /\ cpc[c] = "take"
  /\ drained' = [drained EXCEPT ![c] = queue]
  /\ UNCHANGED queue
  /\ IF pcm = NoUtt
       THEN UNCHANGED stream
       ELSE stream' = [stream EXCEPT ![pcm] = Cancelled(@)]
  /\ pcm' = IF pcmActive THEN pcm ELSE NoUtt
  /\ idleEvent' = ~active
  /\ cpc' = [cpc EXCEPT ![c] = "recancel"]
  /\ UNCHANGED <<pcmActive, active, cancelEvent, speechEvent, stopEvent,
                 closing, streamed, dev, worker, closer, told>>

\* Mutant: speech_idle_event is set while an utterance is played.
CancelTakeAlwaysIdle(c) ==
  /\ cpc[c] = "take"
  /\ drained' = [drained EXCEPT ![c] = queue]
  /\ queue' = <<>>
  /\ IF pcm = NoUtt
       THEN UNCHANGED stream
       ELSE stream' = [stream EXCEPT ![pcm] = Cancelled(@)]
  /\ pcm' = IF pcmActive THEN pcm ELSE NoUtt
  /\ idleEvent' = TRUE
  /\ cpc' = [cpc EXCEPT ![c] = "recancel"]
  /\ UNCHANGED <<pcmActive, active, cancelEvent, speechEvent, stopEvent,
                 closing, streamed, dev, worker, closer, told>>

\* Under speech_lock: the whole queue becomes the caller's, the stream is
\* cancelled, and forgotten when it is not the one being played.
CancelTake(c) ==
  /\ cpc[c] = "take"
  /\ drained' = [drained EXCEPT ![c] = queue]
  /\ queue' = <<>>
  /\ IF pcm = NoUtt
       THEN UNCHANGED stream
       ELSE stream' = [stream EXCEPT ![pcm] = Cancelled(@)]
  /\ pcm' = IF pcmActive THEN pcm ELSE NoUtt
  /\ idleEvent' = ~active
  /\ cpc' = [cpc EXCEPT ![c] = "recancel"]
  /\ UNCHANGED <<pcmActive, active, cancelEvent, speechEvent, stopEvent,
                 closing, streamed, dev, worker, closer, told>>

\* Mutant: the second SetEvent is missing.
CancelAgainNoEvent(c) ==
  /\ cpc[c] = "recancel"
  /\ UNCHANGED cancelEvent
  /\ cpc' = [cpc EXCEPT ![c] = "report"]
  /\ UNCHANGED <<shared, idleEvent, speechEvent, stopEvent, closing, heap,
                 worker, drained, closer, told>>

\* The worker may have popped an utterance, and reset the event, in between.
CancelAgain(c) ==
  /\ cpc[c] = "recancel"
  /\ cancelEvent' = TRUE
  /\ cpc' = [cpc EXCEPT ![c] = "report"]
  /\ UNCHANGED <<shared, idleEvent, speechEvent, stopEvent, closing, heap,
                 worker, drained, closer, told>>

\* Mutant: only the first utterance drained is reported.
CancelReportFirst(c) ==
  /\ cpc[c] = "report"
  /\ drained[c] # <<>>
  /\ EmitComplete(Head(drained[c]), "CANCELLED")
  /\ stream' = Free({Head(drained[c])})
  /\ drained' = [drained EXCEPT ![c] = <<>>]
  /\ UNCHANGED <<shared, events, closing, streamed, dev, worker, cpc, closer,
                 next, spoke, cancelMark>>

CancelReport(c) ==
  /\ cpc[c] = "report"
  /\ drained[c] # <<>>
  /\ EmitComplete(Head(drained[c]), "CANCELLED")
  /\ stream' = Free({Head(drained[c])})
  /\ drained' = [drained EXCEPT ![c] = Tail(@)]
  /\ UNCHANGED <<shared, events, closing, streamed, dev, worker, cpc, closer,
                 next, spoke, cancelMark>>

CancelReturn(c) ==
  /\ cpc[c] = "report"
  /\ drained[c] = <<>>
  /\ cpc' = [cpc EXCEPT ![c] = IF c \in closer THEN "closing" ELSE "ready"]
  /\ UNCHANGED <<shared, events, closing, heap, worker, drained, closer, told>>

\* Mutant: close does not wait for speech_idle_event.
CloseIdleNoWait(c) ==
  /\ cpc[c] = "closing"
  /\ closing' = TRUE
  /\ cpc' = [cpc EXCEPT ![c] = "stop"]
  /\ UNCHANGED <<shared, events, heap, worker, drained, closer, told>>

\* The wait for speech_idle_event (manual reset), then closing.
CloseIdle(c) ==
  /\ cpc[c] = "closing"
  /\ idleEvent
  /\ closing' = TRUE
  /\ cpc' = [cpc EXCEPT ![c] = "stop"]
  /\ UNCHANGED <<shared, events, heap, worker, drained, closer, told>>

CloseStop(c) ==
  /\ cpc[c] = "stop"
  /\ stopEvent' = TRUE /\ speechEvent' = TRUE /\ cancelEvent' = TRUE
  /\ cpc' = [cpc EXCEPT ![c] = "join"]
  /\ UNCHANGED <<shared, idleEvent, closing, heap, worker, drained, closer,
                 told>>

\* Mutant: close does not join the speech thread.
CloseJoinNoWait(c) ==
  /\ cpc[c] = "join"
  /\ stream' = Free(Range(queue))
  /\ queue' = <<>>
  /\ cpc' = [cpc EXCEPT ![c] = "closed"]
  /\ UNCHANGED <<pcm, pcmActive, active, events, closing, streamed, dev,
                 worker, drained, closer, told>>

\* The join of the speech thread; what the queue still holds is freed.
CloseJoin(c) ==
  /\ cpc[c] = "join"
  /\ wpc = "exited"
  /\ stream' = Free(Range(queue))
  /\ queue' = <<>>
  /\ cpc' = [cpc EXCEPT ![c] = "closed"]
  /\ UNCHANGED <<pcm, pcmActive, active, events, closing, streamed, dev,
                 worker, drained, closer, told>>
-----------------------------------------------------------------------------
(* The speech worker.                                                       *)

\* stop_event comes first in the wait; speech_event is auto-reset.
WorkerExit ==
  /\ wpc = "wait"
  /\ stopEvent
  /\ wpc' = "exited"
  /\ UNCHANGED <<shared, events, closing, heap, cur, outcome, reported,
                 queueEmpty, callers, told>>

WorkerWake ==
  /\ wpc = "wait"
  /\ ~stopEvent
  /\ speechEvent
  /\ speechEvent' = FALSE
  /\ wpc' = "pop"
  /\ UNCHANGED <<shared, cancelEvent, idleEvent, stopEvent, closing, heap, cur,
                 outcome, reported, queueEmpty, callers, told>>

\* Mutant: pcm_stream_active is not set.
PopForgetsOwner ==
  /\ wpc = "pop"
  /\ queue # <<>>
  /\ cur' = Head(queue)
  /\ queue' = Tail(queue)
  /\ cancelEvent' = FALSE
  /\ active' = TRUE
  /\ UNCHANGED pcmActive
  /\ wpc' = IF Head(queue) \in streamed THEN "open" ELSE "synthesize"
  /\ UNCHANGED <<pcm, idleEvent, speechEvent, stopEvent, closing, heap,
                 outcome, reported, queueEmpty, callers, told>>

\* Mutant: speech_cancel_event is not reset.
PopKeepsCancel ==
  /\ wpc = "pop"
  /\ queue # <<>>
  /\ cur' = Head(queue)
  /\ queue' = Tail(queue)
  /\ UNCHANGED cancelEvent
  /\ active' = TRUE
  /\ pcmActive' = (pcmActive \/ Head(queue) \in streamed)
  /\ wpc' = IF Head(queue) \in streamed THEN "open" ELSE "synthesize"
  /\ UNCHANGED <<pcm, idleEvent, speechEvent, stopEvent, closing, heap,
                 outcome, reported, queueEmpty, callers, told>>

\* dio_voice_speech_pop with an utterance in the queue.
Pop ==
  /\ wpc = "pop"
  /\ queue # <<>>
  /\ cur' = Head(queue)
  /\ queue' = Tail(queue)
  /\ cancelEvent' = FALSE
  /\ active' = TRUE
  /\ pcmActive' = (pcmActive \/ Head(queue) \in streamed)
  /\ wpc' = IF Head(queue) \in streamed THEN "open" ELSE "synthesize"
  /\ UNCHANGED <<pcm, idleEvent, speechEvent, stopEvent, closing, heap,
                 outcome, reported, queueEmpty, callers, told>>

PopNothing ==
  /\ wpc = "pop"
  /\ queue = <<>>
  /\ active' = FALSE
  /\ idleEvent' = TRUE
  /\ wpc' = "wait"
  /\ UNCHANGED <<queue, pcm, pcmActive, cancelEvent, speechEvent, stopEvent,
                 closing, heap, cur, outcome, reported, queueEmpty, callers,
                 told>>

\* dio_tts_speak_piper up to its dio_pcm_stream_play: the synthesis fails, or
\* sees the cancel, or yields a private stream that is written and finished.
Synthesize ==
  /\ wpc = "synthesize"
  /\ \/ /\ outcome' = "FAILED"
        /\ wpc' = "settle"
        /\ UNCHANGED stream
     \/ /\ cancelEvent \/ stopEvent
        /\ outcome' = "CANCELLED"
        /\ wpc' = "settle"
        /\ UNCHANGED stream
     \/ /\ \E n \in 1..RingCap :
             stream' = Alloc(cur, Finished(Written(Created, n)))
        /\ wpc' = "open"
        /\ UNCHANGED outcome
  /\ UNCHANGED <<shared, events, closing, streamed, dev, cur, reported,
                 queueEmpty, callers, told>>

\* dio_pcm_stream_play up to its wait loop.
PlayOpen ==
  /\ wpc = "open"
  /\ \/ /\ stream[cur].cancelled
        /\ outcome' = "CANCELLED"
        /\ wpc' = "cleanup"
        /\ UNCHANGED dev
     \/ /\ ~stream[cur].cancelled
        /\ outcome' = "FAILED"           \* no device
        /\ wpc' = "cleanup"
        /\ UNCHANGED dev
     \/ /\ ~stream[cur].cancelled
        /\ dev' = "on"
        /\ wpc' = "playing"
        /\ UNCHANGED outcome
  /\ UNCHANGED <<shared, events, closing, streamed, stream, cur, reported,
                 queueEmpty, callers, told>>

CancelPending == stream[cur].cancelled \/ cancelEvent \/ stopEvent
StartedPending == ~reported /\ stream[cur].started

\* WaitForMultipleObjects returns its lowest signalled handle:
\* started_event (until reported), terminal_event, cancel_event, stop_event.
PlayStarted ==
  /\ wpc = "playing"
  /\ StartedPending
  /\ IF CancelPending
       THEN /\ outcome' = "CANCELLED"
            /\ wpc' = "cleanup"
            /\ UNCHANGED reported
       ELSE /\ reported' = TRUE
            /\ wpc' = "speaking"
            /\ UNCHANGED outcome
  /\ UNCHANGED <<shared, events, closing, heap, cur, queueEmpty, callers, told>>

\* Mutant: the wait looks at terminal_event before started_event.
PlayEndedFirst ==
  /\ wpc = "playing"
  /\ \/ /\ stream[cur].terminal
        /\ outcome' = IF stream[cur].cancelled THEN "CANCELLED" ELSE "SUCCEEDED"
     \/ /\ ~stream[cur].terminal
        /\ cancelEvent \/ stopEvent
        /\ outcome' = "CANCELLED"
  /\ wpc' = "cleanup"
  /\ UNCHANGED <<shared, events, closing, heap, cur, reported, queueEmpty,
                 callers, told>>

PlayEnded ==
  /\ wpc = "playing"
  /\ ~StartedPending
  /\ \/ /\ stream[cur].terminal
        /\ outcome' = IF stream[cur].cancelled THEN "CANCELLED" ELSE "SUCCEEDED"
     \/ /\ ~stream[cur].terminal
        /\ cancelEvent \/ stopEvent
        /\ outcome' = "CANCELLED"
  /\ wpc' = "cleanup"
  /\ UNCHANGED <<shared, events, closing, heap, cur, reported, queueEmpty,
                 callers, told>>

\* dio_voice_pcm_started.
EmitSpeaking ==
  /\ wpc = "speaking"
  /\ spoke' = IF closing THEN spoke ELSE spoke \union {cur}
  /\ wpc' = "playing"
  /\ UNCHANGED <<shared, events, closing, heap, cur, outcome, reported,
                 queueEmpty, callers, next, terminals, result, cancelMark>>

\* The device is stopped (which may fail) and uninitialised once its callback
\* has returned; dio_tts_speak_piper then destroys its private stream.
PlayCleanup ==
  /\ wpc = "cleanup"
  /\ dev # "copied"
  /\ dev' = "off"
  /\ \/ UNCHANGED outcome
     \/ outcome = "SUCCEEDED" /\ outcome' = "FAILED"
  /\ stream' = IF cur \in streamed THEN stream ELSE Free({cur})
  /\ reported' = FALSE
  /\ wpc' = "settle"
  /\ UNCHANGED <<shared, events, closing, streamed, cur, queueEmpty, callers,
                 told>>

\* Mutant: pcm_stream is left pointing at the stream the worker destroys.
SettleKeepsStream ==
  /\ wpc = "settle"
  /\ UNCHANGED <<pcm, pcmActive>>
  /\ queueEmpty' = (queue = <<>>)
  /\ active' = (active /\ queue # <<>>)
  /\ wpc' = "report"
  /\ UNCHANGED <<queue, events, closing, heap, cur, outcome, reported, callers,
                 told>>

\* The critical section after the playback.
Settle ==
  /\ wpc = "settle"
  /\ IF pcm = cur
       THEN pcm' = NoUtt /\ pcmActive' = FALSE
       ELSE UNCHANGED <<pcm, pcmActive>>
  /\ queueEmpty' = (queue = <<>>)
  /\ active' = (active /\ queue # <<>>)
  /\ wpc' = "report"
  /\ UNCHANGED <<queue, events, closing, heap, cur, outcome, reported, callers,
                 told>>

Report ==
  /\ wpc = "report"
  /\ EmitComplete(cur, outcome)
  /\ wpc' = "release"
  /\ UNCHANGED <<shared, events, closing, heap, cur, outcome, reported,
                 queueEmpty, callers, next, spoke, cancelMark>>

Release ==
  /\ wpc = "release"
  /\ stream' = Free({cur})
  /\ cur' = NoUtt
  /\ outcome' = "none"
  /\ wpc' = IF queueEmpty THEN "idle"
            ELSE IF stopEvent THEN "exited" ELSE "pop"
  /\ UNCHANGED <<shared, events, closing, streamed, dev, reported, queueEmpty,
                 callers, told>>

\* Mutant: the worker does not set speech_idle_event.
SignalIdleNever ==
  /\ wpc = "idle"
  /\ UNCHANGED idleEvent
  /\ queueEmpty' = FALSE
  /\ wpc' = "wait"
  /\ UNCHANGED <<shared, cancelEvent, speechEvent, stopEvent, closing, heap,
                 cur, outcome, reported, callers, told>>

SignalIdle ==
  /\ wpc = "idle"
  /\ idleEvent' = (queue = <<>> /\ ~active)
  /\ queueEmpty' = FALSE
  /\ wpc' = "wait"
  /\ UNCHANGED <<shared, cancelEvent, speechEvent, stopEvent, closing, heap,
                 cur, outcome, reported, callers, told>>

-----------------------------------------------------------------------------
(* The playback device: dio_pcm_stream_callback on the stream of cur.       *)

DeviceEnd ==
  /\ dev = "on"
  /\ AtEnd(stream[cur])
  /\ stream' = [stream EXCEPT ![cur] = Ended(@)]
  /\ UNCHANGED <<shared, events, closing, streamed, dev, worker,
                 callers, told>>

DeviceRead ==
  /\ dev = "on"
  /\ \E n \in 1..RingCap :
       /\ CanRead(stream[cur], n)
       /\ stream' = [stream EXCEPT ![cur] = Read(@, n)]
  /\ dev' = "copied"
  /\ UNCHANGED <<shared, events, closing, streamed, worker, callers,
                 told>>

DeviceStarted ==
  /\ dev = "copied"
  /\ stream' = [stream EXCEPT ![cur] = FirstAudio(@)]
  /\ dev' = "on"
  /\ UNCHANGED <<shared, events, closing, streamed, worker, callers,
                 told>>

-----------------------------------------------------------------------------
\* What a caller does on its own initiative, and what it does once inside a call.
Call(c) == \/ Speak(c) \/ StreamStart(c) \/ StreamWrite(c) \/ StreamFinish(c)
           \/ Cancel(c) \/ Close(c)
Continue(c) == \/ SignalSpeech(c) \/ CancelTake(c) \/ CancelAgain(c)
               \/ CancelReport(c) \/ CancelReturn(c)
               \/ CloseIdle(c) \/ CloseStop(c) \/ CloseJoin(c)
Worker == \/ WorkerExit \/ WorkerWake \/ Pop \/ PopNothing \/ Synthesize
          \/ PlayOpen \/ PlayStarted \/ PlayEnded \/ EmitSpeaking
          \/ PlayCleanup \/ Settle \/ Report \/ Release \/ SignalIdle
Device == DeviceEnd \/ DeviceRead \/ DeviceStarted

Next == (\E c \in Callers : Call(c) \/ Continue(c)) \/ Worker \/ Device

\* Threads run; nobody is obliged to make another API call.
Fairness == /\ \A c \in Callers : WF_vars(Continue(c))
            /\ WF_vars(Worker)
            /\ WF_vars(Device)

Spec == Init /\ [][Next]_vars /\ Fairness
-----------------------------------------------------------------------------
(* Correctness.                                                             *)

CallerPc == {"ready", "signal", "take", "recancel", "report", "closing", "stop",
             "join", "closed"}
WorkerPc == {"wait", "pop", "synthesize", "open", "playing", "speaking",
             "cleanup", "settle", "report", "release", "idle", "exited"}

\* Every variable has its type.
TypeOK ==
  /\ queue \in Seq(Utt) /\ pcm \in Utt \union {NoUtt}
  /\ pcmActive \in BOOLEAN /\ active \in BOOLEAN
  /\ cancelEvent \in BOOLEAN /\ idleEvent \in BOOLEAN
  /\ speechEvent \in BOOLEAN /\ stopEvent \in BOOLEAN
  /\ closing \in BOOLEAN
  /\ streamed \in SUBSET Utt /\ Alive \in SUBSET Utt
  /\ stream \in [Alive -> Stream] /\ dev \in {"off", "on", "copied"}
  /\ wpc \in WorkerPc /\ cur \in Utt \union {NoUtt}
  /\ outcome \in Outcomes \union {"none"}
  /\ reported \in BOOLEAN /\ queueEmpty \in BOOLEAN
  /\ cpc \in [Callers -> CallerPc] /\ drained \in [Callers -> Seq(Utt)]
  /\ closer \in SUBSET Callers
  /\ next \in 1..(MaxUtt + 1) /\ spoke \in SUBSET Utt
  /\ terminals \in [Utt -> Nat] /\ result \in [Utt -> Outcomes \union {"none"}]
  /\ cancelMark \in 0..MaxUtt

InQueue(u) == u \in Range(queue)
InDrained(u) == \E c \in Callers : u \in Range(drained[c])
Unreported(u) == u = cur /\ wpc # "release"

\* dio_voice_stream_write, _finish and _cancel reach a stream through
\* pcm_stream: while it is set, the stream it names has not been destroyed,
\* neither by the worker nor by a cancel that drained it.  The device's
\* callback, too, runs only on a stream that exists.
StreamLifetime ==
  /\ pcm # NoUtt => pcm \in Alive
  /\ dev # "off" => cur \in Alive

\* pcm_stream_active says which owner frees the stream: it is set exactly while
\* the worker holds the utterance of pcm_stream, and unset while that utterance
\* still waits in the queue, where cancel takes it.
StreamOwner ==
  /\ pcmActive => pcm # NoUtt /\ pcm = cur
  /\ pcm # NoUtt /\ ~pcmActive => InQueue(pcm)

\* A stream is freed by the one thread that owns it, and not while another may
\* still be at it.
StreamSafe == StreamLifetime /\ StreamOwner

\* Until close sets closing, an accepted utterance is in exactly one place (the
\* queue, the worker, a cancel that drained it) and has had no SPEECH_COMPLETE,
\* or it is in none of them and has had exactly one.
ExactlyOneComplete ==
  ~closing =>
    \A u \in Utt :
      IF u < next
        THEN terminals[u] = IF InQueue(u) \/ InDrained(u) \/ Unreported(u)
                              THEN 0 ELSE 1
        ELSE terminals[u] = 0

\* The queue is served in the order of acceptance and never holds an utterance
\* older than the one the worker has.
FifoQueue ==
  /\ \A i, j \in 1..Len(queue) : i < j => queue[i] < queue[j]
  /\ \A u \in Range(queue) : cur < u

\* close waits for speech_idle_event: when it is set no utterance is queued and
\* none is being played.
IdleEventSound ==
  idleEvent =>
    /\ queue = <<>>
    /\ wpc \in {"wait", "pop", "report", "release", "idle", "exited"}

\* A cancel is not lost to a worker that pops while cancel runs: when no cancel
\* is in progress, nothing accepted before the latest one is queued, and the
\* worker, if it has such an utterance, sees the cancel event.
CancelNotLost ==
  (\A c \in Callers : cpc[c] \notin {"take", "recancel"}) =>
    /\ \A u \in Range(queue) : u > cancelMark
    /\ cur # NoUtt /\ cur <= cancelMark => cancelEvent

\* A cancel ends only what was accepted before it: no utterance accepted after
\* the latest cancel ends CANCELLED.  (Holds of one calling thread.)
NoStaleCancel ==
  \A u \in Utt : result[u] = "CANCELLED" => u <= cancelMark

\* "finish() completes after every accepted sample has reached that callback"
\* (voice_core.h): an utterance that is about to end SUCCEEDED was finished, has
\* no sample left in its ring, and has had its SPEAKING event.
SuccessMeansPlayed ==
  wpc = "cleanup" /\ outcome = "SUCCEEDED" =>
    /\ stream[cur].final
    /\ stream[cur].unread = 0
    /\ cur \in spoke

\* Once closing is set nothing is synthesized or played: the callback of the
\* device and the SPEAKING event are behind close.
QuietWhileClosing ==
  closing => /\ dev = "off"
             /\ wpc \notin {"synthesize", "open", "playing", "speaking", "cleanup"}

\* SPEAKING events come in the order of acceptance.
SpeakInOrder ==
  [][\A u \in spoke' \ spoke : \A v \in spoke : v < u]_vars

\* After dio_voice_close has returned no event is delivered and no speech thread
\* runs.
SilentAfterClose ==
  [][(\E c \in Callers : cpc[c] = "closed") =>
       UNCHANGED <<spoke, terminals, wpc, stream>>]_vars

\* What dio_voice_close relies on and promises: speech_idle_event says what it
\* is trusted to say, nothing is played once closing is set, and nothing is
\* reported after the return.
CloseSound == [](IdleEventSound /\ QuietWhileClosing) /\ SilentAfterClose

\* Everything accepted before a cancel ends, whatever the callers do then; after
\* closing the end is no longer reported.
CancelCompletes ==
  \A u \in Utt : u <= cancelMark ~> (terminals[u] > 0 \/ closing)

\* Only an unfinished stream holds the queue up.
QueueServed ==
  \A u \in Utt : u < next ~>
    \/ terminals[u] > 0 \/ closing
    \/ wpc = "playing" /\ ~stream[cur].final

\* dio_voice_close returns.
CloseReturns ==
  \A c \in Callers : c \in closer ~> cpc[c] = "closed"

\* Callers and queue are served in the end, whoever is in whose way.
Served == CancelCompletes /\ QueueServed /\ CloseReturns

\* The events of each utterance follow the contract of the header.
status == [u \in Utt |-> IF result[u] # "none" THEN result[u]
                         ELSE IF u \in spoke THEN "speaking"
                         ELSE IF u < next THEN "pending" ELSE "new"]
Contract == INSTANCE SpeechContract WITH MaxUtt <- MaxUtt, status <- status
ImplementsContract == Contract!Spec

\* voice_core.h of dio_voice_close: "Accepted speech is cancelled and receives
\* its terminal SPEECH_COMPLETE before shutdown".
CloseReportsAll ==
  (\E c \in Callers : cpc[c] = "closed") =>
    \A u \in Utt : u < next => terminals[u] = 1
=============================================================================
