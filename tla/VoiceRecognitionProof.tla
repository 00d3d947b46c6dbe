----------------------- MODULE VoiceRecognitionProof -----------------------
(***************************************************************************)
(* Proofs about VoiceRecognition, for every bound, queue length and        *)
(* timeout.                                                                *)
(***************************************************************************)
EXTENDS VoiceRecognition, TLAPS

-----------------------------------------------------------------------------
(* Commands.                                                                *)

\* What is known of a command between two frames.
Sound(c) ==
  /\ c \in Commands
  /\ ~c.ready => c = NoCommand
  /\ c.ready => /\ c.elapsed < MaxFrames
                /\ c.quiet < SilenceFrames
                /\ ~c.speech => c.elapsed < StartFrames /\ c.quiet = 0

\* No command is a sound command.
LEMMA NoCommandSound == Sound(NoCommand) /\ ~NoCommand.ready
BY FramesAssumption DEF Sound, Commands, NoCommand

\* A command as dio_voice_start_command leaves it.
LEMMA FreshSound ==
  ASSUME NEW c, NEW f \in BOOLEAN, NEW s \in BOOLEAN, NEW t \in BOOLEAN,
         c = [NoCommand EXCEPT !.ready = TRUE, !.followUp = f,
                               !.speech = s, !.text = t]
  PROVE  Sound(c) /\ c.ready
<1>1. /\ c = [ready |-> TRUE, followUp |-> f, speech |-> s, text |-> t,
              graceOver |-> FALSE, elapsed |-> 0, quiet |-> 0]
      /\ c.ready /\ c.elapsed = 0 /\ c.quiet = 0
  BY DEF NoCommand
<1>2. 0 \in 0..MaxFrames /\ 0 \in 0..SilenceFrames
  BY FramesAssumption
<1>3. c \in Commands
  <2>1. TRUE \in BOOLEAN /\ FALSE \in BOOLEAN
    OBVIOUS
  <2>2. [ready |-> TRUE, followUp |-> f, speech |-> s, text |-> t,
         graceOver |-> FALSE, elapsed |-> 0, quiet |-> 0] \in Commands
    BY <1>2, <2>1, Zenon DEF Commands
  <2> QED
    BY <1>1, <2>2
<1>4. 0 < MaxFrames /\ 0 < SilenceFrames /\ 0 < StartFrames
  BY FramesAssumption
<1> QED
  BY <1>1, <1>3, <1>4 DEF Sound

\* A frame that ends no command leaves it within its limits.
LEMMA HeardSound ==
  ASSUME NEW c, Sound(c), c.ready,
         NEW text \in BOOLEAN, NEW voiced \in BOOLEAN,
         ~Captured(Heard(c, text, voiced)),
         ~NeverSpoke(Heard(c, text, voiced))
  PROVE  Sound(Heard(c, text, voiced)) /\ Heard(c, text, voiced).ready
<1> DEFINE h == Heard(c, text, voiced)
<1>1. c \in Commands /\ c.elapsed \in Nat /\ c.quiet \in Nat
      /\ c.elapsed < MaxFrames /\ c.quiet < SilenceFrames
      /\ (~c.speech => c.quiet = 0)
  BY FramesAssumption DEF Sound, Commands
<1>2. /\ h.ready = c.ready /\ h.followUp = c.followUp
      /\ h.graceOver = c.graceOver
      /\ h.text = (c.text \/ text) /\ h.speech = (c.speech \/ voiced)
      /\ h.elapsed = c.elapsed + 1
      /\ h.quiet = IF voiced THEN 0
                   ELSE IF c.speech THEN c.quiet + 1 ELSE c.quiet
  BY <1>1 DEF Heard, Commands
<1>3. h.elapsed \in 0..MaxFrames /\ h.quiet \in 0..SilenceFrames
  BY <1>1, <1>2, FramesAssumption
<1>4. h \in Commands
  <2>1. h.text \in BOOLEAN /\ h.speech \in BOOLEAN
    BY <1>1, <1>2 DEF Commands
  <2> QED
    BY <1>1, <1>3, <2>1 DEF Heard, Commands
<1>5. h.elapsed < MaxFrames /\ h.quiet < SilenceFrames
      /\ (~h.speech => h.elapsed < StartFrames /\ h.quiet = 0)
  <2>1. CASE h.speech
    <3>1. h.elapsed < MaxFrames /\ h.quiet < SilenceFrames
      BY <2>1, <1>3, FramesAssumption DEF Captured
    <3> QED
      BY <2>1, <3>1
  <2>2. CASE ~h.speech
    <3>1. h.elapsed < MaxFrames /\ h.elapsed < StartFrames
      BY <2>2, <1>3, FramesAssumption DEF NeverSpoke
    <3>2. h.quiet = 0
      BY <2>2, <1>1, <1>2
    <3> QED
      BY <2>2, <3>1, <3>2, FramesAssumption
  <2> QED
    BY <2>1, <2>2
<1> HIDE DEF h
<1>6. h.ready
  BY <1>2
<1>7. Sound(h)
  BY <1>4, <1>5, <1>6 DEF Sound
<1> QED
  BY <1>6, <1>7 DEF h

-----------------------------------------------------------------------------
(* What the helpers do to the worker's state.                               *)

ListeningOK == /\ mode \in Modes /\ wasSpeaking \in BOOLEAN
               /\ deadlinePassed \in BOOLEAN /\ failed \in BOOLEAN
ToldOK == /\ shown \in {"none", "start", "IDLE", "LISTENING", "ERROR"}
          /\ spokenSince \in BOOLEAN /\ owed \in BOOLEAN /\ spurious \in BOOLEAN

\* The command and the mode go together.
Matched == /\ Sound(command)
           /\ command.ready <=> mode = "LISTENING" /\ ~wasSpeaking

\* What was last shown fits the mode; speech that took the microphone away is
\* known to have been reported.
ShownInv ==
  /\ ListeningShown
  /\ IdleShown
  /\ speechActive => spokenSince
  /\ wasSpeaking /\ shown = "LISTENING" => spokenSince

WorkerInv == ListeningOK /\ ToldOK /\ Matched /\ ShownInv

\* What a step of the worker may assume.
Stepping == WorkerInv /\ speechActive \in BOOLEAN /\ UNCHANGED <<closing, speechActive>>

\* An event replaces what was last shown, unless the core is closing.
LEMMA ShowTold ==
  ASSUME ToldOK, speechActive \in BOOLEAN,
         NEW e \in {"IDLE", "LISTENING", "ERROR"}, Show(e)
  PROVE  /\ ToldOK'
         /\ ~closing => shown' = e /\ spokenSince' = speechActive
         /\ closing => shown' = shown /\ spokenSince' = spokenSince
BY DEF Show, ToldOK, told

\* A failure leaves no command open and PAUSED as the mode.
LEMMA LatchInv ==
  ASSUME Stepping, Latch, UNCHANGED deadlinePassed,
         wasSpeaking' \in BOOLEAN, wasSpeaking' => wasSpeaking
  PROVE  WorkerInv'
<1>1. /\ ToldOK'
      /\ shown' = "ERROR" \/ shown' = shown
      /\ (speechActive => spokenSince') /\ (spokenSince' \/ shown' = "ERROR" \/ spokenSince' = spokenSince)
  <2>1. CASE failed
    BY <2>1 DEF Latch, told, ToldOK, Stepping, WorkerInv, ShownInv
  <2>2. CASE ~failed
    BY <2>2, ShowTold DEF Latch, Stepping, WorkerInv, ShownInv
  <2> QED
    BY <2>1, <2>2
<1>2. command' = NoCommand /\ mode' = "PAUSED" /\ failed' = TRUE
  BY DEF Latch
<1>3. ListeningOK' /\ Matched'
  BY <1>2, NoCommandSound DEF Matched, ListeningOK, Modes, Stepping, WorkerInv
<1>4. ShownInv'
  BY <1>1, <1>2 DEF ShownInv, ListeningShown, IdleShown, Open, Stepping, WorkerInv
<1> QED
  BY <1>1, <1>3, <1>4 DEF WorkerInv

\* Going idle closes the command and says so.
LEMMA ToIdleInv ==
  ASSUME Stepping, NEW m \in {"WAKE", "PAUSED"}, ToIdle(m)
  PROVE  WorkerInv' /\ ~wasSpeaking'
<1>1. /\ ToldOK'
      /\ ~closing => shown' = "IDLE" /\ spokenSince' = speechActive
      /\ closing => spokenSince' = spokenSince
  BY ShowTold DEF ToIdle, Stepping, WorkerInv
<1>2. command' = NoCommand /\ mode' = m /\ wasSpeaking' = FALSE
      /\ UNCHANGED <<deadlinePassed, failed>>
  BY DEF ToIdle, Reset
<1>3. ListeningOK' /\ Matched'
  BY <1>2, NoCommandSound DEF Matched, ListeningOK, Modes, Stepping, WorkerInv
<1>4. ShownInv'
  BY <1>1, <1>2 DEF ShownInv, ListeningShown, IdleShown, Open, Stepping, WorkerInv
<1> QED
  BY <1>1, <1>2, <1>3, <1>4 DEF WorkerInv

\* Going on listening with what a frame added.
LEMMA ListeningInv ==
  ASSUME Stepping, mode' \in Open, wasSpeaking' = FALSE, Show("LISTENING"),
         failed' = failed, deadlinePassed' \in BOOLEAN,
         Sound(command'), command'.ready <=> mode' = "LISTENING"
  PROVE  WorkerInv'
<1>1. /\ ToldOK'
      /\ ~closing => shown' = "LISTENING" /\ spokenSince' = speechActive
      /\ closing => spokenSince' = spokenSince
  BY ShowTold DEF Stepping, WorkerInv
<1>2. ListeningOK' /\ Matched'
  BY DEF Matched, ListeningOK, Modes, Open, Stepping, WorkerInv
<1>3. ShownInv'
  BY <1>1 DEF ShownInv, ListeningShown, IdleShown, Open, Stepping, WorkerInv
<1> QED
  BY <1>1, <1>2, <1>3 DEF WorkerInv

\* Opening a command is shown as LISTENING, or fails and latches.
LEMMA StartInv ==
  ASSUME Stepping, NEW p \in BOOLEAN, StartCommand(p), wasSpeaking' = FALSE
  PROVE  WorkerInv'
<1>1. CASE Latch /\ UNCHANGED deadlinePassed
  BY <1>1, LatchInv
<1>2. CASE /\ \E text \in (IF p THEN BOOLEAN ELSE {FALSE}) :
                command' = [NoCommand EXCEPT !.ready = TRUE,
                                             !.followUp = (mode = "FOLLOW_UP"),
                                             !.speech = p,
                                             !.text = text]
           /\ mode' = "LISTENING"
           /\ Show("LISTENING")
           /\ UNCHANGED <<deadlinePassed, failed>>
  <2>1. PICK t \in BOOLEAN :
          command' = [NoCommand EXCEPT !.ready = TRUE,
                                       !.followUp = (mode = "FOLLOW_UP"),
                                       !.speech = p,
                                       !.text = t]
    BY <1>2
  <2>2. (mode = "FOLLOW_UP") \in BOOLEAN
    OBVIOUS
  <2>3. Sound(command') /\ command'.ready
    BY <2>1, <2>2, FreshSound
  <2>4. deadlinePassed' \in BOOLEAN
    BY <1>2 DEF Stepping, WorkerInv, ListeningOK
  <2> QED
    BY <1>2, <2>3, <2>4, ListeningInv DEF Open
<1> QED
  BY <1>1, <1>2 DEF StartCommand

\* A command that ends goes idle, back to its follow-up window, or latches.
LEMMA FinishInv ==
  ASSUME Stepping, mode = "LISTENING", NEW c, NEW o, FinishCommand(c, o)
  PROVE  WorkerInv' /\ (~wasSpeaking => ~wasSpeaking')
<1>1. CASE Latch /\ UNCHANGED <<wasSpeaking, deadlinePassed>>
  <2>1. wasSpeaking \in BOOLEAN
    BY DEF Stepping, WorkerInv, ListeningOK
  <2> QED
    BY <1>1, <2>1, LatchInv
<1>2. CASE Reset /\ mode' = "FOLLOW_UP" /\ UNCHANGED <<deadlinePassed, failed, told>>
  <2>1. ListeningOK' /\ Matched'
    BY <1>2, NoCommandSound
       DEF Reset, Matched, ListeningOK, Modes, Stepping, WorkerInv
  <2>2. ToldOK'
    BY <1>2 DEF ToldOK, told, Stepping, WorkerInv
  <2>3. ShownInv'
    BY <1>2 DEF Reset, told, ShownInv, ListeningShown, IdleShown, Open,
                Stepping, WorkerInv
  <2> QED
    BY <1>2, <2>1, <2>2, <2>3 DEF WorkerInv, Reset
<1>3. CASE ToIdle("WAKE")
  BY <1>3, ToIdleInv
<1> QED
  BY <1>1, <1>2, <1>3 DEF FinishCommand

\* A step that changes neither the mode nor what was shown.
LEMMA QuietInv ==
  ASSUME Stepping, UNCHANGED <<listening, told>>
  PROVE  WorkerInv'
<1>1. ListeningOK' /\ Matched' /\ ToldOK'
  BY DEF ListeningOK, Matched, ToldOK, listening, told, Stepping, WorkerInv
<1>2. ShownInv'
  BY DEF ShownInv, ListeningShown, IdleShown, listening, told, Stepping, WorkerInv
<1> QED
  BY <1>1, <1>2 DEF WorkerInv

\* A frame in LISTENING.
LEMMA ListenInv ==
  ASSUME Stepping, mode = "LISTENING", ~wasSpeaking, Listen
  PROVE  WorkerInv' /\ ~wasSpeaking'
<1> USE DEF Stepping
<1>1. CASE Latch /\ UNCHANGED <<wasSpeaking, deadlinePassed>>
  <2>1. wasSpeaking \in BOOLEAN
    BY DEF WorkerInv, ListeningOK
  <2> QED
    BY <1>1, <2>1, LatchInv
<1>2. ASSUME NEW text \in BOOLEAN, NEW voiced \in BOOLEAN,
             FinishCommand(Heard(command, text, voiced), FALSE)
               \/ FinishCommand(Heard(command, text, voiced), TRUE)
      PROVE  WorkerInv' /\ ~wasSpeaking'
  BY <1>2, FinishInv
<1>3. ASSUME NEW text \in BOOLEAN, NEW voiced \in BOOLEAN,
             ~Captured(Heard(command, text, voiced)),
             ~NeverSpoke(Heard(command, text, voiced)),
             command' = Heard(command, text, voiced),
             UNCHANGED <<mode, wasSpeaking, deadlinePassed, failed, told>>
      PROVE  WorkerInv' /\ ~wasSpeaking'
  <2>1. Sound(command') /\ command'.ready
    BY <1>3, HeardSound DEF WorkerInv, Matched
  <2>2. ListeningOK' /\ Matched' /\ ToldOK'
    BY <1>3, <2>1 DEF Matched, ListeningOK, ToldOK, told, WorkerInv
  <2>3. ShownInv'
    BY <1>3 DEF ShownInv, ListeningShown, IdleShown, told, WorkerInv
  <2> QED
    BY <1>3, <2>2, <2>3 DEF WorkerInv
<1> QED
  BY <1>1, <1>2, <1>3 DEF Listen

\* A frame in any mode.
LEMMA ProcessInv ==
  ASSUME Stepping, ~wasSpeaking, Process
  PROVE  WorkerInv'
<1> wasSpeaking = FALSE
  BY DEF Stepping, WorkerInv, ListeningOK
<1>1. CASE mode = "WAKE" /\ ListenForWake
  BY <1>1, LatchInv, QuietInv, StartInv DEF ListenForWake
<1>2. CASE mode = "LISTENING" /\ Listen
  BY <1>2, ListenInv
<1>3. CASE mode = "FOLLOW_UP" /\ AwaitFollowUp
  BY <1>3, LatchInv, ToIdleInv, QuietInv, StartInv DEF AwaitFollowUp
<1> QED
  BY <1>1, <1>2, <1>3 DEF Process

-----------------------------------------------------------------------------
(* The inductive invariant.                                                 *)

\* The part of TypeOK that WorkerInv does not have.
RestOK ==
  /\ paused \in BOOLEAN /\ pushRequested \in BOOLEAN
  /\ followRequested \in BOOLEAN /\ cancelRequested \in BOOLEAN
  /\ speechActive \in BOOLEAN /\ closing \in BOOLEAN /\ stopEvent \in BOOLEAN
  /\ audio \in 0..QueueFrames
  /\ rpc \in WorkerPc /\ holding \in BOOLEAN
  /\ api \in OwnerPc /\ calls \in 0..MaxCalls /\ speeches \in 0..MaxSpeeches

\* The worker looks at a frame only when it has put speech behind it, and close
\* has joined the worker before it closes the command; a resumed worker is in
\* WAKE until it has decided whether to say so.
PcInv == /\ rpc = "resumed" => mode = "WAKE"
         /\ rpc \in {"framePaused", "process"} => ~wasSpeaking
         /\ api = "closed" => rpc = "exited" /\ command = NoCommand

IInv == /\ RestOK /\ ListeningOK /\ ToldOK /\ ShownInv /\ PcInv
        /\ Sound(command)
        /\ api # "closed" => Matched

\* The invariant holds when the workers start.
LEMMA IInvInit == Init => IInv
<1> SUFFICES ASSUME Init PROVE IInv
  OBVIOUS
<1>1. RestOK
  <2>1. 0 \in 0..QueueFrames /\ 0 \in 0..MaxCalls /\ 0 \in 0..MaxSpeeches
    BY FramesAssumption
  <2>2. "control" \in WorkerPc /\ "starting" \in OwnerPc
    BY DEF WorkerPc, OwnerPc
  <2> QED
    BY <2>1, <2>2 DEF Init, RestOK
<1>2. ListeningOK /\ ToldOK
  BY DEF Init, ListeningOK, ToldOK, Modes
<1>3. Sound(command) /\ Matched
  BY NoCommandSound DEF Init, Matched
<1>4. ShownInv
  BY DEF Init, ShownInv, ListeningShown, IdleShown, Open
<1>5. PcInv
  BY DEF Init, PcInv
<1> QED
  BY <1>1, <1>2, <1>3, <1>4, <1>5 DEF IInv

\* A worker that has not exited is not closed, and may rely on WorkerInv.
LEMMA WorkerMay ==
  ASSUME IInv, rpc # "exited", UNCHANGED <<closing, speechActive>>
  PROVE  Stepping
BY DEF IInv, PcInv, Stepping, WorkerInv, RestOK

\* What is left to show of a step of the worker.
LEMMA WorkerKeeps ==
  ASSUME IInv, rpc # "exited", WorkerInv',
         UNCHANGED <<speechActive, closing, stopEvent, owner>>,
         rpc' \in WorkerPc, audio' \in 0..QueueFrames, holding' \in BOOLEAN,
         paused' \in BOOLEAN, pushRequested' \in BOOLEAN,
         followRequested' \in BOOLEAN, cancelRequested' \in BOOLEAN,
         rpc' = "resumed" => mode' = "WAKE",
         rpc' \in {"framePaused", "process"} => ~wasSpeaking'
  PROVE  IInv'
<1>1. RestOK'
  BY DEF IInv, RestOK, owner
<1>2. PcInv'
  BY DEF IInv, PcInv, owner
<1> QED
  BY <1>1, <1>2 DEF IInv, WorkerInv, Matched

\* Each read of a flag in dio_voice_handle_control keeps the invariant.
LEMMA ControlStep ==
  ASSUME IInv, Control
  PROVE  IInv'
<1> USE DEF env
<1>0. /\ rpc # "exited" /\ UNCHANGED <<closing, speechActive, stopEvent, owner>>
      /\ audio' \in 0..QueueFrames /\ holding' \in BOOLEAN
      /\ AfterControl \in WorkerPc \ {"framePaused", "process"}
  BY DEF IInv, RestOK, AfterControl, WorkerPc, Control, ControlFailed,
         ControlCancel, Cancelled, ControlPause, ControlResume, ControlResumed,
         ControlRequests, ReadPaused, ReadSpeaking, TakePush, TakeFollow
<1>1. Stepping
  BY <1>0, WorkerMay
<1>2. /\ paused' \in BOOLEAN /\ pushRequested' \in BOOLEAN
      /\ followRequested' \in BOOLEAN /\ cancelRequested' \in BOOLEAN
  BY DEF IInv, RestOK, requests, Control, ControlFailed,
         ControlCancel, Cancelled, ControlPause, ControlResume, ControlResumed,
         ControlRequests, ReadPaused, ReadSpeaking, TakePush, TakeFollow
<1>3. rpc' \in WorkerPc \ {"framePaused", "process"}
  BY <1>0 DEF WorkerPc, Control, ControlFailed,
         ControlCancel, Cancelled, ControlPause, ControlResume, ControlResumed,
         ControlRequests, ReadPaused, ReadSpeaking, TakePush, TakeFollow
<1>5. rpc' = "resumed" => mode' = "WAKE"
  BY DEF AfterControl, Control, ControlFailed,
         ControlCancel, Cancelled, ControlPause, ControlResume, ControlResumed,
         ControlRequests, ReadPaused, ReadSpeaking, TakePush, TakeFollow
<1>4. WorkerInv'
  <2>1. CASE ControlFailed
    <3>1. UNCHANGED told /\ mode' = "PAUSED" /\ UNCHANGED <<failed, deadlinePassed>>
          /\ failed
      BY <2>1 DEF ControlFailed
    <3>2. \/ mode = "PAUSED" /\ UNCHANGED <<command, wasSpeaking>>
          \/ command' = NoCommand /\ wasSpeaking' = FALSE
      BY <2>1 DEF ControlFailed, Reset
    <3>3. ListeningOK' /\ Matched' /\ ToldOK'
      BY <1>1, <3>1, <3>2, NoCommandSound
         DEF ListeningOK, Matched, ToldOK, told, Modes, Stepping, WorkerInv
    <3>4. ShownInv'
      BY <1>1, <3>1, <3>2
         DEF ShownInv, ListeningShown, IdleShown, Open, told, Stepping, WorkerInv
    <3> QED
      BY <3>3, <3>4 DEF WorkerInv
  <2>2. CASE ControlCancel
    BY <1>1, <2>2, QuietInv DEF ControlCancel
  <2>3. CASE Cancelled
    BY <1>1, <2>3, ToIdleInv DEF Cancelled
  <2>4. CASE ControlPause
    BY <1>1, <2>4, ToIdleInv, QuietInv DEF ControlPause
  <2>5. CASE ControlResume
    <3>1. CASE ~paused /\ mode = "PAUSED"
      <4>1. /\ mode = "PAUSED" /\ mode' = "WAKE" /\ command' = NoCommand
            /\ wasSpeaking' = FALSE /\ UNCHANGED <<deadlinePassed, failed, told>>
        BY <2>5, <3>1 DEF ControlResume, Reset
      <4>2. ListeningOK' /\ Matched' /\ ToldOK'
        BY <1>1, <4>1, NoCommandSound
           DEF ListeningOK, Matched, ToldOK, told, Modes, Stepping, WorkerInv
      <4>3. ShownInv'
        BY <1>1, <4>1
           DEF ShownInv, ListeningShown, IdleShown, Open, told, Stepping,
               WorkerInv
      <4> QED
        BY <4>2, <4>3 DEF WorkerInv
    <3>2. CASE ~(~paused /\ mode = "PAUSED")
      BY <1>1, <2>5, <3>2, QuietInv DEF ControlResume
    <3> QED
      BY <3>1, <3>2
  <2>6. CASE ControlResumed
    <3>1. CASE UNCHANGED told
      BY <1>1, <2>6, <3>1, QuietInv DEF ControlResumed
    <3>2. CASE Show("IDLE")
      <4>1. UNCHANGED listening /\ mode = "WAKE"
        BY <2>6 DEF ControlResumed, IInv, PcInv
      <4>2. /\ ToldOK'
            /\ ~closing => shown' = "IDLE" /\ spokenSince' = speechActive
            /\ closing => shown' = shown /\ spokenSince' = spokenSince
        BY <1>1, <3>2, ShowTold DEF Stepping, WorkerInv
      <4>3. ListeningOK' /\ Matched'
        BY <1>1, <4>1 DEF ListeningOK, Matched, listening, Stepping, WorkerInv
      <4>4. ShownInv'
        <5>1. mode' = "WAKE" /\ failed' = failed /\ wasSpeaking' = wasSpeaking
          BY <4>1 DEF listening
        <5>2. UNCHANGED <<closing, speechActive>>
          BY <1>0
        <5> QED
          BY <1>1, <4>2, <5>1, <5>2
             DEF ShownInv, ListeningShown, IdleShown, Open, Stepping, WorkerInv
      <4> QED
        BY <4>2, <4>3, <4>4 DEF WorkerInv
    <3> QED
      BY <2>6, <3>1, <3>2 DEF ControlResumed
  <2>7. CASE \/ ReadPaused("push", "pushSpeaking", "follow")
             \/ ReadSpeaking("pushSpeaking", "pushTake", "follow")
             \/ ReadPaused("follow", "followSpeaking", AfterControl)
             \/ ReadSpeaking("followSpeaking", "followTake", AfterControl)
    BY <1>1, <2>7, QuietInv DEF ReadPaused, ReadSpeaking
  <2>8. CASE TakePush
    BY <1>1, <2>8, StartInv, QuietInv DEF TakePush
  <2>9. CASE TakeFollow
    <3>1. CASE followRequested
      <4>1. /\ command' = NoCommand /\ wasSpeaking' = FALSE
            /\ mode' = "FOLLOW_UP" /\ deadlinePassed' = FALSE
            /\ Show("LISTENING") /\ failed' = failed
        BY <2>9, <3>1 DEF TakeFollow, Reset
      <4> QED
        BY <1>1, <4>1, ListeningInv, NoCommandSound DEF Open
    <3>2. CASE ~followRequested
      BY <1>1, <2>9, <3>2, QuietInv DEF TakeFollow
    <3> QED
      BY <3>1, <3>2
  <2> QED
    BY <2>1, <2>2, <2>3, <2>4, <2>5, <2>6, <2>7, <2>8, <2>9
       DEF Control, ControlRequests
<1> QED
  BY <1>0, <1>2, <1>3, <1>4, <1>5, WorkerKeeps

\* So does each step of the recognition worker.
LEMMA WorkerStep ==
  ASSUME IInv, Worker
  PROVE  IInv'
<1> USE DEF env
<1>1. CASE Control
  BY <1>1, ControlStep
<1>2. ASSUME Dequeue \/ FrameSpeaking \/ FramePaused \/ Process \/ Following
             \/ Idle \/ Wait
      PROVE  IInv'
  <2> DEFINE Acts == Dequeue \/ FrameSpeaking \/ FramePaused \/ Process
                       \/ Following \/ Idle \/ Wait
  <2>0. Acts
    BY <1>2
  <2>1. /\ rpc # "exited" /\ UNCHANGED <<closing, speechActive, stopEvent, owner>>
        /\ UNCHANGED requests
    BY <2>0 DEF Dequeue, FrameSpeaking, FramePaused, Process, Following, Idle, Wait
  <2>2. Stepping
    BY <2>1, WorkerMay
  <2>3. audio' \in 0..QueueFrames /\ holding' \in BOOLEAN
    <3>1. audio \in 0..QueueFrames /\ holding \in BOOLEAN
      BY DEF IInv, RestOK
    <3>2. audio # 0 => audio - 1 \in 0..QueueFrames
      BY <3>1, FramesAssumption
    <3> QED
      BY <2>0, <3>1, <3>2
         DEF Dequeue, FrameSpeaking, FramePaused, Process, Following, Idle, Wait
  <2>4. /\ paused' \in BOOLEAN /\ pushRequested' \in BOOLEAN
        /\ followRequested' \in BOOLEAN /\ cancelRequested' \in BOOLEAN
    BY <2>1 DEF IInv, RestOK, requests
  <2>5. rpc' \in WorkerPc \ {"resumed"}
    BY <2>0 DEF WorkerPc, Dequeue, FrameSpeaking, FramePaused, Process,
                Following, Idle, Wait
  <2>6. WorkerInv' /\ (rpc' \in {"framePaused", "process"} => ~wasSpeaking')
    <3>1. CASE Dequeue \/ Following \/ Wait
      <4>1. UNCHANGED <<listening, told>> /\ rpc' \notin {"framePaused", "process"}
        BY <3>1 DEF Dequeue, Following, Wait
      <4> QED
        BY <2>2, <4>1, QuietInv
    <3>2. CASE FrameSpeaking
      <4>1. CASE failed \/ speechActive = wasSpeaking
        <5>1. UNCHANGED <<listening, told>>
          BY <3>2, <4>1 DEF FrameSpeaking, listening
        <5>2. rpc' = "framePaused" => ~speechActive /\ ~failed
          BY <3>2 DEF FrameSpeaking
        <5>3. rpc' \in {"framePaused", "process"} => ~wasSpeaking'
          BY <3>2, <4>1, <5>1, <5>2 DEF FrameSpeaking, listening
        <5> QED
          BY <2>2, <5>1, <5>3, QuietInv
      <4>2. CASE ~failed /\ speechActive # wasSpeaking
        <5>1. /\ command' = NoCommand /\ wasSpeaking' = speechActive
              /\ mode' = IF speechActive THEN mode ELSE "WAKE"
              /\ UNCHANGED <<deadlinePassed, failed, told>>
              /\ rpc' = IF speechActive THEN "next" ELSE "framePaused"
          BY <3>2, <4>2 DEF FrameSpeaking
        <5>2. ~speechActive => wasSpeaking
          BY <2>2, <4>2 DEF Stepping, WorkerInv, ListeningOK
        <5>3. ListeningOK' /\ ToldOK'
          BY <2>2, <5>1 DEF ListeningOK, ToldOK, told, Modes, Stepping, WorkerInv
        <5>4. Matched'
          <6>1. CASE speechActive
            BY <6>1, <5>1, NoCommandSound DEF Matched
          <6>2. CASE ~speechActive
            BY <6>2, <5>1, NoCommandSound DEF Matched
          <6> QED
            BY <6>1, <6>2
        <5>5. ShownInv'
          BY <2>2, <5>1, <5>2
             DEF ShownInv, ListeningShown, IdleShown, Open, told, Stepping,
                 WorkerInv
        <5>6. rpc' \in {"framePaused", "process"} => ~wasSpeaking'
          BY <5>1
        <5> QED
          BY <5>3, <5>4, <5>5, <5>6 DEF WorkerInv
      <4> QED
        BY <4>1, <4>2
    <3>3. CASE FramePaused
      <4>1. ~wasSpeaking
        BY <3>3 DEF FramePaused, IInv, PcInv
      <4>2. CASE UNCHANGED <<listening, told>>
        BY <2>2, <4>1, <4>2, QuietInv DEF listening
      <4>3. ASSUME NEW m \in {"WAKE", "PAUSED"}, ToIdle(m)
            PROVE  WorkerInv' /\ ~wasSpeaking'
        BY <2>2, <4>3, ToIdleInv
      <4> QED
        BY <3>3, <4>2, <4>3 DEF FramePaused
    <3>4. CASE Process
      <4>1. ~wasSpeaking
        BY <3>4 DEF Process, IInv, PcInv
      <4>2. rpc' = "next"
        BY <3>4 DEF Process
      <4> QED
        BY <2>2, <3>4, <4>1, <4>2, ProcessInv
    <3>5. CASE Idle
      <4>1. rpc' = "wait"
        BY <3>5 DEF Idle
      <4>2. CASE mode = "LISTENING" /\ FinishCommand(command, FALSE)
        BY <2>2, <4>1, <4>2, FinishInv
      <4>3. CASE ToIdle("WAKE")
        BY <2>2, <4>1, <4>3, ToIdleInv
      <4>4. CASE UNCHANGED <<listening, told>>
        BY <2>2, <4>1, <4>4, QuietInv
      <4> QED
        BY <3>5, <4>2, <4>3, <4>4 DEF Idle
    <3> QED
      BY <2>0, <3>1, <3>2, <3>3, <3>4, <3>5
  <2> HIDE DEF Acts
  <2>7. rpc' \in WorkerPc /\ (rpc' = "resumed" => mode' = "WAKE")
    BY <2>5
  <2> QED
    BY <2>1, <2>3, <2>4, <2>6, <2>7, WorkerKeeps
<1> QED
  BY <1>1, <1>2 DEF Worker

\* The owner's calls leave what the worker has alone, but for the end.
LEMMA OwnerStep ==
  ASSUME IInv, Owner \/ Call
  PROVE  IInv'
<1> USE DEF ownerFrame
<1>1. /\ UNCHANGED <<speechActive, audio, rpc, holding, mode, wasSpeaking,
                     deadlinePassed, failed, speeches>>
      /\ stopEvent' \in BOOLEAN /\ closing' \in BOOLEAN
      /\ paused' \in BOOLEAN /\ pushRequested' \in BOOLEAN
      /\ followRequested' \in BOOLEAN /\ cancelRequested' \in BOOLEAN
  BY DEF IInv, RestOK, requests, listening, Owner, Call, Started, Unpause,
         CloseBegin, CloseStop, CloseJoin, SetPaused, PushToTalk, FollowUp,
         Cancel, Close, RequestCancel, CanCall
<1>2. calls' \in 0..MaxCalls
  <2>1. calls \in 0..MaxCalls /\ (calls < MaxCalls => calls + 1 \in 0..MaxCalls)
    BY FramesAssumption DEF IInv, RestOK
  <2> QED
    BY <2>1 DEF Owner, Call, Started, Unpause, CloseBegin, CloseStop,
                CloseJoin, SetPaused, PushToTalk, FollowUp, Cancel, Close,
                RequestCancel, CanCall
<1>3. api' \in OwnerPc
  BY DEF OwnerPc, Owner, Call, Started, Unpause, CloseBegin, CloseStop,
         CloseJoin, SetPaused, PushToTalk, FollowUp, Cancel, Close,
         RequestCancel, CanCall
<1>4. RestOK'
  BY <1>1, <1>2, <1>3 DEF IInv, RestOK
<1>5. ToldOK' /\ UNCHANGED spokenSince /\ (shown' = shown \/ shown' = "start")
  BY DEF IInv, ToldOK, told, Owner, Call, Started, Unpause,
         CloseBegin, CloseStop, CloseJoin, SetPaused, PushToTalk, FollowUp,
         Cancel, Close, RequestCancel, CanCall
<1>6. closing => closing'
  BY <1>1 DEF Owner, Call, Started, Unpause,
         CloseBegin, CloseStop, CloseJoin, SetPaused, PushToTalk, FollowUp,
         Cancel, Close, RequestCancel, CanCall
<1>7. ListeningOK' /\ ShownInv'
  BY <1>1, <1>5, <1>6
     DEF IInv, ListeningOK, ShownInv, ListeningShown, IdleShown
<1>8. CASE CloseJoin
  <2>1. api' = "closed" /\ rpc = "exited" /\ command' = NoCommand
    BY <1>8 DEF CloseJoin
  <2> QED
    BY <1>1, <1>4, <1>5, <1>7, <2>1, NoCommandSound DEF IInv, PcInv
<1>9. CASE ~CloseJoin
  <2>1. command' = command /\ api # "closed" /\ api' # "closed"
    BY <1>9 DEF listening, Owner, Call, Started, Unpause,
         CloseBegin, CloseStop, SetPaused, PushToTalk, FollowUp,
         Cancel, Close, RequestCancel, CanCall
  <2> QED
    BY <1>1, <1>4, <1>5, <1>7, <2>1 DEF IInv, PcInv, Matched
<1> QED
  BY <1>8, <1>9

\* Frames, speech and time.
LEMMA EnvStep ==
  ASSUME IInv, Feed \/ SpeechBegin \/ SpeechEnd \/ Clock
  PROVE  IInv'
<1> USE DEF envFrame
<1>1. /\ UNCHANGED <<requests, closing, stopEvent, rpc, holding, mode,
                     wasSpeaking, failed, api, calls, shown, owed, spurious>>
      /\ speechActive' \in BOOLEAN /\ deadlinePassed' \in BOOLEAN
  BY DEF IInv, RestOK, ListeningOK, owner, told, Feed, SpeechBegin, SpeechEnd,
         Clock, DeadlinePasses, GracePasses
<1>2. audio' \in 0..QueueFrames /\ speeches' \in 0..MaxSpeeches
  <2>1. /\ audio \in 0..QueueFrames
        /\ audio < QueueFrames => audio + 1 \in 0..QueueFrames
        /\ speeches \in 0..MaxSpeeches
        /\ speeches < MaxSpeeches => speeches + 1 \in 0..MaxSpeeches
    BY FramesAssumption DEF IInv, RestOK
  <2> QED
    BY <2>1 DEF owner, Feed, SpeechBegin, SpeechEnd, Clock, DeadlinePasses,
                GracePasses
<1>3. spokenSince' \in BOOLEAN /\ (spokenSince => spokenSince')
      /\ (speechActive' => spokenSince')
  <2>1. spokenSince \in BOOLEAN /\ (speechActive => spokenSince)
    BY DEF IInv, ToldOK, ShownInv
  <2>2. CASE SpeechBegin
    BY <2>2 DEF SpeechBegin
  <2>3. CASE SpeechEnd
    BY <2>1, <2>3 DEF SpeechEnd
  <2>4. CASE Feed \/ Clock
    <3>1. UNCHANGED <<speechActive, spokenSince>>
      BY <2>4 DEF Feed, Clock, DeadlinePasses, GracePasses, told
    <3> QED
      BY <2>1, <3>1
  <2> QED
    BY <2>2, <2>3, <2>4
<1>4. RestOK' /\ ToldOK' /\ ListeningOK'
  BY <1>1, <1>2, <1>3 DEF IInv, RestOK, ToldOK, ListeningOK, requests
<1>5. ShownInv'
  BY <1>1, <1>3 DEF IInv, ShownInv, ListeningShown, IdleShown
<1>6. CASE GracePasses
  <2>1. /\ command.followUp
        /\ command' = [command EXCEPT !.graceOver = TRUE]
    BY <1>6 DEF GracePasses
  <2>2. command \in Commands /\ command.ready
    BY <2>1 DEF IInv, Sound, NoCommand
  <2>3. /\ command'.ready = command.ready /\ command'.speech = command.speech
        /\ command'.elapsed = command.elapsed /\ command'.quiet = command.quiet
        /\ command' \in Commands
    BY <2>1, <2>2 DEF Commands
  <2>4. Sound(command')
    BY <2>2, <2>3 DEF IInv, Sound
  <2>5. api # "closed"
    BY <2>1 DEF IInv, PcInv, NoCommand
  <2> QED
    BY <1>1, <1>4, <1>5, <2>3, <2>4, <2>5 DEF IInv, PcInv, Matched
<1>7. CASE ~GracePasses
  <2>1. command' = command
    BY <1>7 DEF Feed, SpeechBegin, SpeechEnd, Clock, DeadlinePasses
  <2> QED
    BY <1>1, <1>4, <1>5, <2>1 DEF IInv, PcInv, Matched
<1> QED
  BY <1>6, <1>7

\* So does every step.
LEMMA IInvStep == IInv /\ [Next]_vars => IInv'
<1> SUFFICES ASSUME IInv, [Next]_vars PROVE IInv'
  OBVIOUS
<1>1. CASE Worker
  BY <1>1, WorkerStep
<1>2. CASE Owner \/ Call
  BY <1>2, OwnerStep
<1>3. CASE Feed \/ SpeechBegin \/ SpeechEnd \/ Clock
  BY <1>3, EnvStep
<1>4. CASE UNCHANGED vars
  <2>1. UNCHANGED <<requests, speechActive, closing, stopEvent, audio, rpc,
                    holding, listening, owner, told>>
    BY <1>4 DEF vars
  <2> QED
    BY <2>1 DEF requests, listening, owner, told, IInv, RestOK, ListeningOK,
                ToldOK, ShownInv, ListeningShown, IdleShown, PcInv, Matched
<1> QED
  BY <1>1, <1>2, <1>3, <1>4 DEF Next

\* The worker, the owner and their environment keep the invariant.
THEOREM RecognitionInvariant == Spec => []IInv
BY IInvInit, IInvStep, PTL DEF Spec

-----------------------------------------------------------------------------
(* What follows.                                                            *)

\* Every variable keeps its type.
THEOREM TypeCorrect == Spec => []TypeOK
<1>1. IInv => TypeOK
  BY DEF IInv, RestOK, ListeningOK, ToldOK, Sound, TypeOK
<1> QED
  BY <1>1, RecognitionInvariant, PTL

\* The command's recognizer is open exactly while the worker listens.
THEOREM CommandMatches == Spec => []CommandMatchesMode
<1>1. IInv => CommandMatchesMode
  BY DEF IInv, Matched, CommandMatchesMode
<1> QED
  BY <1>1, RecognitionInvariant, PTL

\* The core never listens for a command without having said so.
THEOREM ListeningIsShown == Spec => []ListeningShown
<1>1. IInv => ListeningShown
  BY DEF IInv, ShownInv
<1> QED
  BY <1>1, RecognitionInvariant, PTL

\* The core never stops listening in silence, but for speech and failures.
THEOREM IdleIsShown == Spec => []IdleShown
<1>1. IInv => IdleShown
  BY DEF IInv, ShownInv
<1> QED
  BY <1>1, RecognitionInvariant, PTL

\* No open command has passed a limit.
THEOREM CommandIsBounded == Spec => []CommandBounded
<1>1. IInv => CommandBounded
  BY DEF IInv, Sound, CommandBounded
<1> QED
  BY <1>1, RecognitionInvariant, PTL

\* The recognizer is open exactly while the worker listens, and within its
\* limits.
THEOREM CommandIsSound == Spec => []CommandSound
BY CommandMatches, CommandIsBounded, PTL DEF CommandSound

\* What the application was told of the microphone is true.
THEOREM ShownIsTrue == Spec => []ShownTrue
BY ListeningIsShown, IdleIsShown, PTL DEF ShownTrue

\* Once dio_voice_close has returned, the recognition worker does and says
\* nothing any more.
THEOREM StoppedForGood == Spec => RecognitionStopped
<1>1. IInv /\ [Next]_vars =>
        [api = "closed" => UNCHANGED <<rpc, mode, command, shown>>]_vars
  <2> SUFFICES ASSUME IInv, Next, api = "closed"
               PROVE  UNCHANGED <<rpc, mode, command, shown>>
    OBVIOUS
  <2>1. rpc = "exited" /\ command = NoCommand
    BY DEF IInv, PcInv
  <2>2. ~Worker /\ ~Owner /\ ~Call /\ ~GracePasses
    <3>1. ~GracePasses
      BY <2>1 DEF GracePasses, NoCommand
    <3>2. ~Worker
      BY <2>1 DEF Worker, Control, ControlFailed, ControlCancel, Cancelled,
         ControlPause, ControlResume, ControlResumed, ControlRequests,
         ReadPaused, ReadSpeaking, TakePush, TakeFollow, Dequeue,
         FrameSpeaking, FramePaused, Process, Following, Idle, Wait
    <3>3. ~Owner /\ ~Call
      BY DEF Owner, Call, Started, Unpause, CloseBegin, CloseStop, CloseJoin,
         SetPaused, PushToTalk, FollowUp, Cancel, Close, RequestCancel, CanCall
    <3> QED
      BY <3>1, <3>2, <3>3
  <2>3. Feed \/ SpeechBegin \/ SpeechEnd \/ DeadlinePasses
    BY <2>2 DEF Next, Clock
  <2> QED
    BY <2>3 DEF envFrame, Feed, SpeechBegin, SpeechEnd, DeadlinePasses
<1> QED
  BY <1>1, RecognitionInvariant, PTL DEF Spec, RecognitionStopped
=============================================================================
