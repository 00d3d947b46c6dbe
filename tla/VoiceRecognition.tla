------------------------- MODULE VoiceRecognition -------------------------
(***************************************************************************)
(* The recognition half of the voice core (src/core/voice_core.c): the     *)
(* modes WAKE, LISTENING, FOLLOW_UP and PAUSED, the command being          *)
(* recognized, and the flags through which the API asks for a change.      *)
(*                                                                         *)
(* Threads: the owner, who calls the API; the recognition worker; the      *)
(* capture device that feeds frames; the speech worker, of which only      *)
(* speech_active is seen here (VoiceSpeech models it).  The flags are      *)
(* interlocked and read one at a time without a lock, so every read of one *)
(* is a step of the worker.  The mode, the command and the rest of the     *)
(* worker's state belong to it alone.                                      *)
(*                                                                         *)
(* Time is frames (32 ms each) for the timeouts counted in frames, and two *)
(* clock events, the follow-up deadline and the 2 s of grace, for those    *)
(* read from GetTickCount64.  The worker never sleeps for more than 32 ms, *)
(* so audio_event, which only shortens that sleep, is left out.            *)
(***************************************************************************)
EXTENDS Naturals

CONSTANTS MaxCalls,       \* bound: API calls in a behaviour
          MaxSpeeches,    \* bound: times speech_active is set
          QueueFrames,    \* DIO_AUDIO_QUEUE_FRAMES
          StartFrames,    \* command_start_timeout_ms, in frames
          SilenceFrames,  \* command_silence_ms, in frames
          MaxFrames       \* command_max_ms, in frames

ASSUME FramesAssumption == /\ MaxCalls \in Nat /\ MaxSpeeches \in Nat
                           /\ QueueFrames \in Nat \ {0}
                           /\ StartFrames \in Nat \ {0}
                           /\ SilenceFrames \in Nat \ {0}
                           /\ MaxFrames \in Nat \ {0}

VARIABLES
  \* interlocked flags
  paused, pushRequested, followRequested, cancelRequested,
  speechActive, failed, closing,
  stopEvent,
  audio,         \* audio_queue_count
  \* the recognition worker's own
  rpc,           \* where it is
  holding,       \* it has dequeued a frame
  mode, wasSpeaking, command,
  deadlinePassed, \* now >= follow_up_deadline
  \* the owner
  api, calls, speeches,
  \* what the callback has been told
  shown,         \* the last event that says what the microphone is for
  spokenSince,   \* speech was active since that event
  owed,          \* a follow-up was accepted in PAUSED; its LISTENING is due
  spurious       \* an IDLE came while it was due

requests == <<paused, pushRequested, followRequested, cancelRequested>>
listening == <<mode, wasSpeaking, command, deadlinePassed, failed>>
told  == <<shown, spokenSince, owed, spurious>>
owner == <<api, calls, speeches>>
vars  == <<requests, speechActive, closing, stopEvent, audio, rpc, holding,
           listening, owner, told>>

Modes == {"WAKE", "LISTENING", "FOLLOW_UP", "PAUSED"}

\* "ready", "followUp", "speech", "text": command_ready, _from_follow_up,
\* _speech_started, _text_started; "graceOver": DIO_FOLLOW_UP_STT_GRACE_MS have
\* passed since command_started_at_ms.
NoCommand == [ready |-> FALSE, followUp |-> FALSE, speech |-> FALSE,
              text |-> FALSE, graceOver |-> FALSE, elapsed |-> 0, quiet |-> 0]

Init ==
  /\ paused = FALSE /\ cancelRequested = FALSE
  /\ pushRequested = FALSE /\ followRequested = FALSE
  /\ speechActive = FALSE /\ failed = FALSE /\ closing = FALSE
  /\ stopEvent = FALSE /\ audio = 0
  /\ rpc = "control" /\ holding = FALSE
  /\ mode = "WAKE" /\ wasSpeaking = FALSE /\ command = NoCommand
  /\ deadlinePassed = TRUE
  /\ api = "starting" /\ calls = 0 /\ speeches = 0
  /\ shown = "none" /\ spokenSince = FALSE /\ owed = FALSE /\ spurious = FALSE

-----------------------------------------------------------------------------
(* Events.  dio_voice_emit delivers nothing once closing is set.            *)

Show(event) ==
  IF closing
    THEN UNCHANGED told
    ELSE /\ shown' = event
         /\ spokenSince' = speechActive
         /\ owed' = (owed /\ event # "LISTENING")
         /\ spurious' = (spurious \/ (owed /\ event = "IDLE"))

-----------------------------------------------------------------------------
(* The worker's helpers.                                                    *)

\* Mutant: recognition_was_speaking survives the reset.
ResetKeepsSpeaking == command' = NoCommand /\ UNCHANGED wasSpeaking

\* dio_voice_reset_recognition
Reset == command' = NoCommand /\ wasSpeaking' = FALSE

\* Mutant: the new mode is not set.
ToIdleKeepsMode(m) ==
  /\ Reset
  /\ UNCHANGED mode
  /\ Show("IDLE")
  /\ UNCHANGED <<deadlinePassed, failed>>

\* dio_voice_reset_recognition, a new mode and the IDLE event.
ToIdle(m) ==
  /\ Reset
  /\ mode' = m
  /\ Show("IDLE")
  /\ UNCHANGED <<deadlinePassed, failed>>

\* dio_voice_latch_failure
Latch ==
  /\ failed' = TRUE
  /\ command' = NoCommand
  /\ mode' = "PAUSED"
  /\ IF failed THEN UNCHANGED told ELSE Show("ERROR")

\* dio_voice_start_command: the recognizer opens and is fed the pre-roll, in
\* which it may hear text; or it fails, which every caller latches.
StartCommand(preRoll) ==
  \/ /\ Latch
     /\ UNCHANGED deadlinePassed
  \/ /\ \E text \in (IF preRoll THEN BOOLEAN ELSE {FALSE}) :
          command' = [NoCommand EXCEPT !.ready = TRUE,
                                       !.followUp = (mode = "FOLLOW_UP"),
                                       !.speech = preRoll,
                                       !.text = text]
     /\ mode' = "LISTENING"
     /\ Show("LISTENING")
     /\ UNCHANGED <<deadlinePassed, failed>>

\* dio_voice_finish_command of the command c: the recognizer fails, or a
\* follow-up recognized nothing and its window is still open, or it ends.
FinishCommand(c, timedOut) ==
  \/ /\ ~timedOut /\ c.ready
     /\ Latch
     /\ UNCHANGED <<wasSpeaking, deadlinePassed>>
  \/ /\ c.followUp /\ ~deadlinePassed
     /\ Reset
     /\ mode' = "FOLLOW_UP"
     /\ UNCHANGED <<deadlinePassed, failed, told>>
  \/ /\ (c.followUp /\ ~deadlinePassed) => (~timedOut /\ c.ready)
     /\ ToIdle("WAKE")

\* dio_voice_follow_up_stt_grace_expired
GraceExpired(c) == c.followUp /\ ~c.text /\ deadlinePassed /\ c.graceOver

\* Mutant: command_elapsed_ms is not counted while nobody speaks.
HeardUncounted(c, text, voiced) ==
  [c EXCEPT !.text = c.text \/ text,
            !.speech = c.speech \/ voiced,
            !.elapsed = IF voiced THEN c.elapsed + 1 ELSE c.elapsed,
            !.quiet = IF voiced THEN 0
                      ELSE IF c.speech THEN c.quiet + 1 ELSE c.quiet]

\* What a frame adds to the command.
Heard(c, text, voiced) ==
  [c EXCEPT !.text = c.text \/ text,
            !.speech = c.speech \/ voiced,
            !.elapsed = c.elapsed + 1,
            !.quiet = IF voiced THEN 0
                      ELSE IF c.speech THEN c.quiet + 1 ELSE c.quiet]

\* Mutant: command_max_ms does not end a command in which speech began.
CapturedNeverLong(c) == c.speech /\ c.quiet >= SilenceFrames

NeverSpoke(c) == /\ ~c.speech
                 /\ c.elapsed >= StartFrames \/ c.elapsed >= MaxFrames
Captured(c) == /\ c.speech
               /\ c.quiet >= SilenceFrames \/ c.elapsed >= MaxFrames

\* dio_voice_process_listening
Listen ==
  \/ Latch /\ UNCHANGED <<wasSpeaking, deadlinePassed>>
  \/ \E text, voiced \in BOOLEAN :
       LET c == Heard(command, text, voiced) IN
       IF GraceExpired(c) \/ Captured(c) THEN FinishCommand(c, FALSE)
       ELSE IF NeverSpoke(c) THEN FinishCommand(c, TRUE)
       ELSE /\ command' = c
            /\ UNCHANGED <<mode, wasSpeaking, deadlinePassed, failed, told>>

\* dio_voice_process_wake_audio
ListenForWake ==
  \/ Latch /\ UNCHANGED <<wasSpeaking, deadlinePassed>>
  \/ UNCHANGED <<listening, told>>
  \/ StartCommand(FALSE) /\ UNCHANGED wasSpeaking

\* The follow-up branch of dio_voice_process_frame.
AwaitFollowUp ==
  \/ Latch /\ UNCHANGED <<wasSpeaking, deadlinePassed>>
  \/ deadlinePassed /\ ToIdle("WAKE")
  \/ ~deadlinePassed /\ UNCHANGED <<listening, told>>
  \/ ~deadlinePassed /\ StartCommand(TRUE) /\ UNCHANGED wasSpeaking

-----------------------------------------------------------------------------
(* dio_voice_handle_control, one read of a flag at a time.                  *)

AfterControl == IF holding THEN "frame" ELSE "dequeue"

env == <<speechActive, closing, stopEvent, audio, holding, owner>>

\* Mutant: the mode is not looked at.
ControlFailedKeepsMode ==
  /\ rpc = "control" /\ failed
  /\ UNCHANGED <<mode, command, wasSpeaking>>
  /\ pushRequested' = FALSE /\ followRequested' = FALSE
  /\ cancelRequested' = FALSE
  /\ rpc' = AfterControl
  /\ UNCHANGED <<env, paused, deadlinePassed, failed, told>>

ControlFailed ==
  /\ rpc = "control" /\ failed
  /\ IF mode = "PAUSED" THEN UNCHANGED <<command, wasSpeaking>> ELSE Reset
  /\ mode' = "PAUSED"
  /\ pushRequested' = FALSE /\ followRequested' = FALSE
  /\ cancelRequested' = FALSE
  /\ rpc' = AfterControl
  /\ UNCHANGED <<env, paused, deadlinePassed, failed, told>>

ControlCancel ==
  /\ rpc = "control" /\ ~failed
  /\ cancelRequested' = FALSE
  /\ rpc' = IF cancelRequested THEN "cancel" ELSE "pause"
  /\ UNCHANGED <<env, paused, pushRequested, followRequested, listening, told>>

Cancelled ==
  /\ rpc = "cancel"
  /\ ToIdle(IF paused THEN "PAUSED" ELSE "WAKE")
  /\ rpc' = "pause"
  /\ UNCHANGED <<env, requests>>

ControlPause ==
  /\ rpc = "pause"
  /\ IF paused /\ mode # "PAUSED"
       THEN ToIdle("PAUSED") /\ rpc' = "push"
       ELSE UNCHANGED <<listening, told>> /\ rpc' = "resume"
  /\ UNCHANGED <<env, requests>>

\* paused is read again.
ControlResume ==
  /\ rpc = "resume"
  /\ IF ~paused /\ mode = "PAUSED"
       THEN /\ Reset
            /\ mode' = "WAKE"
            /\ rpc' = "resumed"
            /\ UNCHANGED <<deadlinePassed, failed>>
       ELSE UNCHANGED listening /\ rpc' = "push"
  /\ UNCHANGED <<env, requests, told>>

\* The IDLE is left out when a request is about to open the microphone.
ControlResumed ==
  /\ rpc = "resumed"
  /\ IF pushRequested \/ followRequested THEN UNCHANGED told ELSE Show("IDLE")
  /\ rpc' = "push"
  /\ UNCHANGED <<env, requests, listening>>

\* paused, speech_active and the request are read in this order.
ReadPaused(at, on, off) ==
  /\ rpc = at
  /\ rpc' = IF paused THEN off ELSE on
  /\ UNCHANGED <<env, requests, listening, told>>

ReadSpeaking(at, on, off) ==
  /\ rpc = at
  /\ rpc' = IF speechActive THEN off ELSE on
  /\ UNCHANGED <<env, requests, listening, told>>

TakePush ==
  /\ rpc = "pushTake"
  /\ pushRequested' = FALSE
  /\ IF pushRequested
       THEN StartCommand(FALSE) /\ wasSpeaking' = FALSE
       ELSE UNCHANGED <<listening, told>>
  /\ rpc' = "follow"
  /\ UNCHANGED <<env, paused, followRequested, cancelRequested>>

\* Mutant: the follow-up window opens without its LISTENING.
TakeFollowUnshown ==
  /\ rpc = "followTake"
  /\ followRequested' = FALSE
  /\ IF followRequested
       THEN /\ Reset
            /\ mode' = "FOLLOW_UP"
            /\ deadlinePassed' = FALSE
            /\ UNCHANGED <<failed, told>>
       ELSE UNCHANGED <<listening, told>>
  /\ rpc' = AfterControl
  /\ UNCHANGED <<env, paused, pushRequested, cancelRequested>>

TakeFollow ==
  /\ rpc = "followTake"
  /\ followRequested' = FALSE
  /\ IF followRequested
       THEN /\ Reset
            /\ mode' = "FOLLOW_UP"
            /\ deadlinePassed' = FALSE
            /\ Show("LISTENING")
            /\ UNCHANGED failed
       ELSE UNCHANGED <<listening, told>>
  /\ rpc' = AfterControl
  /\ UNCHANGED <<env, paused, pushRequested, cancelRequested>>

ControlRequests ==
  \/ ReadPaused("push", "pushSpeaking", "follow")
  \/ ReadSpeaking("pushSpeaking", "pushTake", "follow")
  \/ TakePush
  \/ ReadPaused("follow", "followSpeaking", AfterControl)
  \/ ReadSpeaking("followSpeaking", "followTake", AfterControl)
  \/ TakeFollow

-----------------------------------------------------------------------------
(* The worker's loop and dio_voice_process_frame.                           *)

Dequeue ==
  /\ rpc = "dequeue"
  /\ IF audio = 0
       THEN rpc' = "tail" /\ UNCHANGED <<audio, holding>>
       ELSE rpc' = "control" /\ audio' = audio - 1 /\ holding' = TRUE
  /\ UNCHANGED <<requests, speechActive, closing, stopEvent, listening, owner,
                 told>>

\* Mutant: the mode is kept when the speech is over.
FrameSpeakingKeepsMode ==
  /\ rpc = "frame"
  /\ rpc' = IF failed \/ speechActive THEN "next" ELSE "framePaused"
  /\ IF failed \/ speechActive = wasSpeaking
       THEN UNCHANGED <<mode, command, wasSpeaking>>
       ELSE /\ command' = NoCommand
            /\ wasSpeaking' = speechActive
            /\ UNCHANGED mode
  /\ UNCHANGED <<env, requests, deadlinePassed, failed, told>>

\* While speech is active frames are dropped; the first one of them resets the
\* recognition, and the first one after the speech puts it back to WAKE.
FrameSpeaking ==
  /\ rpc = "frame"
  /\ rpc' = IF failed \/ speechActive THEN "next" ELSE "framePaused"
  /\ IF failed \/ speechActive = wasSpeaking
       THEN UNCHANGED <<mode, command, wasSpeaking>>
       ELSE /\ command' = NoCommand
            /\ wasSpeaking' = speechActive
            /\ mode' = IF speechActive THEN mode ELSE "WAKE"
  /\ UNCHANGED <<env, requests, deadlinePassed, failed, told>>

FramePaused ==
  /\ rpc = "framePaused"
  /\ IF paused = (mode = "PAUSED")
       THEN UNCHANGED <<listening, told>>
       ELSE ToIdle(IF paused THEN "PAUSED" ELSE "WAKE")
  /\ rpc' = IF paused THEN "next" ELSE "process"
  /\ UNCHANGED <<env, requests>>

Process ==
  /\ rpc = "process"
  /\ \/ mode = "WAKE" /\ ListenForWake
     \/ mode = "LISTENING" /\ Listen
     \/ mode = "FOLLOW_UP" /\ AwaitFollowUp
  /\ rpc' = "next"
  /\ UNCHANGED <<env, requests>>

Following ==
  /\ rpc = "next"
  /\ holding' = FALSE
  /\ rpc' = IF stopEvent THEN "exited" ELSE "dequeue"
  /\ UNCHANGED <<requests, speechActive, closing, stopEvent, audio, listening,
                 owner, told>>

\* The queue is empty: a follow-up may be over without another frame.
Idle ==
  /\ rpc = "tail"
  /\ IF mode = "LISTENING" /\ GraceExpired(command)
       THEN FinishCommand(command, FALSE)
       ELSE IF mode = "FOLLOW_UP" /\ deadlinePassed
              THEN ToIdle("WAKE")
              ELSE UNCHANGED <<listening, told>>
  /\ rpc' = "wait"
  /\ UNCHANGED <<env, requests>>

\* The wait for stop_event, audio_event or 32 ms.
Wait ==
  /\ rpc = "wait"
  /\ rpc' = IF stopEvent THEN "exited" ELSE "control"
  /\ UNCHANGED <<env, requests, listening, told>>

Control == \/ ControlFailed \/ ControlCancel \/ Cancelled \/ ControlPause
           \/ ControlResume \/ ControlResumed \/ ControlRequests
Worker == \/ Control \/ Dequeue \/ FrameSpeaking \/ FramePaused \/ Process
          \/ Following \/ Idle \/ Wait

-----------------------------------------------------------------------------
(* The API, called by the owner.  A call that returns NOT_READY or BUSY      *)
(* changes nothing and is not an action.                                    *)

ownerFrame == <<speechActive, failed, stopEvent, audio, rpc, holding, mode,
                wasSpeaking, command, deadlinePassed, speeches>>

\* dio_voice_start, once the workers run: its IDLE races with their events.
Started ==
  /\ api = "starting"
  /\ api' = "ready"
  /\ shown' = "start"
  /\ UNCHANGED <<ownerFrame, requests, closing, calls, spokenSince, owed,
                 spurious>>

CanCall == api = "ready" /\ ~failed /\ calls < MaxCalls

SetPaused ==
  /\ CanCall
  /\ paused' \in BOOLEAN
  /\ calls' = calls + 1
  /\ owed' = FALSE
  /\ UNCHANGED <<ownerFrame, api, pushRequested, followRequested,
                 cancelRequested, closing, shown, spokenSince, spurious>>

PushToTalk ==
  /\ CanCall /\ ~speechActive
  /\ pushRequested' = TRUE
  /\ api' = "push"
  /\ calls' = calls + 1
  /\ owed' = FALSE
  /\ UNCHANGED <<ownerFrame, paused, followRequested, cancelRequested, closing,
                 shown, spokenSince, spurious>>

FollowUp ==
  /\ CanCall /\ ~speechActive
  /\ followRequested' = TRUE
  /\ api' = "follow"
  /\ calls' = calls + 1
  /\ owed' = FALSE
  /\ UNCHANGED <<ownerFrame, paused, pushRequested, cancelRequested, closing,
                 shown, spokenSince, spurious>>

\* Mutant: the request does not resume the recognition.
UnpauseNot ==
  /\ api \in {"push", "follow"}
  /\ UNCHANGED paused
  /\ api' = "ready"
  /\ owed' = (api = "follow" /\ mode = "PAUSED" /\ rpc # "cancel"
                /\ followRequested /\ ~cancelRequested)
  /\ UNCHANGED <<ownerFrame, calls, pushRequested, followRequested,
                 cancelRequested, closing, shown, spokenSince, spurious>>

\* The second half of both: paused is cleared after the request is set.
Unpause ==
  /\ api \in {"push", "follow"}
  /\ paused' = FALSE
  /\ api' = "ready"
  /\ owed' = (api = "follow" /\ mode = "PAUSED" /\ rpc # "cancel"
                /\ followRequested /\ ~cancelRequested)
  /\ UNCHANGED <<ownerFrame, calls, pushRequested, followRequested,
                 cancelRequested, closing, shown, spokenSince, spurious>>

\* The part of dio_voice_cancel that concerns recognition; it does not look at
\* failed.  dio_voice_close begins with it.
RequestCancel(then) ==
  /\ api = "ready"
  /\ cancelRequested' = TRUE
  /\ api' = then
  /\ owed' = FALSE
  /\ UNCHANGED <<ownerFrame, paused, pushRequested, followRequested, closing,
                 shown, spokenSince, spurious>>

Cancel == calls < MaxCalls /\ RequestCancel("ready") /\ calls' = calls + 1
Close == RequestCancel("closing") /\ UNCHANGED calls

\* close has waited for speech_idle_event.
CloseBegin ==
  /\ api = "closing" /\ ~speechActive
  /\ closing' = TRUE
  /\ api' = "stop"
  /\ UNCHANGED <<ownerFrame, calls, requests, told>>

CloseStop ==
  /\ api = "stop"
  /\ stopEvent' = TRUE
  /\ api' = "join"
  /\ UNCHANGED <<requests, speechActive, closing, audio, rpc, holding,
                 listening, calls, speeches, told>>

\* Mutant: close does not wait for the recognition thread.
CloseJoinNoWait ==
  /\ api = "join"
  /\ api' = "closed"
  /\ command' = NoCommand
  /\ UNCHANGED <<requests, speechActive, closing, stopEvent, audio, rpc,
                 holding, mode, wasSpeaking, deadlinePassed, failed, calls,
                 speeches, told>>

\* The worker is joined, then the recognizer of the command is closed.
CloseJoin ==
  /\ api = "join" /\ rpc = "exited"
  /\ api' = "closed"
  /\ command' = NoCommand
  /\ UNCHANGED <<requests, speechActive, closing, stopEvent, audio, rpc,
                 holding, mode, wasSpeaking, deadlinePassed, failed, calls,
                 speeches, told>>

Owner == Started \/ Unpause \/ CloseBegin \/ CloseStop \/ CloseJoin
Call == SetPaused \/ PushToTalk \/ FollowUp \/ Cancel \/ Close

-----------------------------------------------------------------------------
(* The rest of the world.                                                   *)

envFrame == <<requests, closing, stopEvent, rpc, holding, mode, wasSpeaking,
              command, failed, api, calls, shown, owed, spurious>>

\* dio_voice_enqueue_samples of one frame; a frame that finds the queue full is
\* dropped, which changes nothing.
Feed ==
  /\ ~closing /\ audio < QueueFrames
  /\ audio' = audio + 1
  /\ UNCHANGED <<envFrame, speechActive, deadlinePassed, speeches, spokenSince>>

\* The speech worker takes an utterance, and is through with the last of them.
SpeechBegin ==
  /\ ~speechActive /\ speeches < MaxSpeeches
  /\ api \in {"ready", "push", "follow"}
  /\ speechActive' = TRUE /\ spokenSince' = TRUE
  /\ speeches' = speeches + 1
  /\ UNCHANGED <<envFrame, audio, deadlinePassed>>

SpeechEnd ==
  /\ speechActive
  /\ speechActive' = FALSE
  /\ UNCHANGED <<envFrame, audio, deadlinePassed, speeches, spokenSince>>

\* Both clocks are read only for a follow-up.
DeadlinePasses ==
  /\ ~deadlinePassed
  /\ mode = "FOLLOW_UP" \/ command.followUp
  /\ deadlinePassed' = TRUE
  /\ UNCHANGED <<envFrame, speechActive, audio, speeches, spokenSince>>

GracePasses ==
  /\ command.followUp /\ ~command.graceOver
  /\ command' = [command EXCEPT !.graceOver = TRUE]
  /\ UNCHANGED <<requests, closing, stopEvent, rpc, holding, mode, wasSpeaking,
                 deadlinePassed, failed, owner, told, speechActive, audio>>

Clock == DeadlinePasses \/ GracePasses

Next == Worker \/ Owner \/ Call \/ Feed \/ SpeechBegin \/ SpeechEnd \/ Clock

\* Threads run, the capture device delivers, speech ends and time passes;
\* nobody is obliged to call or to speak.
Fairness == /\ WF_vars(Worker) /\ WF_vars(Owner) /\ WF_vars(Feed)
            /\ WF_vars(SpeechEnd) /\ WF_vars(DeadlinePasses)
            /\ WF_vars(GracePasses)

Spec == Init /\ [][Next]_vars /\ Fairness

-----------------------------------------------------------------------------
(* Correctness.                                                             *)

Commands == [ready : BOOLEAN, followUp : BOOLEAN, speech : BOOLEAN,
             text : BOOLEAN, graceOver : BOOLEAN,
             elapsed : 0..MaxFrames, quiet : 0..SilenceFrames]
WorkerPc == {"control", "cancel", "pause", "resume", "resumed", "push",
             "pushSpeaking", "pushTake", "follow", "followSpeaking",
             "followTake", "dequeue", "frame", "framePaused", "process", "next",
             "tail", "wait", "exited"}
OwnerPc == {"starting", "ready", "push", "follow", "closing", "stop", "join",
            "closed"}

\* Every variable has its type; the audio queue keeps to its limit.
TypeOK ==
  /\ paused \in BOOLEAN /\ pushRequested \in BOOLEAN
  /\ followRequested \in BOOLEAN /\ cancelRequested \in BOOLEAN
  /\ speechActive \in BOOLEAN /\ failed \in BOOLEAN
  /\ closing \in BOOLEAN /\ stopEvent \in BOOLEAN
  /\ audio \in 0..QueueFrames
  /\ rpc \in WorkerPc /\ holding \in BOOLEAN
  /\ mode \in Modes /\ wasSpeaking \in BOOLEAN /\ command \in Commands
  /\ deadlinePassed \in BOOLEAN
  /\ api \in OwnerPc /\ calls \in 0..MaxCalls /\ speeches \in 0..MaxSpeeches
  /\ shown \in {"none", "start", "IDLE", "LISTENING", "ERROR"}
  /\ spokenSince \in BOOLEAN /\ owed \in BOOLEAN /\ spurious \in BOOLEAN

Open == {"LISTENING", "FOLLOW_UP"}

\* The recognizer of the command is open exactly in LISTENING, except while
\* speech keeps the microphone: no frame reaches a closed recognizer, and none
\* is left open behind another mode.
CommandMatchesMode ==
  api # "closed" =>
    (command.ready <=> mode = "LISTENING" /\ ~wasSpeaking)

\* Whenever the core listens for a command, the last thing it said is LISTENING
\* (or the IDLE of dio_voice_start, which its own thread sends).
ListeningShown ==
  mode \in Open /\ ~closing => shown \in {"LISTENING", "start"}

\* After LISTENING the core does not go back to waiting for the wake word
\* without saying so, unless speech or a failure was reported since.
IdleShown ==
  shown = "LISTENING" /\ ~closing => mode \in Open \/ spokenSince \/ failed

\* A command that is still open has reached none of its limits.
CommandBounded ==
  command.ready =>
    /\ command.elapsed < MaxFrames
    /\ command.quiet < SilenceFrames
    /\ ~command.speech => command.elapsed < StartFrames

\* A command is open in its mode only, and within its limits.
CommandSound == CommandMatchesMode /\ CommandBounded

\* The application was told whether the microphone listens.
ShownTrue == ListeningShown /\ IdleShown

\* After dio_voice_close has returned the recognition worker is gone and no
\* event of its is delivered.
RecognitionStopped ==
  [][api = "closed" => UNCHANGED <<rpc, mode, command, shown>>]_vars

\* A command ends, whatever is said and however long.
ListeningEnds == mode = "LISTENING" ~> mode # "LISTENING" \/ closing

\* A pause that is not taken back reaches the worker.
PauseTakesEffect == paused ~> mode = "PAUSED" \/ ~paused \/ closing

\* A follow-up accepted in PAUSED opens its window, unless the owner asks for
\* something else or the core fails.
FollowUpServed == owed ~> ~owed \/ failed \/ closing

\* A failed core ends up PAUSED and stays there.
FailureSettles == failed ~> [](mode = "PAUSED" \/ closing)

\* Whatever else is asked meanwhile, commands end, and pauses, follow-ups and
\* failures take their effect.
RequestsServed == ListeningEnds /\ PauseTakesEffect /\ FollowUpServed /\ FailureSettles

\* voice_core.h of dio_voice_follow_up: "A valid request resumes recognition
\* atomically so no intermediate IDLE is emitted."
NoIntermediateIdle == ~spurious

\* tests/test_voice_core.c checks of a failed core: "failed latch allowed
\* follow-up" must not happen.
NoFollowUpAfterFailure == failed => mode # "FOLLOW_UP"
=============================================================================
