---------------------------- MODULE AppController ----------------------------
(***************************************************************************)
(* The application's worker (src/app/main.c): the bounded event queue, the *)
(* handlers, and the turn, gate, speech and follow-up flags they keep in   *)
(* agreement with the agent client and the voice core.                     *)
(*                                                                         *)
(* The worker is one thread; a handler runs to its end while the callbacks *)
(* of other threads only append to the queue, so a handler is one step.    *)
(* It is composed of functions, each an operator on the record w that      *)
(* holds the fields of DioApp, the queue, the agent and the voice core.    *)
(* Agent and core are reduced to what AgentTransport, VoiceSpeech and      *)
(* VoiceRecognition let them answer and send: an event in the queue is an  *)
(* event whose sender has gone on.                                         *)
(*                                                                         *)
(* Left out: LEVEL and PROGRESS (they replace each other in the queue),    *)
(* model discovery, tool approval, the smoke tests, metrics and what is    *)
(* posted to the UI.  The profile is configured and its secrets are ready. *)
(***************************************************************************)
EXTENDS Naturals, Sequences

CONSTANTS QueueCap,     \* DIO_APP_QUEUE_CAP
          SpeechCap,    \* DIO_APP_SPEECH_CAP
          MaxRestarts,  \* DIO_AGENT_RESTART_MAX, DIO_VOICE_RESTART_MAX
          MaxTurns, MaxOutput,   \* bounds: turns, frames of output in a turn
          MaxIncidents           \* bound: commands of the user and failures

ASSUME ControllerAssumption ==
  /\ QueueCap \in Nat \ {0} /\ SpeechCap \in Nat \ {0}
  /\ {MaxRestarts, MaxTurns, MaxOutput, MaxIncidents} \subseteq Nat

VARIABLES loop,  \* where the worker's loop is
          w      \* the state the handlers work on

appVars == <<loop, w>>

\* DioAgent, reduced
NoAgent == [st |-> "none", turn |-> 0, accepted |-> FALSE, pcm |-> FALSE,
            cancel |-> FALSE, said |-> 0]
\* DioVoiceCore, reduced
NoCore == [mode |-> "wake", paused |-> FALSE, ptt |-> FALSE, follow |-> FALSE,
           cancel |-> FALSE, active |-> 0, begun |-> FALSE, waiting |-> <<>>,
           stream |-> 0, input |-> "open", failed |-> FALSE]

\* DioApp, as dio_app_initialize leaves it, and history.
Blank ==
  [agent |-> FALSE, ready |-> FALSE, starting |-> FALSE, agentGen |-> 0,
   agentRestart |-> FALSE, agentTries |-> 0,
   voice |-> FALSE, voiceReady |-> FALSE, voiceGen |-> 0,
   voiceRestart |-> FALSE, voiceTries |-> 0,
   paused |-> FALSE, turn |-> FALSE, suppressed |-> FALSE, complete |-> FALSE,
   followAllowed |-> FALSE, followListening |-> FALSE, listening |-> FALSE,
   gated |-> FALSE, ptt |-> FALSE,
   speech |-> <<>>, nextId |-> 0, turnId |-> 0, pcm |-> FALSE,
   streamId |-> 0, streamAudio |-> FALSE, text |-> FALSE, receipt |-> 0,
   queue |-> <<>>, overflow |-> FALSE, ag |-> NoAgent, core |-> NoCore,
   \* history: what became of the announcement; the turns and incidents so far;
   \* a cancel since the last turn; speech of it that was not heard; an end of a
   \* turn taken for a rejected cancel
   ann |-> "due", annHeard |-> FALSE, turns |-> 0, incidents |-> 0,
   quiet |-> FALSE, unheard |-> FALSE, refused |-> FALSE]

\* A command or a failure is counted while the bound allows it.
Incident(x) == IF x.incidents < MaxIncidents
                 THEN {[x EXCEPT !.incidents = @ + 1]} ELSE {}

\* What may fail or be late while a handler runs.
Fails == {"speak", "full", "send", "open", "cue", "late"}

\* Op("none"), or an Op(f) that differs and is counted.
Outcomes(Op(_)) ==
  {Op("none")} \union
  UNION {Incident(x) : x \in {Op(f) : f \in Fails} \ {Op("none")}}

-----------------------------------------------------------------------------
(* The event queue.                                                         *)

Event(from, gen, type, id, flag) ==
  [from |-> from, gen |-> gen, type |-> type, id |-> id, flag |-> flag]

\* Mutant: the queue takes one more.
PushAllOneMore(x, events) ==
  LET all == x.queue \o events
  IN IF Len(all) <= QueueCap + 1 THEN [x EXCEPT !.queue = all]
     ELSE [x EXCEPT !.queue = SubSeq(all, 1, QueueCap + 1), !.overflow = TRUE]

\* dio_app_enqueue: what does not fit is lost and raises queue_overflow.
PushAll(x, events) ==
  LET all == x.queue \o events
  IN IF Len(all) <= QueueCap THEN [x EXCEPT !.queue = all]
     ELSE [x EXCEPT !.queue = SubSeq(all, 1, QueueCap), !.overflow = TRUE]

\* dio_app_agent_callback and dio_app_voice_callback: an event carries the
\* generation of the object that sends it.
FromAgent(x, type, flag) ==
  PushAll(x, <<Event("agent", x.agentGen, type, x.ag.turn, flag)>>)
FromVoice(x, type, id, flag) ==
  PushAll(x, <<Event("voice", x.voiceGen, type, id, flag)>>)

-----------------------------------------------------------------------------
(* What the calls do to agent and voice core.                               *)

\* A send that fails: dio_transport_failure.
TransportFails(x) == FromAgent([x EXCEPT !.ag.st = "failed"], "ERROR", TRUE)

\* dio_agent_cancel
AgentCancel(x, fails) ==
  IF x.ag.st # "active" \/ x.ag.cancel THEN x
  ELSE IF fails = "send" THEN TransportFails(x)
  ELSE [x EXCEPT !.ag.cancel = TRUE]

Completions(gen, ids) ==
  [i \in 1..Len(ids) |-> Event("voice", gen, "SPEECH_COMPLETE", ids[i], FALSE)]

\* dio_voice_cancel: what waits is reported, what is active will be.
VoiceCancel(x) ==
  PushAll([x EXCEPT !.core.cancel = TRUE, !.core.waiting = <<>>,
                    !.core.stream = IF @ = x.core.active THEN @ ELSE 0,
                    !.core.input = "cut"],
          Completions(x.voiceGen, x.core.waiting))

-----------------------------------------------------------------------------
(* The functions the handlers call.                                         *)

ScheduleAgent(x) == [x EXCEPT !.agentRestart = x.agentTries < MaxRestarts]
ScheduleVoice(x) == [x EXCEPT !.voiceRestart = x.voiceTries < MaxRestarts]

\* dio_app_clear_speech: an announcement being spoken is given up.
ClearSpeech(x) ==
  [x EXCEPT !.ann = IF x.receipt # 0 THEN "failed" ELSE @, !.receipt = 0,
            !.speech = <<>>, !.streamId = 0, !.streamAudio = FALSE,
            !.turnId = 0, !.pcm = FALSE, !.text = FALSE]

\* Mutant: what was being said stays tracked.
CloseVoiceKeeps(x) ==
  [x EXCEPT !.voice = FALSE, !.voiceReady = FALSE, !.followListening = FALSE,
            !.listening = FALSE, !.voiceGen = @ + 1, !.core = NoCore]

\* dio_app_close_voice.  Speech that is given up is reported under the old
\* generation.
CloseVoice(x) ==
  LET c == x.core
      given == c.waiting \o IF c.active = 0 THEN <<>> ELSE <<c.active>>
  IN ClearSpeech(PushAll(
       [x EXCEPT !.voice = FALSE, !.voiceReady = FALSE, !.followListening = FALSE,
                 !.listening = FALSE, !.voiceGen = @ + 1, !.core = NoCore],
       Completions(x.voiceGen, given)))

\* Mutant: the gate outlives the agent.
CloseAgentGated(x) ==
  [x EXCEPT !.agent = FALSE, !.ready = FALSE, !.turn = FALSE,
            !.suppressed = FALSE, !.complete = FALSE, !.followAllowed = FALSE,
            !.starting = FALSE, !.agentGen = @ + 1, !.ag = NoAgent]

\* dio_app_close_agent
CloseAgent(x) ==
  [x EXCEPT !.agent = FALSE, !.ready = FALSE, !.turn = FALSE,
            !.suppressed = FALSE, !.complete = FALSE, !.followAllowed = FALSE,
            !.gated = FALSE, !.starting = FALSE, !.agentGen = @ + 1,
            !.ag = NoAgent]

\* dio_app_open_agent
OpenAgent(x, fails) ==
  IF x.agent THEN x
  ELSE IF fails = "open" THEN ScheduleAgent([x EXCEPT !.agentGen = @ + 1])
  ELSE [x EXCEPT !.agentGen = @ + 1, !.agent = TRUE, !.starting = TRUE,
                 !.ag = [NoAgent EXCEPT !.st = "starting"]]

\* dio_app_open_voice, with the events of dio_voice_start.
OpenVoice(x, fails) ==
  LET opened == [x EXCEPT !.voiceGen = @ + 1, !.voice = TRUE]
  IN IF x.voice \/ ~x.ready THEN x
     ELSE IF fails = "open" THEN ScheduleVoice(CloseVoice(opened))
     ELSE FromVoice(FromVoice(opened, "READY", 0, FALSE), "IDLE", 0, FALSE)

\* dio_app_set_voice_paused
SetVoicePaused(x) ==
  IF x.voice /\ x.voiceReady /\ ~x.core.failed
    THEN [x EXCEPT !.core.paused = x.paused \/ x.gated]
    ELSE x

\* dio_app_cancel
AppCancel(x, fails) ==
  LET flags == [x EXCEPT !.followAllowed = FALSE, !.complete = FALSE,
                         !.followListening = FALSE, !.listening = FALSE,
                         !.gated = x.turn, !.text = FALSE, !.streamAudio = FALSE,
                         !.quiet = @ \/ x.turn \/ x.complete]
      agent == IF x.turn /\ x.agent
                 THEN AgentCancel([flags EXCEPT !.suppressed = TRUE], fails)
                 ELSE flags
      voice == IF x.voice THEN VoiceCancel(agent) ELSE agent
  IN IF x.ptt THEN voice ELSE SetVoicePaused(voice)

\* Mutant: the core is not told that the gate is open.
EndFailedTurnDeaf(x) ==
  LET flags == [x EXCEPT !.turn = FALSE, !.suppressed = FALSE, !.complete = FALSE,
                         !.followAllowed = FALSE, !.followListening = FALSE,
                         !.listening = FALSE, !.gated = FALSE, !.turnId = 0,
                         !.pcm = FALSE, !.text = FALSE]
  IN IF x.voice THEN VoiceCancel(flags) ELSE flags

\* dio_app_end_failed_turn
EndFailedTurn(x) ==
  LET flags == [x EXCEPT !.turn = FALSE, !.suppressed = FALSE, !.complete = FALSE,
                         !.followAllowed = FALSE, !.followListening = FALSE,
                         !.listening = FALSE, !.gated = FALSE, !.turnId = 0,
                         !.pcm = FALSE, !.text = FALSE]
  IN SetVoicePaused(IF x.voice THEN VoiceCancel(flags) ELSE flags)

\* dio_app_try_push_to_talk
TryPtt(x) ==
  IF ~x.ptt \/ ~x.voice \/ ~x.voiceReady \/ x.turn THEN x
  ELSE IF x.core.failed THEN [x EXCEPT !.ptt = FALSE]
  ELSE IF x.core.active # 0 THEN x
  ELSE [x EXCEPT !.ptt = FALSE, !.followListening = FALSE, !.listening = TRUE,
                 !.core.ptt = TRUE, !.core.paused = FALSE]

\* Mutant: the follow-up does not wait for the speech.
FollowUpEarly(x) ==
  LET done == [x EXCEPT !.complete = FALSE, !.followAllowed = FALSE, !.gated = FALSE]
  IN IF ~x.complete THEN x
     ELSE IF ~x.followAllowed \/ x.paused \/ ~x.voice \/ x.core.failed
             \/ x.core.active # 0
       THEN SetVoicePaused(done)
       ELSE [done EXCEPT !.followListening = TRUE, !.listening = TRUE,
                         !.core.follow = TRUE, !.core.paused = FALSE]

\* dio_app_maybe_follow_up, with dio_voice_follow_up.
MaybeFollowUp(x) ==
  LET done == [x EXCEPT !.complete = FALSE, !.followAllowed = FALSE, !.gated = FALSE]
  IN IF ~x.complete \/ x.speech # <<>> THEN x
     ELSE IF ~x.followAllowed \/ x.paused \/ ~x.voice \/ x.core.failed
             \/ x.core.active # 0
       THEN SetVoicePaused(done)
       ELSE [done EXCEPT !.followListening = TRUE, !.listening = TRUE,
                         !.core.follow = TRUE, !.core.paused = FALSE]

Tracked(x) == {x.speech[i].id : i \in 1..Len(x.speech)}

\* dio_app_speak: track the utterance and queue it in the core.
CanSpeak(x, fails) == x.voice /\ Len(x.speech) < SpeechCap /\ fails # "speak"
Speak(x, kind) ==
  [x EXCEPT !.nextId = @ + 1,
            !.speech = Append(@, [id |-> x.nextId + 1, kind |-> kind]),
            !.core.waiting = Append(@, x.nextId + 1)]

\* dio_app_speak_sentence
SpeakSentence(x, fails) ==
  IF CanSpeak(x, fails) THEN Speak(x, "agent")
                        ELSE [x EXCEPT !.followAllowed = FALSE, !.unheard = TRUE]

\* dio_voice_stream_write, dio_voice_stream_finish
TakesInput(x) == x.core.stream = x.streamId /\ x.core.input = "open"

\* dio_app_stream_pcm: it starts a stream, or writes to it, unless ...
CanStream(x, e, fails) ==
  /\ x.voice /\ x.turn /\ e.id = x.turnId /\ x.pcm /\ fails # "speak"
  /\ IF x.streamAudio THEN TakesInput(x)
     ELSE Len(x.speech) < SpeechCap /\ ~x.core.failed /\ x.core.stream = 0
Stream(x) ==
  IF x.streamAudio THEN x
  ELSE [Speak(x, "agent") EXCEPT !.streamId = x.nextId + 1, !.streamAudio = TRUE,
                                 !.text = FALSE, !.core.stream = x.nextId + 1,
                                 !.core.input = "open"]
-----------------------------------------------------------------------------
(* dio_app_handle_ui                                                        *)

ChangeSettings(x, fails) ==
  OpenAgent([CloseAgent(CloseVoice(AppCancel(x, fails)))
               EXCEPT !.agentRestart = FALSE, !.agentTries = 0,
                      !.voiceRestart = FALSE, !.voiceTries = 0], fails)

OnUi(x, e, fails) ==
  CASE e.type = "SET_PAUSED" ->
         SetVoicePaused([x EXCEPT !.paused = e.flag, !.ptt = FALSE])
    [] e.type = "PUSH_TO_TALK" ->
         TryPtt(AppCancel([x EXCEPT !.paused = FALSE, !.ptt = TRUE], fails))
    [] e.type = "CANCEL" -> AppCancel([x EXCEPT !.ptt = FALSE], fails)
    [] e.type = "SETTINGS" -> ChangeSettings(x, fails)

-----------------------------------------------------------------------------
(* dio_app_handle_agent                                                     *)

OnReady(x, e, fails) ==
  OpenVoice([x EXCEPT !.ready = e.flag, !.starting = FALSE], fails)

OnAccepted(x, e) == [x EXCEPT !.turnId = e.id, !.pcm = e.flag]

\* Mutant: text of a cancelled turn is still spoken.
DeltaSpoken(x, e, fails) ==
  IF x.pcm \/ ~e.flag THEN x
  ELSE IF CanSpeak(x, fails) THEN SpeakSentence(x, fails)
  ELSE AgentCancel(SpeakSentence(x, fails), fails)

\* TEXT_DELTA: text is kept for a turn with audio, until that comes; else e.flag
\* tells whether it completes a sentence, which is spoken.  The buffer may be full.
OnDelta(x, e, fails) ==
  IF x.suppressed THEN x
  ELSE IF x.pcm /\ x.streamAudio THEN x
  ELSE IF fails = "full" THEN AgentCancel([x EXCEPT !.followAllowed = FALSE], fails)
  ELSE IF x.pcm \/ ~e.flag THEN [x EXCEPT !.text = TRUE]
  ELSE LET said == SpeakSentence(x, fails)
       IN IF CanSpeak(x, fails) THEN [said EXCEPT !.text = FALSE]
          ELSE AgentCancel([said EXCEPT !.text = TRUE], fails)

OnPcm(x, e, fails) ==
  IF x.suppressed THEN x
  ELSE IF CanStream(x, e, fails) THEN Stream(x) ELSE AppCancel(x, fails)

\* COMPLETE, first half: what becomes of the answer.
EndOutput(x, cancelled, fails) ==
  IF cancelled
    THEN LET y == [x EXCEPT !.text = FALSE]
         IN IF x.streamAudio /\ x.voice THEN VoiceCancel(y) ELSE y
  ELSE IF x.streamAudio
    THEN IF TakesInput(x)
           THEN [x EXCEPT !.core.input = "finished"]
           ELSE VoiceCancel([x EXCEPT !.followAllowed = FALSE])
  ELSE IF x.text
    THEN LET said == SpeakSentence(x, fails)
         IN [said EXCEPT !.text = ~CanSpeak(x, fails)]
  ELSE x

OnComplete(x, e, fails) ==
  LET over == [x EXCEPT !.agentTries = 0, !.suppressed = FALSE, !.turn = FALSE,
                        !.complete = ~x.suppressed,
                        !.followAllowed = @ /\ ~x.suppressed /\ ~e.flag]
      ended == [EndOutput(over, x.suppressed \/ e.flag, fails)
                  EXCEPT !.turnId = 0, !.pcm = FALSE]
  IN IF x.suppressed
       THEN TryPtt(SetVoicePaused([ended EXCEPT !.gated = FALSE]))
       ELSE MaybeFollowUp(ended)

\* ERROR: of the turn (e.flag unset), unless it is taken for a rejected cancel,
\* or of the transport.
OnError(x, e) ==
  IF e.flag THEN ScheduleAgent(CloseAgent(CloseVoice(x)))
  ELSE IF x.suppressed THEN [x EXCEPT !.refused = TRUE]
  ELSE TryPtt(EndFailedTurn(x))

OnAgent(x, e, fails) ==
  IF e.gen # x.agentGen THEN x
  ELSE CASE e.type = "READY" -> OnReady(x, e, fails)
         [] e.type = "ACCEPTED" -> OnAccepted(x, e)
         [] e.type = "DELTA" -> OnDelta(x, e, fails)
         [] e.type = "PCM" -> OnPcm(x, e, fails)
         [] e.type = "COMPLETE" -> OnComplete(x, e, fails)
         [] e.type = "ERROR" -> OnError(x, e)

-----------------------------------------------------------------------------
(* dio_app_handle_voice                                                     *)

\* dio_app_submit_transcript, with dio_agent_submit and the processing earcon.
Submit(x, fails) ==
  IF ~x.agent \/ ~x.ready \/ x.ag.st # "ready" THEN x
  ELSE IF fails = "send" THEN TransportFails([x EXCEPT !.ag.turn = x.turns + 1])
  ELSE LET y == [x EXCEPT !.turns = @ + 1,
                          !.ag = [NoAgent EXCEPT !.st = "active", !.turn = x.turns + 1],
                          !.turn = TRUE, !.suppressed = FALSE, !.complete = FALSE,
                          !.followAllowed = TRUE, !.followListening = FALSE,
                          !.turnId = 0, !.pcm = FALSE, !.streamId = 0,
                          !.streamAudio = FALSE, !.text = FALSE, !.gated = TRUE,
                          !.quiet = FALSE, !.unheard = FALSE, !.refused = FALSE]
       IN IF fails = "cue" /\ ~x.core.failed
          THEN FromVoice(SetVoicePaused(y), "ERROR", 0, FALSE)
          ELSE SetVoicePaused(y)

\* dio_app_untrack_speech: the first of that id goes, and there is one only.
Untracked(speech, id) ==
  LET i == CHOOSE n \in 1..Len(speech) : speech[n].id = id
  IN SubSeq(speech, 1, i - 1) \o SubSeq(speech, i + 1, Len(speech))

\* dio_app_handle_speech_complete
OnSpeechComplete(x, e, fails) ==
  IF e.id \notin Tracked(x) THEN x
  ELSE
    LET stream == e.id = x.streamId
        x1 == [x EXCEPT !.speech = Untracked(@, e.id)]
        x2 == IF e.id # x.receipt THEN x1
              ELSE [x1 EXCEPT !.ann = IF e.flag THEN "spoken" ELSE "failed",
                              !.receipt = 0]
        x3 == [x2 EXCEPT !.followAllowed = @ /\ e.flag,
                         !.streamId = IF stream THEN 0 ELSE @,
                         !.streamAudio = @ /\ ~stream]
        x4 == IF stream /\ ~e.flag /\ x.turn THEN AppCancel(x3, fails) ELSE x3
    IN TryPtt(MaybeFollowUp(x4))

\* Mutant: only an active turn makes the worker ignore what is heard.
IgnoredInTurn(x, type) ==
  x.turn /\ type \in {"WAKE", "LISTENING", "TRANSCRIPT"}

\* What was heard before a turn, or during it, starts none.
Ignored(x, type) ==
  /\ x.gated \/ x.turn \/ x.complete \/ x.speech # <<>>
  /\ type \in {"WAKE", "LISTENING", "TRANSCRIPT"}

OnVoice(x, e, fails) ==
  IF e.gen # x.voiceGen \/ Ignored(x, e.type) THEN x
  ELSE CASE e.type = "READY" -> SetVoicePaused([x EXCEPT !.voiceReady = TRUE])
         [] e.type = "WAKE" -> [x EXCEPT !.voiceTries = 0, !.followListening = FALSE,
                                         !.listening = TRUE]
         [] e.type = "LISTENING" -> [x EXCEPT !.listening = TRUE]
         [] e.type = "TRANSCRIPT" -> Submit([x EXCEPT !.listening = FALSE], fails)
         [] e.type = "SPEAKING" ->
              IF e.id = x.streamId /\ ~x.streamAudio THEN x
              ELSE [x EXCEPT !.listening = FALSE]
         [] e.type = "SPEECH_COMPLETE" -> OnSpeechComplete(x, e, fails)
         [] e.type = "IDLE" ->
              TryPtt([x EXCEPT !.followListening = FALSE, !.listening = FALSE])
         [] e.type = "ERROR" ->
              ScheduleVoice(CloseVoice(AppCancel([x EXCEPT !.listening = FALSE], fails)))

-----------------------------------------------------------------------------
(* dio_app_worker                                                           *)

AppInit ==
  LET Opened(f) == OpenAgent(Blank, f)
  IN loop = "wait" /\ w \in Outcomes(Opened)

\* dio_app_recover_queue_overflow.  Between its two writes of accepting_events
\* callbacks are refused; both objects are closed by then.
Recover(x) ==
  ScheduleAgent([CloseAgent(CloseVoice(AppCancel([x EXCEPT !.overflow = FALSE], "none")))
                   EXCEPT !.queue = x.queue, !.overflow = FALSE])

Handle(x, e, fails) ==
  CASE e.from = "ui" -> OnUi(x, e, fails)
    [] e.from = "agent" -> OnAgent(x, e, fails)
    [] e.from = "voice" -> OnVoice(x, e, fails)

\* The worker wakes, from time to time on its own.
Wake ==
  /\ loop = "wait"
  /\ w' = IF w.overflow THEN Recover(w) ELSE w
  /\ loop' = "drain"

\* dio_app_dequeue and dio_app_handle_event
Dequeue ==
  /\ loop = "drain" /\ w.queue # <<>> /\ Head(w.queue).type # "EXIT"
  /\ LET Handled(f) == Handle([w EXCEPT !.queue = Tail(@)], Head(w.queue), f)
     IN w' \in Outcomes(Handled)
  /\ UNCHANGED loop

Drained ==
  /\ loop = "drain" /\ w.queue = <<>>
  /\ loop' = "tail" /\ UNCHANGED w

\* dio_app_maybe_timeout_agent
TimeoutAgent(x, f) ==
  IF f = "late" /\ x.agent /\ ~x.ready /\ x.starting
    THEN ScheduleAgent(CloseAgent(CloseVoice(x))) ELSE x

\* dio_app_maybe_restart_agent
RestartAgent(x, due, fails) ==
  IF due /\ x.agentRestart
    THEN OpenAgent([x EXCEPT !.agentRestart = FALSE, !.agentTries = @ + 1], fails)
    ELSE x

\* dio_app_maybe_restart_voice
RestartVoice(x, due, fails) ==
  IF due /\ x.ready /\ ~x.voice /\ x.voiceRestart
    THEN OpenVoice([x EXCEPT !.voiceRestart = FALSE, !.voiceTries = @ + 1], fails)
    ELSE x

\* dio_app_poll_announcement
MayAnnounce(x) ==
  /\ x.voiceReady /\ ~x.paused /\ ~x.listening /\ ~x.gated /\ ~x.ptt /\ ~x.turn
  /\ ~x.complete /\ ~x.followListening /\ x.speech = <<>> /\ x.receipt = 0
  /\ x.ann = "due"
PollAnnouncement(x, fails) ==
  IF ~MayAnnounce(x) THEN x
  ELSE IF CanSpeak(x, fails)
    THEN [Speak(x, "announcement") EXCEPT !.receipt = x.nextId + 1, !.ann = "held"]
    ELSE [x EXCEPT !.ann = "failed"]

\* The end of a round.  A deadline may have passed or not.
EndRound ==
  /\ loop = "tail"
  /\ \E due \in BOOLEAN :
       LET Tailed(f) ==
             LET timers == RestartVoice(RestartAgent(TimeoutAgent(w, f), due, f), due, f)
             IN PollAnnouncement(timers, f)
       IN w' \in Outcomes(Tailed)
  /\ loop' = "wait"

\* EXIT, and the end of the thread.
Stop ==
  /\ loop = "drain" /\ w.queue # <<>> /\ Head(w.queue).type = "EXIT"
  /\ w' = [CloseVoice(CloseAgent(w)) EXCEPT !.queue = <<>>]
  /\ loop' = "stopped"

Worker == Wake \/ Dequeue \/ Drained \/ EndRound \/ Stop
-----------------------------------------------------------------------------
(* The user.                                                                *)

\* Steps of other threads.  A bound: from a loss until the worker sees it there
\* are none.
Outside == loop # "stopped" /\ ~w.overflow /\ UNCHANGED loop

Command ==
  /\ \E x \in Incident(w),
        c \in {<<"SET_PAUSED", TRUE>>, <<"SET_PAUSED", FALSE>>,
               <<"PUSH_TO_TALK", FALSE>>, <<"CANCEL", FALSE>>,
               <<"SETTINGS", FALSE>>, <<"EXIT", FALSE>>} :
       w' = PushAll(x, <<Event("ui", 0, c[1], 0, c[2])>>)
  /\ Outside

-----------------------------------------------------------------------------
(* The agent client: AgentTransport as its callback shows it.               *)

AgentReady == /\ w.ag.st = "starting"
              /\ \E configured \in BOOLEAN :
                   w' = FromAgent([w EXCEPT !.ag.st = "ready"], "READY", configured)
              /\ Outside

AgentAccepts == /\ w.ag.st = "active" /\ ~w.ag.accepted
                /\ \E pcm \in BOOLEAN :
                     w' = FromAgent([w EXCEPT !.ag.accepted = TRUE, !.ag.pcm = pcm],
                                    "ACCEPTED", pcm)
                /\ Outside

AgentOutput ==
  /\ w.ag.st = "active" /\ w.ag.accepted /\ ~w.ag.cancel /\ w.ag.said < MaxOutput
  /\ \E o \in {<<"DELTA", TRUE>>, <<"DELTA", FALSE>>}
                \union IF w.ag.pcm THEN {<<"PCM", FALSE>>} ELSE {} :
       w' = FromAgent([w EXCEPT !.ag.said = @ + 1], o[1], o[2])
  /\ Outside

\* A cancelled turn ends with a COMPLETE that says so, also when it failed.
AgentEnds ==
  /\ w.ag.st = "active" /\ (w.ag.accepted \/ w.ag.cancel)
  /\ \E type \in {"COMPLETE"} \union IF w.ag.cancel THEN {} ELSE {"ERROR"} :
       w' = [FromAgent(w, type, type = "COMPLETE" /\ w.ag.cancel)
               EXCEPT !.ag = [NoAgent EXCEPT !.st = "ready"]]
  /\ Outside

AgentFails == /\ w.ag.st \in {"starting", "ready", "active"}
              /\ \E x \in Incident(w) : w' = TransportFails(x)
              /\ Outside

-----------------------------------------------------------------------------
(* The voice core: VoiceRecognition and VoiceSpeech as the callback shows   *)
(* them.                                                                    *)

Core(c) == [w EXCEPT !.core = c]
Said(x, type) == FromVoice(x, type, 0, FALSE)

\* One look at the requests: a cancel, a pause or its end, then what is to open.
CoreControl ==
  LET c == w.core
      home == IF c.paused THEN "paused" ELSE "wake"
      opens == ~c.paused /\ c.active = 0
      quiet == [c EXCEPT !.cancel = FALSE, !.mode = home]
  IN /\ w.voice /\ ~c.failed
     /\ \/ /\ c.cancel
           /\ w' = Said(Core(quiet), "IDLE")
        \/ /\ ~c.cancel /\ (c.mode = "paused") # c.paused
           /\ w' = IF ~c.paused /\ (c.ptt \/ c.follow) THEN Core(quiet)
                   ELSE Said(Core(quiet), "IDLE")
        \/ /\ ~c.cancel /\ (c.mode = "paused") = c.paused /\ opens /\ c.ptt
           /\ w' = Said(Core([c EXCEPT !.ptt = FALSE, !.mode = "listening"]), "LISTENING")
        \/ /\ ~c.cancel /\ (c.mode = "paused") = c.paused /\ opens /\ ~c.ptt /\ c.follow
           /\ w' = Said(Core([c EXCEPT !.follow = FALSE, !.mode = "follow"]), "LISTENING")
     /\ Outside

\* A wake word (whose earcon may fail), a voice in a follow-up, the end of a
\* command or of a follow-up.
CoreHears ==
  LET c == w.core
      at(mode) == Core([c EXCEPT !.mode = mode])
  IN /\ w.voice /\ ~c.failed /\ c.active = 0
     /\ \/ /\ c.mode = "wake" /\ w.turns < MaxTurns
           /\ \E e \in {at("listening")} \union Incident(Said(at("listening"), "ERROR")) :
                w' = Said(Said(e, "WAKE"), "LISTENING")
        \/ c.mode = "follow" /\ w' = Said(at("listening"), "LISTENING")
        \/ c.mode = "follow" /\ w' = Said(at("wake"), "IDLE")
        \/ c.mode = "listening" /\ w' = Said(at("wake"), "IDLE")
        \/ /\ c.mode = "listening" /\ w.turns < MaxTurns
           /\ w' = Said(Said(at("wake"), "TRANSCRIPT"), "IDLE")
     /\ Outside

\* dio_voice_latch_failure
CoreFails ==
  /\ w.voice /\ ~w.core.failed
  /\ \E x \in Incident(w) : w' = Said([x EXCEPT !.core.failed = TRUE], "ERROR")
  /\ Outside

\* The speech worker goes on to what waits, and may get to where the first audio
\* is heard.  Speech takes the microphone away.
SpeechGoesOn(x) ==
  LET c == x.core
      id == Head(c.waiting)
      begun(b) == [x EXCEPT !.core.active = id, !.core.waiting = Tail(c.waiting),
                            !.core.begun = b,
                            !.core.mode = IF @ = "paused" THEN @ ELSE "wake"]
  IN IF c.waiting = <<>>
       THEN {[x EXCEPT !.core.active = 0, !.core.begun = FALSE]}
       ELSE {begun(FALSE), FromVoice(begun(TRUE), "SPEAKING", id, FALSE)}

SpeechBegins == /\ w.core.active = 0 /\ w.core.waiting # <<>>
                /\ w' \in SpeechGoesOn(w)
                /\ Outside

\* speech_active is left set while more waits.  Only a stream that was finished
\* can succeed.
SpeechEnds ==
  LET c == w.core
      stream == c.active = c.stream
      answer == c.active # w.receipt
  IN /\ c.active # 0
     /\ \E ok \in BOOLEAN :
          /\ ok => c.begun /\ (stream => c.input = "finished")
          /\ \E x \in SpeechGoesOn([w EXCEPT !.core.stream = IF stream THEN 0 ELSE @,
                                             !.unheard = @ \/ (answer /\ ~ok),
                                             !.annHeard = @ \/ (~answer /\ ok)]) :
               w' = FromVoice(x, "SPEECH_COMPLETE", c.active, ok)
     /\ Outside

Agent == AgentReady \/ AgentAccepts \/ AgentOutput \/ AgentEnds \/ AgentFails
Voice == CoreControl \/ CoreHears \/ CoreFails \/ SpeechBegins \/ SpeechEnds

AppNext == Worker \/ Command \/ Agent \/ Voice

AppSpec == AppInit /\ [][AppNext]_appVars
-----------------------------------------------------------------------------
(* Correctness.                                                             *)

Types == {"SET_PAUSED", "PUSH_TO_TALK", "CANCEL", "SETTINGS", "EXIT", "READY",
          "ACCEPTED", "DELTA", "PCM", "COMPLETE", "ERROR", "WAKE", "LISTENING",
          "TRANSCRIPT", "SPEAKING", "SPEECH_COMPLETE", "IDLE"}

Pending(from, types) ==
  \E i \in 1..Len(w.queue) :
    /\ w.queue[i].from = from /\ w.queue[i].type \in types
    /\ w.queue[i].gen = IF from = "agent" THEN w.agentGen ELSE w.voiceGen

\* The queue and the speech table keep to their size, restarts to their number.
AppTypeOK ==
  /\ loop \in {"wait", "drain", "tail", "stopped"}
  /\ DOMAIN w = DOMAIN Blank
  /\ Len(w.queue) <= QueueCap /\ Len(w.speech) <= SpeechCap
  /\ \A i \in 1..Len(w.queue) : w.queue[i].type \in Types
  /\ w.ag.st \in {"none", "starting", "ready", "active", "failed"}
  /\ w.core.mode \in {"wake", "listening", "follow", "paused"}
  /\ w.agentTries <= MaxRestarts /\ w.voiceTries <= MaxRestarts
  /\ w.ann \in {"due", "held", "spoken", "failed"}

\* The core is paused while the user has muted it or a turn gates it, and not
\* for any other reason, but while a push-to-talk waits for its turn.
MicMatches ==
  w.voice /\ w.voiceReady /\ ~w.core.failed /\ ~w.overflow =>
    /\ w.paused \/ w.gated => w.core.paused
    /\ w.core.paused => w.paused \/ w.gated \/ w.ptt

\* A turn is active for the worker only while the agent works on it, its end or
\* the transport's is on the way, or an overflow is: else it would never end.
TurnEndComes ==
  /\ w.turn => \/ w.ag.st = "active" \/ w.overflow
               \/ Pending("agent", {"COMPLETE", "ERROR"})
  /\ w.ag.st = "active" => w.turn

\* Worker, agent and core agree about the turn: its end comes, but for an error
\* the worker took for a rejected cancel; the microphone is gated from the
\* submission of a turn until its answer was spoken, and never otherwise; and the
\* core is paused to match.
TurnAgrees == /\ w.refused \/ TurnEndComes
              /\ w.gated <=> w.turn \/ w.complete
              /\ MicMatches

\* A tracked utterance is in the core, or its completion is on the way; and the
\* core has no other.
SpeechTracked ==
  LET core == {w.core.active} \union {w.core.waiting[i] : i \in 1..Len(w.core.waiting)}
      done == {w.queue[i].id : i \in {j \in 1..Len(w.queue) :
                 w.queue[j].type = "SPEECH_COMPLETE" /\ w.queue[j].gen = w.voiceGen}}
  IN /\ w.overflow \/ Tracked(w) \subseteq core \union done
     /\ core \ {0} \subseteq Tracked(w)

\* An announcement is taken out of the inbox while it is spoken, never in a
\* turn, and only one that was heard leaves it for good.
AnnouncementKept ==
  /\ (w.ann = "held") <=> w.receipt # 0
  /\ w.receipt # 0 => w.receipt \in Tracked(w) /\ ~w.turn /\ ~w.complete
  /\ w.ann = "spoken" => w.annHeard

\* After a cancel nothing of the answer is handed to the core until the next turn.
AnswerStops ==
  [][w.quiet /\ w'.quiet =>
       \A i \in 1..Len(w'.speech) :
         w'.speech[i].kind = "agent" => w'.speech[i].id \in Tracked(w)]_appVars

\* A follow-up opens only when the whole answer was heard, was not cancelled, and
\* the user has not muted the microphone.
FollowUpHeard ==
  [][~w.followListening /\ w'.followListening =>
       ~w'.unheard /\ ~w'.quiet /\ ~w'.paused]_appVars

\* What follows an answer fits how it went: silence after a cancel, and the next
\* question only after all of it.
AnswerSound == AnswerStops /\ FollowUpHeard
=============================================================================
