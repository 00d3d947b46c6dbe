------------------------------ MODULE Overlay ------------------------------
(***************************************************************************)
(* The overlay between two threads (src/app/ui.c): the application's       *)
(* worker posts events into a bounded queue that merges them, the user     *)
(* interface thread drains it into the state, the transcript and the       *)
(* approval dialogs it shows, and what the user answers goes back to the   *)
(* worker as commands.                                                     *)
(*                                                                         *)
(* A handler of the worker is a sequence of posts; the interface thread    *)
(* may drain between any two of them.  A modal dialog runs a message loop  *)
(* of its own, so the interface goes on draining beneath it; dialogs       *)
(* return last opened first.                                               *)
(*                                                                         *)
(* A reply is a sequence of pieces <<turn, number>>; the text of a user    *)
(* message is its turn.  Left out: drawing, where the window is and        *)
(* whether it is shown, LEVEL, MCP_STATUS and the AGENT and TTS marks.     *)
(* The worker is reduced to the posts of main.c and when they may come;    *)
(* AppController models how it decides.                                    *)
(***************************************************************************)
EXTENDS Naturals, Sequences, FiniteSets, SequencesExt

CONSTANTS Cap,        \* DIO_EVENT_QUEUE_CAP
          TextCap,    \* DIO_UI_EVENT_TEXT_CAP, in pieces
          MaxPieces,     \* bound: pieces of replies
          MaxIncidents   \* bound: turns, tools that ask for approval, failures,
                         \* announcements and what the user does

ASSUME OverlayAssumption ==
  /\ {Cap, TextCap} \subseteq Nat \ {0}
  /\ {MaxPieces, MaxIncidents} \subseteq Nat

VARIABLES
  queue,     \* ui->events
  ui,        \* model.state, paused, user_message_open, last_error_text,
             \* provider_required
  messages,  \* ui->model.messages
  dialogs,   \* requests whose approval dialog has not returned
  always,    \* always_tools of ui->profile and of the settings file
  staged,    \* always_tools in the open settings dialog's own profile
  commands,  \* UI commands the worker has not handled
  posting,   \* what the worker's handler still has to post
  app,       \* DioApp, reduced
  hist       \* history

overlayVars == <<queue, ui, messages, dialogs, always, staged, commands, posting, app, hist>>

Requests == 1..MaxIncidents
Decisions == {"once", "always", "deny"}
Closed == {0}      \* there is no settings dialog
Lacks == {"nothing", "provider", "secrets"}    \* what the profile is without
Phases == {"idle", "listening", "follow_up", "thinking", "replying", "cancelled",
           "broken", "loading", "announcing"}

Event(kind, what) == [kind |-> kind, what |-> what]
State(s) == Event("STATE", s)
\* ERROR, VAULT_REQUIRED and PROVIDER_REQUIRED are one case, told apart by the text.
Texts == {"turn", "cancel", "engine", "settings", "secrets", "provider"}
Error(text) == Event("ERROR", text)
Rest(x) == IF x.paused THEN "muted" ELSE "idle"

OverlayInit ==
  /\ queue = <<>> /\ messages = <<>> /\ dialogs = <<>>
  /\ ui = [state |-> "idle", paused |-> FALSE, open |-> FALSE,
           error |-> "none", required |-> FALSE]
  /\ always = {} /\ staged = Closed
  /\ commands = <<>> /\ posting = <<>>
  /\ app = [phase |-> "idle", turn |-> 0, pieces |-> 0, paused |-> FALSE,
            ptt |-> FALSE, asked |-> 0, incidents |-> 0, lacks |-> "nothing"]
  \* the last state told; a push-to-talk refused since without a word; events
  \* that found the queue full; a state told behind which something louder was
  \* already queued; a question that took the place of one whose reply was already
  \* queued; a MUTED shown after the user had resumed; a permission that the
  \* settings dialog undid; answers so far
  /\ hist = [said |-> "idle", refused |-> FALSE, lost |-> FALSE, overtook |-> FALSE,
             mixed |-> FALSE, crossed |-> FALSE, undone |-> {},
             answers |-> [r \in Requests |-> <<>>]]

-----------------------------------------------------------------------------
(* dio_ui_post                                                              *)

\* Mutant: a reply is appended to the latest piece of one, wherever it is.
SlotsAnywhere(q, e) ==
  LET Same == {i \in 1..Len(q) : q[i].kind = e.kind}
  IN IF e.kind \in {"STATE", "USER", "ACK", "DELTA"} THEN Same ELSE {}

\* Where e is merged into q: the latest event of its kind, for all but a state
\* not beyond a CLEAR; a piece of a reply only into the last event.
Slots(q, e) ==
  LET Same == {i \in 1..Len(q) : q[i].kind = e.kind}
      NotCleared == {i \in Same : \A j \in i..Len(q) : q[j].kind # "CLEAR"}
  IN CASE e.kind = "STATE" -> Same
       [] e.kind \in {"USER", "ACK"} -> NotCleared
       [] e.kind = "DELTA" ->
            {i \in Same : i = Len(q) /\ Len(q[i].what) + Len(e.what) <= TextCap}
       [] OTHER -> {}

\* Mutant: the first of two is kept.
MergedKeeps(old, e) ==
  IF e.kind = "DELTA" THEN [e EXCEPT !.what = old.what \o @] ELSE old

Merged(old, e) ==
  IF e.kind = "DELTA" THEN [e EXCEPT !.what = old.what \o @] ELSE e

\* Mutant: a queue that is full grows.
QueuedBeyond(q, e) ==
  LET s == Slots(q, e)
  IN IF s # {} THEN LET i == CHOOSE k \in s : \A j \in s : j <= k
                    IN [q EXCEPT ![i] = Merged(@, e)]
     ELSE Append(q, e)

Queued(q, e) ==
  LET s == Slots(q, e)
  IN IF s # {} THEN LET i == CHOOSE k \in s : \A j \in s : j <= k
                    IN [q EXCEPT ![i] = Merged(@, e)]
     ELSE IF Len(q) < Cap THEN Append(q, e)
     ELSE q

Refused(q, e) == Slots(q, e) = {} /\ Len(q) >= Cap

Louder == {"ERROR", "ANNOUNCEMENT"}
TurnsOf(e) == {p[1] : p \in Range(e.what)}

\* What the history keeps of a post.
Noted(q, e) ==
  [hist EXCEPT
     !.said = IF e.kind = "STATE" THEN e.what
              ELSE IF e.kind = "ERROR" THEN "error"
              ELSE IF e.kind = "ANNOUNCEMENT" THEN "announcement" ELSE @,
     !.refused = @ /\ e.kind \notin Louder \cup {"STATE"},
     !.lost = @ \/ Refused(q, e),
     !.overtook =
       IF e.kind = "STATE"
         THEN \E i \in Slots(q, e) : \E j \in i..Len(q) : q[j].kind \in Louder
         ELSE @ /\ e.kind \notin Louder,
     !.mixed = @ \/ (e.kind = "USER" /\ \E i \in Slots(q, e) :
                       \E j \in i..Len(q) : q[j].kind = "DELTA"
                                            /\ \E t \in TurnsOf(q[j]) : t < e.what)]

\* Mutant: a request that finds the queue full is forgotten.
DenyForgotten(r, h) == h

\* dio_app_handle_agent denies an approval that could not be posted.
Deny(r, h) == [h EXCEPT !.answers[r] = Append(@, "deny")]

Post ==
  /\ posting # <<>>
  /\ LET e == Head(posting)
         noted == Noted(queue, e)
     IN /\ queue' = Queued(queue, e)
        /\ hist' = IF e.kind = "APPROVAL" /\ Refused(queue, e)
                     THEN Deny(e.what, noted) ELSE noted
  /\ posting' = Tail(posting)
  /\ UNCHANGED <<ui, messages, dialogs, always, staged, commands, app>>

-----------------------------------------------------------------------------
(* dio_drain_events and dio_apply_event                                     *)

LastIs(ms, kind) == ms # <<>> /\ ms[Len(ms)].kind = kind
Message(kind, text) == [kind |-> kind, text |-> text]

\* dio_add_message
Added(ms, kind, text, update) ==
  IF update /\ LastIs(ms, kind) THEN [ms EXCEPT ![Len(ms)].text = text]
  ELSE Append(ms, Message(kind, text))
Appended(ms, pieces) ==
  IF LastIs(ms, "ASSISTANT") THEN [ms EXCEPT ![Len(ms)].text = @ \o pieces]
  ELSE Append(ms, Message("ASSISTANT", pieces))

\* What an event does to the state shown.
Applied(u, e) ==
  CASE e.kind = "STATE" ->
         [u EXCEPT !.state = e.what, !.open = @ /\ e.what = u.state,
                   !.paused = @ \/ e.what = "muted",
                   !.error = "none", !.required = FALSE]
    [] e.kind = "ERROR" ->
         [u EXCEPT !.state = "error", !.open = FALSE,
                   !.error = e.what, !.required = e.what = "provider"]
    [] e.kind = "ANNOUNCEMENT" ->
         [u EXCEPT !.state = "announcement", !.open = FALSE, !.error = "none"]
    [] e.kind = "USER" -> [u EXCEPT !.open = TRUE]
    [] e.kind = "ACK" -> [u EXCEPT !.open = @ /\ ~LastIs(messages, "USER")]
    [] e.kind \in {"DELTA", "CLEAR"} -> [u EXCEPT !.open = FALSE]
    [] OTHER -> u

\* What it does to the transcript.
Transcribed(ms, e) ==
  CASE e.kind = "USER" -> Added(ms, "USER", e.what, ui.open)
    [] e.kind = "DELTA" -> Appended(ms, e.what)
    [] e.kind = "ERROR" ->
         IF ui.state = "error" /\ ui.error = e.what THEN ms
         ELSE Append(ms, Message("ERROR", e.what))
    [] e.kind = "ANNOUNCEMENT" -> Append(ms, Message("ANNOUNCEMENT", 0))
    [] e.kind = "CLEAR" -> <<>>
    [] OTHER -> ms

Drain ==
  /\ queue # <<>>
  /\ LET e == Head(queue)
     IN /\ queue' = Tail(queue)
        /\ ui' = Applied(ui, e)
        /\ messages' = Transcribed(messages, e)
        /\ dialogs' = IF e.kind = "APPROVAL"
                        THEN Append(dialogs, e.what) ELSE dialogs
        /\ hist' = [hist EXCEPT !.crossed =
                      @ \/ (e = State("muted") /\ ~ui.paused)]
  /\ UNCHANGED <<always, staged, commands, posting, app>>

-----------------------------------------------------------------------------
(* The user.                                                                *)

Order(command) ==
  /\ app.incidents < MaxIncidents
  /\ app' = [app EXCEPT !.incidents = @ + 1]
  /\ commands' = commands \o command

\* DIO_TRAY_PAUSE
Pause ==
  /\ Order(<<<<"paused", ~ui.paused>>>>)
  /\ ui' = [ui EXCEPT !.paused = ~@, !.error = "none",
                      !.state = IF ui.paused THEN "idle" ELSE "muted"]
  /\ UNCHANGED <<queue, messages, dialogs, always, staged, posting, hist>>

\* Mutant: the menu goes on offering to resume.
PushToTalkPaused ==
  /\ ~ui.required
  /\ Order((IF ui.paused THEN <<<<"paused", FALSE>>>> ELSE <<>>) \o <<<<"ptt">>>>)
  /\ ui' = [ui EXCEPT !.state = "listening", !.error = "none"]
  /\ UNCHANGED <<queue, messages, dialogs, always, staged, posting, hist>>

\* DIO_TRAY_PTT; without a provider it opens the settings instead.
PushToTalk ==
  /\ ~ui.required
  /\ Order((IF ui.paused THEN <<<<"paused", FALSE>>>> ELSE <<>>) \o <<<<"ptt">>>>)
  /\ ui' = [ui EXCEPT !.paused = FALSE, !.state = "listening", !.error = "none"]
  /\ UNCHANGED <<queue, messages, dialogs, always, staged, posting, hist>>

\* DIO_TRAY_STOP
Stop ==
  /\ ui.state \in {"listening", "follow_up", "thinking", "speaking"}
  /\ Order(<<<<"cancel">>>>)
  /\ UNCHANGED <<queue, ui, messages, dialogs, always, staged, posting, hist>>

\* Mutant: what could not be saved is allowed all the same.
ResolvedUnsaved(b, saved) == b

\* dio_ui_resolve_tool_approval
Resolved(b, saved) == IF b = "always" /\ ~saved THEN "deny" ELSE b

\* dio_request_tool_approval returns with the button b; a dialog that fails or is
\* dismissed counts as "deny".  dio_remember_tool_always saves the profile, or
\* leaves it as it was.
Answer(b, saved) ==
  /\ dialogs # <<>> /\ (saved => b = "always")
  /\ LET r == Last(dialogs)
     IN /\ always' = IF saved THEN always \union {r} ELSE always
        /\ commands' = Append(commands, <<"answer", r, Resolved(b, saved)>>)
  /\ dialogs' = Front(dialogs)
  /\ UNCHANGED <<queue, ui, messages, staged, posting, app, hist>>

\* dio_show_settings copies the profile, dio_save_settings_dialog puts the copy
\* in its place, on disk and in memory, and the worker applies it.
OpenSettings ==
  /\ staged = Closed /\ Order(<<>>)
  /\ staged' = always
  /\ UNCHANGED <<queue, ui, messages, dialogs, always, posting, hist>>

CloseSettings(save) ==
  /\ staged # Closed
  /\ always' = IF save THEN staged ELSE always
  /\ hist' = [hist EXCEPT !.undone = IF save THEN @ \union (always \ staged) ELSE @]
  /\ staged' = Closed
  /\ commands' = IF save THEN Append(commands, <<"settings">>) ELSE commands
  /\ UNCHANGED <<queue, ui, messages, dialogs, posting, app>>

-----------------------------------------------------------------------------
(* The worker: what its handlers post, in order.                            *)

Handles(x, events) ==
  /\ posting = <<>>
  /\ posting' = events
  /\ app' = x
  /\ UNCHANGED <<queue, ui, messages, dialogs, always, staged>>

Tells(x, events) == Handles(x, events) /\ UNCHANGED <<commands, hist>>

Trouble(phases) ==
  app.phase \in phases /\ app.incidents < MaxIncidents
Troubled == [app EXCEPT !.incidents = @ + 1]

NewTurn(x, phase) ==
  [x EXCEPT !.phase = phase, !.turn = @ + 1, !.incidents = @ + 1]
Hearing == {"listening", "follow_up"}

\* dio_app_try_push_to_talk: not tried or busy; it listens; or it fails, of which
\* nothing is told.
Attempts(x) ==
  {[app |-> x, told |-> <<>>]} \union
  (IF x.ptt /\ x.phase \in {"idle", "announcing"} /\ x.incidents < MaxIncidents
     THEN {[app |-> [NewTurn(x, "listening") EXCEPT !.ptt = FALSE],
            told |-> <<State("listening")>>],
           [app |-> [x EXCEPT !.ptt = FALSE, !.incidents = @ + 1], told |-> <<>>]}
     ELSE {})

\* DIO_VOICE_EVENT_WAKE
Wake ==
  /\ app.phase = "idle" /\ ~app.paused /\ app.incidents < MaxIncidents
  /\ Tells(NewTurn(app, "listening"), <<Event("CLEAR", 0), State("listening")>>)

\* DIO_VOICE_EVENT_LISTENING
Listening ==
  /\ app.phase \in Hearing
  /\ Tells(app, <<State(app.phase)>>)

\* DIO_VOICE_EVENT_TRANSCRIPT and dio_app_submit_transcript
Transcript(final) ==
  /\ app.phase \in Hearing
  /\ IF final
       THEN Tells([app EXCEPT !.phase = "thinking"],
                  <<Event("USER", app.turn), State("thinking")>>)
       ELSE Tells(app, <<Event("USER", app.turn)>>)

\* DIO_AGENT_EVENT_ACCEPTED
Accepted ==
  /\ app.phase = "thinking"
  /\ Tells([app EXCEPT !.phase = "replying"], <<Event("ACK", 0), State("thinking")>>)

\* DIO_AGENT_EVENT_TEXT_DELTA
TextDelta ==
  /\ app.phase = "replying" /\ app.pieces < MaxPieces
  /\ Tells([app EXCEPT !.pieces = @ + 1],
           <<Event("DELTA", <<<<app.turn, app.pieces + 1>>>>)>>)

\* DIO_VOICE_EVENT_SPEAKING
Speaking ==
  /\ \/ app.phase = "replying" /\ app.pieces > 0 /\ hist.said = "thinking"
     \/ app.phase = "announcing" /\ hist.said = "announcement"
  /\ Tells(app, <<State("speaking")>>)

\* DIO_AGENT_EVENT_TOOL_APPROVAL_REQUIRED, also of a turn that is being cancelled
Approval ==
  /\ Trouble({"replying", "cancelled"})
  /\ Tells([Troubled EXCEPT !.asked = @ + 1], <<Event("APPROVAL", app.asked + 1)>>)

\* DIO_AGENT_EVENT_COMPLETE with dio_app_maybe_follow_up; of a cancelled turn, a
\* push-to-talk that waited for its end is tried.
Complete ==
  \/ /\ app.phase = "replying"
     /\ \/ Tells([app EXCEPT !.phase = "idle"], <<State(Rest(app))>>)
        \/ /\ ~app.paused /\ app.incidents < MaxIncidents
           /\ Tells(NewTurn(app, "follow_up"), <<State("follow_up")>>)
  \/ /\ app.phase = "cancelled"
     /\ \E t \in Attempts([app EXCEPT !.phase = "idle"]) :
          Tells(t.app, <<State(Rest(app))>> \o t.told)

\* DIO_VOICE_EVENT_IDLE: nobody spoke, or the voice core has become quiet.  IDLE is
\* told also right behind the LISTENING of a push-to-talk that it serves.
VoiceIdle ==
  /\ app.phase \in Hearing \/ (app.phase = "idle" /\ app.ptt)
  /\ \E t \in Attempts([app EXCEPT !.phase = "idle"]) :
       Tells(t.app, t.told \o IF t.app.ptt THEN <<>> ELSE <<State(Rest(app))>>)

\* DIO_AGENT_EVENT_ERROR of a turn, and of a cancel that was rejected.
TurnFails ==
  /\ Trouble({"thinking", "replying"})
  /\ \E t \in Attempts([Troubled EXCEPT !.phase = "idle"]) :
       Tells(t.app, t.told \o <<Error("turn")>>)
CancelRejected ==
  /\ Trouble({"cancelled"})
  /\ Tells(Troubled, <<Error("cancel")>>)

\* The agent or the voice core fails and is started again.
Breaks ==
  /\ Trouble(Phases \ {"broken"})
  /\ Tells([Troubled EXCEPT !.phase = "broken"], <<Error("engine")>>)
Restart ==
  /\ app.phase = "broken" /\ app.lacks = "nothing"
  /\ Tells([app EXCEPT !.phase = "loading"], <<State("loading")>>)
Ready ==
  /\ app.phase = "loading"
  /\ Tells([app EXCEPT !.phase = "idle"], <<State(Rest(app))>>)

\* dio_app_poll_announcement, whose speech may fail at once; and the end of it,
\* dio_app_handle_speech_complete.
Announce ==
  /\ Trouble({"idle"}) /\ ~app.paused /\ ~app.ptt
  /\ \E phase \in {"announcing", "idle"} :
       Tells([Troubled EXCEPT !.phase = phase], <<Event("ANNOUNCEMENT", 0)>>)
Announced ==
  /\ app.phase = "announcing"
  /\ \E t \in Attempts([app EXCEPT !.phase = "idle"]) :
       Tells(t.app, IF t.told = <<>> THEN <<State(Rest(app))>> ELSE t.told)

\* dio_app_cancel, as far as it decides what is posted later.
Cancelled(x) ==
  [x EXCEPT !.phase = CASE @ \in {"thinking", "replying", "cancelled"} -> "cancelled"
                        [] @ \in {"broken", "loading", "announcing"} -> @
                        [] OTHER -> "idle"]

\* dio_app_handle_ui, one command after another.
SetPaused(on) ==
  /\ LET x == [app EXCEPT !.paused = on, !.ptt = FALSE,
                          !.phase = IF on /\ @ \in Hearing THEN "idle" ELSE @]
     IN Handles(x, <<State(Rest(x))>>)
  /\ UNCHANGED hist

\* Without a provider the push-to-talk is answered; without its secrets it is not,
\* for dio_app_require_vault has told of them when the settings were applied; nor
\* is one that fails.
Talk ==
  \/ /\ app.lacks = "provider"
     /\ Handles(app, <<Error("provider")>>) /\ UNCHANGED hist
  \/ /\ app.lacks = "secrets"
     /\ Handles(app, <<>>) /\ hist' = [hist EXCEPT !.refused = TRUE]
  \/ /\ app.lacks = "nothing"
     /\ \E t \in Attempts(Cancelled([app EXCEPT !.paused = FALSE, !.ptt = TRUE])) :
          /\ Handles(t.app, t.told)
          /\ hist' = [hist EXCEPT !.refused = @ \/ (t.told = <<>> /\ ~t.app.ptt)]

Cancel ==
  /\ LET x == Cancelled([app EXCEPT !.ptt = FALSE])
     IN Handles(x, <<State(Rest(x))>>)
  /\ UNCHANGED hist

\* dio_app_handle_settings: agent and voice core are closed, and opened again if
\* the new profile has all they need; or the profile could not be copied.
ChangeSettings ==
  /\ \/ Handles(app, <<Error("settings")>>)
     \/ \E lacks \in Lacks :
          Handles([app EXCEPT !.lacks = lacks,
                              !.phase = IF lacks = "nothing" THEN "loading" ELSE "broken"],
                  CASE lacks = "nothing" -> <<State("loading")>>
                    [] lacks = "secrets" -> <<State("loading"), Error("secrets")>>
                    [] lacks = "provider" -> <<Error("provider")>>)
  /\ UNCHANGED hist

Decide(r, decision) ==
  /\ hist' = [hist EXCEPT !.answers[r] = Append(@, decision)]
  /\ Handles(app, <<>>)

Obey ==
  /\ commands # <<>> /\ posting = <<>>
  /\ commands' = Tail(commands)
  /\ LET c == Head(commands)
     IN \/ c[1] = "paused" /\ SetPaused(c[2])
        \/ c[1] = "ptt" /\ Talk
        \/ c[1] = "cancel" /\ Cancel
        \/ c[1] = "settings" /\ ChangeSettings
        \/ c[1] = "answer" /\ Decide(c[2], c[3])

-----------------------------------------------------------------------------

Worker ==
  \/ Post \/ Obey \/ Wake \/ Listening \/ Accepted \/ TextDelta \/ Speaking \/ Approval
  \/ Complete \/ VoiceIdle \/ TurnFails \/ CancelRejected
  \/ Breaks \/ Restart \/ Ready \/ Announce \/ Announced
  \/ \E final \in BOOLEAN : Transcript(final)

User ==
  \/ Pause \/ PushToTalk \/ Stop \/ OpenSettings
  \/ \E save \in BOOLEAN : CloseSettings(save)
  \/ \E b \in Decisions, saved \in BOOLEAN : Answer(b, saved)

OverlayNext == Worker \/ User \/ Drain

OverlaySpec == OverlayInit /\ [][OverlayNext]_overlayVars

-----------------------------------------------------------------------------

States == {"idle", "muted", "listening", "follow_up", "thinking", "speaking",
           "loading", "error", "announcement"}

OverlayTypeOK ==
  /\ Len(queue) <= Cap
  /\ ui.state \in States /\ {ui.paused, ui.open, ui.required} \subseteq BOOLEAN
  /\ ui.error \in Texts \union {"none"}
  /\ \A i \in 1..Len(messages) :
       messages[i].kind \in {"USER", "ASSISTANT", "ERROR", "ANNOUNCEMENT"}
  /\ dialogs \in Seq(Requests)
  /\ always \subseteq Requests /\ staged \subseteq Requests \union Closed
  /\ app.phase \in Phases /\ app.lacks \in Lacks
  /\ hist.answers \in [Requests -> Seq(Decisions)]

\* Everything posted has been shown and every command has been handled.
Quiet == queue = <<>> /\ posting = <<>> /\ commands = <<>>

\* "At first glance the current listening/thinking/speaking state dominates"
\* (docs/baseline.md).  The state shown is the last one told: but for a queue
\* that was full; for a push-to-talk, which is shown at once, that waits, or that
\* was refused because secrets are missing or the voice core failed, of which the
\* worker says nothing; and for a state merged into its predecessor ahead of an
\* error or an announcement, which then stays on display.
StateShown ==
  Quiet /\ ~hist.lost =>
    \/ ui.state = hist.said
    \/ (app.ptt \/ hist.refused) /\ ui.state = "listening"
    \/ hist.overtook /\ ui.state \in {"error", "announcement"}

\* The menu offers to pause exactly when the worker is not paused: but for a
\* MUTED shown after the user had already resumed, which no later state undoes.
PauseAgrees ==
  Quiet /\ ~hist.lost /\ ~hist.crossed => ui.paused = app.paused

\* State and menu agree with what the worker told and was told.
ViewAgrees == StateShown /\ PauseAgrees

\* Where the pieces of replies are: on display, in the queue, still to be posted.
Spots ==
  UNION ({{1} \X {i} \X DOMAIN messages[i].text :
             i \in {m \in DOMAIN messages : messages[m].kind = "ASSISTANT"}}
         \union {{2} \X {i} \X DOMAIN queue[i].what :
             i \in {e \in DOMAIN queue : queue[e].kind = "DELTA"}}
         \union {{3} \X {i} \X DOMAIN posting[i].what :
             i \in {e \in DOMAIN posting : posting[e].kind = "DELTA"}})
Piece(s) == CASE s[1] = 1 -> messages[s[2]].text[s[3]]
              [] s[1] = 2 -> queue[s[2]].what[s[3]]
              [] s[1] = 3 -> posting[s[2]].what[s[3]]
Number(s) == Piece(s)[2]
Before(s, t) == \/ s[1] < t[1]
                \/ s[1] = t[1] /\ s[2] < t[2]
                \/ s[1] = t[1] /\ s[2] = t[2] /\ s[3] < t[3]

\* However pieces are merged they are shown in the order in which they came and
\* none twice; and none is missing from the first one on display to the latest,
\* unless the queue was full.
RepliesWhole ==
  /\ \A s, t \in Spots : Before(s, t) => Number(s) < Number(t)
  /\ \A s \in Spots : ~hist.lost =>
       /\ Number(s) <= app.pieces
       /\ \A n \in Number(s)..app.pieces : \E t \in Spots : Number(t) = n

\* The question above a reply is the one it answers: but for a question merged
\* into an earlier one that still waits in front of its own reply.
RepliesPlaced ==
  ~hist.lost /\ ~hist.mixed =>
    \A i \in 1..Len(messages) : messages[i].kind = "ASSISTANT" =>
      \A t \in {p[1] : p \in Range(messages[i].text)} :
        \E j \in 1..(i - 1) :
          /\ messages[j] = Message("USER", t)
          /\ \A k \in j..i : messages[k].kind = "USER" => k = j

TranscriptFaithful == RepliesWhole /\ RepliesPlaced

\* Where request r is: still to be posted, queued, asked, on its way back to the
\* worker, or answered.
Where(seq, S) == {i \in DOMAIN seq : seq[i] \in S}
Places(r) ==
  ({"posting"} \X Where(posting, {Event("APPROVAL", r)}))
    \union ({"queue"} \X Where(queue, {Event("APPROVAL", r)}))
    \union ({"dialog"} \X Where(dialogs, {r}))
    \union ({"command"} \X Where(commands, {"answer"} \X {r} \X Decisions))
    \union ({"answer"} \X DOMAIN hist.answers[r])

\* A tool that asks is answered exactly once: its request is never lost, not even
\* by a full queue or beneath another dialog, and never answered twice.  It is
\* allowed for good only with the permission saved, unless the settings dialog
\* has put an older profile in its place since.
AnswersSound ==
  \A r \in Requests :
    /\ Cardinality(Places(r)) = IF r <= app.asked THEN 1 ELSE 0
    /\ hist.answers[r] = <<"always">> => r \in always \union hist.undone
=============================================================================
