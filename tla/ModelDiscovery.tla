---------------------------- MODULE ModelDiscovery ----------------------------
(***************************************************************************)
(* How the settings dialog gets the model catalogue of a provider: the     *)
(* dialog numbers its requests and waits a moment before each              *)
(* (src/app/ui.c), the application's worker opens a harness of its own for *)
(* every one (src/app/main.c), and the thread that reads the harness puts  *)
(* the answer into a single slot of the window before it tells the worker. *)
(*                                                                         *)
(* Requests, replies and events name the dialog they come from.  The code  *)
(* does not: it compares numbers, and every dialog counts from zero.       *)
(*                                                                         *)
(* A key stands for the endpoint it was typed for.  Left out: what a       *)
(* catalogue says, the choice of a model, the vault's file (Vault has      *)
(* both halves of a Save; here it is whole), and the end of the program.   *)
(***************************************************************************)
EXTENDS Naturals, Sequences, Functions

CONSTANTS Endpoints,   \* the valid base URLs
          NoEndpoint,  \* an empty or invalid one
          NoKey,
          MaxDialogs,   \* bound: dialogs opened
          MaxIncidents  \* bound: dialogs after the first, what the user changes in
                        \* them, commands and events that are lost or fail

ASSUME DiscoveryAssumption ==
  /\ NoEndpoint \notin Endpoints /\ NoKey \notin Endpoints \union {NoEndpoint}
  /\ {MaxDialogs, MaxIncidents} \subseteq Nat

VARIABLES
  saved,     \* ui->profile and the vault: the endpoint and its key
  unlocked,  \* ui->vault.unlocked
  dialog,    \* DioSettingsDialog, or Closed
  slot,      \* ui->pending_models, or Nothing
  queue,     \* app->events
  app,       \* where the worker is; the request with its key and deadline, the
             \* command it is about to open; whether the answer was handled
  agent,     \* app->discovery_agent, the harness of app.request, or NoAgent
  reader,    \* what the thread that reads the harness is about to tell
  left,      \* dialogs and incidents that are left
  hist       \* history: silent, the requests that nobody answers; mixed, those
             \* for which an event of an earlier dialog was taken

vars == <<saved, unlocked, dialog, slot, queue, app, agent, reader, left, hist>>
ui == <<saved, unlocked, dialog>>

Closed == [id |-> 0]
Nothing == [what |-> "nothing"]
NoAgent == [phase |-> "none"]
Silent == [kind |-> "none"]
NoRequest == [dialog |-> 0, number |-> 0, endpoint |-> NoEndpoint]
NoCommand == [kind |-> "none", of |-> NoRequest, key |-> NoKey]
Results == {"catalogue", "failed"}

Event(kind, of) == [kind |-> kind, of |-> of, key |-> NoKey]
Reply(of, what, why) == [of |-> of, what |-> what, why |-> why]

Init ==
  /\ saved \in [endpoint : Endpoints \union {NoEndpoint}, key : {NoKey}] \union
               {[endpoint |-> e, key |-> e] : e \in Endpoints}
  /\ unlocked = FALSE /\ dialog = Closed
  /\ slot = Nothing /\ queue = <<>>
  /\ app = [at |-> "loop", request |-> NoRequest, key |-> NoKey, deadline |-> FALSE,
            then |-> "nothing", next |-> NoCommand, answered |-> FALSE]
  /\ agent = NoAgent /\ reader = Silent
  /\ left = [dialogs |-> MaxDialogs, incidents |-> MaxIncidents]
  /\ hist = [silent |-> {}, mixed |-> {}]

-----------------------------------------------------------------------------
(* The dialog                                                               *)

Incident == left.incidents > 0 /\ left' = [left EXCEPT !.incidents = @ - 1]

\* dio_app_enqueue finds room, or the queue is full, or the worker recovers
\* from that and accepts nothing.
Send(e) ==
  \/ queue' = Append(queue, e) /\ UNCHANGED <<left, hist>>
  \/ /\ Incident /\ UNCHANGED queue
     /\ hist' = IF e.kind = "DISCOVER" THEN [hist EXCEPT !.silent = @ \union {e.of}]
                ELSE hist

\* dio_model_endpoint_valid: https, or http on the machine itself.
Valid(endpoint) == endpoint \in Endpoints

\* Mutant: an endpoint that is not asked gets no number.
ScheduledIfValid(d) ==
  IF Valid(d.endpoint)
  THEN [d EXCEPT !.number = @ + 1, !.timer = TRUE, !.status = "loading"]
  ELSE [d EXCEPT !.timer = FALSE, !.status = "hint"]

\* dio_schedule_model_discovery.
Scheduled(d) ==
  [d EXCEPT !.number = @ + 1,
            !.timer = Valid(d.endpoint),
            !.status = IF Valid(d.endpoint) THEN "loading" ELSE "hint"]

\* The edit control reports the new text: the key is dirty, and asked with.
KeyTyped(d, k) == Scheduled([d EXCEPT !.key = k, !.dirty = TRUE])

\* dio_create_settings_controls.
Open ==
  /\ dialog = Closed /\ left.dialogs > 0
  /\ left.dialogs < MaxDialogs => left.incidents > 0
  /\ left' = [dialogs |-> left.dialogs - 1,
              incidents |-> left.incidents - (IF left.dialogs < MaxDialogs THEN 1 ELSE 0)]
  /\ LET fresh == [id |-> MaxDialogs - left'.dialogs, number |-> 0,
                   endpoint |-> saved.endpoint, changed |-> FALSE,
                   key |-> NoKey, dirty |-> FALSE,
                   anonymous |-> saved.endpoint # NoEndpoint, timer |-> FALSE,
                   status |-> "hint", shown |-> 0, list |-> NoRequest]
         filled == IF unlocked /\ saved.key # NoKey THEN KeyTyped(fresh, saved.key)
                   ELSE fresh
     IN dialog' = Scheduled([filled EXCEPT !.dirty = FALSE])
  /\ UNCHANGED <<saved, unlocked, slot, queue, app, agent, reader, hist>>

Edits ==
  /\ dialog # Closed /\ Incident
  /\ UNCHANGED <<saved, slot, queue, app, agent, reader, hist>>

\* EN_CHANGE of the base URL.  Another endpoint loses catalogue and key, is
\* detached from the key that is saved, and is asked without one first.
EditEndpoint(e) ==
  /\ Edits /\ UNCHANGED unlocked
  /\ dialog' = Scheduled(
       IF e = dialog.endpoint THEN dialog
       ELSE [dialog EXCEPT !.endpoint = e, !.changed = TRUE, !.list = NoRequest,
                           !.key = NoKey, !.dirty = saved.key # NoKey,
                           !.anonymous = TRUE])

\* EN_CHANGE of the API key, which can be typed while the vault is open.
EditKey(typed) ==
  /\ Edits /\ UNCHANGED unlocked /\ unlocked
  /\ dialog' = KeyTyped(dialog, IF typed THEN dialog.endpoint ELSE NoKey)

\* dio_vault_unlock_or_create; the key it puts into the field reports a change
\* and schedules a first time.
Unlock ==
  /\ Edits /\ ~unlocked /\ unlocked' = TRUE
  /\ LET filled == KeyTyped(dialog, IF dialog.changed THEN NoKey ELSE saved.key)
     IN dialog' = Scheduled([filled EXCEPT !.dirty = dialog.changed /\ saved.key # NoKey])

Cancel ==
  /\ dialog # Closed /\ dialog' = Closed
  /\ UNCHANGED <<saved, unlocked, slot, queue, app, agent, reader, left, hist>>

\* dio_save_settings_dialog: a dirty key needs an open vault.  The command goes
\* out before the window is destroyed.
Save ==
  /\ dialog # Closed /\ (dialog.dirty => unlocked)
  /\ saved' = [endpoint |-> dialog.endpoint,
               key |-> IF dialog.dirty THEN dialog.key ELSE saved.key]
  /\ dialog' = Closed
  /\ Send(Event("SETTINGS", NoRequest))
  /\ UNCHANGED <<unlocked, slot, app, agent, reader>>

\* WM_TIMER: dio_request_model_discovery.  The first request of an endpoint
\* goes without the key, and the next is scheduled if there is one.
TimerFires ==
  /\ dialog # Closed /\ dialog.timer
  /\ LET asked == [dialog EXCEPT !.timer = FALSE, !.anonymous = FALSE]
         known == unlocked /\ dialog.key # NoKey
         of == [dialog |-> dialog.id, number |-> dialog.number,
                endpoint |-> dialog.endpoint]
     IN /\ Send([kind |-> "DISCOVER", of |-> of,
                 key |-> IF ~dialog.anonymous /\ known THEN dialog.key ELSE NoKey])
        /\ dialog' = IF dialog.anonymous /\ known THEN Scheduled(asked) ELSE asked
  /\ UNCHANGED <<saved, unlocked, slot, app, agent, reader>>

\* DIO_WM_MODELS_READY: dio_apply_discovered_models, if there is a dialog and
\* the number is its latest.
Apply ==
  /\ slot # Nothing /\ slot' = Nothing
  /\ dialog' = IF dialog = Closed \/ slot.of.number # dialog.number THEN dialog
               ELSE [dialog EXCEPT
                       !.status = slot.what, !.shown = slot.of.dialog,
                       !.list = IF slot.what = "catalogue" THEN slot.of ELSE @]
  /\ UNCHANGED <<saved, unlocked, queue, app, agent, reader, left, hist>>

Ui ==
  \/ Open \/ Unlock \/ Cancel \/ Save \/ TimerFires \/ Apply
  \/ \E e \in Endpoints \union {NoEndpoint} : EditEndpoint(e)
  \/ \E typed \in BOOLEAN : EditKey(typed)

-----------------------------------------------------------------------------
(* The harness and the thread that reads it                                 *)

Closing == app.at = "closing"
Post(what, why) == slot' = Reply(app.request, what, why)

\* External: the harness greets; the reader takes it for ready unless the
\* client is being closed.
HarnessReady ==
  /\ agent.phase = "starting" /\ agent.alive /\ reader = Silent /\ ~Closing
  /\ agent' = [agent EXCEPT !.phase = "ready"]
  /\ reader' = [kind |-> "READY"]
  /\ UNCHANGED <<ui, slot, queue, app, left, hist>>

\* External: the harness has asked the provider.
HarnessAnswers(what) ==
  /\ agent.phase = "ready" /\ agent.alive /\ agent.asked > 0
  /\ reader = Silent /\ ~Closing
  /\ agent' = [agent EXCEPT !.asked = @ - 1]
  /\ reader' = [kind |-> "MODELS", what |-> what]
  /\ UNCHANGED <<ui, slot, queue, app, left, hist>>

\* External: the harness dies or sends what is refused.
HarnessDies ==
  /\ agent # NoAgent /\ agent.alive
  /\ agent' = [agent EXCEPT !.alive = FALSE]
  /\ UNCHANGED <<ui, slot, queue, app, reader, left, hist>>

\* dio_transport_failure on the reader's side: one ERROR, unless the client is
\* closed first.  One that never connected is not noticed at all.
ReaderFails ==
  /\ agent.phase \in {"starting", "ready"} /\ ~agent.alive
  /\ reader = Silent /\ ~Closing
  /\ agent' = [agent EXCEPT !.phase = "failed"]
  /\ reader' = [kind |-> "ERROR"]
  /\ UNCHANGED <<ui, slot, queue, app, left, hist>>

\* dio_app_agent_callback: an answer goes to the window first.
ReaderPosts ==
  /\ reader.kind = "MODELS"
  /\ Post(reader.what, "answer")
  /\ reader' = [kind |-> "POSTED"]
  /\ UNCHANGED <<ui, queue, app, agent, left, hist>>

ReaderTells ==
  /\ reader.kind \in {"READY", "ERROR", "POSTED"}
  /\ Send(Event(IF reader.kind = "POSTED" THEN "MODELS" ELSE reader.kind,
                app.request))
  /\ reader' = Silent
  /\ UNCHANGED <<ui, slot, app, agent>>

\* dio_emit finds the client closing before it calls back.
ReaderDrops ==
  /\ reader.kind \in {"READY", "ERROR", "MODELS"} /\ Closing
  /\ reader' = Silent
  /\ UNCHANGED <<ui, slot, queue, app, agent, left, hist>>

Reader == ReaderPosts \/ ReaderTells \/ ReaderDrops

-----------------------------------------------------------------------------
(* The application's worker                                                 *)

\* dio_app_close_discovery up to the join of the reader.
Closes(then) == [app EXCEPT !.at = "closing", !.then = then, !.deadline = FALSE]
Close(then) == app' = Closes(then)
Take(e) == app.at = "loop" /\ queue # <<>> /\ Head(queue) = e /\ queue' = Tail(queue)

\* An event is taken for the request's own by its number alone.
Ours(e) == e.of.number = app.request.number
Mixed(e) ==
  IF e.of = app.request THEN hist ELSE [hist EXCEPT !.mixed = @ \union {app.request}]

\* dio_app_handle_discovery up to the end of dio_app_close_discovery.
HandleDiscover(e) ==
  /\ Take(e) /\ e.kind = "DISCOVER"
  /\ app' = [Closes("open") EXCEPT !.next = e]
  /\ UNCHANGED <<ui, slot, agent, reader, left, hist>>

\* dio_app_handle_settings, as far as it concerns the search; without memory for
\* the profile it changes nothing.
HandleSettings(e) ==
  /\ Take(e) /\ e.kind = "SETTINGS"
  /\ \/ Close("nothing") /\ UNCHANGED left
     \/ Incident /\ UNCHANGED app
  /\ UNCHANGED <<ui, slot, agent, reader, hist>>

Ignore(e) ==
  /\ Take(e) /\ e.kind \in {"READY", "MODELS", "ERROR"} /\ ~Ours(e)
  /\ UNCHANGED <<ui, slot, app, agent, reader, left, hist>>

\* READY: dio_agent_list_models is sent.
AskModels(e) ==
  /\ Take(e) /\ e.kind = "READY" /\ Ours(e)
  /\ agent.phase = "ready" /\ agent.alive
  /\ agent' = [agent EXCEPT !.asked = @ + 1] /\ hist' = Mixed(e)
  /\ UNCHANGED <<ui, slot, app, reader, left>>

\* READY: there is no client, or it is not ready or has failed.
CannotAsk(e) ==
  /\ Take(e) /\ e.kind = "READY" /\ Ours(e) /\ agent.phase # "ready"
  /\ Post("failed", "died") /\ Close("nothing") /\ hist' = Mixed(e)
  /\ UNCHANGED <<ui, agent, reader, left>>

\* READY: the harness is gone, which the send notices first and reports.
AskFails(e) ==
  /\ app.at = "loop" /\ queue # <<>> /\ Head(queue) = e
  /\ e.kind = "READY" /\ Ours(e) /\ agent.phase = "ready" /\ ~agent.alive
  /\ \/ queue' = Append(Tail(queue), Event("ERROR", app.request)) /\ UNCHANGED left
     \/ queue' = Tail(queue) /\ Incident
  /\ agent' = [agent EXCEPT !.phase = "failed"]
  /\ Post("failed", "died") /\ Close("nothing") /\ hist' = Mixed(e)
  /\ UNCHANGED <<ui, reader>>

\* Mutant: the harness is left to its deadline.
HandleModelsKeepsOpen(e) ==
  /\ Take(e) /\ e.kind = "MODELS" /\ Ours(e)
  /\ app' = [app EXCEPT !.answered = e.of = app.request]
  /\ UNCHANGED <<ui, slot, agent, reader, left, hist>>

\* MODELS and MODELS_ERROR: the window has it already.
HandleModels(e) ==
  /\ Take(e) /\ e.kind = "MODELS" /\ Ours(e)
  /\ app' = [Closes("nothing") EXCEPT !.answered = e.of = app.request]
  /\ hist' = [Mixed(e) EXCEPT !.silent = IF e.of = app.request THEN @
                                         ELSE @ \union {app.request}]
  /\ UNCHANGED <<ui, slot, agent, reader, left>>

HandleError(e) ==
  /\ Take(e) /\ e.kind = "ERROR" /\ Ours(e)
  /\ Post("failed", "died") /\ Close("nothing") /\ hist' = Mixed(e)
  /\ UNCHANGED <<ui, agent, reader, left>>

\* The worker is back in its loop, and the key is erased.
Rests == [app EXCEPT !.at = "loop", !.then = "nothing", !.key = NoKey, !.answered = FALSE]

\* Mutant: the deadline is set before the previous search is closed, which
\* clears it.
OpenedBeforeClose(opened) ==
  [Rests EXCEPT !.request = app.next.of, !.next = NoCommand,
                !.key = IF opened THEN app.next.key ELSE NoKey]

\* dio_app_open_discovery has started a harness, which has ten seconds, or not.
Opened(opened) ==
  [Rests EXCEPT !.request = app.next.of, !.next = NoCommand,
                !.key = IF opened THEN app.next.key ELSE NoKey,
                !.deadline = opened]

\* dio_agent_close has joined the reader; what was to be done behind it.
Joined ==
  /\ Closing /\ reader = Silent
  /\ \/ /\ app.then = "nothing"
        /\ app' = Rests /\ agent' = NoAgent /\ UNCHANGED slot
     \/ /\ app.then = "timeout"
        /\ app' = Rests /\ agent' = NoAgent
        /\ Post("timeout", IF app.answered THEN "overdue" ELSE "late")
     \/ /\ app.then = "open" /\ app' = Opened(TRUE) /\ UNCHANGED slot
        /\ agent' = [phase |-> "starting", alive |-> TRUE, asked |-> 0]
     \/ /\ app.then = "open" /\ app' = Opened(FALSE) /\ agent' = NoAgent
        /\ slot' = Reply(app.next.of, "failed", "unopened")
  /\ UNCHANGED <<ui, queue, reader, left, hist>>

\* dio_app_maybe_timeout_discovery, when the queue was found empty.  What comes in
\* just before it is as if it came while the reader is joined.  Time is not
\* counted: a deadline may be over at once.
TimesOut ==
  /\ app.at = "loop" /\ queue = <<>>
  /\ agent # NoAgent /\ app.deadline
  /\ Close("timeout")
  /\ UNCHANGED <<ui, slot, queue, agent, reader, left, hist>>

Handle(e) ==
  \/ HandleDiscover(e) \/ HandleSettings(e) \/ Ignore(e) \/ AskModels(e)
  \/ CannotAsk(e) \/ AskFails(e) \/ HandleModels(e) \/ HandleError(e)

Worker ==
  \/ queue # <<>> /\ Handle(Head(queue))
  \/ Joined \/ TimesOut

-----------------------------------------------------------------------------

Next ==
  \/ Ui \/ Reader \/ Worker
  \/ HarnessReady \/ HarnessDies \/ ReaderFails
  \/ \E what \in Results : HarnessAnswers(what)

\* The threads run, the timer fires and a deadline is over some time; neither
\* the user nor the harness has to do anything.
Fairness == /\ WF_vars(TimerFires) /\ WF_vars(Apply)
            /\ WF_vars(Reader) /\ WF_vars(Worker)

Spec == Init /\ [][Next]_vars /\ Fairness

-----------------------------------------------------------------------------
(* Properties                                                               *)

\* A key is kept and sent with the endpoint it was typed for, in the dialog and
\* on its way to the harness, and a catalogue a dialog has asked for is shown
\* with its own endpoint only, however the endpoint is edited while requests
\* and answers are under way (ui.c:10378, 4053).
EndpointFits ==
  /\ app.key \in {NoKey, app.request.endpoint}
  /\ \A c \in {app.next} \union Range(queue) : c.key \in {NoKey, c.of.endpoint}
  /\ saved.key \in {NoKey, saved.endpoint}
  /\ dialog # Closed =>
       /\ dialog.key \in {NoKey, dialog.endpoint}
       /\ dialog.list.dialog = dialog.id => dialog.list.endpoint = dialog.endpoint

\* A catalogue stands until the dialog asks again.  What may still replace it
\* is a deadline that struck before the worker had seen the answer, a harness
\* that died after it, and what the numbers confuse: a reply of an earlier
\* dialog, or an event of one taken for this request's (main.c:895, ui.c:4053).
AnswerStands ==
  [][ (/\ dialog # Closed /\ dialog' # Closed
       /\ dialog.status = "catalogue" /\ dialog'.status # "catalogue"
       /\ dialog'.number = dialog.number)
      => \/ slot.why \in {"late", "died"}
         \/ {slot.of.dialog, dialog.shown} # {dialog.id}
         \/ slot.of \in hist.mixed ]_vars

\* A dialog that says it is loading says something else in the end, whatever
\* the harness does, unless its command was lost or the MODELS of an earlier
\* dialog has closed its search (main.c:1811, 895).
Waiting == dialog # Closed /\ dialog.status = "loading"
Forgotten == \E r \in hist.silent : r.dialog = dialog.id /\ r.number = dialog.number
Answered == Waiting ~> (~Waiting \/ Forgotten)

=============================================================================
