# DIO Voice in TLA+

DIO Voice (`src/`) is a Windows voice assistant written in C: it listens for a wake word, recognizes a
spoken command, hands it to an agent process, speaks the answer through a Piper server and listens again.
This directory holds its formal model: TLA+ modules translated from the source, TLC configurations that
check them on small instances, and theorems proved with TLAPS for every value of the constants.

1. [Inventory](#inventory)
2. [Modules and how they correspond to the code](#modules)
3. [The runs](#runs)
4. [Disagreements between the code and what is said of it](#findings)
5. [Proofs](#proofs)
6. [What is not modelled](#limits)
7. [Plan](#plan)

<a id="inventory"></a>
## Inventory

### How the parts fit together

The application (`app/main.c`) runs a UI thread and one worker thread. The worker is the only caller of
the voice core, of the agent client and of the text-to-speech handle. Those three answer by callbacks from
threads of their own; the callbacks put messages in the application's bounded event queue, and the worker
takes them out one at a time. Every message carries the generation of the agent or voice object that sent
it, so that one of a closed object is recognized as stale.

```
 UI thread --event queue--> app worker --calls--> voice core   (speech worker, recognition worker, audio devices)
                              ^   |                   | callback
                              |   +------calls--> agent client (reader thread) <--named pipe--> harness process
                              |                       | callback
                              +-----event queue-------+
 voice core's speech worker --HTTP--> Piper server process (tts.c owns its start, restart and stop)
 app worker --posts--> overlay's event queue --drained by--> UI thread --commands--> app worker
 app worker --polls--> announcement directory <--renames-- reminder processes, other programs
 settings dialog (UI thread) --> vault file, settings file;  then SETTINGS_CHANGED to the app worker
 bootstrap program: installs components into a directory and launches the application
```

### Components

| Component | State it keeps | Operations | Hard behaviour | What makes it correct |
|---|---|---|---|---|
| PCM stream `core/pcm_stream.c` | ring buffer, `final`, `cancelled`, `started`, two manual-reset events | create, write, finish, cancel, play, destroy, the device's data callback | the callback races with write, finish and cancel; the stream is shared by caller and worker | no use after free; the end only when everything was read; first audio reported before the end |
| Speech queue and worker `core/voice_core.c` | linked list of requests, `pcm_stream`, `pcm_stream_active`, `speech_active`, three events | speak, stream_start / write / finish, cancel, close; the worker's loop | cancel drains while the worker pops; SetEvents outside the lock; close waits for an event three threads set and reset | one SPEECH_COMPLETE per accepted utterance, in order; no cancel lost or late; close returns and nothing is delivered after it |
| Recognition worker `core/voice_core.c` | mode (WAKE, LISTENING, FOLLOW_UP, PAUSED), the command and its counters, five interlocked flags, audio ring | start, set_paused, push_to_talk, follow_up, cancel, close, capture callback, one pass of the worker | flags read one by one without a lock; failure latched in the middle of a pass; speech takes the microphone away | the recognizer is open exactly while it listens; the microphone's state is always announced; commands end |
| Agent client `agent/agent_harness.c` | STARTING / READY / ACTIVE / FAILED / CLOSING, turn id, sequence number, generation, pipe and process handles | open, submit, cancel, list_models, approve_tool, close; the reader thread | decisions under the lock, events outside it; frames that cross a cancel; the harness dies or stops reading | each turn ends once; nothing after close; a cancel does not break the transport |
| Piper server and TTS `core/tts.c` | process and job handles; the flags `ready`, `active`, `restart`, `closing` | open, speak, server_cancel, restart, close; a startup thread per process | three threads share the record without a lock; a cancel ends a process that is being replaced | handles outlive their users; no text to a cold process; the server recovers |
| Application controller `app/main.c` | turn, suppression, gating, tracked speeches, follow-up, push-to-talk, generations, event queue | UI, agent, voice and discovery messages, timers, overflow recovery, shutdown | messages already queued when the state they are about is gone; partial failures; restarts | no turn or gate stuck; nothing spoken after a cancel; a follow-up only after the answer was heard |
| Announcement inbox `app/announcement.c` | a directory; the extension of a file says how far its message is | schedule, open with recovery, release of timers, take, finish | the program ends between being heard and being deleted; two files of one name | no announcement is lost, each further hearing has cost a fault of its own |
| Secret vault `app/vault.c`, settings dialog `app/ui.c` | entries, key, open or not, `secrets.bin`; `settings.json` that refers to the entries | create, unlock, set, remove, change_password, reset, save | failure between memory and disk, and between the two files | the last password opens the file; the two files agree |
| Bootstrap installer `bootstrap/main.c` | `.part` files, cache, staging, targets and their backups, marker | prepare, stage, publish, mark, clean, launch, cancel | a crash or a cancel between any two renames | no target loses the tree it had or gets a torn one; what an install launches is whole; a retry succeeds |
| Overlay `app/ui.c` | event queue, state shown, menu, transcript, approval dialogs | post with merging, drain, menu, answer, settings dialog | posts merge and overflow while the other thread drains; modal loops nest | state and menu agree with the worker; the transcript is in order; each tool request gets one answer |
| Model discovery `app/ui.c`, `app/main.c` | the dialog's request number and timer, one slot for the reply, the searching harness with its deadline | schedule, request, apply; open, ask, close, time out; the reader's callback | the reply goes to the window before the worker hears of it; numbers start again with each dialog; the harness dies or a command is lost | key and catalogue stay with their endpoint; an answer that is shown stands; every request is answered |
| Settings, support `app/app_support.c` | settings record and file | load, save, atomic replacement | crash during the save (seen with the vault) | the old or the new file survives |
| Sentence buffer `app/sentence_buffer.c` | bytes of the answer not yet spoken | append, take, flush | limits at the end of the buffer | not modelled |
| Capture, earcons, WAV `core/audio_capture.c`, `earcon.c`, `audio_wav.c` | device handles | start, stop, play | device I/O | not modelled |
| Model runtimes `core/ort_runtime.c`, `vosk_runtime.c`, `wake_onnx.c` | loaded libraries | inference | numeric | not modelled |

`PROJECT.json` lists the same components with what is modelled of each, and under "hazards" the lines where
each of them is hard to test.

<a id="modules"></a>
## Modules and how they correspond to the code

### PcmStream and VoiceSpeech

`PcmStream` is one stream as a value: a record of its flags and the number of unread samples, with an
operator per operation (`CanWrite` / `Written`, `CanFinish` / `Finished`, `Cancelled`, `AtEnd` / `Ended`,
`CanRead` / `Read`, `FirstAudio`). Samples are counted. `started_event` and `terminal_event` are
manual-reset and never reset, so each is a flag.

`VoiceSpeech` composes these streams with the queue, the worker, the device and the calling threads.
Constants: `Callers`, `MaxUtt` (bound on the accepted utterances), `QueueLimit`
(`DIO_SPEECH_QUEUE_LIMIT`), `RingCap`.

| Model | Code |
|---|---|
| `queue`, `pcm`, `pcmActive`, `active` | `speech_head`..`speech_tail`, `pcm_stream`, `pcm_stream_active`, `speech_active` |
| `cancelEvent`, `idleEvent`, `speechEvent`, `stopEvent`, `closing` | the events and the flag of the same names |
| `stream[u]`, `Alive`, `streamed` | the streams that exist, and which of them the caller feeds |
| `wpc`, `cur`, `outcome`, `reported`, `queueEmpty` | where the speech worker is, and its locals |
| `cpc[c]`, `drained[c]` | where a caller is inside cancel or close, and the requests its cancel detached |
| `next`, `spoke`, `terminals`, `result`, `cancelMark` | history: what was accepted, announced, ended; the youngest utterance at the latest cancel |
| `Speak`, `StreamStart`, `StreamWrite`, `StreamFinish` | the API functions; `SignalSpeech` is the SetEvent after the lock |
| `Cancel`, `CancelTake`, `CancelAgain`, `CancelReport`, `CancelReturn` | `dio_voice_cancel`: the first SetEvent, the drain under the lock, the second SetEvent, one event per drained request |
| `Close`, `CloseIdle`, `CloseStop`, `CloseJoin` | `dio_voice_close` |
| `WorkerWake`, `Pop`, `Synthesize`, `PlayOpen`, `PlayStarted`, `PlayEnded`, `EmitSpeaking`, `PlayCleanup`, `Settle`, `Report`, `Release`, `SignalIdle`, `WorkerExit` | `dio_voice_speech_worker` and `dio_pcm_stream_play` |
| `DeviceEnd`, `DeviceRead`, `DeviceStarted` | `dio_pcm_stream_callback` |

Atomicity. One critical section of `speech_lock` is one step, and so is every SetEvent, callback and wait
outside it. A write that wraps the ring is one step, because the callback reads only up to the published
count. Left out: `dio_voice_start` (it has returned), the refusals that change nothing (NOT_READY, BUSY,
INVALID), the `failed` guard of `stream_start` (VoiceRecognition has the flag), and
`dio_tts_server_cancel`, whose effect is one of the outcomes `Synthesize` chooses from.

`SpeechContract` is the abstract specification: each utterance goes from new to pending, perhaps to
speaking, to one of three ends; one speaks at a time; success needs speaking. `VoiceSpeech` defines the
refinement mapping `status` and the property `ImplementsContract`.

### VoiceRecognition

The recognition worker, its owner (the application's worker) and what surrounds them. Constants: the
command's limits in 32 ms frames (`StartFrames`, `SilenceFrames`, `MaxFrames`), the audio ring
(`QueueFrames`) and the bounds `MaxCalls`, `MaxSpeeches`.

| Model | Code |
|---|---|
| `paused`, `pushRequested`, `followRequested`, `cancelRequested`, `speechActive`, `failed`, `closing` | the interlocked flags |
| `mode`, `wasSpeaking`, `command`, `deadlinePassed` | `mode`, `recognition_was_speaking`, the `command_*` fields, `follow_up_deadline` |
| `rpc`, `holding` | where `dio_voice_recognition_worker` is |
| `shown`, `spokenSince`, `owed`, `spurious` | history of the events the callback received |
| `Control...`, `TakePush`, `TakeFollow` and the steps between | `dio_voice_handle_control`: one step per flag it reads |
| `Dequeue`, `FrameSpeaking`, `FramePaused`, `Process`, `Listen`, `Following` | `dio_voice_process_frame` |
| `StartCommand`, `FinishCommand`, `Heard`, `Captured`, `Latch`, `Reset`, `ToIdle` | the helpers they call |
| `SetPaused`, `PushToTalk`, `FollowUp`/`Unpause`, `Cancel`, `Close`... | the API |
| `Feed`, `SpeechBegin`, `SpeechEnd`, `DeadlinePasses`, `GracePasses` | capture callback, speech worker, clocks |

The results of wake word, VAD and recognizer are nondeterministic, as are their failures. The check of
`failed` and `speech_active` by an API function and the setting of its request are one step: the worker
looks at both again. `audio_event` is left out: the worker never sleeps longer than 32 ms anyway. A frame
that finds the ring full is dropped, which changes nothing. Contents of ring and pre-roll, LEVEL, WAKE and
TRANSCRIPT events, earcons and test hooks are left out. `follow_up_ms` is not 0 (0 disables the feature).

### AgentTransport

The agent client, its owner (the application's worker), its reader thread and the harness process behind
the pipe, from the moment `dio_agent_open` has returned. Constants: `MaxTurns` (bound), `PipeFrames` (frames
a pipe buffers in each direction).

| Model | Code |
|---|---|
| `state`, `activeTurn`, `nextTurn`, `accepted`, `cancelRequested`, `audio`, `closing` | the fields of `DioAgent` under `state_lock`; `audio` is `active_audio_sample_rate # 0` |
| `opc`, `sending`, `asked` | where the owner is inside a call, the frames it still has to send, the approval the user is asked for |
| `rpc`, `frame`, `aborted` | where `dio_reader_worker` is, the frame it read, whether `CancelIoEx` ended its I/O |
| `pend[t]` | the event thread `t` decided on under the lock and delivers after it |
| `Submit`, `ListModels`, `ApproveTool`, `Cancel`, then `Send` / `SendFails` | the API functions; the lock is held until the last frame is written |
| `OwnerFail`, `OwnerTerminate`, `OwnerEmit`, `ReaderFail`, `ReaderTerminate`, `ReaderLastEmit` | `dio_transport_failure` in either thread: decision, TerminateJobObject, event |
| `Close`, `CloseIo`, `CloseState`, `CloseJob`, `CloseJoin` | `dio_agent_close` with `dio_destroy` |
| `Connect`, `Connected`, `Hello`, `ReadIssue`, `ReadFrame`, `ReadFails` | the reader's pipe operations |
| `AcceptReady`, `AcceptModels`, `AcceptNotice`, `AcceptTurn`, `AcceptDelta`, `AcceptPcm`, `AcceptDone`, `AcceptError` | the branches of `dio_accept_control`, and `dio_accept_pcm16` |
| `alive`, `hung`, `h`, `HRead`...`HHang` | the harness, external: it follows the protocol `tests` play, may be slow, hang or die, and may send one frame of a turn that was cancelled |
| `ends`, `how`, `cancelled`, `late`, `stray`, `explained` | history |

Atomicity. A critical section of `state_lock` is one step, except where the owner keeps the lock while it
writes: a write waits for the harness to read, and the reader waits for the lock. That wait ends by
`DIO_HARNESS_WRITE_TIMEOUT_MS`, which `SendFails` may take whenever the pipe is full. Events are delivered
after the lock, in steps of their own. Frames are written and read whole; JSON, texts and model lists are
data; allocations succeed; turn and sequence numbers do not wrap.

### AppController

The application's worker. A handler is one step: the worker is one thread, and while a handler runs the other
threads only append to the queue. So the module is made of operators, one per C function, on a record `w`
that holds the fields of `DioApp`, the queue, and the agent and voice core reduced to what `AgentTransport`,
`VoiceRecognition` and `VoiceSpeech` let them answer and send. Constants: `QueueCap`, `SpeechCap` and
`MaxRestarts` (the code's), `MaxTurns`, `MaxOutput` and `MaxIncidents` (bounds: a command of the user, a
failing call, a failure of agent or core, a missed deadline is an incident).

| Model | Code |
|---|---|
| `w.turn`, `suppressed`, `complete`, `gated`, `followAllowed`, `followListening`, `listening`, `ptt`, `paused` | `turn_active`, `turn_output_suppressed`, `agent_complete`, `voice_gated`, `follow_up_allowed`, `follow_up_listening`, `listening_active`, `push_to_talk_pending`, `paused` |
| `w.speech`, `receipt`, `streamId`, `streamAudio`, `turnId`, `pcm`, `text` | tracked speech, the announcement being spoken, the stream, the accepted turn and whether it has audio, a non-empty sentence buffer |
| `w.agentGen`, `voiceGen`, `...Restart`, `...Tries` | generations, a scheduled restart, the attempts |
| `w.queue`, `overflow`, `PushAll` | the ring of events, `queue_overflow`, `dio_app_enqueue` |
| `Wake`, `Dequeue`, `Drained`, `EndRound`, `Stop` | the loop of `dio_app_worker`; `Recover`, `TimeoutAgent`, `RestartAgent`, `RestartVoice`, `PollAnnouncement` are what a round does besides the queue |
| `OnUi`, `OnAgent`, `OnVoice` and the operators they use | `dio_app_handle_ui`, `_agent`, `_voice` and the functions they call |
| `Command`, `Agent...`, `Core...`, `Speech...` | the user, the agent, the voice core: a call changes their state at once, an event enters the queue when its sender sends it |
| `ann`, `annHeard`, `quiet`, `unheard`, `refused` | history |

Left out: LEVEL and PROGRESS events (the queue replaces them instead of overflowing), model discovery
(`ModelDiscovery`), tool approval, the smoke tests, the vault, metrics and what is posted to the UI. The profile is configured and
`follow_up_ms` is not 0. From a lost event until the worker has seen it the other threads are quiet: a bound.

### PiperServer

The record of `DioTtsServer` and the three threads that use it without a lock. Constants: `MaxCancels`,
`MaxFaults` (bounds: a death of the process, a failed request, a failed launch is a fault).

| Model | Code |
|---|---|
| `w`: `Speak`, `Check`, `Recheck`, `Post`, `Answer`, `Failed`, `FailedKill`, `Decide` | `dio_tts_speak_text` and `dio_tts_piper_post` on the speech worker |
| `StopReady`, `StopKill`, `StopClose`, `Reset`, `Launch` | `dio_tts_server_stop_process`, `_restart`, `_launch`; `StopWait` is the unlimited wait for the startup thread |
| `s`: `Health`, `WarmPost`, `Warming`, `Ready`, `GiveUp`, `Mark` | `dio_tts_server_startup` |
| `c`: `Cancel`, `CancelActive`, ..., `CancelMark` | `dio_tts_server_cancel` on the application's worker |
| `proc` | the process: none (no handle), cold, warm, dead |
| `ready`, `active`, `restart`, `closing` | the interlocked fields |
| `job` | the job handle that the cancel has read; `gone` once it was closed under it |
| `spoken`, `crossed` | history: the last text was synthesized; a restart closed a process with a cancel in work |

Every interlocked read or write and every call that ends a process is a step of its own. A closed job handle
means nothing, or the job of the new process if the system reuses its number: `CancelKill` chooses. Of
`server.py` only what the client waits for is modelled: it listens, it warms up, a request ends.

### Installer

The worker of the bootstrap, the buttons of its window and the folder `.dio`, which outlives every run.
Constants: `Manifest` (target and profile of each component), `Entry` (the component with the program to
launch), `FullSize` (bytes of a download), `MaxFaults` (bound: a crash, a failed call, a lost connection,
a wrong download is a fault). A directory is the set of components whose files it holds, `{}` when it is
missing; `Torn` is an element of it when it holds files that are not what the manifest names.

| Model | Code |
|---|---|
| `live`, `prev`, `staged` | each target, its `.dio-previous`, and the staging folder |
| `part`, `cache`, `manifest`, `mpart` | `.part` files, verified downloads, `release-manifest.json` and its `.part` |
| `marker` | `install.json` |
| `Start`, `Cancel`, `Handled` | the window: `dio_start`, the Cancel button, the DONE and ERROR messages |
| `PrepareManifest`, `MoveManifest`, `Begin`, `Install` | the manifest, the marker's check, the start of `dio_install` |
| `Fetch`, `Verify`, `Stage`, `CheckEntry` | `dio_prepare_component` and extraction below staging |
| `Recover`, `Backup`, `Swap`, `Settle` | `dio_publish_component`: one step per rename |
| `Mark`, `CleanCache`, `Commit`, `Launch`, `Launched` | the marker, the cache, `dio_launch` |
| `Crash` | the process ends anywhere, also half way through deleting a previous tree |

`dio_delete_tree` stops at the first file it cannot delete: `HalfDeleted`. A download that is resumed at its
end is refused (416). Parsing of the manifest, free space, extraction and the window's preferences are data.

### AnnouncementInbox and MailContract

The directory of the inbox, the application that polls it, the processes that schedule and the programs
that drop files. Constants: `Reminders`, `Drops`, `NameOf` (two drops may use one name; that of a reminder
is its due time), `MaxFaults` (bound: a crash, a failed call, new settings).

| Model | Code |
|---|---|
| `dir[n][kind]` | the message in the file of name `n` with that extension (tmp, timer, txt, processing, failed) |
| `pc`, `held` | where the application is, and `announcement_receipt` |
| `Write`, `Schedule`, `Drop` | `dio_announcement_schedule` in its two steps; another program's file |
| `Open` | `dio_announcement_inbox_open` with `dio_recover_processing` |
| `ReleaseDue`, `Take`, `Finish` | `dio_release_due`, `dio_announcement_take`, `dio_announcement_finish` |
| `Read`, `Heard`, `Complete`, `Settings` | what `app/main.c` does with the receipt |
| `Crash`, `Restart` | the program ends anywhere; the user starts it again |
| `sent`, `heard` | history |

A rename without `MOVEFILE_REPLACE_EXISTING` fails when the target exists (`CanMove`). `MailContract` is the
abstract specification: a message is new, pending, and then over (it was heard) or set aside (an attempt to
speak it failed), and never comes back. `ImplementsMail` is the refinement: `MailOf` reads the state of a
message off the directory.

### Vault

The vault and the settings dialog that writes two files one after the other. A password stands for the key
derived from it, the API key for the endpoint it was typed for. Constants: `Servers`, `Ids`, `Endpoints`,
`Passwords`, `MaxEntries` (`DIO_VAULT_MAX_ENTRIES`), `MaxFaults` (bound).

| Model | Code |
|---|---|
| `file`, `settings` | `secrets.bin` and `settings.json` |
| `vault` | `DioVault`: open, key, entries |
| `profile`, `draft`, `form` | `ui->profile`, `dialog->profile`, the dialog's controls and their flags |
| `Create`, `Unlock`, `ChangePassword`, `Reset` | the functions of `vault.c`, with the dialog's handler around each |
| `Parsed`, `ParseFails` | `dio_vault_parse`: the entries in memory are cleared first, and none is left when an allocation fails |
| `Saves`, `SaveFails`, `Set`, `HalfSet`, `Without` | `dio_vault_save`, `_set` (and its failed allocation), `_remove` |
| `EditEndpoint`, `EditKey`, `Upsert`, `RemoveServer` | the edits that concern secrets |
| `SaveKey`, `KeyUntouched`, `SaveToken`, `SaveTokens`, `SaveSettings` | `dio_save_settings_dialog` in its order |
| `Exit` | the process ends: free of charge while nothing is edited, a fault in the middle of a save |
| `ghost` | history: the last password set; whether an unlock of an open vault failed; names given up, names whose value was lost, whether a save stopped between the two files |

An unlock that fails leaves a vault open that was open (the button of a reopened dialog offers it). What is
left in it depends on where it failed: nothing changed if the file could not be read, the key is cleared if
the password was wrong or an allocation failed, and the entries are gone as well if parsing failed
(`vault.c:496` and `547`). The next save or change of password then writes a file without the secrets that
`settings.json` refers to. `RefsBacked` names this case (`ghost.lost`); reading the file again with the right
password before that brings the entries back, and the model takes them off the list.

### Overlay

The UI as a second thread: the worker posts, the UI thread drains, the user answers. Constants: `Cap`
(`DIO_EVENT_QUEUE_CAP`), `TextCap` (`DIO_UI_EVENT_TEXT_CAP`, in pieces), `MaxPieces` and `MaxIncidents`
(bounds).

| Model | Code |
|---|---|
| `queue`, `Slots`, `Merged`, `Queued`, `Refused` | `ui->events` and `dio_ui_post`: what merges where, and what finds the queue full |
| `posting`, `Post` | what the worker's handler still has to post: one post is one step |
| `Drain`, `Applied`, `Transcribed` | `dio_drain_events`, `dio_apply_event`, `dio_add_message` |
| `dialogs`, `Answer`, `Resolved` | `dio_request_tool_approval`, nested through its modal loop, and `dio_ui_resolve_tool_approval` |
| `always`, `staged`, `OpenSettings`, `CloseSettings` | permissions in the profile, and the settings dialog's copy of it |
| `Pause`, `PushToTalk`, `Stop` | the tray menu |
| `app`, `Wake` ... `Announced` | what the handlers of `main.c` post and when they may |
| `Attempts` | `dio_app_try_push_to_talk`: it is not tried or busy, it listens, or it fails and says nothing |
| `Obey` with `SetPaused`, `Talk`, `Cancel`, `ChangeSettings`, `Decide` | `dio_app_handle_ui`, one disjunct per command |
| `app.lacks` | what the profile is without: a provider, or the secrets it refers to |
| `hist` | history, with the exceptions the properties name |

The worker is reduced to its posts; how it decides is `AppController`. Errors are told apart by their text, because
the interface shows an error again only if its text differs from the one on display.

The menu shows LISTENING at once and sends the command after it. The worker may drop it without a word: when the
secrets are missing, of which `dio_app_require_vault` told once, when the settings were applied, or when
`dio_voice_push_to_talk` fails with anything but BUSY. `Talk` has these branches. LISTENING then stays on display
until something else is told: `StateShown` names the case (`hist.refused`), and holds again from the next state,
error or announcement on.

A tool may ask, and a rejected cancel be reported, while the turn is being cancelled: `Approval` and
`CancelRejected`.

### ModelDiscovery

The settings dialog asks a provider for its models whenever endpoint or key change. Three threads take part:
the window, the application's worker, which starts a harness of its own for each request, and the reader of
that harness. Constants: `Endpoints` (the valid ones), `NoEndpoint`, `NoKey`, `MaxDialogs` and `MaxIncidents`
(bounds: a further dialog, an edit, a command or event that is lost is an incident; a harness may die at any time).

| Model | Code |
|---|---|
| `dialog` | `DioSettingsDialog`: `discovery_generation` (`number`), its timer, endpoint, key, `secret_dirty`, `discovery_anonymous`, what the status line says and which catalogue the list holds |
| `saved`, `unlocked` | `ui->profile` with the key in the vault; whether the vault is open |
| `Open`, `EditEndpoint`, `EditKey`, `Unlock`, `Save`, `Cancel` | the dialog, each with the `dio_schedule_model_discovery` calls it makes |
| `TimerFires`, `Apply` | `dio_request_model_discovery` after 600 ms without a change; `DIO_WM_MODELS_READY` |
| `slot`, `Post` | `ui->pending_models` with its generation: one place, the last post wins |
| `queue`, `Send` | `app->events`; a command or event is refused when it is full or while the worker recovers |
| `app`, `HandleDiscover`, `Opened`, `TimesOut`, `Closes`, `Rests` | the `discovery_...` fields of `DioApp`, `dio_app_handle_discovery`, `_open_discovery`, `_maybe_timeout_discovery`, and the two halves of `_close_discovery` around the join |
| `AskModels`, `CannotAsk`, `AskFails`, `HandleModels`, `HandleError`, `Ignore` | the discovery branch of `dio_app_handle_agent` |
| `agent`, `reader`, `ReaderPosts`, `ReaderTells`, `ReaderDrops`, `ReaderFails` | the client as far as it matters here (`AgentTransport` has it whole), and `dio_app_agent_callback` on its reader |
| `hist` | history: requests that nobody answers, requests for which an event of an earlier dialog was taken |

The code knows requests by their number only. The model adds the dialog to each, so that the properties can
say what is confused: `discovery_generation` is zero again in every new dialog, while a harness, an event or
a reply of the last one may still be under way. `EndpointFits` says of the shown catalogue that it is of
the dialog's endpoint if this dialog asked for it; a late one of an earlier dialog with the same number is shown
under whatever endpoint the new one has. `AnswerStands` excepts, besides replies and events taken for the wrong
dialog's, the deadline that strikes when the answer is in the window but its event is not handled yet, and a
harness that dies after it has answered. `Answered` excepts a command that was lost (nothing asks again, the
dialog goes on saying that it loads) and a search that the MODELS of an earlier dialog closes. TLC finds each
property violated when one of these exceptions is taken out.

### Proof and MC modules

`MCVoiceSpeech` and `MCVault` add symmetries, `MCModelDiscovery` two initial states, `MCInstaller` and `MCAnnouncementInbox` give a manifest and the
names of messages, `MCAppController` adds a view. A module called `...Proof` extends the module it proves
about; `UserInterfaceProof` extends `Vault` and `Overlay`, `ApplicationProof` extends `AnnouncementInbox` and
`AppController`, so that `Overlay` and `AppController` call their `Init`, `Next` and `Spec` by names of their own.

<a id="runs"></a>
## The runs

| Run | Instance | What it shows, and why the instance is enough |
|---|---|---|
| `speech_two_callers` | 2 callers, 2 utterances, queue of 2, ring of 1 | `StreamSafe`, `ExactlyOneComplete`, `CancelNotLost`, `CloseSound`, `SpeakInOrder` and the refinement `ImplementsContract`, with two threads in the API. Two utterances are enough for one to be played while one waits, is drained or is accepted; two callers for a cancel that races with another cancel, with a submission and with close. |
| `speech_one_caller` | 1 caller, 2 utterances, queue of 2, ring of 2 | What holds of the application's one calling thread (`NoStaleCancel`), full playback (`SuccessMeansPlayed`; a ring of 2 is needed for partial reads), and `Served`: cancels, the queue and close make progress. |
| `recognition` | 2 calls, 1 speech, ring of 1, limits 2/1/3 frames | `CommandSound`, `ShownTrue`, `RecognitionStopped` and `RequestsServed`. Two calls reach every pair of pending requests; the three limits differ so that each can be the first one reached. |
| `agent` | 1 turn, 2 frames per pipe | `TurnEndsOnce`, `CancelSound`, `FailureExplained`, `CallsServed`. Two frames so that a pipe may be empty, partly filled and full. A second turn adds what a frame of one can do in the other: the first three are theorems for any number of turns. |
| `app` | queue of 2, 2 tracked utterances, 1 turn with 1 piece of output, 2 incidents, 1 restart | `SpeechTracked`, `AnnouncementKept`, `TurnAgrees`, `AnswerSound` over a whole turn, with two commands or failures anywhere in it. A queue of 2 overflows often; the end of the turn and the end of its speech can be in it in both orders. The properties are theorems for any sizes and any number of turns and incidents; the run shows that these are reached, and the mutants that each can fail. |
| `app_ended_turn` | queue of 2, 1 incident | The disagreement below. |
| `installer` | 3 components in 2 targets, 2 profiles, downloads of 2 bytes, 2 faults | `TreesKept`, `InstalledComplete`, `RetrySucceeds`. One component for each case of the release: for every profile, and for one of the two in a common target. Two faults, and any number of cancels: a second failure in what the first one left behind. |
| `inbox` | 1 reminder, 2 drops of one name, 2 faults | `HeardOnce`, the refinement `ImplementsMail`, `EventuallyTried`. Two faults: the second one in what the first one left behind, so that a message is heard up to three times. |
| `vault` | 1 server, 1 identifier, 2 endpoints, 2 passwords, 1 entry, 1 fault | `KeyKept`, `SecretsAgree`. With one entry allowed, a save of key and token meets the limit. |
| `piper` | 2 cancels, 2 faults | `HandlesOwned`, `WarmBeforeUse`, `Recovers`. The second cancel or death meets the restart that the first one caused. |
| `discovery` | 2 endpoints, 2 dialogs, 2 incidents | `EndpointFits`, `AnswerStands`, `Answered`. Two dialogs for what is late from the first; with the second incident, an edit or a lost command in one of them. |
| `overlay` | queue of 3, events of 2 pieces, 2 pieces, 3 incidents | `OverlayTypeOK`, `ViewAgrees`, `TranscriptFaithful`, `AnswersSound`. Three places: one event merges into the first of two, or does not fit behind them. |

Deadlock is checked in `installer`, `vault` and `piper`. The other systems really stop: after close, and
when nobody calls, speaks or drops a file any more.

`app` uses the view `AgeView`: the generations of agent and core are only ever compared with the current one,
so two states that differ in where the counters stand, and not in how far each queued event lies behind, have
the same futures and the same truth of every property of the run. The symmetries of `speech_two_callers` and
`vault` are used in runs without liveness properties.

### Fairness

* `VoiceSpeech`: every caller that is inside a call goes on, the speech worker runs, the device's thread runs:
  the operating system schedules runnable threads. Nobody is obliged to make another call, so an accepted
  stream may stay unfinished for ever: `QueueServed` says exactly that this is the only thing that can hold
  the queue up.
* `VoiceRecognition`: worker and owner run, the capture device delivers frames (`ListeningEnds` needs it: the
  limits are counted in frames), speech ends (shown of the speech half by `Served`) and clocks advance.
* `AgentTransport`: owner and reader run; a harness that is alive and does not hang reads its pipe, connects,
  answers hello and list requests, and ends a turn whose cancel it has read. It need not end any other turn,
  and it may hang or die at any time.
* `PiperServer`: the three threads run, and texts keep coming until close. The process owes nothing: its
  deaths are bounded faults, and a request of a process that is alive ends.
* `Installer`: the worker's thread runs and its last message is handled. That the user starts it again and
  does not cancel for ever is the hypothesis of `RetrySucceeds`, not an assumption of the model.
* `AnnouncementInbox`: the application polls (every 200 ms), the clock advances, and a program in a state that
  only a restart repairs (`Restart`) is restarted some day; strong fairness, because it may go on polling in
  between. The code does nothing about a file left in `processing` until then.

* `ModelDiscovery`: the worker and the reader run, messages of the window are delivered, the timer fires and a
  deadline is over some day. Neither user nor harness has to do anything: a harness that never connects is
  ended by the deadline.

`AppController`, `Vault` and `Overlay` have safety properties only and no fairness.

<a id="findings"></a>
## Disagreements between the code and what is said of it

* **A turn that ended stays active** (`TurnEndComes`, run `app_ended_turn`). `dio_app_handle_agent` takes an
  ERROR without a system error for a rejected cancel when `turn_output_suppressed` is set, reports "could not
  cancel the current request" and keeps the turn. The agent sends that event only when the turn has ended:
  with a cancel handled while it waits in the queue, the turn and the gate stay set until the settings
  change or a failure closes the agent. `TurnAgrees` is the property without this case.

Others are stated as formulas in the modules and have no run of their own: put the formula as the only
INVARIANT into a copy of the configuration named, and TLC prints the behaviour.

* **SPEECH_COMPLETE lost at close** (`CloseReportsAll`, `SpeechOneCaller.cfg`). The worker clears
  `speech_active` in its critical section and emits SPEECH_COMPLETE afterwards. If close runs in between it
  finds nothing active, sets `speech_idle_event`, sets `closing`, and `dio_voice_emit` drops the event. The
  header promises the event before shutdown.
* **IDLE before the LISTENING of a follow-up** (`NoIntermediateIdle`, `Recognition.cfg`).
  `dio_voice_process_frame` resumes from PAUSED on its own when `paused` was cleared after
  `dio_voice_handle_control` looked, without the look at `follow_up_requested` the other resume has.
* **Follow-up after a terminal failure** (`NoFollowUpAfterFailure`, `Recognition.cfg`). The push-to-talk
  branch of `dio_voice_handle_control` does not return after latching a failure.
* **Launched without the chosen models** (`LaunchedAsChosen`, `Installer.cfg`). A repair, or the installation
  of the other profile, that ends between the renames of a publication leaves the old marker; a later run for
  the marker's profile trusts it, because it looks at the entry point only, and launches although the models
  are still in `.dio-previous` or are the other profile's.
* **The vault is written with a cleared key** (`PasswordOpens`, `Vault.cfg`). The unlock button of a reopened
  settings dialog takes a wrong password while the vault is open: `dio_vault_unlock` clears its key and leaves
  it open, and the next save seals the file with zeros. `KeyKept` is the property without this case.

Exceptions that the properties name, each a behaviour of the code that TLC showed: a server that becomes ready
between the two reads of its flag is restarted, and the startup thread may set the flag after a stop cleared
it (`Misread`, `Overtaken` in `PiperServer`); a cancel that outlives its process may end the next one or mark it
(`crossed`); a manifest download that is complete and was not moved is refused by the server on every later
run (`ManifestStuck`); two files of one name, one of them in work when the program ended, keep the inbox closed
(`Collision`); a state merged into its predecessor ahead of an error leaves the error on display
(`hist.overtook`), a MUTED shown after the user resumed stays in the menu (`hist.crossed`), a question merged
into an earlier one stands above the wrong reply (`hist.mixed`), and saving a settings dialog undoes a permission
that was given meanwhile (`hist.undone`); a reply or event of an earlier settings dialog is taken for the present
one's, and a model search whose command was lost is never answered (`hist.mixed`, `hist.silent`); a push-to-talk
that is refused in silence leaves LISTENING on display (`hist.refused`); a token typed and not saved is lost when
its server is put in again, an unlock that fails half way takes the entries of a vault that was open
(`ghost.lost`), and a save that stops between the vault and the settings leaves a key with another endpoint
(`ghost.torn`).

<a id="proofs"></a>
## Proofs

The theorems hold for all values of the constants that satisfy the named assumptions (`Callers` finite;
bounds and limits natural numbers, those the code has as macros or checked configuration not zero; names of
messages and the manifest as declared in their modules). Each proof has the same shape: `Init => IInv`,
one lemma or step per action for `IInv /\ [Next]_vars => IInv'`, and `IInv => Inv`.

* `VoiceSpeechProof`
  * `TypeCorrect`: `TypeOK /\ WorkerHolds` is inductive. `WorkerHolds` (the worker has an utterance in the
    places where it uses one) is needed because `stream[cur]` is a value only then.
  * `IdleEventIsSound`, `ClosingIsQuiet` from `IdleInv`: a set event means an empty queue and a worker out
    of its busy part; a closer that got past its wait keeps it so because nothing is accepted any more.
  * `CancelIsNotLost` from `CancelInv`, which follows a cancel through its two SetEvents.
  * `QueueIsFifo` from `OrderInv`: queue, worker and drained lists are ascending, disjoint and older than
    `next`. `AppendAscending` and `TailAscending` are the facts about sequences it rests on.
  * `StreamsOutliveUse`, `StreamHasOneOwner` and their conjunction `StreamsAreSafe` from `OwnerInv`: who may
    free the stream `pcm` names.
  * `CompletesOnce` from `CountInv`: for each utterance, places and terminal events add up to one.
  * `SpeaksInOrder` from `SpokeInv`: what has spoken is older than all that waits. An action property, proved
    of each step from the invariant.
  * `ClosesSoundly` from `ClosedInv` (the closing caller is alone in the API, and once it has returned the
    worker is gone) with `IdleEventIsSound` and `ClosingIsQuiet`.
  * `SuccessIsPlayed` from `PlaybackInv` with `StreamsHonest`: the flags of every living stream follow its
    samples, and the worker decides on success by them.
  * `SpeechKeepsContract` (`ImplementsContract`): the refinement of `SpeechContract`. With `EndInv` (an utterance
    has a result iff it was reported, success only after SPEAKING, what a cancel drained never spoke) every step
    is mapped: Speak and StreamStart to Accept, EmitSpeaking to Speaking, Report and CancelReport to Complete,
    the rest to a stutter.
  * `OneCallerCancelsNoLater` (`NoStaleCancel`) from `StaleInv`, under the hypothesis that there is one caller, as
    in the application: whatever a cancel marked, set or drained is not younger than its mark. With two callers
    it is false: between the mark of a cancel and its second SetEvent the other may submit.
* `VoiceRecognitionProof`
  * `IInv` joins the types, `Sound(command)` (an open command is within its limits), `Matched` (open iff
    LISTENING, unless closed), `ShownInv` (what the callback was told last fits the mode) and `PcInv` (what
    the worker knows in the middle of a resume). From it: `TypeCorrect`, `CommandIsSound`, `ShownIsTrue`,
    `StoppedForGood` and the parts of these.
* `AgentTransportProof`
  * `TypeCorrect` from `TypeInv`, with `SendingInv` (the lock is held while frames are left to send, and only the
    first frame of a call can be its cancel, sent within the turn) and `HelloInv` (nobody writes before hello,
    which is why it finds the pipe empty).
  * `EndsOnce` from `PendInv` (an event is pending only on its way out, and the owner delivers only failures) and
    `TurnInv`: an end that is pending is of a turn that is over, and no two threads have one of the same turn.
  * `CancelIsSound` from two invariants. `HonourInv`: while a cancelled turn is active the client knows it was
    cancelled, and so does the end on its way. `StopInv`: what the reader is about to deliver is the first
    event after a cancel, of a turn no answer has ended. A notice needs no acceptance in the client, so that a
    second one after the cancel is excluded only by the order of the pipe: `NoticeInv` (a question or status
    is read after its turn's acceptance), with `FreshInv` (no frame is of a turn to come) and `AnswerInv`
    (answers to hello and list belong to no turn). These speak about the external harness.
  * `FailuresHaveCauses` (`FailureExplained`) from `CauseInv` (a failed transport has a cause) and `ProtocolInv`
    (what the pipes hold is never refused, but for a notice that crossed a cancel): `GreetInv` (one hello, one
    answer to it), `StartInv` (nothing is known of a turn until the harness has read its start), `EndInv` (one
    end, no notice behind it, nothing stale before it) and `AudioInv` (audio only of a turn accepted with audio,
    or after its end). All under `Running`, because nobody looks at the pipes of a failed transport.
* `PiperServerProof`
  * `HandlesAreOwned`: with `closing => c = "idle"`, because close follows the last cancel.
  * `WarmsBeforeUse` from `WarmInv` and `ClosingInv`: as long as no cancel outlived its process, a startup
    thread at work means that nothing has read the process as ready, and what was read as ready had warmed up.
* `InstallerProof`
  * `TypeCorrect`, with the extra fact that nothing unverified is in the cache.
  * `TreesAreKept` and `InstallsWhole` from `TreeInv`: `StagingInv` (what is staged is what the manifest names,
    minus `todo`), `PublishInv` (a target is either published or still staged, for all its components at once),
    `FreshInv`, `CleanInv` (a backup may be torn only where the target is in place) and `MarkerInv` (the marker's
    targets always hold a tree, and while one is being settled its backup is still there). For every manifest
    with an entry point that belongs to every profile.
* `UserInterfaceProof`, the vault
  * `TypeCorrect`; `KeyIsKept` from `KeyInv`: file and key in memory go with the last password until an
    unlock of an open vault fails, and entries change only in an open one.
  * `FilesAgree` (`SecretsAgree`), of two halves. `RefsAreBacked` from `SecretInv`: every name that settings, session
    or draft refer to is in the file, was given up or lost, or is a token that the save at work still has to
    write (`RefsInv`); an open vault's memory lacks nothing of the file but what was given up or lost
    (`MemoryInv`, needed because a change of the password rewrites the file from memory; an unlock that takes the
    entries of an open vault puts them on the list of lost ones, so that the next file may lack them); past the key a save's
    removals are on record (`SaveInv`). The key's half from `FitInv`: as long as no save stopped half way, the
    key fits the session outside of a save and the draft inside one. The proof found that the record of what
    the user gave up was short of one case, two failures apart: a server removed from settings whose session
    copy failed, then brought back by Cancel. `Given` counts it now.
* `UserInterfaceProof`, the overlay, for any capacities, any number of pieces, turns, tools and failures, and any
  interleaving of the worker's posts, the drain and the user
  * `OverlayTypes` (`OverlayTypeOK`) from `OverlayInv`, which types every event by its kind. `QueuedCases` says what
    posting makes of the queue: one place merged, one event more, or nothing.
  * `EveryRequestAnsweredOnce` (`AnswersSound`) from `PlacedInv` (the places of a request, over what is still to be
    posted, queue, dialogs, commands and answers, are one set, of one element from the moment the tool asks) and
    `SavedInv` (an "always" on its way back is saved, or undone by the settings dialog).
  * `ViewAgreesAtRest` (`ViewAgrees`) from `ShownInv` and `PausedInv`. At rest the properties compare what is shown
    with what was told; the invariants say it of every moment: `Final` is what the display will show once the
    queue is drained, and it is the last state told, unless something is still to be posted or handled. A
    push-to-talk among the commands may resume the worker or be refused and change nothing: `Settled` has both, and
    the menu is right either way because the resume is a command of its own ahead of it.
  * `TranscriptIsFaithful` (`TranscriptFaithful`), of two halves. No piece out of order, doubled or missing, from
    `WholeInv` over the chunks of the transcript and of the queue: each ascending, displayed before queued before
    owed, without a gap unless the queue was full; `PostedInv` says that a piece is posted alone.
    Every piece beneath its question, from `AskedInv`: `Asked` finds the question ahead of a place in the queue,
    which is in the queue or, if none is, the last on display. Posting, merging and draining carry it over, and the
    question of a turn being answered stays the last one (`TurnAsked`). `TurnsInv` (no piece is of a turn to come)
    is needed for a question that takes the place of another: if `hist.mixed` stays false, what is behind it
    can only be of its own turn.
* `ModelDiscoveryProof`
  * `EndpointsFit` from `KeyInv` (what is saved fits, and so does what the dialog would save now) and `FitInv`:
    every request on its way, in the queue, the worker, the harness, the reader or the window, is of an
    earlier dialog, has a lower number than the dialog's, or is of the endpoint in the field. It is inductive
    because each change of the endpoint raises the number, and nothing but the timer sends a request.
  * `CatalogueStands` (`AnswerStands`) from `StandInv` (`SearchInvariant`). Only `Apply` can take a catalogue away
    under the same number, so the question is what may be in the window behind one. `QueueInv`: a number is queued
    once, and is not the worker's while it is still to be opened. `FreshInv`: while the timer runs the number has
    not been sent, which makes the next one new. `StageInv`: the harness of a request is starting, greets, is to be
    asked, is asked or answers, one at a time, unless a greeting of another dialog was taken for its own.
    `SpentInv`: a catalogue in the window or on display is behind all of these, so that no second answer and no
    second opening of its request can follow; `DeadlineInv`: nor a deadline, once the worker has seen it.
* `ApplicationProof`, the announcement inbox
  * `StateInv`: a file holds a message of its name, a message is in one file, and the application holds the
    message of the file in work. From it and `OnceInv` `HearsOnce`: the faults so far pay for all hearings of a
    message but one, and for all of one that may be spoken again.
  * `ImplementsContract`: the refinement of `MailContract`. With `StateInv` and `SpokenInv`, every action is
    mapped: Schedule and Drop to Accept, Heard to Hear, Complete to Close or SetAside, the rest to a stutter;
    `Settings` and a failed `Read` to SetAside.
* `ApplicationProof`, the worker of the application, for any size of the event queue and of the speech table and any
  number of restarts, turns, output and incidents. A handler is one step composed of many functions, and so is the
  proof: one lemma for each function of the C code (`AppCancelIs`, `CloseVoiceIs`, `MaybeFollowUpIs`...), one for each
  event (`...Handled`), one for each action (`...Keeps`). `Base` is what holds even inside a handler, `AppInv` what
  holds between two. A function need not keep all of `AppInv`: it `Keeps` each part that held before it.
  * `AppTypes` (`AppTypeOK`): the events in the queue are typed by their sender, because the handlers choose by it.
  * `SpeechIsAccounted` (`SpeechTracked`) from `SpeechInv` and `TrackInv`: what is in the core is tracked and not
    completed, no id is used twice, and what is tracked is in the core or its completion is queued. It needs the
    generations (`VoiceInv`: an event of a closed core is of an earlier generation), or a completion reported by
    `dio_app_close_voice` would count for the next core.
  * `AnnouncementIsKept` (`AnnouncementKept`) from `AnnInv`: a completion that says the announcement was heard is in the
    queue only if it was.
  * `TurnIsAgreed` (`TurnAgrees`). The end of a turn from `TurnInv` and `EndInv`: the agent works on a turn only while the
    worker does, at most one end of it is in the queue, and no output comes behind it (`EndIsLast`); without this a second
    end could close the next turn. The microphone from `GateInv` and `MicInv`, with `PttFits`, `PttTried` and `StartsIdle`
    for a pending push-to-talk: `MicMatches` lets the core stay paused while one waits, and they say that it is
    tried again, behind the speech it has cancelled or when the core reports IDLE.
  * `AnswersAreSound` (`AnswerSound`), an action property, from `AnswerInv`: if an utterance of the answer was not heard
    and a follow-up is still allowed, a tracked utterance out of the core will be completed without success, which
    forbids it before the speech table is empty.
  That the other threads are quiet from a lost event until the worker has seen it is part of the model, and so a
  hypothesis of these theorems too.

The type invariants of all modules above are proved, and no run repeats them.

Only model-checked: liveness (outside the reach of the prover). Every safety property of the passing runs is a
theorem.

<a id="limits"></a>
## What is not modelled

* Numbers of samples, texts and timing below a frame are data in every module. Cryptography is the fact that a
  file opens with the key that sealed it; JSON, paths, localisation and archives are conversions without state.
* The sentence buffer is a sequential algorithm on bytes without concurrency or failure handling; its unit
  tests enumerate its cases, and the models treat a sentence as one piece.
* Drawing, layout, the tray icon and fonts. The window's placement and
  its visibility do not feed back into what the overlay shows.
* In the application controller: the smoke tests, and tool approval (the overlay has its way to
  the user and back, the agent client its way to the harness; the worker only passes it on).
* `dio_voice_start` and `dio_agent_open`: the models begin when they have returned.
* Capture, earcons and model runtimes: device I/O and numerics, whose results appear as nondeterministic
  choices. Vendored libraries, scripts and the probe tool are outside.

<a id="plan"></a>
## Plan

Done: `PcmStream`, `VoiceSpeech`, `VoiceRecognition`, `AgentTransport`, `PiperServer`, `Installer`, `Vault`,
`AnnouncementInbox`, `Overlay`, `ModelDiscovery`, `AppController` with proofs. Left, in this order:

1. `AgentTransport`: the abstract specification (a turn is submitted, perhaps accepted and streamed, and ends
   once). `EndsOnce` and `ProtocolInvariant` are the facts its refinement needs.
2. `AppController`: that a turn ends under fairness.
3. The sentence buffer as a function against a reference definition.
