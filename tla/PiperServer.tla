------------------------------ MODULE PiperServer ------------------------------
(***************************************************************************)
(* The Piper server of src/src/core/tts.c: a synthesis process that one    *)
(* client starts, warms up, uses, ends and starts again.  Three threads    *)
(* share its record without a lock: the speech worker, which synthesises   *)
(* and restarts; the startup thread of the process; and the application's  *)
(* worker, which cancels and closes.                                       *)
(***************************************************************************)
EXTENDS Naturals

CONSTANTS
  MaxCancels,   \* cancels of a behaviour
  MaxFaults     \* deaths of the process, failed requests and failed launches

ASSUME BoundsAssumption == MaxCancels \in Nat /\ MaxFaults \in Nat

VARIABLES
  w,           \* where the speech worker is
  s,           \* where the startup thread is, or none
  c,           \* where the application's worker is in dio_tts_server_cancel
  proc,        \* the process: none (no handle), cold, warm (it has warmed up) or dead
  ready, active, restart, closing,   \* the interlocked fields
  cancelled,   \* the cancel event of the text in work
  job,         \* the job that cancel read: null, this, or gone (its handle was closed)
  spoken,      \* the last text was synthesised
  crossed,     \* a restart closed the process while a cancel was in work
  cancels, faults

vars == <<w, s, c, proc, ready, active, restart, closing, cancelled, job, spoken, crossed, cancels, faults>>

Alive == proc \in {"cold", "warm"}
Killed == IF proc = "none" THEN "none" ELSE "dead"
Fault == faults > 0 /\ faults' = faults - 1
NoFault == UNCHANGED faults

\* dio_tts_server_open has launched the first process.
Init ==
  /\ w = "idle" /\ s = "health" /\ c = "idle"
  /\ proc = "cold" /\ ready = FALSE /\ active = "none"
  /\ restart = FALSE /\ closing = FALSE /\ cancelled = FALSE /\ job = "null"
  /\ spoken = FALSE /\ crossed = FALSE /\ cancels = MaxCancels /\ faults = MaxFaults

--------------------------------------------------------------------------------
(* The speech worker: dio_tts_speak_text *)

Speak ==
  /\ w = "idle" /\ ~closing
  /\ w' = "check" /\ cancelled' = FALSE /\ spoken' = FALSE
  /\ UNCHANGED <<s, c, proc, ready, active, restart, closing, job, crossed, cancels, faults>>

Check ==
  /\ w = "check"
  /\ w' = IF ready /\ Alive THEN "post" ELSE "recheck"
  /\ UNCHANGED <<s, c, proc, ready, active, restart, closing, cancelled, job, spoken, crossed, cancels, faults>>

\* The flag is read a second time to tell a process that died from one that is
\* still starting.
Recheck ==
  /\ w = "recheck"
  /\ w' = "decide" /\ ready' = FALSE /\ restart' = (restart \/ ready)
  /\ UNCHANGED <<s, c, proc, active, closing, cancelled, job, spoken, crossed, cancels, faults>>

\* dio_tts_piper_post: one request at a time.
Post ==
  /\ w = "post"
  /\ \/ cancelled /\ w' = "decide" /\ UNCHANGED active
     \/ ~cancelled /\ active # "none" /\ w' = "fail" /\ UNCHANGED active
     \/ ~cancelled /\ active = "none" /\ w' = "wait" /\ active' = "user"
  /\ UNCHANGED <<s, c, proc, ready, restart, closing, cancelled, job, spoken, crossed, cancels, faults>>

\* The end of the request; a cancel overrides whatever its result was.
Answer ==
  /\ w = "wait"
  /\ active' = "none"
  /\ \/ cancelled /\ w' = "decide" /\ NoFault /\ UNCHANGED spoken
     \/ ~cancelled /\ Alive /\ w' = "decide" /\ spoken' = TRUE /\ NoFault
     \/ ~cancelled /\ proc # "warm" /\ w' = "fail" /\ NoFault /\ UNCHANGED spoken
     \/ ~cancelled /\ proc = "warm" /\ w' = "fail" /\ Fault /\ UNCHANGED spoken
  /\ UNCHANGED <<s, c, proc, ready, restart, closing, cancelled, job, crossed, cancels>>

\* Mutant: no restart is asked for.
FailedForGood ==
  /\ w = "fail"
  /\ w' = "fail_kill" /\ ready' = FALSE
  /\ UNCHANGED <<s, c, proc, active, restart, closing, cancelled, job, spoken, crossed, cancels, faults>>

\* A request that failed costs the process.
Failed ==
  /\ w = "fail"
  /\ w' = "fail_kill" /\ ready' = FALSE /\ restart' = TRUE
  /\ UNCHANGED <<s, c, proc, active, closing, cancelled, job, spoken, crossed, cancels, faults>>

FailedKill ==
  /\ w = "fail_kill"
  /\ w' = "decide" /\ proc' = Killed
  /\ UNCHANGED <<s, c, ready, active, restart, closing, cancelled, job, spoken, crossed, cancels, faults>>

Decide ==
  /\ w = "decide"
  /\ w' = IF restart /\ ~closing THEN "stop" ELSE "idle"
  /\ UNCHANGED <<s, c, proc, ready, active, restart, closing, cancelled, job, spoken, crossed, cancels, faults>>

--------------------------------------------------------------------------------
(* dio_tts_server_stop_process and dio_tts_server_restart *)

StopReady ==
  /\ w = "stop"
  /\ w' = "stop_kill" /\ ready' = FALSE
  /\ UNCHANGED <<s, c, proc, active, restart, closing, cancelled, job, spoken, crossed, cancels, faults>>

StopKill ==
  /\ w = "stop_kill"
  /\ w' = "stop_wait" /\ proc' = Killed
  /\ UNCHANGED <<s, c, ready, active, restart, closing, cancelled, job, spoken, crossed, cancels, faults>>

\* Mutant: it does not wait.
StopAtOnce == TRUE

\* It waits for the startup thread without a limit, and closes the handles.
StopWait == s = "none"
StopClose ==
  /\ w = "stop_wait" /\ StopWait
  /\ w' = IF closing THEN "freed" ELSE "reset"
  /\ proc' = "none" /\ job' = IF job = "this" THEN "gone" ELSE job
  /\ crossed' = (crossed \/ c # "idle")
  /\ UNCHANGED <<s, c, ready, active, restart, closing, cancelled, spoken, cancels, faults>>

Reset ==
  /\ w = "reset"
  /\ w' = "launch" /\ restart' = FALSE
  /\ UNCHANGED <<s, c, proc, ready, active, closing, cancelled, job, spoken, crossed, cancels, faults>>

\* dio_tts_server_launch checks the bundle and the port and prepares what the
\* process inherits; a launch that fails, here or later, stops what it started
\* and asks for another restart.
LaunchFails == ready' = FALSE /\ restart' = TRUE /\ Fault /\ UNCHANGED <<proc, s>>

\* The process runs in its job, and a thread of its own warms it up.
Launched == proc' = "cold" /\ s' = "health" /\ NoFault /\ UNCHANGED <<ready, restart>>

Launch ==
  /\ w = "launch"
  /\ w' = "idle"
  /\ Launched \/ LaunchFails
  /\ UNCHANGED <<c, active, closing, cancelled, job, spoken, crossed, cancels>>

\* dio_tts_server_close, after the voice core was closed.
Close ==
  /\ w = "idle" /\ c = "idle" /\ ~closing
  /\ closing' = TRUE /\ w' = "stop"
  /\ UNCHANGED <<s, c, proc, ready, active, restart, cancelled, job, spoken, crossed, cancels, faults>>

Worker ==
  \/ Check \/ Recheck \/ Post \/ Answer \/ Failed \/ FailedKill \/ Decide
  \/ StopReady \/ StopKill \/ StopClose \/ Reset \/ Launch

--------------------------------------------------------------------------------
(* dio_tts_server_startup, the thread of one process *)

\* Mutant: a process that listens is ready.
HealthEnough ==
  /\ s = "health"
  /\ \/ closing /\ s' = "none" /\ NoFault
     \/ ~closing /\ proc = "dead" /\ s' = "give_up" /\ NoFault
     \/ ~closing /\ Fault /\ s' = "give_up"
     \/ ~closing /\ Alive /\ s' = "ready" /\ NoFault
  /\ UNCHANGED <<w, c, proc, ready, active, restart, closing, cancelled, job, spoken, crossed, cancels>>

\* It waits until the process listens: the process may die first, and a
\* deadline of 120 seconds counts as a fault.
Health ==
  /\ s = "health"
  /\ \/ closing /\ s' = "none" /\ NoFault
     \/ ~closing /\ proc = "dead" /\ s' = "give_up" /\ NoFault
     \/ ~closing /\ Fault /\ s' = "give_up"
     \/ ~closing /\ Alive /\ s' = "warm" /\ NoFault
  /\ UNCHANGED <<w, c, proc, ready, active, restart, closing, cancelled, job, spoken, crossed, cancels>>

WarmPost ==
  /\ s = "warm"
  /\ IF closing \/ active # "none" THEN s' = "give_up" /\ UNCHANGED active
     ELSE s' = "warming" /\ active' = "warmup"
  /\ UNCHANGED <<w, c, proc, ready, restart, closing, cancelled, job, spoken, crossed, cancels, faults>>

Warming ==
  /\ s = "warming"
  /\ active' = "none"
  /\ \/ Alive /\ proc' = "warm" /\ s' = (IF closing THEN "none" ELSE "ready") /\ NoFault
     \/ proc = "dead" /\ s' = "give_up" /\ NoFault /\ UNCHANGED proc
     \/ Alive /\ s' = "give_up" /\ Fault /\ UNCHANGED proc
  /\ UNCHANGED <<w, c, ready, restart, closing, cancelled, job, spoken, crossed, cancels>>

Ready ==
  /\ s = "ready"
  /\ ready' = TRUE /\ s' = "none"
  /\ UNCHANGED <<w, c, proc, active, restart, closing, cancelled, job, spoken, crossed, cancels, faults>>

GiveUp ==
  /\ s = "give_up"
  /\ IF closing THEN s' = "none" /\ UNCHANGED proc
     ELSE s' = "mark" /\ proc' = Killed
  /\ UNCHANGED <<w, c, ready, active, restart, closing, cancelled, job, spoken, crossed, cancels, faults>>

Mark ==
  /\ s = "mark"
  /\ restart' = TRUE /\ s' = "none"
  /\ UNCHANGED <<w, c, proc, ready, active, closing, cancelled, job, spoken, crossed, cancels, faults>>

Startup == Health \/ WarmPost \/ Warming \/ Ready \/ GiveUp \/ Mark

--------------------------------------------------------------------------------
(* dio_tts_server_cancel, called by dio_voice_cancel *)

\* dio_voice_cancel sets the event and calls it while a text is in work.
Cancel ==
  /\ c = "idle" /\ w # "idle" /\ ~closing /\ cancels > 0
  /\ c' = "active" /\ cancelled' = TRUE /\ cancels' = cancels - 1
  /\ UNCHANGED <<w, s, proc, ready, active, restart, closing, job, spoken, crossed, faults>>

CancelActive ==
  /\ c = "active"
  /\ c' = IF active = "none" THEN "idle" ELSE "ready"
  /\ UNCHANGED <<w, s, proc, ready, active, restart, closing, cancelled, job, spoken, crossed, cancels, faults>>

CancelReady ==
  /\ c = "ready"
  /\ c' = IF ready THEN "clear" ELSE "idle"
  /\ UNCHANGED <<w, s, proc, ready, active, restart, closing, cancelled, job, spoken, crossed, cancels, faults>>

CancelClear ==
  /\ c = "clear"
  /\ c' = "job" /\ ready' = FALSE
  /\ UNCHANGED <<w, s, proc, active, restart, closing, cancelled, job, spoken, crossed, cancels, faults>>

CancelJob ==
  /\ c = "job"
  /\ c' = "kill" /\ job' = IF proc = "none" THEN "null" ELSE "this"
  /\ UNCHANGED <<w, s, proc, ready, active, restart, closing, cancelled, spoken, crossed, cancels, faults>>

\* A handle that was closed in between means nothing, or the new job.
CancelKill ==
  /\ c = "kill"
  /\ c' = "mark" /\ job' = "null"
  /\ \/ job # "this" /\ UNCHANGED proc
     \/ job # "null" /\ proc' = Killed
  /\ UNCHANGED <<w, s, ready, active, restart, closing, cancelled, spoken, crossed, cancels, faults>>

CancelMark ==
  /\ c = "mark"
  /\ c' = "idle" /\ restart' = TRUE
  /\ UNCHANGED <<w, s, proc, ready, active, closing, cancelled, job, spoken, crossed, cancels, faults>>

Canceller == CancelActive \/ CancelReady \/ CancelClear \/ CancelJob \/ CancelKill \/ CancelMark

--------------------------------------------------------------------------------
\* The process ends by itself.
Die ==
  /\ Alive /\ Fault
  /\ proc' = "dead"
  /\ UNCHANGED <<w, s, c, ready, active, restart, closing, cancelled, job, spoken, crossed, cancels>>

Freed == w = "freed" /\ UNCHANGED vars

Next == Freed \/ Speak \/ Worker \/ Close \/ Startup \/ Cancel \/ Canceller \/ Die

\* Threads run on, and texts keep coming: until it is closed, the worker is
\* given another text.
Spec ==
  /\ Init /\ [][Next]_vars
  /\ WF_vars(Speak) /\ WF_vars(Worker) /\ WF_vars(Startup) /\ WF_vars(Canceller)

--------------------------------------------------------------------------------
(* Properties *)

TypeOK ==
  /\ w \in {"idle", "check", "recheck", "post", "wait", "fail", "fail_kill", "decide", "stop",
            "stop_kill", "stop_wait", "reset", "launch", "freed"}
  /\ s \in {"none", "health", "warm", "warming", "ready", "give_up", "mark"}
  /\ c \in {"idle", "active", "ready", "clear", "job", "kill", "mark"}
  /\ proc \in {"none", "cold", "warm", "dead"}
  /\ ready \in BOOLEAN /\ restart \in BOOLEAN /\ closing \in BOOLEAN
  /\ cancelled \in BOOLEAN /\ spoken \in BOOLEAN /\ crossed \in BOOLEAN
  /\ active \in {"none", "user", "warmup"} /\ job \in {"null", "this", "gone"}
  /\ cancels \in 0 .. MaxCancels /\ faults \in 0 .. MaxFaults

\* The startup thread never meets a process whose handles were closed, and no
\* thread is in the server's record when it is freed.
HandlesOwned ==
  /\ s # "none" => proc # "none"
  /\ w = "freed" => s = "none" /\ c = "idle"

\* A request goes to a process that has warmed up, unless a cancel outlived the
\* process that it was meant for.
WarmBeforeUse == [][w = "post" /\ w' = "wait" => proc # "cold" \/ crossed]_vars

\* A server that becomes ready between the two reads of its flag is taken for
\* one that died; and the startup thread may set the flag after a stop cleared it.
Misread == w = "recheck" /\ ready /\ Alive
Overtaken == w \in {"stop_kill", "stop_wait"} /\ ready

\* Whatever a cancel, a failed request or a process that died left behind, a
\* server that is asked again and again speaks again, or is closed, unless one of
\* those two accidents happens again and again.
Recovers == []<>(spoken \/ closing) \/ []<>(Misread \/ Overtaken)

================================================================================
