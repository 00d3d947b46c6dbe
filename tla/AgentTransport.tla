--------------------------- MODULE AgentTransport ---------------------------
(***************************************************************************)
(* The agent client (src/agent/agent_harness.c): the state of the turn,    *)
(* the owner's calls, the reader thread and the pipe to the harness.       *)
(*                                                                         *)
(* Threads: the owner (the application's worker is the only caller) and    *)
(* the reader.  What a thread does under state_lock is one step, except    *)
(* that the owner keeps the lock while it sends: a write waits for the     *)
(* harness.  Decisions are made under the lock and events delivered after  *)
(* it: each delivery is a step of its own.                                 *)
(*                                                                         *)
(* The harness process is external: it follows the protocol the tests      *)
(* play, but may be slow, hang or die.  A pipe holds PipeFrames frames in  *)
(* each direction; a frame is read and written whole, its contents are     *)
(* left out, and allocations succeed.                                      *)
(***************************************************************************)
EXTENDS Naturals, Sequences

CONSTANTS MaxTurns,     \* bound: turns submitted in a behaviour
          PipeFrames    \* frames a pipe buffers in each direction

ASSUME TransportAssumption == MaxTurns \in Nat /\ PipeFrames \in Nat \ {0}

VARIABLES
  \* under state_lock
  state,            \* DioAgentState
  activeTurn, nextTurn,
  accepted, cancelRequested,
  audio,            \* active_audio_sample_rate # 0
  closing,
  \* the owner
  opc, sending,     \* where it is; the frames it still has to send
  asked,            \* turn of the approval the user is asked for, 0 if none
  \* the reader
  rpc, frame,       \* where it is; the frame it has read
  aborted,          \* CancelIoEx ended its pending I/O
  pend,             \* the event a thread is about to deliver
  \* pipes and harness
  toHarness, fromHarness,
  alive, hung,      \* the process exists; it takes no steps
  h,                \* what the harness is doing
  \* history
  ends, how,        \* how often and how each turn ended
  cancelled,        \* turns whose cancel returned OK
  late,             \* output delivered of a turn after that
  stray,            \* output was delivered of a turn that had ended
  explained         \* the harness died, left the pipe full or met a cancel

agent   == <<state, activeTurn, nextTurn, accepted, cancelRequested, audio>>
owner   == <<opc, sending, asked>>
reader  == <<rpc, frame, aborted>>
pipes   == <<toHarness, fromHarness>>
harness == <<alive, hung, h>>
told    == <<ends, how, late, stray>>
vars    == <<agent, closing, owner, reader, pend, pipes, harness, told,
             cancelled, explained>>

Turns == 1..MaxTurns
Threads == {"owner", "reader"}
EndTypes == {"COMPLETE", "CANCELLED", "ERROR", "TRANSPORT"}

Frame(type, turn) == [type |-> type, turn |-> turn]
NoFrame == Frame("none", 0)
Idle == [phase |-> "launched", turn |-> 0, accepted |-> FALSE, audio |-> FALSE,
         cancel |-> FALSE, owes |-> {}, stale |-> 0]

Init ==
  /\ state = "STARTING" /\ activeTurn = 0 /\ nextTurn = 0
  /\ accepted = FALSE /\ cancelRequested = FALSE /\ audio = FALSE
  /\ closing = FALSE
  /\ opc = "ready" /\ sending = <<>> /\ asked = 0
  /\ rpc = "connect" /\ frame = NoFrame /\ aborted = FALSE
  /\ pend = [t \in Threads |-> NoFrame]
  /\ toHarness = <<>> /\ fromHarness = <<>>
  /\ alive = TRUE /\ hung = FALSE /\ h = Idle
  /\ ends = [t \in Turns |-> 0] /\ how = [t \in Turns |-> "none"]
  /\ cancelled = {} /\ late = [t \in Turns |-> 0]
  /\ stray = FALSE /\ explained = FALSE

-----------------------------------------------------------------------------
(* Events and transport failure, in either thread.                          *)

\* dio_emit and its variants: nothing is delivered once closing is set.
Deliver(e) ==
  IF closing \/ e.turn = 0
    THEN UNCHANGED told
    ELSE IF e.type \in EndTypes
      THEN /\ ends' = [ends EXCEPT ![e.turn] = @ + 1]
           /\ how' = [how EXCEPT ![e.turn] = e.type]
           /\ UNCHANGED <<late, stray>>
      ELSE /\ late' = [late EXCEPT ![e.turn] = IF e.turn \in cancelled THEN @ + 1 ELSE @]
           /\ stray' = (stray \/ how[e.turn] \in EndTypes \ {"TRANSPORT"})
           /\ UNCHANGED <<ends, how>>

Locked == opc = "sending"

\* Mutant: a failure that was already reported is reported again.
FailAgain(t) ==
  /\ ~Locked
  /\ state' = IF state = "CLOSING" THEN state ELSE "FAILED"
  /\ pend' = [pend EXCEPT ![t] = Frame("TRANSPORT", activeTurn)]
  /\ UNCHANGED <<activeTurn, nextTurn, accepted, cancelRequested, audio>>

\* dio_transport_failure, under the lock.  (A closing agent never gets here.)
Fail(t) ==
  /\ ~Locked
  /\ IF state \in {"FAILED", "CLOSING"}
       THEN UNCHANGED <<state, pend>>
       ELSE /\ state' = "FAILED"
            /\ pend' = [pend EXCEPT ![t] = Frame("TRANSPORT", activeTurn)]
  /\ UNCHANGED <<activeTurn, nextTurn, accepted, cancelRequested, audio>>

-----------------------------------------------------------------------------
(* The owner's calls.  Calls the state refuses change nothing.              *)

ownerFrame == <<closing, reader, pend, pipes, harness, told, explained>>

\* dio_agent_submit
Submit ==
  /\ opc = "ready" /\ state = "READY" /\ nextTurn < MaxTurns
  /\ nextTurn' = nextTurn + 1 /\ activeTurn' = nextTurn + 1
  /\ audio' = FALSE /\ accepted' = FALSE /\ cancelRequested' = FALSE
  /\ state' = "ACTIVE"
  /\ opc' = "sending"
  /\ sending' = <<Frame("start", nextTurn + 1), Frame("commit", nextTurn + 1)>>
  /\ UNCHANGED <<ownerFrame, asked, cancelled>>

\* dio_agent_list_models
ListModels ==
  /\ opc = "ready" /\ state = "READY"
  /\ opc' = "sending" /\ sending' = <<Frame("list", 0)>>
  /\ UNCHANGED <<ownerFrame, agent, asked, cancelled>>

\* dio_agent_approve_tool, once for a request
ApproveTool ==
  /\ opc = "ready" /\ asked # 0
  /\ asked' = 0
  /\ IF state = "ACTIVE" /\ activeTurn = asked /\ ~cancelRequested
       THEN opc' = "sending" /\ sending' = <<Frame("approval", asked)>>
       ELSE UNCHANGED <<opc, sending>>
  /\ UNCHANGED <<ownerFrame, agent, cancelled>>

\* dio_agent_cancel
Cancel ==
  /\ opc = "ready" /\ state = "ACTIVE" /\ ~cancelRequested
  /\ cancelRequested' = TRUE
  /\ opc' = "sending" /\ sending' = <<Frame("cancel", activeTurn)>>
  /\ UNCHANGED <<ownerFrame, state, activeTurn, nextTurn, accepted, audio, asked,
                 cancelled>>

\* dio_send_json_locked: the write completes when the pipe has room; after the
\* last frame the call unlocks and returns OK.
Send ==
  /\ opc = "sending"
  /\ alive /\ Len(toHarness) < PipeFrames
  /\ toHarness' = Append(toHarness, Head(sending))
  /\ sending' = Tail(sending)
  /\ opc' = IF Len(sending) = 1 THEN "ready" ELSE "sending"
  /\ cancelled' = cancelled \union
                    IF Head(sending).type = "cancel" THEN {activeTurn} ELSE {}
  /\ UNCHANGED <<agent, closing, asked, reader, pend, fromHarness, harness, told,
                 explained>>

\* The pipe is broken, or stays full for DIO_HARNESS_WRITE_TIMEOUT_MS.  Only
\* dio_agent_cancel takes back what it had set.
SendFails ==
  /\ opc = "sending"
  /\ ~alive \/ Len(toHarness) = PipeFrames
  /\ sending' = <<>>
  /\ cancelRequested' = (cancelRequested /\ Head(sending).type # "cancel")
  /\ opc' = "fail"
  /\ explained' = (explained \/ alive)
  /\ UNCHANGED <<state, activeTurn, nextTurn, accepted, audio, closing, asked, reader,
                 pend, pipes, harness, told, cancelled>>

OwnerFail ==
  /\ opc = "fail"
  /\ Fail("owner")
  /\ opc' = "terminate"
  /\ UNCHANGED <<closing, sending, asked, reader, pipes, harness, told,
                 cancelled, explained>>

\* TerminateJobObject
OwnerTerminate ==
  /\ opc = "terminate"
  /\ alive' = FALSE
  /\ opc' = "emit"
  /\ UNCHANGED <<agent, closing, sending, asked, reader, pend, pipes, hung, h, told,
                 cancelled, explained>>

OwnerEmit ==
  /\ opc = "emit"
  /\ Deliver(pend["owner"])
  /\ pend' = [pend EXCEPT !["owner"] = NoFrame]
  /\ opc' = "ready"
  /\ UNCHANGED <<agent, closing, sending, asked, reader, pipes, harness, cancelled,
                 explained>>

\* dio_agent_close: closing is set, ...
Close ==
  /\ opc = "ready"
  /\ closing' = TRUE
  /\ opc' = "cancelIo"
  /\ UNCHANGED <<agent, sending, asked, reader, pend, pipes, harness, told,
                 cancelled, explained>>

\* ... the reader's pending I/O is cancelled under io_lock, ...
CloseIo ==
  /\ opc = "cancelIo"
  /\ aborted' = \/ rpc = "connecting" /\ h.phase = "launched"
                \/ rpc = "reading" /\ fromHarness = <<>>
  /\ opc' = "closeState"
  /\ UNCHANGED <<agent, closing, sending, asked, rpc, frame, pend, pipes, harness,
                 told, cancelled, explained>>

\* ... the state says so, ...
CloseState ==
  /\ opc = "closeState"
  /\ state' = "CLOSING"
  /\ opc' = "closeJob"
  /\ UNCHANGED <<activeTurn, nextTurn, accepted, cancelRequested, audio, closing,
                 sending, asked, reader, pend, pipes, harness, told, cancelled,
                 explained>>

\* ... the harness is terminated ...
CloseJob ==
  /\ opc = "closeJob"
  /\ alive' = FALSE
  /\ opc' = "join"
  /\ UNCHANGED <<agent, closing, sending, asked, reader, pend, pipes, hung, h, told,
                 cancelled, explained>>

\* ... and the reader is joined.
CloseJoin ==
  /\ opc = "join" /\ rpc = "exited"
  /\ opc' = "closed"
  /\ UNCHANGED <<agent, closing, sending, asked, reader, pend, pipes, harness, told,
                 cancelled, explained>>
-----------------------------------------------------------------------------
(* The reader thread: dio_reader_worker.                                    *)

readerFrame == <<closing, owner, harness, cancelled>>

\* Mutant: closing is not looked at under io_lock.
ConnectUnchecked ==
  /\ rpc = "connect"
  /\ rpc' = "connecting"
  /\ UNCHANGED <<readerFrame, agent, frame, aborted, pend, pipes, told, explained>>

\* ConnectNamedPipe is issued under io_lock, unless closing is set.
Connect ==
  /\ rpc = "connect"
  /\ rpc' = IF closing THEN "exited" ELSE "connecting"
  /\ UNCHANGED <<readerFrame, agent, frame, aborted, pend, pipes, told, explained>>

Connected ==
  /\ rpc = "connecting"
  /\ \/ aborted /\ rpc' = "exited"
     \/ ~aborted /\ h.phase # "launched" /\ rpc' = "hello"
  /\ UNCHANGED <<readerFrame, agent, frame, aborted, pend, pipes, told, explained>>

\* The hello frame goes out under the lock, in a pipe that is still empty.
Hello ==
  /\ rpc = "hello" /\ ~Locked
  /\ IF state = "STARTING" /\ ~closing /\ alive
       THEN rpc' = "read" /\ toHarness' = Append(toHarness, Frame("hello", 0))
       ELSE rpc' = "fail" /\ UNCHANGED toHarness
  /\ UNCHANGED <<readerFrame, agent, frame, aborted, pend, fromHarness, told, explained>>

\* ReadFile is issued under io_lock, unless closing is set.
ReadIssue ==
  /\ rpc = "read"
  /\ rpc' = IF closing THEN "exited" ELSE "reading"
  /\ UNCHANGED <<readerFrame, agent, frame, aborted, pend, pipes, told, explained>>

\* The read completes with a frame, or fails: cancelled, or a broken pipe.
ReadFrame ==
  /\ rpc = "reading" /\ ~aborted /\ fromHarness # <<>>
  /\ frame' = Head(fromHarness)
  /\ fromHarness' = Tail(fromHarness)
  /\ rpc' = "accept"
  /\ UNCHANGED <<readerFrame, agent, aborted, pend, toHarness, told, explained>>

ReadFails ==
  /\ rpc = "reading"
  /\ aborted \/ (~alive /\ fromHarness = <<>>)
  /\ rpc' = "fail"
  /\ UNCHANGED <<readerFrame, agent, frame, aborted, pend, pipes, told, explained>>

\* dio_accept_control and dio_accept_pcm16: the frame is consumed and makes an
\* event, or is ignored, or is invalid and ends the transport.
Consumed == frame' = NoFrame
Emits(type) == /\ pend' = [pend EXCEPT !["reader"] = Frame(type, frame.turn)]
               /\ rpc' = "emit" /\ UNCHANGED explained
Ignored == rpc' = "read" /\ UNCHANGED <<pend, explained>>
Invalid == rpc' = "fail" /\ UNCHANGED <<pend, explained>>

OnTurn == state = "ACTIVE" /\ activeTurn = frame.turn
acceptFrame == <<readerFrame, aborted, pipes, told>>

AcceptReady ==
  /\ rpc = "accept" /\ Consumed /\ frame.type = "ready" /\ ~Locked
  /\ IF state = "STARTING" THEN state' = "READY" /\ Emits("READY")
                           ELSE UNCHANGED state /\ Invalid
  /\ UNCHANGED <<acceptFrame, activeTurn, nextTurn, accepted, cancelRequested, audio>>

AcceptModels ==
  /\ rpc = "accept" /\ Consumed /\ frame.type = "models"
  /\ Emits("MODELS")
  /\ UNCHANGED <<acceptFrame, agent>>

\* mcp.status and tool.approval.required are valid only in the active turn,
\* and only before its cancel.
AcceptNotice ==
  /\ rpc = "accept" /\ Consumed /\ frame.type \in {"status", "ask"} /\ ~Locked
  /\ IF OnTurn /\ ~cancelRequested
       THEN Emits(IF frame.type = "status" THEN "STATUS" ELSE "APPROVAL")
       ELSE /\ rpc' = "fail" /\ UNCHANGED pend
            /\ explained' = (explained \/ OnTurn)
  /\ UNCHANGED <<acceptFrame, agent>>

AcceptTurn ==
  /\ rpc = "accept" /\ Consumed /\ frame.type \in {"accepted", "acceptedAudio"} /\ ~Locked
  /\ IF OnTurn /\ ~accepted
       THEN /\ accepted' = TRUE /\ audio' = (frame.type = "acceptedAudio")
            /\ Emits("ACCEPTED")
       ELSE UNCHANGED <<accepted, audio>> /\ Ignored
  /\ UNCHANGED <<acceptFrame, state, activeTurn, nextTurn, cancelRequested>>

\* Mutant: the text of any turn is the text of this one.
DeltaOfAnyTurn == state = "ACTIVE" /\ accepted /\ ~cancelRequested

TakesDelta == OnTurn /\ accepted /\ ~cancelRequested

AcceptDelta ==
  /\ rpc = "accept" /\ Consumed /\ frame.type = "delta" /\ ~Locked
  /\ IF TakesDelta THEN Emits("OUTPUT") ELSE Ignored
  /\ UNCHANGED <<acceptFrame, agent>>

\* Mutant: audio that crosses a cancel is unexpected.
UnexpectedAfterCancel == OnTurn /\ (~accepted \/ ~audio \/ cancelRequested)

UnexpectedAudio == OnTurn /\ ~cancelRequested /\ (~accepted \/ ~audio)

AcceptPcm ==
  /\ rpc = "accept" /\ Consumed /\ frame.type = "pcm" /\ ~Locked
  /\ IF UnexpectedAudio THEN Invalid
     ELSE IF TakesDelta /\ audio THEN Emits("OUTPUT") ELSE Ignored
  /\ UNCHANGED <<acceptFrame, agent>>

\* Mutant: only the harness decides whether the turn was cancelled.
DoneUncancelled == frame.type = "doneCancelled"

DoneCancelled == cancelRequested \/ frame.type = "doneCancelled"

\* turn.done and turn.error end the active turn.
EndTurn(type) ==
  /\ IF OnTurn
       THEN /\ state' = "READY" /\ activeTurn' = 0 /\ audio' = FALSE
            /\ accepted' = FALSE /\ cancelRequested' = FALSE
            /\ Emits(type)
       ELSE UNCHANGED <<state, activeTurn, audio, accepted, cancelRequested>> /\ Ignored
  /\ UNCHANGED <<acceptFrame, nextTurn>>

AcceptDone ==
  /\ rpc = "accept" /\ Consumed /\ frame.type \in {"done", "doneCancelled"} /\ ~Locked
  /\ EndTurn(IF DoneCancelled THEN "CANCELLED" ELSE "COMPLETE")

\* Mutant: the error a cancelled turn ends with is ignored.
ErrorIgnored ==
  /\ rpc = "accept" /\ Consumed /\ frame.type = "error" /\ ~Locked
  /\ IF cancelRequested
       THEN Ignored /\ UNCHANGED <<acceptFrame, agent>>
       ELSE EndTurn("ERROR")

AcceptError ==
  /\ rpc = "accept" /\ Consumed /\ frame.type = "error" /\ ~Locked
  /\ EndTurn(IF cancelRequested THEN "CANCELLED" ELSE "ERROR")

ReaderEmit ==
  /\ rpc = "emit"
  /\ Deliver(pend["reader"])
  /\ asked' = IF pend["reader"].type = "APPROVAL" /\ ~closing
                THEN pend["reader"].turn ELSE asked
  /\ pend' = [pend EXCEPT !["reader"] = NoFrame]
  /\ rpc' = "read"
  /\ UNCHANGED <<agent, closing, opc, sending, frame, aborted, pipes, harness,
                 cancelled, explained>>

\* A failure of a closing agent is its end; any other is reported.
ReaderStops ==
  /\ rpc = "fail" /\ closing
  /\ rpc' = "exited"
  /\ UNCHANGED <<readerFrame, agent, frame, aborted, pend, pipes, told, explained>>

ReaderFail ==
  /\ rpc = "fail" /\ ~closing
  /\ Fail("reader")
  /\ rpc' = "terminate"
  /\ UNCHANGED <<readerFrame, frame, aborted, pipes, told, explained>>

ReaderTerminate ==
  /\ rpc = "terminate"
  /\ alive' = FALSE
  /\ rpc' = "lastEmit"
  /\ UNCHANGED <<closing, owner, agent, frame, aborted, pend, pipes, hung, h, told,
                 cancelled, explained>>

ReaderLastEmit ==
  /\ rpc = "lastEmit"
  /\ Deliver(pend["reader"])
  /\ pend' = [pend EXCEPT !["reader"] = NoFrame]
  /\ rpc' = "exited"
  /\ UNCHANGED <<readerFrame, agent, frame, aborted, pipes, explained>>
-----------------------------------------------------------------------------
(* The harness process.                                                     *)

harnessFrame == <<agent, closing, owner, reader, pend, told, cancelled>>

Runs == alive /\ ~hung

HConnect ==
  /\ Runs /\ h.phase = "launched" /\ rpc = "connecting"
  /\ h' = [h EXCEPT !.phase = "greeting"]
  /\ UNCHANGED <<harnessFrame, pipes, alive, hung, explained>>

\* What a frame of the client changes.  A cancel of a turn that has ended is
\* ignored.
Heard(m) ==
  CASE m.type = "hello" -> [h EXCEPT !.phase = "idle", !.owes = @ \union {"ready"}]
    [] m.type = "list" -> [h EXCEPT !.owes = @ \union {"models"}]
    [] m.type = "start" -> [h EXCEPT !.phase = "started", !.turn = m.turn,
                                     !.accepted = FALSE, !.cancel = FALSE]
    [] m.type = "commit" /\ h.turn = m.turn -> [h EXCEPT !.phase = "working"]
    [] m.type = "cancel" /\ h.turn = m.turn -> [h EXCEPT !.cancel = TRUE]
    [] m.type = "approval" /\ h.turn = m.turn -> [h EXCEPT !.phase = "working"]
    [] OTHER -> h

HRead ==
  /\ Runs /\ h.phase # "launched" /\ toHarness # <<>>
  /\ h' = Heard(Head(toHarness))
  /\ toHarness' = Tail(toHarness)
  /\ UNCHANGED <<harnessFrame, fromHarness, alive, hung, explained>>

Says(type, turn) ==
  /\ Runs /\ Len(fromHarness) < PipeFrames
  /\ fromHarness' = Append(fromHarness, Frame(type, turn))
  /\ UNCHANGED <<harnessFrame, toHarness, alive, hung, explained>>

HReply == \E type \in h.owes :
            Says(type, 0) /\ h' = [h EXCEPT !.owes = @ \ {type}]

HAccept == /\ h.phase \in {"started", "working"} /\ ~h.accepted /\ ~h.cancel
           /\ \E a \in BOOLEAN :
                /\ Says(IF a THEN "acceptedAudio" ELSE "accepted", h.turn)
                /\ h' = [h EXCEPT !.accepted = TRUE, !.audio = a]

HOutput == /\ h.phase = "working" /\ h.accepted /\ ~h.cancel
           /\ \E type \in {"delta", "status"} \union IF h.audio THEN {"pcm"} ELSE {} :
                Says(type, h.turn)
           /\ UNCHANGED h

HAsk == /\ h.phase = "working" /\ h.accepted /\ ~h.cancel
        /\ Says("ask", h.turn)
        /\ h' = [h EXCEPT !.phase = "asking"]

HDone == /\ \/ h.phase = "working" /\ h.accepted
            \/ h.phase \in {"started", "working", "asking"} /\ h.cancel
         /\ \E type \in {"error", IF h.cancel THEN "doneCancelled" ELSE "done"} :
              Says(type, h.turn)
         /\ h' = [h EXCEPT !.phase = "idle", !.turn = 0, !.cancel = FALSE,
                           !.accepted = FALSE, !.audio = FALSE,
                           !.stale = IF h.cancel THEN h.turn ELSE 0]

\* One more frame of a turn that was cancelled, perhaps within the next one.
HStale == /\ h.stale # 0
          /\ \E type \in {"delta", "pcm"} : Says(type, h.stale)
          /\ h' = [h EXCEPT !.stale = 0]

HDie == /\ alive /\ alive' = FALSE
        /\ explained' = TRUE
        /\ UNCHANGED <<harnessFrame, pipes, hung, h>>

HHang == /\ Runs /\ hung' = TRUE
         /\ UNCHANGED <<harnessFrame, pipes, alive, h, explained>>

-----------------------------------------------------------------------------
Call == Submit \/ ListModels \/ ApproveTool \/ Cancel \/ Close
Continue == \/ Send \/ SendFails \/ OwnerFail \/ OwnerTerminate \/ OwnerEmit
            \/ CloseIo \/ CloseState \/ CloseJob \/ CloseJoin
Accept == \/ AcceptReady \/ AcceptModels \/ AcceptNotice \/ AcceptTurn
          \/ AcceptDelta \/ AcceptPcm \/ AcceptDone \/ AcceptError
Reader == \/ Connect \/ Connected \/ Hello \/ ReadIssue \/ ReadFrame
          \/ ReadFails \/ Accept \/ ReaderEmit \/ ReaderStops \/ ReaderFail
          \/ ReaderTerminate \/ ReaderLastEmit
Finishes == HConnect \/ HReply \/ (h.cancel /\ HDone)
Harness == HRead \/ HConnect \/ HReply \/ HAccept \/ HOutput \/ HAsk \/ HDone \/ HStale

Next == Call \/ Continue \/ Reader \/ Harness \/ HDie \/ HHang

\* The client's threads run.  A harness that does not hang reads, connects,
\* answers and ends a turn it knows is cancelled; it need not end any other.
Fairness == /\ WF_vars(Continue) /\ WF_vars(Reader)
            /\ WF_vars(HRead) /\ WF_vars(Finishes)

Spec == Init /\ [][Next]_vars /\ Fairness

-----------------------------------------------------------------------------
(* Correctness.                                                             *)

OwnerPc == {"ready", "sending", "fail", "terminate", "emit", "cancelIo",
            "closeState", "closeJob", "join", "closed"}
ReaderPc == {"connect", "connecting", "hello", "read", "reading", "accept",
             "emit", "fail", "terminate", "lastEmit", "exited"}
ClientTypes == {"hello", "list", "start", "commit", "cancel", "approval"}
HarnessTypes == {"ready", "models", "accepted", "acceptedAudio", "delta", "pcm",
                 "status", "ask", "done", "doneCancelled", "error"}
EventTypes == {"READY", "MODELS", "STATUS", "APPROVAL", "ACCEPTED", "OUTPUT"}
              \union EndTypes
Of(types) == [type : types, turn : 0..MaxTurns]

\* Every variable has its type; the pipes keep to their size.
TypeOK ==
  /\ state \in {"STARTING", "READY", "ACTIVE", "FAILED", "CLOSING"}
  /\ activeTurn \in 0..MaxTurns /\ nextTurn \in 0..MaxTurns
  /\ accepted \in BOOLEAN /\ cancelRequested \in BOOLEAN /\ audio \in BOOLEAN
  /\ closing \in BOOLEAN
  /\ opc \in OwnerPc /\ sending \in Seq(Of(ClientTypes)) /\ asked \in 0..MaxTurns
  /\ rpc \in ReaderPc /\ frame \in Of(HarnessTypes) \union {NoFrame}
  /\ aborted \in BOOLEAN
  /\ pend \in [Threads -> Of(EventTypes) \union {NoFrame}]
  /\ toHarness \in Seq(Of(ClientTypes)) /\ Len(toHarness) <= PipeFrames
  /\ fromHarness \in Seq(Of(HarnessTypes)) /\ Len(fromHarness) <= PipeFrames
  /\ alive \in BOOLEAN /\ hung \in BOOLEAN
  /\ ends \in [Turns -> Nat] /\ how \in [Turns -> EndTypes \union {"none"}]
  /\ cancelled \in SUBSET Turns /\ late \in [Turns -> Nat]
  /\ stray \in BOOLEAN /\ explained \in BOOLEAN

Ending(t) == \E th \in Threads : pend[th].turn = t /\ pend[th].type \in EndTypes

\* agent.h: exactly one turn may be active.  Until closing is set a submitted
\* turn is the active one and has had no end, or a thread is about to deliver
\* its one end, or that was delivered: never two, never none.
TurnEndsOnce ==
  ~closing =>
    \A t \in Turns :
      ends[t] = IF \/ t > nextTurn
                   \/ state = "ACTIVE" /\ activeTurn = t
                   \/ Ending(t)
                  THEN 0 ELSE 1

\* A turn whose cancel returned OK ends cancelled or with the transport, even
\* when the harness had finished it before it read the cancel.
CancelHonoured ==
  \A t \in cancelled : how[t] \in {"none", "CANCELLED", "TRANSPORT"}

\* No output of a turn is delivered after its end (but for a transport failure
\* the owner's thread met), and after its cancel returned at most the one event
\* the reader had already taken.
OutputStops == ~stray /\ \A t \in Turns : late[t] <= 1

\* A cancel is kept to by both sides.
CancelSound == CancelHonoured /\ OutputStops

\* The transport fails only when the harness died or left the pipe full, or when
\* its status or approval request crossed a cancel; nothing else a correct
\* harness sends while a cancel is on its way is taken for an invalid frame.
FailureExplained == state = "FAILED" => explained

\* Every call returns: close above all, whether the harness hangs, has died or
\* never connected.
CallsReturn == opc # "ready" ~> opc \in {"ready", "closed"}

\* A cancelled turn ends, unless the harness hangs.
CancelEnds == \A t \in Turns : t \in cancelled ~> ends[t] > 0 \/ hung \/ closing

\* Nobody waits for ever for the other side, unless that is allowed to hang.
CallsServed == CallsReturn /\ CancelEnds
=============================================================================
