-------------------------- MODULE AgentTransportProof --------------------------
(***************************************************************************)
(* Proofs about the agent client, for any number of turns and any size of  *)
(* the pipes: types, the one end of each turn, cancels that both sides     *)
(* keep to, and failures that have a cause.                                *)
(***************************************************************************)
EXTENDS AgentTransport, SequenceTheorems, TLAPS

States == {"STARTING", "READY", "ACTIVE", "FAILED", "CLOSING"}
Number == 0..MaxTurns
Events == Of(EventTypes) \union {NoFrame}
Phases == {"launched", "greeting", "idle", "started", "working", "asking"}

AgentOK ==
  /\ state \in States /\ activeTurn \in Number /\ nextTurn \in Number
  /\ accepted \in BOOLEAN /\ cancelRequested \in BOOLEAN /\ audio \in BOOLEAN
  /\ closing \in BOOLEAN
OwnerOK == opc \in OwnerPc /\ sending \in Seq(Of(ClientTypes)) /\ asked \in Number
ReaderOK ==
  /\ rpc \in ReaderPc /\ frame \in Of(HarnessTypes) \union {NoFrame} /\ aborted \in BOOLEAN
  /\ pend \in [Threads -> Events]
PipesOK ==
  /\ toHarness \in Seq(Of(ClientTypes)) /\ Len(toHarness) <= PipeFrames
  /\ fromHarness \in Seq(Of(HarnessTypes)) /\ Len(fromHarness) <= PipeFrames
HarnessOK ==
  /\ alive \in BOOLEAN /\ hung \in BOOLEAN
  /\ h \in [phase : Phases, turn : Number, accepted : BOOLEAN, audio : BOOLEAN,
            cancel : BOOLEAN, owes : SUBSET {"ready", "models"}, stale : Number]
HistoryOK ==
  /\ ends \in [Turns -> Nat] /\ how \in [Turns -> EndTypes \union {"none"}]
  /\ cancelled \in SUBSET Turns /\ late \in [Turns -> Nat]
  /\ stray \in BOOLEAN /\ explained \in BOOLEAN

\* What a call has to send; a cancel is sent within the turn, because the lock
\* is held until it is.
SendingInv ==
  /\ opc = "sending" <=> sending # <<>>
  /\ state = "ACTIVE" => activeTurn \in Turns
  /\ opc = "sending" /\ Head(sending).type = "cancel" => state = "ACTIVE"
  /\ \A i \in 1..Len(sending) : i > 1 => sending[i].type # "cancel"

\* Before the hello frame nobody writes.
HelloInv ==
  rpc \in {"connect", "connecting", "hello"} =>
    /\ toHarness = <<>> /\ state \in {"STARTING", "CLOSING"}
    /\ opc \notin {"sending", "fail", "terminate", "emit"}

TypeInv == AgentOK /\ OwnerOK /\ ReaderOK /\ PipesOK /\ HarnessOK /\ HistoryOK
           /\ SendingInv /\ HelloInv

LEMMA FrameTypes ==
  /\ NoFrame.type = "none" /\ NoFrame.turn = 0 /\ 0 \in Number
  /\ \A t : \A n : Frame(t, n).type = t /\ Frame(t, n).turn = n
  /\ \A S : \A t \in S : \A n \in Number : Frame(t, n) \in Of(S)
  /\ \A S : \A f \in Of(S) : f.type \in S /\ f.turn \in Number
  /\ \A e \in Events : e.turn \in Number
  /\ \A n \in Number : n # 0 => n \in Turns
  /\ Turns \subseteq Number
BY TransportAssumption DEF NoFrame, Frame, Of, Number, Events, Turns

LEMMA FailTypes ==
  ASSUME AgentOK, ReaderOK, NEW t \in Threads, Fail(t)
  PROVE  /\ state' \in States /\ (state' = "ACTIVE" => state = "ACTIVE")
         /\ pend' \in [Threads -> Events]
         /\ UNCHANGED <<activeTurn, nextTurn, accepted, cancelRequested, audio>>
<1>1. Frame("TRANSPORT", activeTurn) \in Events
  BY FrameTypes DEF AgentOK, Events, EventTypes, EndTypes
<1> QED
  BY <1>1 DEF AgentOK, ReaderOK, Fail, States

LEMMA DeliverTypes ==
  ASSUME HistoryOK, AgentOK, NEW e \in Events, Deliver(e)
  PROVE  /\ ends' \in [Turns -> Nat] /\ how' \in [Turns -> EndTypes \union {"none"}]
         /\ late' \in [Turns -> Nat] /\ stray' \in BOOLEAN
<1>1. e.turn # 0 => e.turn \in Turns
  BY FrameTypes
<1>2. CASE closing \/ e.turn = 0
  BY <1>2 DEF HistoryOK, Deliver, told
<1>3. CASE ~(closing \/ e.turn = 0) /\ e.type \in EndTypes
  BY <1>1, <1>3 DEF HistoryOK, Deliver
<1>4. CASE ~(closing \/ e.turn = 0) /\ e.type \notin EndTypes
  <2>1. ends' \in [Turns -> Nat] /\ how' \in [Turns -> EndTypes \union {"none"}]
    BY <1>4 DEF HistoryOK, Deliver
  <2>2. late' \in [Turns -> Nat]
    BY <1>1, <1>4 DEF HistoryOK, Deliver
  <2>3. stray' \in BOOLEAN
    BY <1>4, Zenon DEF Deliver
  <2> QED
    BY <2>1, <2>2, <2>3
<1> QED
  BY <1>2, <1>3, <1>4

LEMMA AgentStep == TypeInv /\ [Next]_vars => AgentOK'
<1> SUFFICES ASSUME TypeInv, [Next]_vars PROVE AgentOK'
  OBVIOUS
<1> USE DEF TypeInv, agent, vars, ownerFrame, readerFrame, harnessFrame, acceptFrame, owner, reader,
            pipes, harness, told
<1>1. CASE Call
  <2>1. CASE Submit
    <3>1. nextTurn + 1 \in Number
      BY <2>1, TransportAssumption DEF Submit, AgentOK, Number
    <3> QED
      BY <2>1, <3>1 DEF Submit, AgentOK, States
  <2> QED
    BY <1>1, <2>1 DEF Call, ListModels, ApproveTool, Cancel, Close, AgentOK
<1>2. CASE Continue
  <2>1. CASE OwnerFail
    BY <2>1, FailTypes DEF OwnerFail, AgentOK, Threads
  <2>2. CASE SendFails
    BY <2>2 DEF SendFails, AgentOK
  <2>3. CASE CloseState
    BY <2>3 DEF CloseState, AgentOK, States
  <2> QED
    BY <1>2, <2>1, <2>2, <2>3 DEF Continue, Send, OwnerTerminate, OwnerEmit, CloseIo, CloseJob, CloseJoin, AgentOK
<1>3. CASE Reader
  <2>1. CASE ReaderFail
    BY <2>1, FailTypes DEF ReaderFail, AgentOK, Threads
  <2>2. CASE AcceptReady \/ AcceptModels \/ AcceptNotice \/ AcceptTurn \/ AcceptDelta \/ AcceptPcm
    BY <2>2 DEF AcceptReady, AcceptModels, AcceptNotice, AcceptTurn, AcceptDelta, AcceptPcm, AgentOK,
       States
  <2>3. CASE AcceptDone \/ AcceptError
    <3>1. \E type : EndTurn(type)
      BY <2>3 DEF AcceptDone, AcceptError
    <3> QED
      BY <3>1, FrameTypes DEF EndTurn, AgentOK, States
  <2> QED
    BY <1>3, <2>1, <2>2, <2>3 DEF Reader, Accept, Connect, Connected, Hello, ReadIssue, ReadFrame, ReadFails,
       ReaderEmit, ReaderStops, ReaderTerminate, ReaderLastEmit, AgentOK
<1>4. CASE Harness \/ HDie \/ HHang \/ UNCHANGED vars
  BY <1>4 DEF Harness, HRead, HConnect, HReply, HAccept, HOutput, HAsk, HDone, HStale, Says,
     HDie, HHang, AgentOK
<1> QED
  BY <1>1, <1>2, <1>3, <1>4 DEF Next

LEMMA OwnerStep == TypeInv /\ [Next]_vars => OwnerOK'
<1> SUFFICES ASSUME TypeInv, [Next]_vars PROVE OwnerOK'
  OBVIOUS
<1> USE DEF TypeInv, agent, vars, ownerFrame, readerFrame, harnessFrame, acceptFrame, owner, reader,
            pipes, harness, told, OwnerPc
<1>1. \A t : \A n \in Number : \A c \in ClientTypes : <<Frame(c, n)>> \in Seq(Of(ClientTypes))
  BY FrameTypes
<1>2. \A c, d \in ClientTypes : \A n \in Number : <<Frame(c, n), Frame(d, n)>> \in Seq(Of(ClientTypes))
  BY FrameTypes
<1>3. {"start", "commit", "list", "approval", "cancel"} \subseteq ClientTypes
  BY DEF ClientTypes
<1>4. CASE Call
  <2>1. CASE Submit
    <3>1. nextTurn + 1 \in Number
      BY <2>1, TransportAssumption DEF Submit, AgentOK, Number
    <3> QED
      BY <1>2, <1>3, <2>1, <3>1 DEF Submit, OwnerOK
  <2>2. CASE ListModels \/ ApproveTool \/ Cancel
    BY <1>1, <1>3, <2>2, FrameTypes DEF ListModels, ApproveTool, Cancel, OwnerOK, AgentOK
  <2> QED
    BY <1>4, <2>1, <2>2 DEF Call, Close, OwnerOK
<1>5. CASE Continue
  <2>1. CASE Send
    <3>1. sending # <<>>
      BY <2>1 DEF Send, SendingInv
    <3> QED
      BY <2>1, <3>1 DEF Send, OwnerOK
  <2>2. CASE SendFails
    BY <2>2 DEF SendFails, OwnerOK
  <2> QED
    BY <1>5, <2>1, <2>2 DEF Continue, OwnerFail, OwnerTerminate, OwnerEmit, CloseIo, CloseState,
       CloseJob, CloseJoin, OwnerOK
<1>6. CASE Reader
  <2>1. CASE ReaderEmit
    <3>1. pend["reader"].turn \in Number
      BY FrameTypes DEF ReaderOK, Threads
    <3> QED
      BY <2>1, <3>1 DEF ReaderEmit, OwnerOK
  <2> QED
    BY <1>6, <2>1 DEF Reader, Accept, Connect, Connected, Hello, ReadIssue, ReadFrame, ReadFails,
       AcceptReady, AcceptModels, AcceptNotice, AcceptTurn, AcceptDelta, AcceptPcm, AcceptDone,
       AcceptError, EndTurn, ReaderStops, ReaderFail, ReaderTerminate, ReaderLastEmit, OwnerOK
<1>7. CASE Harness \/ HDie \/ HHang \/ UNCHANGED vars
  BY <1>7 DEF Harness, HRead, HConnect, HReply, HAccept, HOutput, HAsk, HDone, HStale, Says,
     HDie, HHang, OwnerOK
<1> QED
  BY <1>4, <1>5, <1>6, <1>7 DEF Next

LEMMA EmitTypes ==
  ASSUME ReaderOK, frame # NoFrame, NEW type \in EventTypes, Emits(type)
  PROVE  pend' \in [Threads -> Events]
<1>1. frame.turn \in Number
  BY FrameTypes DEF ReaderOK
<1>2. Frame(type, frame.turn) \in Events
  BY <1>1, FrameTypes DEF Events
<1> QED
  BY <1>2 DEF ReaderOK, Emits

LEMMA ReaderStep == TypeInv /\ [Next]_vars => ReaderOK'
<1> SUFFICES ASSUME TypeInv, [Next]_vars PROVE ReaderOK'
  OBVIOUS
<1> USE DEF TypeInv, agent, vars, ownerFrame, readerFrame, harnessFrame, acceptFrame, owner, reader,
            pipes, harness, told, ReaderPc
<1>1. NoFrame \in Events
  BY DEF Events
<1>2. CASE Call
  BY <1>2 DEF Call, Submit, ListModels, ApproveTool, Cancel, Close, ReaderOK
<1>3. CASE Continue
  <2>1. CASE OwnerFail
    BY <2>1, FailTypes DEF OwnerFail, ReaderOK, Threads
  <2>2. CASE OwnerEmit
    BY <1>1, <2>2 DEF OwnerEmit, ReaderOK
  <2>3. CASE CloseIo
    BY <2>3 DEF CloseIo, ReaderOK
  <2> QED
    BY <1>3, <2>1, <2>2, <2>3 DEF Continue, Send, SendFails, OwnerTerminate, CloseState, CloseJob,
       CloseJoin, ReaderOK
<1>4. CASE Accept
  <2>1. frame # NoFrame /\ frame' = NoFrame /\ aborted' = aborted
    BY <1>4, FrameTypes DEF Accept, AcceptReady, AcceptModels, AcceptNotice, AcceptTurn, AcceptDelta,
       AcceptPcm, AcceptDone, AcceptError, EndTurn, Consumed
  <2>2. \/ Ignored \/ Invalid \/ (rpc' = "fail" /\ UNCHANGED pend)
        \/ \E type \in EventTypes : Emits(type)
    <3>1. CASE AcceptReady \/ AcceptModels
      BY <3>1 DEF AcceptReady, AcceptModels, EventTypes, Emits, Ignored, Invalid
    <3>2. CASE AcceptNotice
      BY <3>2 DEF AcceptNotice, EventTypes
    <3>3. CASE AcceptTurn \/ AcceptDelta \/ AcceptPcm
      BY <3>3 DEF AcceptTurn, AcceptDelta, AcceptPcm, EventTypes, Emits, Ignored, Invalid
    <3>4. CASE AcceptDone \/ AcceptError
      BY <3>4 DEF AcceptDone, AcceptError, EndTurn, EventTypes, EndTypes, Emits, Ignored, Invalid
    <3> QED
      BY <1>4, <3>1, <3>2, <3>3, <3>4 DEF Accept
  <2>3. rpc' \in ReaderPc /\ pend' \in [Threads -> Events]
    BY <2>1, <2>2, EmitTypes DEF Ignored, Invalid, Emits, ReaderOK
  <2> QED
    BY <2>1, <2>3 DEF ReaderOK
<1>5. CASE Reader /\ ~Accept
  <2>1. CASE ReaderFail
    BY <2>1, FailTypes DEF ReaderFail, ReaderOK, Threads
  <2>2. CASE ReaderEmit \/ ReaderLastEmit
    BY <1>1, <2>2 DEF ReaderEmit, ReaderLastEmit, ReaderOK
  <2>3. CASE ReadFrame
    <3>1. Head(fromHarness) \in Of(HarnessTypes)
      BY <2>3 DEF ReadFrame, PipesOK
    <3> QED
      BY <2>3, <3>1 DEF ReadFrame, ReaderOK
  <2> QED
    BY <1>5, <2>1, <2>2, <2>3 DEF Reader, Connect, Connected, Hello, ReadIssue, ReadFails,
       ReaderStops, ReaderTerminate, ReaderOK
<1>6. CASE Harness \/ HDie \/ HHang \/ UNCHANGED vars
  BY <1>6 DEF Harness, HRead, HConnect, HReply, HAccept, HOutput, HAsk, HDone, HStale, Says,
     HDie, HHang, ReaderOK
<1> QED
  BY <1>2, <1>3, <1>4, <1>5, <1>6 DEF Next

LEMMA SaysTypes ==
  ASSUME PipesOK, NEW type \in HarnessTypes, NEW turn \in Number, Says(type, turn)
  PROVE  PipesOK'
<1>1. Frame(type, turn) \in Of(HarnessTypes)
  BY FrameTypes
<1> QED
  BY <1>1, TransportAssumption DEF PipesOK, Says

LEMMA PipesStep == TypeInv /\ [Next]_vars => PipesOK'
<1> SUFFICES ASSUME TypeInv, [Next]_vars PROVE PipesOK'
  OBVIOUS
<1> USE DEF TypeInv, agent, vars, ownerFrame, readerFrame, harnessFrame, acceptFrame, owner, reader,
            pipes, harness, told
<1>1. CASE Call
  BY <1>1 DEF Call, Submit, ListModels, ApproveTool, Cancel, Close, PipesOK
<1>2. CASE Continue
  <2>1. CASE Send
    <3>1. Head(sending) \in Of(ClientTypes)
      BY <2>1 DEF Send, SendingInv, OwnerOK
    <3> QED
      BY <2>1, <3>1, TransportAssumption DEF Send, PipesOK
  <2> QED
    BY <1>2, <2>1 DEF Continue, SendFails, OwnerFail, OwnerTerminate, OwnerEmit, CloseIo, CloseState,
       CloseJob, CloseJoin, PipesOK
<1>3. CASE Reader
  <2>1. CASE Hello
    <3>1. Frame("hello", 0) \in Of(ClientTypes) /\ toHarness = <<>>
      BY <2>1, FrameTypes DEF ClientTypes, Hello, HelloInv
    <3>2. Append(toHarness, Frame("hello", 0)) \in Seq(Of(ClientTypes))
          /\ Len(Append(toHarness, Frame("hello", 0))) = 1
      BY <3>1
    <3> QED
      BY <2>1, <3>2, TransportAssumption DEF Hello, PipesOK
  <2>2. CASE ReadFrame
    BY <2>2, TransportAssumption DEF ReadFrame, PipesOK
  <2> QED
    BY <1>3, <2>1, <2>2 DEF Reader, Accept, Connect, Connected, ReadIssue, ReadFails, AcceptReady,
       AcceptModels, AcceptNotice, AcceptTurn, AcceptDelta, AcceptPcm, AcceptDone, AcceptError,
       EndTurn, ReaderEmit, ReaderStops, ReaderFail, ReaderTerminate, ReaderLastEmit, PipesOK
<1>4. CASE Harness
  <2>1. \A type \in h.owes : type \in HarnessTypes
    BY DEF HarnessOK, HarnessTypes
  <2>2. h.turn \in Number /\ h.stale \in Number /\ 0 \in Number
    BY FrameTypes DEF HarnessOK
  <2>3. CASE HReply
    BY <2>1, <2>2, <2>3, SaysTypes DEF HReply
  <2>4. CASE HAccept \/ HAsk \/ HStale
    BY <2>2, <2>4, SaysTypes DEF HAccept, HAsk, HStale, HarnessTypes
  <2>5. CASE HOutput \/ HDone
    <3>1. \E type \in HarnessTypes : Says(type, h.turn)
      BY <2>5 DEF HOutput, HDone, HarnessTypes
    <3> QED
      BY <2>2, <3>1, SaysTypes
  <2>6. CASE HRead
    BY <2>6, TransportAssumption DEF HRead, PipesOK
  <2> QED
    BY <1>4, <2>3, <2>4, <2>5, <2>6 DEF Harness, HConnect, PipesOK
<1>5. CASE HDie \/ HHang \/ UNCHANGED vars
  BY <1>5 DEF HDie, HHang, PipesOK
<1> QED
  BY <1>1, <1>2, <1>3, <1>4, <1>5 DEF Next

LEMMA HarnessStep == TypeInv /\ [Next]_vars => HarnessOK'
<1> SUFFICES ASSUME TypeInv, [Next]_vars PROVE HarnessOK'
  OBVIOUS
<1> USE DEF TypeInv, agent, vars, ownerFrame, readerFrame, harnessFrame, acceptFrame, owner, reader,
            pipes, harness, told
<1>1. CASE Call
  BY <1>1 DEF Call, Submit, ListModels, ApproveTool, Cancel, Close, HarnessOK, Phases
<1>2. CASE Continue
  BY <1>2 DEF Continue, Send, SendFails, OwnerFail, OwnerTerminate, OwnerEmit, CloseIo, CloseState,
     CloseJob, CloseJoin, HarnessOK, Phases
<1>3. CASE Reader
  BY <1>3 DEF Reader, Accept, Connect, Connected, Hello, ReadIssue, ReadFrame, ReadFails,
     AcceptReady, AcceptModels, AcceptNotice, AcceptTurn, AcceptDelta, AcceptPcm, AcceptDone,
     AcceptError, EndTurn, ReaderEmit, ReaderStops, ReaderFail, ReaderTerminate, ReaderLastEmit,
     HarnessOK, Phases
<1>4. CASE Harness
  <2>1. CASE HRead
    <3>1. Head(toHarness).turn \in Number
      BY <2>1, FrameTypes DEF HRead, PipesOK
    <3> QED
      BY <2>1, <3>1 DEF HRead, Heard, HarnessOK, Phases
  <2>2. CASE HConnect \/ HReply \/ HOutput \/ HAsk
    BY <2>2 DEF HConnect, HReply, HOutput, HAsk, Says, HarnessOK, Phases
  <2>4. CASE HAccept
    BY <2>4 DEF HAccept, Says, HarnessOK
  <2>3. CASE HStale
    BY <2>3, FrameTypes DEF HStale, Says, HarnessOK
  <2>5. CASE HDone
    <3>1. (IF h.cancel THEN h.turn ELSE 0) \in Number /\ 0 \in Number
      BY FrameTypes DEF HarnessOK
    <3>2. UNCHANGED <<alive, hung>>
      BY <2>5 DEF HDone, Says
    <3> QED
      BY <2>5, <3>1, <3>2 DEF HDone, HarnessOK, Phases
  <2> QED
    BY <1>4, <2>1, <2>2, <2>3, <2>4, <2>5 DEF Harness
<1>5. CASE HDie \/ HHang \/ UNCHANGED vars
  BY <1>5 DEF HDie, HHang, HarnessOK, Phases
<1> QED
  BY <1>1, <1>2, <1>3, <1>4, <1>5 DEF Next

LEMMA HistoryStep == TypeInv /\ [Next]_vars => HistoryOK'
<1> SUFFICES ASSUME TypeInv, [Next]_vars PROVE HistoryOK'
  OBVIOUS
<1> USE DEF TypeInv, agent, vars, ownerFrame, readerFrame, harnessFrame, acceptFrame, owner, reader,
            pipes, harness, told
<1>1. \A t \in Threads : pend[t] \in Events
  BY DEF ReaderOK
<1>2. CASE Call
  BY <1>2 DEF Call, Submit, ListModels, ApproveTool, Cancel, Close, HistoryOK
<1>3. CASE Continue
  <2>1. CASE Send
    <3>1. Head(sending).type = "cancel" => activeTurn \in Turns
      BY <2>1 DEF Send, SendingInv
    <3> QED
      BY <2>1, <3>1 DEF Send, HistoryOK
  <2>2. CASE SendFails
    <3>1. (explained \/ alive) \in BOOLEAN
      BY Zenon
    <3> QED
      BY <2>2, <3>1 DEF SendFails, HistoryOK
  <2>3. CASE OwnerEmit
    BY <1>1, <2>3, DeliverTypes DEF OwnerEmit, HistoryOK, Threads
  <2> QED
    BY <1>3, <2>1, <2>2, <2>3 DEF Continue, OwnerFail, OwnerTerminate, CloseIo, CloseState,
       CloseJob, CloseJoin, HistoryOK
<1>4. CASE Reader
  <2>1. CASE ReaderEmit \/ ReaderLastEmit
    BY <1>1, <2>1, DeliverTypes DEF ReaderEmit, ReaderLastEmit, HistoryOK, Threads
  <2>2. CASE AcceptNotice
    <3>1. (explained \/ OnTurn) \in BOOLEAN
      BY Zenon
    <3> QED
      BY <2>2, <3>1 DEF AcceptNotice, Emits, HistoryOK
  <2>3. CASE AcceptTurn \/ AcceptDelta \/ AcceptPcm \/ AcceptReady \/ AcceptModels
    BY <2>3 DEF AcceptTurn, AcceptDelta, AcceptPcm, AcceptReady, AcceptModels, Emits, Ignored,
       Invalid, HistoryOK
  <2>4. CASE AcceptDone \/ AcceptError
    BY <2>4 DEF AcceptDone, AcceptError, EndTurn, Emits, Ignored, HistoryOK
  <2> QED
    BY <1>4, <2>1, <2>2, <2>3, <2>4 DEF Reader, Accept, Connect, Connected, Hello, ReadIssue, ReadFrame,
       ReadFails, ReaderStops, ReaderFail, ReaderTerminate, HistoryOK
<1>5. CASE Harness \/ HDie \/ HHang \/ UNCHANGED vars
  BY <1>5 DEF Harness, HRead, HConnect, HReply, HAccept, HOutput, HAsk, HDone, HStale, Says,
     HDie, HHang, HistoryOK
<1> QED
  BY <1>2, <1>3, <1>4, <1>5 DEF Next

LEMMA SendingStep == TypeInv /\ [Next]_vars => SendingInv'
<1> SUFFICES ASSUME TypeInv, [Next]_vars PROVE SendingInv'
  OBVIOUS
<1> USE DEF TypeInv, agent, vars, ownerFrame, readerFrame, harnessFrame, acceptFrame, owner, reader,
            pipes, harness, told
<1>1. CASE Call
  <2>1. CASE Submit
    <3>1. nextTurn + 1 \in Turns
      BY <2>1, TransportAssumption DEF Submit, AgentOK, Number, Turns
    <3> QED
      BY <2>1, <3>1, FrameTypes DEF Submit, SendingInv
  <2>2. CASE ListModels \/ ApproveTool \/ Cancel
    <3>1. \A c : \A n : Len(<<Frame(c, n)>>) = 1 /\ <<Frame(c, n)>> # <<>>
                     /\ Head(<<Frame(c, n)>>).type = c
      BY FrameTypes
    <3> QED
      BY <2>2, <3>1 DEF ListModels, ApproveTool, Cancel, SendingInv
  <2> QED
    BY <1>1, <2>1, <2>2 DEF Call, Close, SendingInv
<1>2. CASE Continue
  <2>1. CASE Send
    <3>1. /\ sending # <<>> /\ sending \in Seq(Of(ClientTypes))
          /\ UNCHANGED <<state, activeTurn>> /\ sending' = Tail(sending)
          /\ opc' = IF Len(sending) = 1 THEN "ready" ELSE "sending"
      BY <2>1 DEF Send, SendingInv, OwnerOK
    <3>2. \A i \in 1..Len(sending') : sending'[i].type # "cancel"
      BY <3>1 DEF SendingInv
    <3>3. sending' # <<>> <=> Len(sending) # 1
      <4>1. sending' \in Seq(Of(ClientTypes)) /\ Len(sending') = Len(sending) - 1
        BY <3>1
      <4> QED
        <5>1. sending' = <<>> => Len(sending') = 0
          BY EmptySeq
        <5>2. sending' # <<>> => Len(sending') \in Nat \ {0}
          BY <4>1, EmptySeq
        <5> QED
          BY <4>1, <5>1, <5>2
    <3>4. sending' # <<>> => Head(sending').type # "cancel"
      BY <3>1, <3>2
    <3> QED
      BY <3>1, <3>2, <3>3, <3>4 DEF SendingInv
  <2>2. CASE SendFails
    BY <2>2 DEF SendFails, SendingInv
  <2>3. CASE OwnerFail
    BY <2>3, FailTypes DEF OwnerFail, SendingInv, Threads
  <2> QED
    BY <1>2, <2>1, <2>2, <2>3 DEF Continue, OwnerTerminate, OwnerEmit, CloseIo, CloseState, CloseJob,
       CloseJoin, SendingInv
<1>3. CASE Reader
  <2>1. CASE ReaderFail
    BY <2>1, FailTypes DEF ReaderFail, Fail, Locked, SendingInv, Threads
  <2>2. CASE AcceptReady \/ AcceptDone \/ AcceptError
    BY <2>2 DEF AcceptReady, AcceptDone, AcceptError, EndTurn, Locked, SendingInv
  <2> QED
    BY <1>3, <2>1, <2>2 DEF Reader, Accept, Connect, Connected, Hello, ReadIssue, ReadFrame, ReadFails,
       AcceptModels, AcceptNotice, AcceptTurn, AcceptDelta, AcceptPcm, ReaderEmit, ReaderStops,
       ReaderTerminate, ReaderLastEmit, SendingInv
<1>4. CASE Harness \/ HDie \/ HHang \/ UNCHANGED vars
  BY <1>4 DEF Harness, HRead, HConnect, HReply, HAccept, HOutput, HAsk, HDone, HStale, Says,
     HDie, HHang, SendingInv
<1> QED
  BY <1>1, <1>2, <1>3, <1>4 DEF Next

LEMMA HelloStep == TypeInv /\ [Next]_vars => HelloInv'
<1> SUFFICES ASSUME TypeInv, [Next]_vars PROVE HelloInv'
  OBVIOUS
<1> USE DEF TypeInv, agent, vars, ownerFrame, readerFrame, harnessFrame, acceptFrame, owner, reader,
            pipes, harness, told
<1>1. CASE Call
  BY <1>1, FrameTypes DEF Call, Submit, ListModels, ApproveTool, Cancel, Close, HelloInv, SendingInv
<1>2. CASE Continue
  BY <1>2 DEF Continue, Send, SendFails, OwnerFail, OwnerTerminate, OwnerEmit, CloseIo, CloseState,
     CloseJob, CloseJoin, HelloInv
<1>3. CASE Reader
  <2>1. CASE Accept
    BY <2>1 DEF Accept, AcceptReady, AcceptModels, AcceptNotice, AcceptTurn, AcceptDelta, AcceptPcm,
       AcceptDone, AcceptError, EndTurn, Emits, Ignored, Invalid, HelloInv
  <2> QED
    BY <1>3, <2>1 DEF Reader, Connect, Connected, Hello, ReadIssue, ReadFrame, ReadFails, ReaderEmit,
       ReaderStops, ReaderFail, ReaderTerminate, ReaderLastEmit, HelloInv
<1>4. CASE Harness \/ HDie \/ HHang \/ UNCHANGED vars
  BY <1>4 DEF Harness, HRead, HConnect, HReply, HAccept, HOutput, HAsk, HDone, HStale, Says,
     HDie, HHang, HelloInv
<1> QED
  BY <1>1, <1>2, <1>3, <1>4 DEF Next

LEMMA TypeInit == Init => TypeInv
<1> SUFFICES ASSUME Init PROVE TypeInv
  OBVIOUS
<1>0. 0 \in Number
  BY TransportAssumption DEF Number
<1>1. AgentOK
  BY <1>0 DEF Init, AgentOK, States
<1>7. OwnerOK
  BY <1>0 DEF Init, OwnerOK, OwnerPc
<1>2. ReaderOK
  BY DEF Init, ReaderOK, ReaderPc, Events
<1>3. PipesOK
  BY TransportAssumption DEF Init, PipesOK
<1>4. HarnessOK
  <2>1. "launched" \in Phases /\ {} \in SUBSET {"ready", "models"} /\ FALSE \in BOOLEAN
    BY DEF Phases
  <2>2. Idle \in [phase : Phases, turn : Number, accepted : BOOLEAN, audio : BOOLEAN,
                  cancel : BOOLEAN, owes : SUBSET {"ready", "models"}, stale : Number]
    BY <1>0, <2>1, Zenon DEF Idle
  <2> QED
    BY <2>2 DEF Init, HarnessOK
<1>5. HistoryOK
  BY DEF Init, HistoryOK
<1>6. SendingInv /\ HelloInv
  BY DEF Init, SendingInv, HelloInv
<1> QED
  BY <1>1, <1>2, <1>3, <1>4, <1>5, <1>6, <1>7 DEF TypeInv

LEMMA TypeInvariant == Spec => []TypeInv
<1>1. TypeInv /\ [Next]_vars => TypeInv'
  BY AgentStep, OwnerStep, ReaderStep, PipesStep, HarnessStep, HistoryStep, SendingStep, HelloStep
     DEF TypeInv
<1> QED
  BY <1>1, TypeInit, PTL DEF Spec

\* Every variable of the agent client keeps its type, and no pipe holds more
\* frames than it can (DioAgent, dio_send_json_locked).
THEOREM TypeCorrect == Spec => []TypeOK
<1>1. TypeInv => TypeOK
  BY DEF TypeInv, TypeOK, AgentOK, OwnerOK, ReaderOK, PipesOK, HarnessOK, HistoryOK, States, Number, Events
<1> QED
  BY <1>1, TypeInvariant, PTL

--------------------------------------------------------------------------------
(* The one end of each turn *)

Ends(th) == pend[th].type \in EndTypes

\* An event is pending only on its way out; the owner delivers nothing but a
\* failure; and only close closes.
PendInv ==
  /\ opc \notin {"terminate", "emit"} => pend["owner"] = NoFrame
  /\ rpc \notin {"emit", "terminate", "lastEmit"} => pend["reader"] = NoFrame
  /\ closing <=> opc \in {"cancelIo", "closeState", "closeJob", "join", "closed"}
  /\ state = "CLOSING" => closing

\* An end that is pending is of a turn that was submitted and is not active any
\* more, and no two are of one turn.
TurnInv ==
  ~closing =>
    /\ state \in {"STARTING", "READY"} => activeTurn = 0
    /\ activeTurn <= nextTurn
    /\ state = "ACTIVE" => activeTurn = nextTurn
    /\ \A th \in Threads : Ends(th) => pend[th].turn <= nextTurn
    /\ \A th \in Threads : Ends(th) /\ state = "ACTIVE" => pend[th].turn # activeTurn
    /\ Ends("owner") /\ Ends("reader") /\ pend["owner"].turn = pend["reader"].turn
         => pend["owner"].turn = 0
    /\ TurnEndsOnce

\* The harness touches nothing of the client.
LEMMA HarnessLeaves ==
  ASSUME Harness \/ HDie \/ HHang \/ UNCHANGED vars
  PROVE  UNCHANGED <<agent, closing, owner, reader, pend, told, cancelled>>
<1> USE DEF harnessFrame, vars
<1>1. CASE HRead \/ HConnect \/ HReply \/ HAccept
  BY <1>1 DEF HRead, HConnect, HReply, HAccept, Says
<1>2. CASE HOutput \/ HAsk
  BY <1>2 DEF HOutput, HAsk, Says
<1>3. CASE HDone \/ HStale
  BY <1>3 DEF HDone, HStale, Says
<1>4. CASE HDie \/ HHang \/ UNCHANGED vars
  BY <1>4 DEF HDie, HHang
<1> QED
  BY <1>1, <1>2, <1>3, <1>4 DEF Harness

LEMMA PendStep == TypeInv /\ PendInv /\ [Next]_vars => PendInv'
<1> SUFFICES ASSUME TypeInv, PendInv, [Next]_vars PROVE PendInv'
  OBVIOUS
<1> USE DEF agent, vars, ownerFrame, readerFrame, harnessFrame, acceptFrame, owner, reader,
            pipes, harness, told
<1>1. pend \in [Threads -> Events] /\ "owner" \in Threads /\ "reader" \in Threads
  BY DEF TypeInv, ReaderOK, Threads
<1>2. CASE Call
  BY <1>2 DEF Call, Submit, ListModels, ApproveTool, Cancel, Close, PendInv
<1>3. CASE Continue
  <2>1. CASE OwnerFail
    BY <1>1, <2>1 DEF OwnerFail, Fail, PendInv
  <2>2. CASE OwnerEmit
    BY <1>1, <2>2 DEF OwnerEmit, PendInv
  <2>3. CASE Send \/ SendFails
    BY <2>3 DEF Send, SendFails, PendInv
  <2>4. CASE OwnerTerminate
    BY <2>4 DEF OwnerTerminate, PendInv
  <2>6. CASE CloseIo
    <3>1. opc = "cancelIo" /\ opc' = "closeState" /\ UNCHANGED <<state, closing, rpc, pend>>
      BY <2>6 DEF CloseIo
    <3> QED
      BY <3>1 DEF PendInv
  <2>5. CASE CloseState \/ CloseJob \/ CloseJoin
    BY <2>5 DEF CloseState, CloseJob, CloseJoin, PendInv
  <2> QED
    BY <1>3, <2>1, <2>2, <2>3, <2>4, <2>5, <2>6 DEF Continue
<1>4. CASE Accept
  BY <1>1, <1>4 DEF Accept, AcceptReady, AcceptModels, AcceptNotice, AcceptTurn, AcceptDelta, AcceptPcm,
     AcceptDone, AcceptError, EndTurn, Emits, Ignored, Invalid, PendInv
<1>5. CASE Reader /\ ~Accept
  BY <1>1, <1>5 DEF Reader, Connect, Connected, Hello, ReadIssue, ReadFrame, ReadFails, ReaderEmit,
     ReaderStops, ReaderFail, Fail, ReaderTerminate, ReaderLastEmit, PendInv
<1>6. CASE Harness \/ HDie \/ HHang \/ UNCHANGED vars
  BY <1>6, HarnessLeaves DEF PendInv
<1> QED
  BY <1>2, <1>3, <1>4, <1>5, <1>6 DEF Next

\* A step that ends no turn and starts none.
LEMMA TurnFrame ==
  ASSUME TypeInv, TurnInv, UNCHANGED <<activeTurn, nextTurn, ends>>, closing => closing',
         state' = state \/ (state = "STARTING" /\ state' = "READY"),
         \A th \in Threads : pend'[th] = pend[th] \/ (~Ends(th) /\ ~Ends(th)')
  PROVE  TurnInv'
<1>1. \A th \in Threads : Ends(th) <=> Ends(th)'
  BY DEF Ends
<1>2. \A th \in Threads : Ends(th) => pend'[th] = pend[th]
  BY DEF Ends
<1>3. \A t \in Turns : Ending(t) <=> Ending(t)'
  BY <1>1, <1>2 DEF Ending, Ends
<1>4. ~closing' => TurnEndsOnce'
  BY <1>3 DEF TurnInv, TurnEndsOnce
<1>5. ~closing' =>
        /\ \A th \in Threads : Ends(th)' => pend'[th].turn <= nextTurn
        /\ \A th \in Threads : Ends(th)' /\ state' = "ACTIVE" => pend'[th].turn # activeTurn
  BY <1>1, <1>2 DEF TurnInv
<1>6. ~closing' /\ Ends("owner")' /\ Ends("reader")' /\ pend'["owner"].turn = pend'["reader"].turn
        => pend'["owner"].turn = 0
  BY <1>1, <1>2 DEF TurnInv, Threads
<1> QED
  BY <1>4, <1>5, <1>6 DEF TurnInv

\* The transport fails in thread t: the active turn's end is pending.
LEMMA FailEnds ==
  ASSUME TypeInv, PendInv, TurnInv, NEW t \in Threads, Fail(t), pend[t] = NoFrame,
         UNCHANGED <<ends, closing>>
  PROVE  TurnInv'
<1>1. CASE state \in {"FAILED", "CLOSING"}
  BY <1>1, TurnFrame DEF Fail
<1>2. CASE state \notin {"FAILED", "CLOSING"}
  <2> SUFFICES ASSUME ~closing PROVE TurnInv'
    BY DEF TurnInv
  <2>1. /\ state' = "FAILED" /\ UNCHANGED <<activeTurn, nextTurn>>
        /\ pend' = [pend EXCEPT ![t] = Frame("TRANSPORT", activeTurn)]
        /\ pend \in [Threads -> Events]
    BY <1>2 DEF Fail, TypeInv, ReaderOK
  <2>2. /\ pend'[t].type = "TRANSPORT" /\ pend'[t].turn = activeTurn /\ ~Ends(t)
        /\ \A th \in Threads : th # t => pend'[th] = pend[th]
    BY <2>1, FrameTypes DEF Ends, EndTypes
  <2>3. state # "ACTIVE" => activeTurn = 0
    BY <1>2 DEF TypeInv, AgentOK, States, TurnInv
  <2>4. \A u \in Turns : Ending(u)' <=> Ending(u) \/ u = activeTurn
    BY <2>2 DEF Ending, Ends, EndTypes
  <2>5. \A u \in Turns : state = "ACTIVE" /\ activeTurn = u => ~Ending(u)
    BY DEF TurnInv, Ending, Ends
  <2>6. 0 \notin Turns
    BY DEF Turns
  <2>7. TurnEndsOnce'
    BY <2>1, <2>3, <2>4, <2>5, <2>6 DEF TurnInv, TurnEndsOnce
  <2>8. \A th \in Threads : Ends(th)' => pend'[th].turn <= nextTurn'
    BY <2>1, <2>2 DEF TurnInv, Ends
  <2>9. Ends("owner")' /\ Ends("reader")' /\ pend'["owner"].turn = pend'["reader"].turn
          => pend'["owner"].turn = 0
    BY <2>2, <2>3 DEF TurnInv, Ends, Threads
  <2> QED
    BY <2>1, <2>7, <2>8, <2>9 DEF TurnInv
<1> QED
  BY <1>1, <1>2

\* Thread t delivers its event.
LEMMA DeliverEnds ==
  ASSUME TypeInv, TurnInv, NEW t \in Threads, Deliver(pend[t]),
         pend' = [pend EXCEPT ![t] = NoFrame],
         UNCHANGED <<state, activeTurn, nextTurn, closing>>
  PROVE  TurnInv'
<1> SUFFICES ASSUME ~closing PROVE TurnInv'
  BY DEF TurnInv
<1>1. /\ pend \in [Threads -> Events] /\ ends \in [Turns -> Nat]
      /\ pend'[t] = NoFrame /\ ~Ends(t)'
      /\ \A th \in Threads : th # t => pend'[th] = pend[th] /\ (Ends(th) <=> Ends(th)')
  BY FrameTypes DEF TypeInv, ReaderOK, HistoryOK, Ends, EndTypes
<1>2. pend[t].turn # 0 => pend[t].turn \in Turns
  BY <1>1, FrameTypes
<1>3. CASE pend[t].turn = 0 \/ ~Ends(t)
  <2>1. ends' = ends
    BY <1>3 DEF Deliver, told, Ends
  <2>2. 0 \notin Turns
    BY DEF Turns
  <2>3. \A u \in Turns : Ending(u)' <=> Ending(u)
    BY <1>1, <1>3, <2>2 DEF Ending, Ends
  <2>4. TurnEndsOnce'
    BY <2>1, <2>3 DEF TurnInv, TurnEndsOnce
  <2> QED
    BY <1>1, <2>4 DEF TurnInv, Threads
<1>4. CASE pend[t].turn # 0 /\ Ends(t)
  <2>1. ends' = [ends EXCEPT ![pend[t].turn] = @ + 1]
    BY <1>4 DEF Deliver, Ends
  <2>2. \A th \in Threads : th # t /\ Ends(th) => pend[th].turn # pend[t].turn
    BY <1>4 DEF TurnInv, Threads
  <2>3. \A u \in Turns : Ending(u)' <=> Ending(u) /\ u # pend[t].turn
    BY <1>1, <1>4, <2>2 DEF Ending, Ends
  <2>4. Ending(pend[t].turn)
    BY <1>4 DEF Ending, Ends
  <2>5. pend[t].turn <= nextTurn /\ (state = "ACTIVE" => activeTurn # pend[t].turn)
    BY <1>4 DEF TurnInv
  <2>6. ends[pend[t].turn] = 0
    BY <1>2, <1>4, <2>4 DEF TurnInv, TurnEndsOnce
  <2>7. \A u \in Turns : ends'[u] = IF u = pend[t].turn THEN 1 ELSE ends[u]
    BY <1>1, <2>1, <2>6
  <2>8. \A u \in Turns : u = pend[t].turn => ~(u > nextTurn)
    BY <2>5 DEF TypeInv, AgentOK, Number, Turns
  <2>9. TurnEndsOnce'
    BY <2>3, <2>5, <2>7, <2>8 DEF TurnInv, TurnEndsOnce
  <2> QED
    BY <1>1, <2>9 DEF TurnInv, Threads
<1> QED
  BY <1>3, <1>4

\* turn.done or turn.error: the active turn's end is pending.
LEMMA EndTurnEnds ==
  ASSUME TypeInv, PendInv, TurnInv, NEW type \in EndTypes, EndTurn(type), rpc = "accept"
  PROVE  TurnInv'
<1>1. UNCHANGED <<ends, closing, nextTurn>>
  BY DEF EndTurn, acceptFrame, told, readerFrame
<1>2. CASE ~OnTurn
  BY <1>1, <1>2, TurnFrame DEF EndTurn, Ignored
<1>3. CASE OnTurn
  <2> SUFFICES ASSUME ~closing PROVE TurnInv'
    BY <1>1 DEF TurnInv
  <2>1. /\ state = "ACTIVE" /\ state' = "READY" /\ activeTurn' = 0
        /\ pend' = [pend EXCEPT !["reader"] = Frame(type, activeTurn)]
        /\ pend \in [Threads -> Events] /\ pend["reader"] = NoFrame
        /\ activeTurn \in Turns /\ activeTurn = nextTurn /\ nextTurn \in Nat
    BY <1>3 DEF EndTurn, OnTurn, Emits, TypeInv, ReaderOK, PendInv, SendingInv, TurnInv, AgentOK, Number
  <2>2. /\ pend'["reader"].type = type /\ pend'["reader"].turn = activeTurn
        /\ ~Ends("reader") /\ pend'["owner"] = pend["owner"]
    BY <2>1, FrameTypes DEF Ends, EndTypes, Threads
  <2>3. \A u \in Turns : Ending(u)' <=> Ending(u) \/ u = activeTurn
    BY <2>2 DEF Ending, Ends, Threads
  <2>4. TurnEndsOnce'
    BY <1>1, <2>1, <2>3 DEF TurnInv, TurnEndsOnce
  <2>5. \A th \in Threads : Ends(th)' => pend'[th].turn <= nextTurn'
    BY <1>1, <2>1, <2>2 DEF TurnInv, Ends, Threads
  <2>6. ~(Ends("owner")' /\ Ends("reader")' /\ pend'["owner"].turn = pend'["reader"].turn)
    BY <2>1, <2>2 DEF TurnInv, Ends, Threads
  <2>7. 0 <= nextTurn'
    BY <1>1, <2>1
  <2> QED
    BY <1>1, <2>1, <2>4, <2>5, <2>6, <2>7 DEF TurnInv
<1> QED
  BY <1>2, <1>3

LEMMA TurnStep == TypeInv /\ PendInv /\ TurnInv /\ [Next]_vars => TurnInv'
<1> SUFFICES ASSUME TypeInv, PendInv, TurnInv, [Next]_vars PROVE TurnInv'
  OBVIOUS
<1> USE DEF agent, vars, ownerFrame, readerFrame, harnessFrame, acceptFrame, owner, reader,
            pipes, harness, told
<1>1. "owner" \in Threads /\ "reader" \in Threads /\ pend \in [Threads -> Events]
  BY DEF Threads, TypeInv, ReaderOK
<1>2. CASE Call
  <2>1. CASE Submit
    <3>1. /\ ~closing /\ ~closing' /\ UNCHANGED <<ends, pend>>
          /\ state = "READY" /\ state' = "ACTIVE"
          /\ activeTurn' = nextTurn + 1 /\ nextTurn' = nextTurn + 1 /\ nextTurn \in Nat
      BY <2>1 DEF Submit, PendInv, TypeInv, AgentOK, Number
    <3>2. \A th \in Threads : (Ends(th)' <=> Ends(th)) /\ pend[th].turn \in Nat
      BY <1>1, <3>1, FrameTypes DEF Ends, Number
    <3>3. \A u \in Turns : (Ending(u)' <=> Ending(u)) /\ (Ending(u) => u <= nextTurn)
      BY <3>1 DEF Ending, Ends, TurnInv
    <3>4. TurnEndsOnce'
      BY <3>1, <3>3 DEF TurnInv, TurnEndsOnce, Turns
    <3>5. \A th \in Threads : Ends(th)' => pend'[th].turn <= nextTurn' /\ pend'[th].turn # activeTurn'
      <4>1. \A th \in Threads : Ends(th)' => pend[th].turn <= nextTurn
        BY <3>1, <3>2 DEF TurnInv
      <4> QED
        BY <3>1, <3>2, <4>1
    <3>6. Ends("owner")' /\ Ends("reader")' /\ pend'["owner"].turn = pend'["reader"].turn
            => pend'["owner"].turn = 0
      BY <1>1, <3>1, <3>2 DEF TurnInv
    <3>7. activeTurn' <= nextTurn'
      BY <3>1
    <3> QED
      BY <3>1, <3>4, <3>5, <3>6, <3>7 DEF TurnInv
  <2>2. CASE ListModels \/ ApproveTool \/ Cancel \/ Close
    BY <2>2, TurnFrame DEF ListModels, ApproveTool, Cancel, Close
  <2> QED
    BY <1>2, <2>1, <2>2 DEF Call
<1>3. CASE Continue
  <2>1. CASE OwnerFail
    BY <1>1, <2>1, FailEnds DEF OwnerFail, PendInv
  <2>2. CASE OwnerEmit
    BY <1>1, <2>2, DeliverEnds DEF OwnerEmit
  <2>3. CASE CloseState
    BY <2>3 DEF CloseState, PendInv, TurnInv
  <2>4. CASE Send \/ SendFails
    BY <2>4, TurnFrame DEF Send, SendFails
  <2>5. CASE OwnerTerminate \/ CloseIo \/ CloseJob \/ CloseJoin
    <3>1. UNCHANGED <<state, activeTurn, nextTurn, ends, closing, pend>>
      BY <2>5 DEF OwnerTerminate, CloseIo, CloseJob, CloseJoin
    <3> QED
      BY <3>1, TurnFrame
  <2> QED
    BY <1>3, <2>1, <2>2, <2>3, <2>4, <2>5 DEF Continue
<1>4. CASE Accept
  <2>1. CASE AcceptDone
    BY <2>1, EndTurnEnds DEF AcceptDone, EndTypes
  <2>2. CASE AcceptError
    BY <2>2, EndTurnEnds DEF AcceptError, EndTypes
  <2>3. CASE AcceptReady \/ AcceptModels \/ AcceptNotice \/ AcceptTurn \/ AcceptDelta \/ AcceptPcm
    <3>1. \/ pend' = pend
          \/ \E type \in {"READY", "MODELS", "STATUS", "APPROVAL", "ACCEPTED", "OUTPUT"} :
               pend' = [pend EXCEPT !["reader"] = Frame(type, frame.turn)]
      BY <2>3 DEF AcceptReady, AcceptModels, AcceptNotice, AcceptTurn, AcceptDelta, AcceptPcm, Emits,
         Ignored, Invalid
    <3>2. ~Ends("reader")
      BY <2>3, FrameTypes DEF AcceptReady, AcceptModels, AcceptNotice, AcceptTurn, AcceptDelta, AcceptPcm,
         PendInv, Ends, EndTypes
    <3>3. \A th \in Threads : pend'[th] = pend[th] \/ (~Ends(th) /\ ~Ends(th)')
      BY <1>1, <3>1, <3>2, FrameTypes DEF Ends, EndTypes
    <3>4. /\ UNCHANGED <<activeTurn, nextTurn, ends, closing>>
          /\ state' = state \/ (state = "STARTING" /\ state' = "READY")
      BY <2>3 DEF AcceptReady, AcceptModels, AcceptNotice, AcceptTurn, AcceptDelta, AcceptPcm
    <3> QED
      BY <3>3, <3>4, TurnFrame
  <2> QED
    BY <1>4, <2>1, <2>2, <2>3 DEF Accept
<1>5. CASE Reader /\ ~Accept
  <2>1. CASE ReaderFail
    BY <1>1, <2>1, FailEnds DEF ReaderFail, PendInv
  <2>2. CASE ReaderEmit \/ ReaderLastEmit
    BY <1>1, <2>2, DeliverEnds DEF ReaderEmit, ReaderLastEmit
  <2> QED
    BY <1>5, <2>1, <2>2, TurnFrame DEF Reader, Connect, Connected, Hello, ReadIssue, ReadFrame, ReadFails,
       ReaderStops, ReaderTerminate
<1>6. CASE Harness \/ HDie \/ HHang \/ UNCHANGED vars
  BY <1>6, HarnessLeaves, TurnFrame
<1> QED
  BY <1>2, <1>3, <1>4, <1>5, <1>6 DEF Next

\* The inductive invariant of the turn: which event is on its way, and of which
\* turn.
THEOREM TurnInvariant == Spec => [](TypeInv /\ PendInv /\ TurnInv)
<1>1. Init => PendInv
  BY DEF Init, PendInv, Threads
<1>2. Init => TurnInv
  <2> SUFFICES ASSUME Init PROVE TurnInv
    OBVIOUS
  <2>1. \A th \in Threads : ~Ends(th)
    BY FrameTypes DEF Init, Ends, EndTypes
  <2>2. \A t \in Turns : t > nextTurn /\ ends[t] = 0
    BY DEF Init, Turns
  <2> QED
    BY <2>1, <2>2 DEF Init, TurnInv, TurnEndsOnce, Threads
<1> QED
  BY <1>1, <1>2, PendStep, TurnStep, TypeInvariant, PTL DEF Spec

\* Each submitted turn ends once, whoever is first: the harness, a cancel, a
\* failed send or a failing transport (dio_accept_control,
\* dio_transport_failure, dio_agent_submit).
THEOREM EndsOnce == Spec => []TurnEndsOnce
<1>1. TurnInv => TurnEndsOnce
  BY DEF TurnInv, TurnEndsOnce
<1> QED
  BY <1>1, TurnInvariant, PTL

--------------------------------------------------------------------------------
(* Cancels that are kept *)

Kept == {"CANCELLED", "TRANSPORT"}

\* A turn whose cancel returned knows of it while it is active, and so does the
\* end that is on its way; and a cancel that is being sent is the turn's first.
HonourInv ==
  /\ \A t \in cancelled : how[t] \in Kept \union {"none"}
  /\ ~closing =>
       /\ \A t \in cancelled : t <= nextTurn
       /\ \A t \in Turns : ends[t] = 0 => how[t] = "none"
       /\ state = "ACTIVE" /\ activeTurn \in cancelled => cancelRequested
       /\ opc = "sending" /\ Head(sending).type = "cancel"
            => cancelRequested /\ activeTurn \notin cancelled
       /\ \A th \in Threads : Ends(th) /\ pend[th].turn \in cancelled => pend[th].type \in Kept

\* A step that ends no turn and sends nothing.
LEMMA HonourFrame ==
  ASSUME HonourInv, UNCHANGED <<cancelled, how, ends, activeTurn, nextTurn, cancelRequested>>,
         closing => closing', state' = "ACTIVE" => state = "ACTIVE",
         opc' = "sending" => opc = "sending" /\ sending' = sending,
         \A th \in Threads : pend'[th] = pend[th] \/ ~Ends(th)' \/ pend'[th].type = "TRANSPORT"
  PROVE  HonourInv'
<1>1. ~closing' => \A th \in Threads : Ends(th)' /\ pend'[th].turn \in cancelled => pend'[th].type \in Kept
  BY DEF HonourInv, Ends, Kept
<1> QED
  BY <1>1 DEF HonourInv

LEMMA HonourDeliver ==
  ASSUME TypeInv, HonourInv, NEW t \in Threads, Deliver(pend[t]),
         pend' = [pend EXCEPT ![t] = NoFrame],
         opc' = "sending" => opc = "sending" /\ sending' = sending,
         UNCHANGED <<state, activeTurn, nextTurn, closing, cancelled, cancelRequested>>
  PROVE  HonourInv'
<1>1. /\ pend \in [Threads -> Events] /\ ends \in [Turns -> Nat]
      /\ how \in [Turns -> EndTypes \union {"none"}] /\ cancelled \subseteq Turns
      /\ ~Ends(t)' /\ \A th \in Threads : th # t => pend'[th] = pend[th]
  BY FrameTypes DEF TypeInv, ReaderOK, HistoryOK, Ends, EndTypes
<1>2. pend[t].turn # 0 => pend[t].turn \in Turns
  BY <1>1, FrameTypes
<1>3. CASE closing \/ pend[t].turn = 0 \/ ~Ends(t)
  <2>1. UNCHANGED <<ends, how>>
    BY <1>3 DEF Deliver, told, Ends
  <2> QED
    BY <1>1, <2>1, HonourFrame
<1>4. CASE ~closing /\ pend[t].turn # 0 /\ Ends(t)
  <2>1. /\ ends' = [ends EXCEPT ![pend[t].turn] = @ + 1]
        /\ how' = [how EXCEPT ![pend[t].turn] = pend[t].type]
    BY <1>4 DEF Deliver, Ends
  <2>2. \A u \in cancelled : how'[u] \in Kept \union {"none"}
    BY <1>1, <1>2, <1>4, <2>1 DEF HonourInv
  <2>3. \A u \in Turns : ends'[u] = 0 => how'[u] = "none"
    <3>1. ends'[pend[t].turn] # 0
      BY <1>1, <1>2, <1>4, <2>1
    <3>2. \A u \in Turns : u # pend[t].turn => ends'[u] = ends[u] /\ how'[u] = how[u]
      BY <1>1, <2>1
    <3> QED
      BY <1>4, <3>1, <3>2 DEF HonourInv
  <2>4. \A th \in Threads : Ends(th)' /\ pend'[th].turn \in cancelled => pend'[th].type \in Kept
    BY <1>1, <1>4 DEF HonourInv, Ends
  <2> QED
    BY <1>4, <2>2, <2>3, <2>4 DEF HonourInv
<1> QED
  BY <1>3, <1>4

\* turn.done or turn.error of a cancelled turn.
LEMMA HonourEndTurn ==
  ASSUME TypeInv, HonourInv, NEW type \in EndTypes, EndTurn(type), ~Locked,
         cancelRequested => type = "CANCELLED"
  PROVE  HonourInv'
<1>1. UNCHANGED <<ends, how, closing, nextTurn, cancelled, opc, sending>>
  BY DEF EndTurn, acceptFrame, told, readerFrame, owner
<1>2. CASE ~OnTurn
  BY <1>1, <1>2, HonourFrame DEF EndTurn, Ignored
<1>3. CASE OnTurn
  <2>1. /\ state = "ACTIVE" /\ state' = "READY"
        /\ pend' = [pend EXCEPT !["reader"] = Frame(type, activeTurn)]
        /\ pend \in [Threads -> Events] /\ opc # "sending"
    BY <1>3 DEF EndTurn, OnTurn, Emits, TypeInv, ReaderOK, Locked
  <2>2. /\ pend'["reader"].type = type /\ pend'["reader"].turn = activeTurn
        /\ pend'["owner"] = pend["owner"]
    BY <2>1, FrameTypes DEF Threads
  <2>3. ~closing => \A th \in Threads :
          Ends(th)' /\ pend'[th].turn \in cancelled => pend'[th].type \in Kept
    BY <2>1, <2>2 DEF HonourInv, Ends, Threads, Kept
  <2> QED
    BY <1>1, <2>1, <2>3 DEF HonourInv
<1> QED
  BY <1>2, <1>3

\* Only the first frame a call sends can be its cancel.
LEMMA SendTail ==
  ASSUME TypeInv, Send
  PROVE  opc' = "sending" => Head(sending').type # "cancel"
<1>1. /\ sending # <<>> /\ sending \in Seq(Of(ClientTypes)) /\ sending' = Tail(sending)
      /\ opc' = "sending" => Len(sending) # 1
  BY DEF Send, TypeInv, SendingInv, OwnerOK
<1>2. \A i \in 1..Len(sending) : i > 1 => sending[i].type # "cancel"
  BY DEF TypeInv, SendingInv
<1>3. opc' = "sending" => Len(sending) \in Nat /\ Len(sending) > 1
  <2>1. Len(sending) \in Nat /\ Len(sending) # 0
    BY <1>1, EmptySeq
  <2>2. ASSUME opc' = "sending" PROVE Len(sending) # 1
    BY <2>2, <1>1
  <2>3. \A n \in Nat : n # 0 /\ n # 1 => n > 1
    OBVIOUS
  <2> QED
    BY <2>1, <2>2, <2>3
<1>4. opc' = "sending" => Head(sending') = sending[2]
  BY <1>1, <1>3
<1> QED
  BY <1>2, <1>3, <1>4

LEMMA HonourStep == TypeInv /\ PendInv /\ TurnInv /\ HonourInv /\ [Next]_vars => HonourInv'
<1> SUFFICES ASSUME TypeInv, PendInv, TurnInv, HonourInv, [Next]_vars PROVE HonourInv'
  OBVIOUS
<1> USE DEF agent, vars, ownerFrame, readerFrame, harnessFrame, acceptFrame, owner, reader,
            pipes, harness, told
<1>1. "owner" \in Threads /\ "reader" \in Threads /\ pend \in [Threads -> Events]
  BY DEF Threads, TypeInv, ReaderOK
<1>2. CASE Call
  <2>1. CASE Submit
    <3>1. /\ ~closing /\ UNCHANGED <<ends, how, pend, closing, cancelled>>
          /\ activeTurn' = nextTurn + 1 /\ nextTurn' = nextTurn + 1
      BY <2>1 DEF Submit, PendInv
    <3>2. nextTurn \in Nat /\ \A t \in cancelled : t \in Nat /\ t <= nextTurn
      BY <3>1 DEF TypeInv, AgentOK, HistoryOK, HonourInv, Number, Turns
    <3>3. activeTurn' \notin cancelled /\ \A t \in cancelled : t <= nextTurn'
      BY <3>1, <3>2
    <3>4. Head(sending').type # "cancel"
      <4>1. \A f, g : Head(<<f, g>>) = f
        OBVIOUS
      <4>2. Head(sending') = Frame("start", nextTurn + 1)
        BY <2>1, <4>1 DEF Submit
      <4> QED
        BY <4>2, FrameTypes
    <3> QED
      BY <3>1, <3>3, <3>4 DEF HonourInv, Ends
  <2>2. CASE ListModels \/ ApproveTool
    <3>1. /\ UNCHANGED <<ends, how, pend, closing, cancelled, agent>>
          /\ opc' = "sending" => Head(sending').type # "cancel"
      BY <2>2, FrameTypes DEF ListModels, ApproveTool
    <3> QED
      BY <3>1 DEF HonourInv, Ends
  <2>3. CASE Cancel
    <3>1. /\ ~closing /\ UNCHANGED <<ends, how, pend, closing, cancelled, state, activeTurn, nextTurn>>
          /\ state = "ACTIVE" /\ ~cancelRequested /\ cancelRequested'
      BY <2>3 DEF Cancel, PendInv
    <3> QED
      BY <3>1 DEF HonourInv, Ends
  <2>4. CASE Close
    BY <2>4 DEF Close, HonourInv
  <2> QED
    BY <1>2, <2>1, <2>2, <2>3, <2>4 DEF Call
<1>3. CASE Continue
  <2>1. CASE Send /\ Head(sending).type = "cancel"
    <3>1. /\ ~closing /\ state = "ACTIVE" /\ activeTurn \in Turns /\ cancelRequested
          /\ UNCHANGED <<ends, how, pend, closing, agent>>
          /\ cancelled' = cancelled \union {activeTurn} /\ cancelled \subseteq Turns
      BY <2>1 DEF Send, PendInv, TypeInv, SendingInv, HonourInv, HistoryOK
    <3>2. how[activeTurn] = "none" /\ activeTurn <= nextTurn
      BY <3>1 DEF TurnInv, TurnEndsOnce, HonourInv
    <3>3. \A th \in Threads : Ends(th) => pend[th].turn # activeTurn
      BY <3>1 DEF TurnInv
    <3>4. opc' = "sending" => Head(sending').type # "cancel"
      BY <2>1, SendTail
    <3> QED
      BY <3>1, <3>2, <3>3, <3>4 DEF HonourInv, Ends
  <2>2. CASE Send /\ Head(sending).type # "cancel"
    <3>1. UNCHANGED <<ends, how, pend, closing, agent, cancelled>>
      BY <2>2 DEF Send
    <3>2. opc' = "sending" => Head(sending').type # "cancel"
      BY <2>2, SendTail
    <3> QED
      BY <3>1, <3>2 DEF HonourInv, Ends
  <2>3. CASE SendFails
    <3>1. /\ ~closing /\ UNCHANGED <<ends, how, pend, closing, cancelled, state, activeTurn, nextTurn>>
          /\ opc' # "sending" /\ opc = "sending"
          /\ Head(sending).type # "cancel" /\ cancelRequested => cancelRequested'
      BY <2>3 DEF SendFails, PendInv
    <3> QED
      BY <3>1 DEF HonourInv, Ends
  <2>4. CASE OwnerFail
    <3>1. \A th \in Threads : pend'[th] = pend[th] \/ pend'[th].type = "TRANSPORT"
      BY <1>1, <2>4, FrameTypes DEF OwnerFail, Fail
    <3>2. /\ UNCHANGED <<cancelled, how, ends, activeTurn, nextTurn, cancelRequested, closing>>
          /\ state' = "ACTIVE" => state = "ACTIVE"
          /\ opc' # "sending"
      BY <2>4 DEF OwnerFail, Fail
    <3> QED
      BY <3>1, <3>2, HonourFrame
  <2>5. CASE OwnerEmit
    BY <1>1, <2>5, HonourDeliver DEF OwnerEmit
  <2>6. CASE OwnerTerminate \/ CloseIo \/ CloseState \/ CloseJob \/ CloseJoin
    <3>1. /\ UNCHANGED <<cancelled, how, ends, activeTurn, nextTurn, cancelRequested, closing, pend>>
          /\ state' = "ACTIVE" => state = "ACTIVE"
          /\ opc' # "sending"
      BY <2>6 DEF OwnerTerminate, CloseIo, CloseState, CloseJob, CloseJoin
    <3> QED
      BY <3>1, HonourFrame
  <2> QED
    BY <1>3, <2>1, <2>2, <2>3, <2>4, <2>5, <2>6 DEF Continue
<1>4. CASE Accept
  <2>1. CASE AcceptDone
    BY <2>1, HonourEndTurn DEF AcceptDone, DoneCancelled, EndTypes
  <2>2. CASE AcceptError
    BY <2>2, HonourEndTurn DEF AcceptError, EndTypes
  <2>3. CASE AcceptReady \/ AcceptModels \/ AcceptNotice \/ AcceptTurn \/ AcceptDelta \/ AcceptPcm
    <3>1. \/ pend' = pend
          \/ \E type \in {"READY", "MODELS", "STATUS", "APPROVAL", "ACCEPTED", "OUTPUT"} :
               pend' = [pend EXCEPT !["reader"] = Frame(type, frame.turn)]
      BY <2>3 DEF AcceptReady, AcceptModels, AcceptNotice, AcceptTurn, AcceptDelta, AcceptPcm, Emits,
         Ignored, Invalid
    <3>2. \A th \in Threads : pend'[th] = pend[th] \/ ~Ends(th)'
      BY <1>1, <3>1, FrameTypes DEF Ends, EndTypes
    <3>3. /\ UNCHANGED <<cancelled, how, ends, activeTurn, nextTurn, cancelRequested, closing, opc, sending>>
          /\ state' = "ACTIVE" => state = "ACTIVE"
      BY <2>3 DEF AcceptReady, AcceptModels, AcceptNotice, AcceptTurn, AcceptDelta, AcceptPcm
    <3> QED
      BY <3>2, <3>3, HonourFrame
  <2> QED
    BY <1>4, <2>1, <2>2, <2>3 DEF Accept
<1>5. CASE Reader /\ ~Accept
  <2>1. CASE ReaderFail
    <3>1. \A th \in Threads : pend'[th] = pend[th] \/ pend'[th].type = "TRANSPORT"
      BY <1>1, <2>1, FrameTypes DEF ReaderFail, Fail
    <3>2. /\ UNCHANGED <<cancelled, how, ends, activeTurn, nextTurn, cancelRequested, closing, opc, sending>>
          /\ state' = "ACTIVE" => state = "ACTIVE"
      BY <2>1 DEF ReaderFail, Fail
    <3> QED
      BY <3>1, <3>2, HonourFrame
  <2>2. CASE ReaderEmit \/ ReaderLastEmit
    BY <1>1, <2>2, HonourDeliver DEF ReaderEmit, ReaderLastEmit
  <2>3. CASE Connect \/ Connected \/ Hello \/ ReadIssue \/ ReadFrame \/ ReadFails
             \/ ReaderStops \/ ReaderTerminate
    <3>1. UNCHANGED <<agent, cancelled, how, ends, closing, opc, sending, pend>>
      BY <2>3 DEF Connect, Connected, Hello, ReadIssue, ReadFrame, ReadFails, ReaderStops, ReaderTerminate
    <3> QED
      BY <3>1, HonourFrame
  <2> QED
    BY <1>5, <2>1, <2>2, <2>3 DEF Reader
<1>6. CASE Harness \/ HDie \/ HHang \/ UNCHANGED vars
  BY <1>6, HarnessLeaves, HonourFrame
<1> QED
  BY <1>2, <1>3, <1>4, <1>5, <1>6 DEF Next

--------------------------------------------------------------------------------
(* Output that stops *)

Out(f) == f.type \notin EndTypes /\ f.turn # 0
Notice(f) == f.type \in {"status", "ask"} /\ f.turn = activeTurn
Acceptance(f) == f.type \in {"accepted", "acceptedAudio"} /\ f.turn = activeTurn

\* Every frame of a sequence is of a turn up to n.
UpTo(s, n) == \A i \in 1..Len(s) : s[i].turn <= n

\* Nothing is said, heard or about to be delivered of a turn to come, and
\* answers to hello and list requests belong to no turn.
FreshInv ==
  /\ asked <= nextTurn /\ h.turn <= nextTurn /\ h.stale <= nextTurn /\ frame.turn <= nextTurn
  /\ UpTo(sending, nextTurn) /\ UpTo(toHarness, nextTurn) /\ UpTo(fromHarness, nextTurn)
  /\ \A th \in Threads : pend[th].turn <= nextTurn
AnswerInv ==
  /\ frame.type \in {"ready", "models"} => frame.turn = 0
  /\ \A i \in 1..Len(fromHarness) :
       fromHarness[i].type \in {"ready", "models"} => fromHarness[i].turn = 0

\* A question or status of a turn is read after its acceptance.
NoticeInv ==
  /\ frame # NoFrame => rpc = "accept"
  /\ state = "ACTIVE" /\ ~accepted /\ ~Acceptance(frame) =>
       /\ ~Notice(frame)
       /\ \A i \in 1..Len(fromHarness) : Notice(fromHarness[i]) =>
            \E j \in 1..Len(fromHarness) : j < i /\ Acceptance(fromHarness[j])
       /\ h.accepted /\ h.turn = activeTurn =>
            \E j \in 1..Len(fromHarness) : Acceptance(fromHarness[j])

\* What the reader is about to deliver is the first event after a cancel, and
\* nothing but a transport failure has ended its turn.
StopInv ==
  /\ ~stray /\ \A t \in Turns : late[t] <= 1
  /\ pend["owner"].type \in {"none", "TRANSPORT"}
  /\ ~closing =>
       /\ \A t \in Turns : t \notin cancelled => late[t] = 0
       /\ Out(pend["reader"]) => /\ late[pend["reader"].turn] = 0
                                 /\ how[pend["reader"].turn] \in {"none", "TRANSPORT"}
       /\ state = "ACTIVE" /\ ~accepted =>
            /\ late[activeTurn] = 0
            /\ ~(Out(pend["reader"]) /\ pend["reader"].turn = activeTurn)

LEMMA TailAt ==
  ASSUME NEW S, NEW s \in Seq(S), s # <<>>
  PROVE  /\ Len(s) \in Nat /\ 1 \in 1..Len(s) /\ Head(s) = s[1] /\ Len(Tail(s)) = Len(s) - 1
         /\ \A i \in 1..Len(Tail(s)) : i + 1 \in 1..Len(s) /\ Tail(s)[i] = s[i + 1]
<1>1. Len(s) \in Nat /\ Len(s) # 0
  BY EmptySeq
<1> QED
  BY <1>1

LEMMA AppendAt ==
  ASSUME NEW S, NEW s \in Seq(S), NEW e \in S
  PROVE  /\ Len(s) \in Nat /\ Len(Append(s, e)) = Len(s) + 1 /\ Append(s, e)[Len(s) + 1] = e
         /\ \A i \in 1..Len(s) : Append(s, e)[i] = s[i]
OBVIOUS

LEMMA UpToTail ==
  ASSUME NEW S, NEW s \in Seq(S), s # <<>>, NEW n, UpTo(s, n)
  PROVE  Head(s).turn <= n /\ UpTo(Tail(s), n)
BY TailAt DEF UpTo

LEMMA UpToAppend ==
  ASSUME NEW S, NEW s \in Seq(S), NEW e \in S, NEW n, UpTo(s, n), e.turn <= n
  PROVE  UpTo(Append(s, e), n)
<1>1. \A i \in 1..Len(Append(s, e)) : i \in 1..Len(s) \/ i = Len(s) + 1
  BY AppendAt
<1> QED
  BY <1>1, AppendAt DEF UpTo

LEMMA PendFresh ==
  ASSUME pend \in [Threads -> Events], FreshInv, NEW t \in Threads, NEW e, e.turn <= nextTurn,
         pend' = [pend EXCEPT ![t] = e]
  PROVE  \A th \in Threads : pend'[th].turn <= nextTurn
BY DEF FreshInv

\* What the client says and remembers.
LEMMA FreshClient ==
  TypeInv /\ PendInv /\ TurnInv /\ FreshInv /\ [Next]_vars =>
    /\ nextTurn <= nextTurn' /\ nextTurn' \in Nat
    /\ UpTo(sending', nextTurn') /\ asked' <= nextTurn' /\ frame'.turn <= nextTurn'
    /\ \A th \in Threads : pend'[th].turn <= nextTurn'
<1> SUFFICES ASSUME TypeInv, PendInv, TurnInv, FreshInv, [Next]_vars
             PROVE  /\ nextTurn <= nextTurn' /\ nextTurn' \in Nat
                    /\ UpTo(sending', nextTurn') /\ asked' <= nextTurn' /\ frame'.turn <= nextTurn'
                    /\ \A th \in Threads : pend'[th].turn <= nextTurn'
  OBVIOUS
<1> USE DEF agent, vars, ownerFrame, readerFrame, harnessFrame, acceptFrame, owner, reader,
            pipes, harness, told
<1>1. /\ "owner" \in Threads /\ "reader" \in Threads /\ pend \in [Threads -> Events]
      /\ sending \in Seq(Of(ClientTypes)) /\ fromHarness \in Seq(Of(HarnessTypes))
      /\ nextTurn \in Nat /\ asked \in Nat /\ 0 <= nextTurn
  BY DEF Threads, TypeInv, ReaderOK, OwnerOK, PipesOK, AgentOK, Number
<1>0. NoFrame.turn = 0 /\ \A type, n : Frame(type, n).turn = n
  BY FrameTypes
<1>9. frame.turn \in Nat /\ \A th \in Threads : pend[th].turn \in Nat
  <2>1. frame.turn \in Number
    BY FrameTypes DEF TypeInv, ReaderOK
  <2>2. \A th \in Threads : pend[th].turn \in Number
    BY <1>1, FrameTypes
  <2> QED
    BY <2>1, <2>2 DEF Number
<1>2. CASE UNCHANGED <<nextTurn, asked, frame, sending, pend>>
  BY <1>1, <1>2 DEF FreshInv, UpTo
<1>3. CASE Call
  <2>1. CASE Submit
    <3>1. nextTurn' = nextTurn + 1 /\ UNCHANGED <<asked, frame, pend>>
          /\ sending' = <<Frame("start", nextTurn + 1), Frame("commit", nextTurn + 1)>>
      BY <2>1 DEF Submit
    <3>2. \A f, g : UpTo(<<f, g>>, nextTurn + 1) <=> f.turn <= nextTurn + 1 /\ g.turn <= nextTurn + 1
      BY DEF UpTo
    <3>3. UpTo(sending', nextTurn')
      <4>1. \A type : Frame(type, nextTurn + 1).turn = nextTurn + 1
        BY FrameTypes
      <4>2. nextTurn + 1 <= nextTurn + 1
        BY <1>1
      <4> QED
        BY <3>1, <3>2, <4>1, <4>2
    <3> QED
      BY <1>1, <1>9, <3>1, <3>3 DEF FreshInv
  <2>2. CASE ListModels \/ ApproveTool \/ Cancel
    <3>1. nextTurn' = nextTurn /\ asked' \in {asked, 0} /\ UNCHANGED <<frame, pend>>
      BY <2>2 DEF ListModels, ApproveTool, Cancel
    <3>2. \/ sending' = sending
          \/ \E type : \E n \in {0, asked, activeTurn} : sending' = <<Frame(type, n)>>
      BY <2>2 DEF ListModels, ApproveTool, Cancel
    <3>3. activeTurn <= nextTurn
      BY <2>2 DEF ListModels, ApproveTool, Cancel, PendInv, TurnInv, TypeInv, AgentOK, Number, FreshInv
    <3>4. \A f : UpTo(<<f>>, nextTurn) <=> f.turn <= nextTurn
      BY DEF UpTo
    <3>5. UpTo(sending', nextTurn')
      BY <1>1, <3>1, <3>2, <3>3, <3>4, FrameTypes DEF FreshInv, UpTo
    <3> QED
      BY <1>1, <3>1, <3>5 DEF FreshInv
  <2> QED
    BY <1>2, <1>3, <2>1, <2>2 DEF Call, Close
<1>4. CASE Continue
  <2>1. CASE Send
    <3>1. sending # <<>> /\ sending' = Tail(sending) /\ UNCHANGED <<nextTurn, asked, frame, pend>>
      BY <2>1 DEF Send, TypeInv, SendingInv
    <3>2. UpTo(sending', nextTurn)
      BY <1>1, <3>1, UpToTail DEF FreshInv, UpTo
    <3> QED
      BY <1>1, <3>1, <3>2 DEF FreshInv
  <2>2. CASE SendFails
    <3>1. sending' = <<>> /\ UNCHANGED <<nextTurn, asked, frame, pend>>
      BY <2>2 DEF SendFails
    <3> QED
      BY <1>1, <3>1 DEF FreshInv, UpTo
  <2>3. CASE OwnerFail
    <3>1. UNCHANGED <<nextTurn, asked, frame, sending>> /\ activeTurn <= nextTurn
          /\ (pend' = pend \/ pend' = [pend EXCEPT !["owner"] = Frame("TRANSPORT", activeTurn)])
      BY <2>3 DEF OwnerFail, Fail, PendInv, TurnInv
    <3>2. \A th \in Threads : pend'[th].turn <= nextTurn
      <4>1. CASE pend' = pend
        BY <3>1, <4>1 DEF FreshInv
      <4>2. CASE pend' # pend
        BY <1>0, <1>1, <3>1, <4>2, PendFresh
      <4> QED
        BY <4>1, <4>2
    <3> QED
      BY <1>1, <3>1, <3>2 DEF FreshInv
  <2>4. CASE OwnerEmit
    <3>1. UNCHANGED <<nextTurn, asked, frame, sending>> /\ pend' = [pend EXCEPT !["owner"] = NoFrame]
      BY <2>4 DEF OwnerEmit
    <3>2. \A th \in Threads : pend'[th].turn <= nextTurn
      <4>1. CASE pend' = pend
        BY <3>1, <4>1 DEF FreshInv
      <4>2. CASE pend' # pend
        BY <1>0, <1>1, <3>1, <4>2, PendFresh
      <4> QED
        BY <4>1, <4>2
    <3> QED
      BY <1>1, <3>1, <3>2 DEF FreshInv
  <2> QED
    BY <1>2, <1>4, <2>1, <2>2, <2>3, <2>4 DEF Continue, OwnerTerminate, CloseIo, CloseState, CloseJob, CloseJoin
<1>5. CASE Accept
  <2>1. UNCHANGED <<nextTurn, asked, sending>> /\ frame' = NoFrame
    BY <1>5 DEF Accept, AcceptReady, AcceptModels, AcceptNotice, AcceptTurn, AcceptDelta,
       AcceptPcm, AcceptDone, AcceptError, EndTurn, Consumed
  <2>2. pend' = pend \/ \E type : pend' = [pend EXCEPT !["reader"] = Frame(type, frame.turn)]
    <3>1. CASE AcceptReady \/ AcceptModels \/ AcceptNotice
      BY <3>1 DEF AcceptReady, AcceptModels, AcceptNotice, Emits, Invalid
    <3>2. CASE AcceptTurn \/ AcceptDelta \/ AcceptPcm
      BY <3>2 DEF AcceptTurn, AcceptDelta, AcceptPcm, Emits, Ignored, Invalid
    <3>3. CASE AcceptDone \/ AcceptError
      BY <3>3 DEF AcceptDone, AcceptError, EndTurn, Emits, Ignored
    <3> QED
      BY <1>5, <3>1, <3>2, <3>3 DEF Accept
  <2>3. \A th \in Threads : pend'[th].turn <= nextTurn
    <3>1. CASE pend' = pend
      BY <3>1 DEF FreshInv
    <3>2. ASSUME NEW type, pend' = [pend EXCEPT !["reader"] = Frame(type, frame.turn)]
          PROVE  \A th \in Threads : pend'[th].turn <= nextTurn
      <4>1. Frame(type, frame.turn).turn <= nextTurn
        BY <1>0 DEF FreshInv
      <4> QED
        BY <1>1, <3>2, <4>1, PendFresh
    <3> QED
      BY <2>2, <3>1, <3>2
  <2> QED
    BY <1>1, <2>1, <2>3, FrameTypes DEF FreshInv
<1>6. CASE Reader /\ ~Accept
  <2>1. CASE ReaderFail
    <3>1. UNCHANGED <<nextTurn, asked, frame, sending>> /\ activeTurn <= nextTurn
          /\ (pend' = pend \/ pend' = [pend EXCEPT !["reader"] = Frame("TRANSPORT", activeTurn)])
      BY <2>1 DEF ReaderFail, Fail, TurnInv
    <3>2. \A th \in Threads : pend'[th].turn <= nextTurn
      <4>1. CASE pend' = pend
        BY <3>1, <4>1 DEF FreshInv
      <4>2. CASE pend' # pend
        BY <1>0, <1>1, <3>1, <4>2, PendFresh
      <4> QED
        BY <4>1, <4>2
    <3> QED
      BY <1>1, <3>1, <3>2 DEF FreshInv
  <2>2. CASE ReaderEmit \/ ReaderLastEmit
    <3>1. UNCHANGED <<nextTurn, frame, sending>> /\ asked' \in {asked, pend["reader"].turn}
          /\ pend' = [pend EXCEPT !["reader"] = NoFrame]
      BY <2>2 DEF ReaderEmit, ReaderLastEmit
    <3>2. \A th \in Threads : pend'[th].turn <= nextTurn
      <4>1. CASE pend' = pend
        BY <3>1, <4>1 DEF FreshInv
      <4>2. CASE pend' # pend
        BY <1>0, <1>1, <3>1, <4>2, PendFresh
      <4> QED
        BY <4>1, <4>2
    <3> QED
      BY <1>1, <3>1, <3>2 DEF FreshInv
  <2>3. CASE ReadFrame
    <3>1. UNCHANGED <<nextTurn, asked, pend, sending>> /\ frame' = Head(fromHarness) /\ fromHarness # <<>>
      BY <2>3 DEF ReadFrame
    <3>2. frame'.turn <= nextTurn
      BY <1>1, <3>1, UpToTail DEF FreshInv, UpTo
    <3> QED
      BY <1>1, <3>1, <3>2 DEF FreshInv, UpTo
  <2> QED
    BY <1>2, <1>6, <2>1, <2>2, <2>3 DEF Reader, Connect, Connected, Hello, ReadIssue, ReadFails,
       ReaderStops, ReaderTerminate
<1>7. CASE Harness \/ HDie \/ HHang \/ UNCHANGED vars
  BY <1>2, <1>7, HarnessLeaves
<1> QED
  BY <1>3, <1>4, <1>5, <1>6, <1>7 DEF Next

\* What a frame of the client leaves of the turn the harness works on.
LEMMA HeardTurn ==
  ASSUME HarnessOK, NEW m
  PROVE  /\ Heard(m).turn \in {h.turn, m.turn} /\ Heard(m).stale = h.stale
         /\ Heard(m).accepted => h.accepted /\ Heard(m).turn = h.turn
<1>1. CASE m.type = "start"
  BY <1>1 DEF Heard, HarnessOK
<1>2. CASE m.type # "start"
  BY <1>2 DEF Heard, HarnessOK
<1> QED
  BY <1>1, <1>2

Accepting == {"accepted", "acceptedAudio"}
Speaks == HReply \/ HAccept \/ HOutput \/ HAsk \/ HDone \/ HStale

\* What the harness says: notices only of a turn it has accepted.
LEMMA SpeaksOf ==
  ASSUME HarnessOK, Speaks
  PROVE  /\ h'.turn \in {h.turn, 0} /\ h'.stale \in {h.turn, h.stale, 0}
         /\ \E type \in HarnessTypes : \E n \in {0, h.turn, h.stale} :
              /\ Says(type, n)
              /\ type \in {"ready", "models"} => n = 0
              /\ type \in {"status", "ask"} => h.accepted /\ n = h.turn
              /\ h'.accepted => h'.turn = h.turn
              /\ h'.accepted => h.accepted \/ (type \in Accepting /\ n = h.turn)
<1>1. CASE HReply
  <2>1. PICK type \in h.owes : Says(type, 0) /\ h' = [h EXCEPT !.owes = @ \ {type}]
    BY <1>1 DEF HReply
  <2>2. type \in {"ready", "models"}
    BY DEF HarnessOK
  <2>3. h'.turn = h.turn /\ h'.stale = h.stale /\ h'.accepted = h.accepted
    BY <2>1 DEF HarnessOK
  <2> QED
    BY <2>1, <2>2, <2>3 DEF HarnessTypes
<1>2. CASE HAccept
  <2>1. PICK a \in BOOLEAN : /\ Says(IF a THEN "acceptedAudio" ELSE "accepted", h.turn)
                             /\ h' = [h EXCEPT !.accepted = TRUE, !.audio = a]
    BY <1>2 DEF HAccept
  <2>2. h'.turn = h.turn /\ h'.stale = h.stale
    BY <2>1 DEF HarnessOK
  <2>3. (IF a THEN "acceptedAudio" ELSE "accepted") \in Accepting
    BY DEF Accepting
  <2>4. \A type \in Accepting : type \in HarnessTypes /\ type \notin {"ready", "models", "status", "ask"}
    BY DEF Accepting, HarnessTypes
  <2> QED
    BY <2>1, <2>2, <2>3, <2>4
<1>3. CASE HOutput
  BY <1>3 DEF HOutput, HarnessTypes
<1>4. CASE HAsk
  <2>1. h'.turn = h.turn /\ h'.stale = h.stale /\ h'.accepted = h.accepted
    BY <1>4 DEF HAsk, HarnessOK
  <2> QED
    BY <1>4, <2>1 DEF HAsk, HarnessTypes
<1>5. CASE HDone
  <2>1. h'.turn = 0 /\ h'.accepted = FALSE /\ h'.stale \in {h.turn, 0}
    BY <1>5 DEF HDone, HarnessOK
  <2>2. \E type \in {"error", "done", "doneCancelled"} : Says(type, h.turn)
    BY <1>5 DEF HDone
  <2> QED
    BY <2>1, <2>2 DEF HarnessTypes
<1>6. CASE HStale
  <2>1. h'.turn = h.turn /\ h'.stale = 0 /\ h'.accepted = h.accepted
    BY <1>6 DEF HStale, HarnessOK
  <2>2. \E type \in {"delta", "pcm"} : Says(type, h.stale)
    BY <1>6 DEF HStale
  <2>3. h.accepted => h'.turn = h.turn
    BY <2>1
  <2> QED
    BY <2>1, <2>2 DEF HarnessTypes
<1> QED
  BY <1>1, <1>2, <1>3, <1>4, <1>5, <1>6 DEF Speaks

\* Only these steps touch the pipes or the harness's turn.
LEMMA PipesKept ==
  ASSUME HarnessOK, [Next]_vars
  PROVE  \/ Send \/ Hello \/ ReadFrame \/ HRead \/ Speaks
         \/ UNCHANGED <<toHarness, fromHarness, h.turn, h.stale, h.accepted>>
<1> USE DEF agent, vars, ownerFrame, readerFrame, harnessFrame, acceptFrame, owner, reader,
            pipes, harness, told
<1>1. CASE Call
  BY <1>1 DEF Call, Submit, ListModels, ApproveTool, Cancel, Close
<1>2. CASE Continue
  BY <1>2 DEF Continue, SendFails, OwnerFail, OwnerTerminate, OwnerEmit, CloseIo, CloseState,
     CloseJob, CloseJoin
<1>3. CASE Reader
  BY <1>3 DEF Reader, Accept, Connect, Connected, ReadIssue, ReadFails, AcceptReady,
     AcceptModels, AcceptNotice, AcceptTurn, AcceptDelta, AcceptPcm, AcceptDone, AcceptError,
     EndTurn, ReaderEmit, ReaderStops, ReaderFail, ReaderTerminate, ReaderLastEmit
<1>4. CASE Harness
  BY <1>4 DEF Harness, Speaks, HConnect, HarnessOK
<1>5. CASE HDie \/ HHang \/ UNCHANGED vars
  BY <1>5 DEF HDie, HHang
<1> QED
  BY <1>1, <1>2, <1>3, <1>4, <1>5 DEF Next

\* A frame the reader has read is dropped in the step that takes it.
LEMMA FrameKept ==
  ASSUME [Next]_vars
  PROVE  ReadFrame \/ frame' = frame \/ (Accept /\ frame' = NoFrame)
<1> USE DEF agent, vars, ownerFrame, readerFrame, acceptFrame, owner, reader,
            pipes, harness, told
<1>1. CASE Call
  BY <1>1 DEF Call, Submit, ListModels, ApproveTool, Cancel, Close
<1>2. CASE Continue
  BY <1>2 DEF Continue, Send, SendFails, OwnerFail, OwnerTerminate, OwnerEmit, CloseIo, CloseState,
     CloseJob, CloseJoin
<1>3. CASE Accept
  BY <1>3 DEF Accept, AcceptReady, AcceptModels, AcceptNotice, AcceptTurn, AcceptDelta,
     AcceptPcm, AcceptDone, AcceptError, EndTurn, Consumed
<1>4. CASE Reader /\ ~Accept
  BY <1>4 DEF Reader, Connect, Connected, Hello, ReadIssue, ReadFails, ReaderEmit, ReaderStops,
     ReaderFail, ReaderTerminate, ReaderLastEmit
<1>5. CASE Harness \/ HDie \/ HHang \/ UNCHANGED vars
  BY <1>5, HarnessLeaves
<1> QED
  BY <1>1, <1>2, <1>3, <1>4, <1>5 DEF Next

LEMMA UpToLater ==
  ASSUME NEW S, NEW s \in Seq(Of(S)), NEW m \in Nat, NEW n \in Nat, m <= n, UpTo(s, m)
  PROVE  UpTo(s, n)
<1>1. \A i \in 1..Len(s) : s[i].turn \in Nat
  <2>1. \A i \in 1..Len(s) : s[i] \in Of(S)
    OBVIOUS
  <2>2. \A n0 \in Number : n0 \in Nat
    BY DEF Number
  <2> QED
    BY <2>1, <2>2, FrameTypes
<1> QED
  BY <1>1 DEF UpTo

LEMMA FreshStep ==
  TypeInv /\ PendInv /\ TurnInv /\ FreshInv /\ [Next]_vars => FreshInv'
<1> SUFFICES ASSUME TypeInv, PendInv, TurnInv, FreshInv, [Next]_vars PROVE FreshInv'
  OBVIOUS
<1> USE DEF agent, vars, ownerFrame, readerFrame, harnessFrame, acceptFrame, owner, reader,
            pipes, harness, told
<1>1. /\ toHarness \in Seq(Of(ClientTypes)) /\ fromHarness \in Seq(Of(HarnessTypes))
      /\ sending \in Seq(Of(ClientTypes))
      /\ nextTurn \in Nat /\ h.turn \in Nat /\ h.stale \in Nat /\ 0 <= nextTurn
      /\ UpTo(toHarness, nextTurn) /\ UpTo(fromHarness, nextTurn) /\ UpTo(sending, nextTurn)
      /\ h.turn <= nextTurn /\ h.stale <= nextTurn
  BY DEF TypeInv, PipesOK, OwnerOK, AgentOK, HarnessOK, Number, FreshInv
<1>2. /\ nextTurn <= nextTurn' /\ nextTurn' \in Nat
      /\ UpTo(sending', nextTurn') /\ asked' <= nextTurn' /\ frame'.turn <= nextTurn'
      /\ \A th \in Threads : pend'[th].turn <= nextTurn'
  BY FreshClient
<1>3. NoFrame.turn = 0 /\ \A type, n : Frame(type, n).turn = n
  BY FrameTypes
<1>4. CASE UNCHANGED <<toHarness, fromHarness, h.turn, h.stale>>
  <2>1. UpTo(toHarness, nextTurn') /\ UpTo(fromHarness, nextTurn')
    BY <1>1, <1>2, UpToLater
  <2>2. h.turn <= nextTurn' /\ h.stale <= nextTurn'
    BY <1>1, <1>2
  <2> QED
    BY <1>2, <1>4, <2>1, <2>2 DEF FreshInv
<1>5. CASE Send
  <2>1. /\ sending # <<>> /\ toHarness' = Append(toHarness, Head(sending))
        /\ UNCHANGED <<h.turn, h.stale, fromHarness, nextTurn>>
    BY <1>5 DEF Send, TypeInv, SendingInv
  <2>2. Head(sending) \in Of(ClientTypes) /\ Head(sending).turn <= nextTurn
    BY <1>1, <2>1, UpToTail
  <2>3. UpTo(toHarness', nextTurn)
    BY <1>1, <2>1, <2>2, UpToAppend
  <2> QED
    BY <1>1, <1>2, <2>1, <2>3 DEF FreshInv
<1>6. CASE Hello
  <2>1. UNCHANGED <<h.turn, h.stale, fromHarness, nextTurn>>
        /\ toHarness' \in {toHarness, Append(toHarness, Frame("hello", 0))}
    BY <1>6 DEF Hello
  <2>2. Frame("hello", 0) \in Of(ClientTypes) /\ Frame("hello", 0).turn <= nextTurn
    BY <1>1, FrameTypes DEF ClientTypes
  <2>3. UpTo(toHarness', nextTurn)
    BY <1>1, <2>1, <2>2, UpToAppend
  <2> QED
    BY <1>1, <1>2, <2>1, <2>3 DEF FreshInv
<1>7. CASE ReadFrame
  <2>1. fromHarness # <<>> /\ fromHarness' = Tail(fromHarness) /\ UNCHANGED <<h.turn, h.stale, toHarness, nextTurn>>
    BY <1>7 DEF ReadFrame
  <2>2. UpTo(fromHarness', nextTurn)
    BY <1>1, <2>1, UpToTail
  <2> QED
    BY <1>1, <1>2, <2>1, <2>2 DEF FreshInv
<1>8. CASE HRead
  <2>1. toHarness # <<>> /\ toHarness' = Tail(toHarness) /\ UNCHANGED <<fromHarness, nextTurn>>
        /\ h' = Heard(Head(toHarness))
    BY <1>8 DEF HRead
  <2>2. Head(toHarness).turn <= nextTurn /\ UpTo(toHarness', nextTurn)
    BY <1>1, <2>1, UpToTail
  <2>3. h'.turn \in {h.turn, Head(toHarness).turn} /\ h'.stale = h.stale
    BY <2>1, HeardTurn DEF TypeInv
  <2> QED
    BY <1>1, <1>2, <2>1, <2>2, <2>3 DEF FreshInv
<1>9. CASE Speaks
  <2>1. PICK type \in HarnessTypes, n \in {0, h.turn, h.stale} : Says(type, n)
    BY <1>9, SpeaksOf DEF TypeInv
  <2>2. UNCHANGED <<toHarness, nextTurn>> /\ fromHarness' = Append(fromHarness, Frame(type, n))
    BY <2>1 DEF Says
  <2>3. Frame(type, n) \in Of(HarnessTypes) /\ Frame(type, n).turn <= nextTurn
    <3>1. n \in Number /\ n <= nextTurn
      BY <1>1, FrameTypes DEF TypeInv, HarnessOK
    <3> QED
      BY <1>3, <3>1, FrameTypes
  <2>4. UpTo(fromHarness', nextTurn)
    BY <1>1, <2>2, <2>3, UpToAppend
  <2>5. h'.turn \in {h.turn, 0} /\ h'.stale \in {h.turn, h.stale, 0}
    BY <1>9, SpeaksOf DEF TypeInv
  <2> QED
    BY <1>1, <1>2, <2>2, <2>4, <2>5 DEF FreshInv
<1> QED
  BY <1>4, <1>5, <1>6, <1>7, <1>8, <1>9, PipesKept DEF TypeInv

LEMMA AnswerStep == TypeInv /\ AnswerInv /\ [Next]_vars => AnswerInv'
<1> SUFFICES ASSUME TypeInv, AnswerInv, [Next]_vars PROVE AnswerInv'
  OBVIOUS
<1> DEFINE A(f) == f.type \in {"ready", "models"} => f.turn = 0
<1>1. fromHarness \in Seq(Of(HarnessTypes)) /\ A(frame) /\ A(NoFrame)
      /\ \A i \in 1..Len(fromHarness) : A(fromHarness[i])
  BY FrameTypes DEF TypeInv, PipesOK, AnswerInv
<1>2. CASE ReadFrame
  <2>1. fromHarness # <<>> /\ fromHarness' = Tail(fromHarness) /\ frame' = Head(fromHarness)
    BY <1>2 DEF ReadFrame
  <2>2. A(frame') /\ \A i \in 1..Len(fromHarness') : A(fromHarness'[i])
    BY <1>1, <2>1, TailAt
  <2> QED
    BY <2>2 DEF AnswerInv
<1>3. CASE Speaks
  <2>1. PICK type \in HarnessTypes, n \in {0, h.turn, h.stale} :
          Says(type, n) /\ (type \in {"ready", "models"} => n = 0)
    BY <1>3, SpeaksOf DEF TypeInv
  <2>2. fromHarness' = Append(fromHarness, Frame(type, n)) /\ frame' = frame
    BY <2>1 DEF Says, harnessFrame, reader
  <2>3. Frame(type, n) \in Of(HarnessTypes) /\ A(Frame(type, n))
    <3>1. n \in Number
      BY FrameTypes DEF TypeInv, HarnessOK
    <3>2. Frame(type, n).type = type /\ Frame(type, n).turn = n
      BY FrameTypes
    <3> QED
      BY <2>1, <3>1, <3>2, FrameTypes
  <2>4. \A i \in 1..Len(fromHarness') : i \in 1..Len(fromHarness) \/ i = Len(fromHarness) + 1
    BY <1>1, <2>2, <2>3, AppendAt
  <2>5. \A i \in 1..Len(fromHarness') : A(fromHarness'[i])
    BY <1>1, <2>2, <2>3, <2>4, AppendAt
  <2> QED
    BY <1>1, <2>2, <2>5 DEF AnswerInv
<1>4. ~ReadFrame /\ ~Speaks => fromHarness' = fromHarness
  BY PipesKept DEF TypeInv, Send, Hello, HRead
<1>5. ~ReadFrame => frame' \in {frame, NoFrame}
  BY FrameKept
<1> QED
  BY <1>1, <1>2, <1>3, <1>4, <1>5 DEF AnswerInv

\* A turn that is active after a step was so before, and its acceptance is kept.
LEMMA ActiveKept ==
  ASSUME [Next]_vars, ~Submit, state' = "ACTIVE"
  PROVE  state = "ACTIVE" /\ activeTurn' = activeTurn /\ nextTurn' = nextTurn
         /\ (accepted => accepted')
<1> USE DEF agent, vars, ownerFrame, readerFrame, acceptFrame, owner, reader,
            pipes, harness, told
<1>1. CASE Call
  BY <1>1 DEF Call, ListModels, ApproveTool, Cancel, Close
<1>2. CASE Continue
  <2>1. CASE OwnerFail
    BY <2>1 DEF OwnerFail, Fail
  <2>2. CASE Send \/ SendFails \/ OwnerTerminate \/ OwnerEmit
    BY <2>2 DEF Send, SendFails, OwnerTerminate, OwnerEmit
  <2>3. CASE CloseIo \/ CloseState \/ CloseJob \/ CloseJoin
    <3>1. ~CloseState
      BY DEF CloseState
    <3>2. UNCHANGED agent
      BY <2>3, <3>1 DEF CloseIo, CloseJob, CloseJoin
    <3> QED
      BY <3>2
  <2> QED
    BY <1>2, <2>1, <2>2, <2>3 DEF Continue
<1>3. CASE Accept
  BY <1>3 DEF Accept, AcceptReady, AcceptModels, AcceptNotice, AcceptTurn, AcceptDelta,
     AcceptPcm, AcceptDone, AcceptError, EndTurn
<1>4. CASE Reader /\ ~Accept
  BY <1>4 DEF Reader, Connect, Connected, Hello, ReadIssue, ReadFrame, ReadFails, ReaderEmit, ReaderStops,
     ReaderFail, Fail, ReaderTerminate, ReaderLastEmit
<1>5. CASE Harness \/ HDie \/ HHang \/ UNCHANGED vars
  BY <1>5, HarnessLeaves
<1> QED
  BY <1>1, <1>2, <1>3, <1>4, <1>5 DEF Next

\* Whoever has read a frame is about to take it.
LEMMA FramePc ==
  ASSUME [Next]_vars, frame # NoFrame => rpc = "accept"
  PROVE  frame' # NoFrame => rpc' = "accept"
<1> USE DEF agent, vars, ownerFrame, readerFrame, acceptFrame, owner, reader,
            pipes, harness, told
<1>1. CASE Call
  BY <1>1 DEF Call, Submit, ListModels, ApproveTool, Cancel, Close
<1>2. CASE Continue
  BY <1>2 DEF Continue, Send, SendFails, OwnerFail, OwnerTerminate, OwnerEmit, CloseIo, CloseState,
     CloseJob, CloseJoin
<1>3. CASE Accept \/ ReadFrame
  BY <1>3, FrameKept DEF ReadFrame, Accept, AcceptReady, AcceptModels, AcceptNotice, AcceptTurn, AcceptDelta,
     AcceptPcm, AcceptDone, AcceptError, EndTurn, Consumed
<1>4. CASE Reader /\ ~Accept /\ ~ReadFrame
  BY <1>4 DEF Reader, Connect, Connected, Hello, ReadIssue, ReadFails, ReaderEmit, ReaderStops,
     ReaderFail, ReaderTerminate, ReaderLastEmit
<1>5. CASE Harness \/ HDie \/ HHang \/ UNCHANGED vars
  BY <1>5, HarnessLeaves
<1> QED
  BY <1>1, <1>2, <1>3, <1>4, <1>5 DEF Next

LEMMA NoticeStep ==
  TypeInv /\ PendInv /\ TurnInv /\ FreshInv /\ NoticeInv /\ [Next]_vars => NoticeInv'
<1> SUFFICES ASSUME TypeInv, PendInv, TurnInv, FreshInv, NoticeInv, [Next]_vars PROVE NoticeInv'
  OBVIOUS
<1>0. frame' # NoFrame => rpc' = "accept"
  BY FramePc DEF NoticeInv
<1> SUFFICES ASSUME state' = "ACTIVE", ~accepted', ~Acceptance(frame)'
             PROVE  /\ ~Notice(frame)'
                    /\ \A i \in 1..Len(fromHarness') : Notice(fromHarness[i])' =>
                         \E j \in 1..Len(fromHarness') : j < i /\ Acceptance(fromHarness[j])'
                    /\ h'.accepted /\ h'.turn = activeTurn' =>
                         \E j \in 1..Len(fromHarness') : Acceptance(fromHarness[j])'
  BY <1>0 DEF NoticeInv
<1> DEFINE N(f) == f.type \in {"status", "ask"} /\ f.turn = activeTurn'
           C(f) == f.type \in Accepting /\ f.turn = activeTurn'
<1>1. /\ fromHarness \in Seq(Of(HarnessTypes)) /\ nextTurn \in Nat
      /\ \A i \in 1..Len(fromHarness) : fromHarness[i].turn \in Nat /\ fromHarness[i].turn <= nextTurn
      /\ frame.turn \in Nat /\ frame.turn <= nextTurn /\ h.turn \in Nat /\ h.turn <= nextTurn
  <2>1. frame.turn \in Number /\ \A i \in 1..Len(fromHarness) : fromHarness[i].turn \in Number
    BY FrameTypes DEF TypeInv, ReaderOK, PipesOK
  <2> QED
    BY <2>1 DEF TypeInv, PipesOK, AgentOK, HarnessOK, FreshInv, UpTo, Number
<1>2. ~N(NoFrame) /\ ~C(NoFrame)
  BY FrameTypes DEF Accepting
<1> SUFFICES /\ ~N(frame')
             /\ \A i \in 1..Len(fromHarness') : N(fromHarness'[i]) =>
                  \E j \in 1..Len(fromHarness') : j < i /\ C(fromHarness'[j])
             /\ h'.accepted /\ h'.turn = activeTurn' =>
                  \E j \in 1..Len(fromHarness') : C(fromHarness'[j])
  BY DEF Notice, Acceptance, Accepting
<1>3. CASE Submit
  <2>1. activeTurn' = nextTurn + 1 /\ UNCHANGED <<frame, fromHarness, h>>
    BY <1>3 DEF Submit, ownerFrame, reader, pipes, harness
  <2>2. ~N(frame) /\ h.turn # activeTurn' /\ \A i \in 1..Len(fromHarness) : ~N(fromHarness[i])
    BY <1>1, <2>1
  <2> QED
    BY <2>1, <2>2
<1>4. CASE ~Submit
  <2>1. state = "ACTIVE" /\ activeTurn' = activeTurn /\ ~accepted
    BY <1>4, ActiveKept
  <2>2. ~C(frame)
    <3>1. ~C(frame')
      BY DEF Acceptance, Accepting
    <3>2. CASE ReadFrame
      <4>1. frame = NoFrame
        BY <3>2 DEF ReadFrame, NoticeInv
      <4> QED
        BY <1>2, <4>1
    <3>3. CASE Accept /\ C(frame)
      <4>1. AcceptTurn
        BY <3>3 DEF Accepting, Accept, AcceptReady, AcceptModels, AcceptNotice, AcceptDelta,
           AcceptPcm, AcceptDone, AcceptError
      <4> QED
        BY <2>1, <3>3, <4>1 DEF AcceptTurn, OnTurn
    <3> QED
      BY <3>1, <3>2, <3>3, FrameKept
  <2>3. /\ ~N(frame)
        /\ \A i \in 1..Len(fromHarness) : N(fromHarness[i]) =>
             \E j \in 1..Len(fromHarness) : j < i /\ C(fromHarness[j])
        /\ h.accepted /\ h.turn = activeTurn' =>
             \E j \in 1..Len(fromHarness) : C(fromHarness[j])
    BY <2>1, <2>2 DEF NoticeInv, Notice, Acceptance, Accepting
  <2>4. CASE ReadFrame
    <3>1. /\ fromHarness # <<>> /\ fromHarness' = Tail(fromHarness) /\ frame' = Head(fromHarness)
          /\ h' = h
      BY <2>4 DEF ReadFrame, readerFrame, harness
    <3>2. ~C(Head(fromHarness))
      BY <3>1 DEF Acceptance, Accepting
    <3>3. /\ Len(fromHarness) \in Nat /\ 1 \in 1..Len(fromHarness) /\ Head(fromHarness) = fromHarness[1]
          /\ Len(fromHarness') = Len(fromHarness) - 1
          /\ \A i \in 1..Len(fromHarness') :
               i + 1 \in 1..Len(fromHarness) /\ fromHarness'[i] = fromHarness[i + 1]
      BY <1>1, <3>1, TailAt
    <3>4. ~N(Head(fromHarness))
      BY <2>3, <3>3
    <3>5. ASSUME NEW j \in 1..Len(fromHarness), C(fromHarness[j])
          PROVE  j - 1 \in 1..Len(fromHarness') /\ fromHarness'[j - 1] = fromHarness[j]
      <4>1. j # 1
        BY <3>2, <3>3, <3>5
      <4>2. j - 1 \in 1..Len(fromHarness')
        BY <3>3, <4>1
      <4> QED
        BY <3>3, <4>2
    <3>6. ASSUME NEW i \in 1..Len(fromHarness'), N(fromHarness'[i])
          PROVE  \E j \in 1..Len(fromHarness') : j < i /\ C(fromHarness'[j])
      <4>1. PICK j \in 1..Len(fromHarness) : j < i + 1 /\ C(fromHarness[j])
        BY <2>3, <3>3, <3>6
      <4>2. j - 1 < i
        BY <4>1
      <4> QED
        BY <3>5, <4>1, <4>2
    <3> QED
      BY <2>3, <3>1, <3>4, <3>5, <3>6
  <2>5. CASE Speaks
    <3>1. PICK type \in HarnessTypes, n \in {0, h.turn, h.stale} :
              /\ Says(type, n)
              /\ type \in {"status", "ask"} => h.accepted /\ n = h.turn
              /\ h'.accepted => h'.turn = h.turn
              /\ h'.accepted => h.accepted \/ (type \in Accepting /\ n = h.turn)
      BY <2>5, SpeaksOf DEF TypeInv
    <3>2. fromHarness' = Append(fromHarness, Frame(type, n)) /\ frame' = frame
      BY <3>1 DEF Says, harnessFrame, reader
    <3>3. /\ Frame(type, n).type = type /\ Frame(type, n).turn = n
          /\ Frame(type, n) \in Of(HarnessTypes)
      <4>1. n \in Number
        BY FrameTypes DEF TypeInv, HarnessOK
      <4> QED
        BY <4>1, FrameTypes
    <3>4. /\ Len(fromHarness) \in Nat /\ Len(fromHarness') = Len(fromHarness) + 1
          /\ fromHarness'[Len(fromHarness) + 1] = Frame(type, n)
          /\ \A i \in 1..Len(fromHarness) : fromHarness'[i] = fromHarness[i]
      BY <1>1, <3>2, <3>3, AppendAt
    <3>5. ASSUME NEW i \in 1..Len(fromHarness'), N(fromHarness'[i])
          PROVE  \E j \in 1..Len(fromHarness') : j < i /\ C(fromHarness'[j])
      <4>1. CASE i \in 1..Len(fromHarness)
        <5>1. PICK j \in 1..Len(fromHarness) : j < i /\ C(fromHarness[j])
          BY <2>3, <3>4, <3>5, <4>1
        <5>2. j \in 1..Len(fromHarness') /\ fromHarness'[j] = fromHarness[j]
          BY <3>4
        <5> QED
          BY <5>1, <5>2
      <4>2. CASE i = Len(fromHarness) + 1
        <5>1. h.accepted /\ h.turn = activeTurn'
          BY <3>1, <3>3, <3>4, <3>5, <4>2
        <5>2. PICK j \in 1..Len(fromHarness) : C(fromHarness[j])
          BY <2>3, <5>1
        <5>3. j \in 1..Len(fromHarness') /\ fromHarness'[j] = fromHarness[j] /\ j < i
          BY <3>4, <4>2
        <5> QED
          BY <5>2, <5>3
      <4> QED
        BY <3>4, <4>1, <4>2
    <3>6. ASSUME h'.accepted, h'.turn = activeTurn'
          PROVE  \E j \in 1..Len(fromHarness') : C(fromHarness'[j])
      <4>0. h.turn = activeTurn' /\ (h.accepted \/ (type \in Accepting /\ n = h.turn))
        <5>1. h'.turn = h.turn /\ (h.accepted \/ (type \in Accepting /\ n = h.turn))
          BY <3>1, <3>6
        <5> QED
          BY <3>6, <5>1
      <4>1. CASE h.accepted
        <5>1. PICK j \in 1..Len(fromHarness) : C(fromHarness[j])
          BY <2>3, <4>0, <4>1
        <5>2. j \in 1..Len(fromHarness') /\ fromHarness'[j] = fromHarness[j]
          BY <3>4
        <5> QED
          BY <5>1, <5>2
      <4>2. CASE ~h.accepted
        <5>1. C(Frame(type, n)) /\ Len(fromHarness) + 1 \in 1..Len(fromHarness')
          BY <3>3, <3>4, <4>0, <4>2
        <5> QED
          BY <3>4, <5>1
      <4> QED
        BY <4>1, <4>2
    <3> QED
      BY <2>3, <3>2, <3>5, <3>6
  <2>6. CASE ~ReadFrame /\ ~Speaks
    <3>1. fromHarness' = fromHarness /\ (h'.accepted => h.accepted /\ h'.turn = h.turn)
      <4>1. CASE HRead
        BY <4>1, HeardTurn DEF HRead, TypeInv
      <4>2. CASE Send \/ Hello
        BY <4>2 DEF Send, Hello, harness, readerFrame
      <4> QED
        BY <2>6, <4>1, <4>2, PipesKept DEF TypeInv
    <3>2. frame' \in {frame, NoFrame}
      BY <2>6, FrameKept
    <3> QED
      BY <1>2, <2>3, <3>1, <3>2
  <2> QED
    BY <2>4, <2>5, <2>6
<1> QED
  BY <1>3, <1>4

\* A step that delivers nothing and takes no output.
LEMMA StopFrame ==
  ASSUME StopInv, UNCHANGED <<stray, late, how>>, cancelled \subseteq cancelled',
         closing => closing',
         pend'["owner"] = pend["owner"] \/ pend'["owner"].type \in {"none", "TRANSPORT"},
         pend'["reader"] = pend["reader"] \/ ~Out(pend'["reader"]),
         state' = "ACTIVE" /\ ~accepted' =>
           state = "ACTIVE" /\ ~accepted /\ activeTurn' = activeTurn
  PROVE  StopInv'
<1>1. ~stray' /\ \A t \in Turns : late'[t] <= 1
  BY DEF StopInv
<1>2. pend'["owner"].type \in {"none", "TRANSPORT"}
  BY DEF StopInv
<1>3. ASSUME ~closing'
      PROVE  /\ \A t \in Turns : t \notin cancelled' => late'[t] = 0
             /\ Out(pend'["reader"]) => /\ late'[pend'["reader"].turn] = 0
                                        /\ how'[pend'["reader"].turn] \in {"none", "TRANSPORT"}
             /\ state' = "ACTIVE" /\ ~accepted' =>
                  /\ late'[activeTurn'] = 0
                  /\ ~(Out(pend'["reader"]) /\ pend'["reader"].turn = activeTurn')
  BY <1>3 DEF StopInv
<1> QED
  BY <1>1, <1>2, <1>3 DEF StopInv, Out

\* The reader takes output, or a notice, of the active turn.
LEMMA StopTakes ==
  ASSUME TypeInv, TurnInv, HonourInv, StopInv, UNCHANGED <<stray, late, how, cancelled, closing, state, activeTurn>>,
         NEW type \in EventTypes \ EndTypes, state = "ACTIVE", accepted',
         pend' = [pend EXCEPT !["reader"] = Frame(type, activeTurn)],
         ~cancelRequested \/ ~accepted
  PROVE  StopInv'
<1>1. /\ pend \in [Threads -> Events] /\ activeTurn \in Turns
      /\ pend'["owner"] = pend["owner"]
      /\ pend'["reader"].turn = activeTurn
  BY FrameTypes DEF TypeInv, ReaderOK, SendingInv, Threads
<1>2. ASSUME ~closing PROVE late[activeTurn] = 0 /\ how[activeTurn] = "none"
  <2>1. ends[activeTurn] = 0
    BY <1>1, <1>2 DEF TurnInv, TurnEndsOnce
  <2>2. how[activeTurn] = "none"
    BY <1>1, <1>2, <2>1 DEF HonourInv
  <2>3. CASE ~accepted
    BY <1>2, <2>2, <2>3 DEF StopInv
  <2>4. CASE ~cancelRequested
    BY <1>1, <1>2, <2>2, <2>4 DEF StopInv, HonourInv
  <2> QED
    BY <2>3, <2>4
<1> QED
  BY <1>1, <1>2 DEF StopInv, Out

LEMMA StopDeliver ==
  ASSUME TypeInv, StopInv, NEW t \in Threads, Deliver(pend[t]),
         pend' = [pend EXCEPT ![t] = NoFrame],
         UNCHANGED <<state, activeTurn, accepted, closing, cancelled>>
  PROVE  StopInv'
<1>1. /\ pend \in [Threads -> Events] /\ late \in [Turns -> Nat]
      /\ how \in [Turns -> EndTypes \union {"none"}] /\ stray \in BOOLEAN
      /\ pend'[t] = NoFrame /\ NoFrame.type = "none" /\ ~Out(NoFrame)
      /\ \A th \in Threads : th # t => pend'[th] = pend[th]
      /\ "owner" \in Threads /\ "reader" \in Threads
  BY FrameTypes DEF TypeInv, ReaderOK, HistoryOK, Threads, Out
<1>2. pend[t].turn # 0 => pend[t].turn \in Turns
  BY <1>1, FrameTypes
<1>3. CASE closing \/ pend[t].turn = 0
  <2>1. UNCHANGED <<stray, late, how>>
    BY <1>3 DEF Deliver, told
  <2> QED
    BY <1>1, <2>1, StopFrame DEF Threads
<1>4. CASE ~closing /\ pend[t].turn # 0 /\ Ends(t)
  <2>1. UNCHANGED <<late, stray>> /\ how' = [how EXCEPT ![pend[t].turn] = pend[t].type]
    BY <1>4 DEF Deliver, Ends
  <2>2. CASE t = "reader"
    BY <1>1, <2>1, <2>2 DEF StopInv, Threads
  <2>3. CASE t = "owner"
    <3>1. pend[t].type = "TRANSPORT"
      BY <1>4, <2>3 DEF StopInv, Ends, EndTypes
    <3>2. Out(pend["reader"]) => how'[pend["reader"].turn] \in {"none", "TRANSPORT"}
      <4>1. Out(pend["reader"]) => pend["reader"].turn \in Turns
        BY <1>1, FrameTypes DEF Out
      <4> QED
        BY <1>1, <1>2, <1>4, <2>1, <3>1, <4>1 DEF StopInv
    <3>3. pend'["reader"] = pend["reader"]
      BY <1>1, <2>3
    <3> QED
      BY <1>1, <1>4, <2>1, <2>3, <3>2, <3>3 DEF StopInv, Out
  <2> QED
    BY <2>2, <2>3 DEF Threads
<1>5. CASE ~closing /\ pend[t].turn # 0 /\ ~Ends(t)
  <2>1. t = "reader"
    <3>1. \A e \in Events : e.type = "none" => e.turn = 0
      BY FrameTypes DEF Events, Of, EventTypes, EndTypes
    <3>2. pend[t].type \notin {"none", "TRANSPORT"}
      BY <1>1, <1>5, <3>1 DEF Ends, EndTypes
    <3> QED
      BY <3>2 DEF StopInv, Threads
  <2>2. /\ late' = [late EXCEPT ![pend[t].turn] = IF pend[t].turn \in cancelled THEN @ + 1 ELSE @]
        /\ stray' = (stray \/ how[pend[t].turn] \in EndTypes \ {"TRANSPORT"})
        /\ how' = how
    BY <1>5 DEF Deliver, Ends
  <2>3. Out(pend[t]) /\ late[pend[t].turn] = 0 /\ how[pend[t].turn] \in {"none", "TRANSPORT"}
    BY <1>5, <2>1 DEF StopInv, Out, Ends
  <2>4. ~stray'
    BY <2>2, <2>3 DEF StopInv, EndTypes
  <2>5. \A u \in Turns : late'[u] = IF u = pend[t].turn THEN (IF u \in cancelled THEN 1 ELSE 0) ELSE late[u]
    BY <1>1, <2>2, <2>3
  <2>6. state = "ACTIVE" /\ ~accepted => activeTurn \in Turns /\ activeTurn # pend[t].turn
    BY <1>5, <2>1, <2>3 DEF StopInv, TypeInv, SendingInv
  <2>7. \A u \in Turns : late'[u] <= 1 /\ (u \notin cancelled => late'[u] = 0)
    BY <1>5, <2>5 DEF StopInv
  <2>8. state = "ACTIVE" /\ ~accepted => late'[activeTurn] = 0
    BY <1>5, <2>5, <2>6 DEF StopInv
  <2>9. pend'["owner"] = pend["owner"] /\ ~Out(pend'["reader"])
    BY <1>1, <2>1
  <2> QED
    BY <2>4, <2>7, <2>8, <2>9 DEF StopInv, Out
<1> QED
  BY <1>3, <1>4, <1>5

LEMMA StopAccept ==
  ASSUME TypeInv, PendInv, TurnInv, HonourInv, AnswerInv, NoticeInv, StopInv, Accept
  PROVE  StopInv'
<1> USE DEF readerFrame, acceptFrame, owner, harness, told, agent
<1>1. /\ UNCHANGED <<stray, late, how, cancelled, closing>>
  BY DEF Accept, AcceptReady, AcceptModels, AcceptNotice, AcceptTurn, AcceptDelta, AcceptPcm,
     AcceptDone, AcceptError, EndTurn
<1>2. pend \in [Threads -> Events] /\ "reader" \in Threads /\ "owner" \in Threads
  BY DEF TypeInv, ReaderOK, Threads
<1>3. \A type, n : Frame(type, n).type = type /\ Frame(type, n).turn = n
  BY FrameTypes
<1>4. CASE AcceptReady \/ AcceptModels
  <2>1. frame.turn = 0 /\ (state' = "ACTIVE" => state = "ACTIVE") /\ UNCHANGED <<accepted, activeTurn>>
    BY <1>4 DEF AcceptReady, AcceptModels, AnswerInv
  <2>2. pend' = pend \/ \E type : pend' = [pend EXCEPT !["reader"] = Frame(type, frame.turn)]
    BY <1>4 DEF AcceptReady, AcceptModels, Emits, Invalid
  <2>3. /\ pend'["owner"] = pend["owner"]
        /\ pend'["reader"] = pend["reader"] \/ ~Out(pend'["reader"])
    BY <1>2, <1>3, <2>1, <2>2 DEF Out
  <2> QED
    BY <1>1, <2>1, <2>3, StopFrame
<1>5. CASE AcceptDone \/ AcceptError
  <2>1. PICK type \in EndTypes : EndTurn(type)
    BY <1>5 DEF AcceptDone, AcceptError, EndTypes
  <2>2. pend' = pend \/ pend' = [pend EXCEPT !["reader"] = Frame(type, frame.turn)]
    BY <2>1 DEF EndTurn, Emits, Ignored
  <2>3. /\ pend'["owner"] = pend["owner"]
        /\ pend'["reader"] = pend["reader"] \/ ~Out(pend'["reader"])
    BY <1>2, <1>3, <2>2 DEF Out
  <2>4. state' = "ACTIVE" => state = "ACTIVE" /\ UNCHANGED <<accepted, activeTurn>>
    BY <2>1 DEF EndTurn
  <2> QED
    BY <1>1, <2>3, <2>4, StopFrame
<1>6. CASE AcceptNotice \/ AcceptTurn \/ AcceptDelta \/ AcceptPcm
  <2>1. UNCHANGED <<state, activeTurn>>
    BY <1>6 DEF AcceptNotice, AcceptTurn, AcceptDelta, AcceptPcm
  <2>2. \/ pend' = pend /\ accepted' = accepted
        \/ \E type \in EventTypes \ EndTypes :
             /\ state = "ACTIVE" /\ accepted' /\ (~cancelRequested \/ ~accepted)
             /\ pend' = [pend EXCEPT !["reader"] = Frame(type, activeTurn)]
    <3>1. {"STATUS", "APPROVAL", "ACCEPTED", "OUTPUT"} \subseteq EventTypes \ EndTypes
      BY DEF EventTypes, EndTypes
    <3>2. CASE AcceptNotice
      <4>1. CASE OnTurn /\ ~cancelRequested
        <5>1. accepted
          BY <3>2, <4>1 DEF AcceptNotice, NoticeInv, Notice, Acceptance, OnTurn
        <5> QED
          BY <3>1, <3>2, <4>1, <5>1 DEF AcceptNotice, Emits, OnTurn
      <4>2. CASE ~(OnTurn /\ ~cancelRequested)
        BY <3>2, <4>2 DEF AcceptNotice
      <4> QED
        BY <4>1, <4>2
    <3>3. CASE AcceptTurn
      <4>1. CASE OnTurn /\ ~accepted
        BY <3>1, <3>3, <4>1 DEF AcceptTurn, Emits, OnTurn
      <4>2. CASE ~(OnTurn /\ ~accepted)
        BY <3>3, <4>2 DEF AcceptTurn, Ignored
      <4> QED
        BY <4>1, <4>2
    <3>4. CASE AcceptDelta \/ AcceptPcm
      <4>1. CASE pend' = pend
        BY <3>4, <4>1 DEF AcceptDelta, AcceptPcm
      <4>2. CASE pend' # pend
        BY <3>1, <3>4, <4>2 DEF AcceptDelta, AcceptPcm, TakesDelta, Emits, OnTurn, Ignored, Invalid
      <4> QED
        BY <4>1, <4>2
    <3> QED
      BY <1>6, <3>2, <3>3, <3>4
  <2>3. CASE pend' = pend /\ accepted' = accepted
    BY <1>1, <2>1, <2>3, StopFrame
  <2> QED
    BY <1>1, <2>1, <2>2, <2>3, StopTakes
<1> QED
  BY <1>4, <1>5, <1>6 DEF Accept

LEMMA StopStep ==
  TypeInv /\ PendInv /\ TurnInv /\ HonourInv /\ FreshInv /\ AnswerInv /\ NoticeInv /\ StopInv
    /\ [Next]_vars => StopInv'
<1> SUFFICES ASSUME TypeInv, PendInv, TurnInv, HonourInv, FreshInv, AnswerInv, NoticeInv, StopInv,
                    [Next]_vars
             PROVE  StopInv'
  OBVIOUS
<1> USE DEF agent, vars, ownerFrame, readerFrame, owner, reader, pipes, harness, told
<1>1. "owner" \in Threads /\ "reader" \in Threads /\ pend \in [Threads -> Events]
  BY DEF Threads, TypeInv, ReaderOK
<1>2. CASE Submit
  <2>1. /\ activeTurn' = nextTurn + 1 /\ UNCHANGED <<stray, late, how, closing, pend, cancelled>>
        /\ ~closing
    BY <1>2 DEF Submit, PendInv
  <2>2. nextTurn + 1 \in Turns /\ nextTurn \in Nat
    BY <1>2, TransportAssumption DEF Submit, TypeInv, AgentOK, Number, Turns
  <2>3. nextTurn + 1 \notin cancelled /\ pend["reader"].turn # nextTurn + 1
    BY <1>1, <2>1, <2>2 DEF HonourInv, FreshInv
  <2>4. late[nextTurn + 1] = 0
    BY <2>1, <2>2, <2>3 DEF StopInv
  <2> QED
    BY <2>1, <2>3, <2>4 DEF StopInv, Out
<1>3. CASE OwnerEmit
  BY <1>1, <1>3, StopDeliver DEF OwnerEmit
<1>4. CASE ReaderEmit \/ ReaderLastEmit
  BY <1>1, <1>4, StopDeliver DEF ReaderEmit, ReaderLastEmit
<1>5. CASE Accept
  BY <1>5, StopAccept
<1>6. CASE ~(Submit \/ OwnerEmit \/ ReaderEmit \/ ReaderLastEmit \/ Accept)
  <2>1. state' = "ACTIVE" /\ ~accepted' => state = "ACTIVE" /\ ~accepted /\ activeTurn' = activeTurn
    BY <1>6, ActiveKept
  <2>2. CASE OwnerFail \/ ReaderFail
    <3>1. /\ UNCHANGED <<stray, late, how, cancelled, closing>>
          /\ \/ pend' = pend
             \/ \E th \in Threads : pend' = [pend EXCEPT ![th] = Frame("TRANSPORT", activeTurn)]
      BY <1>1, <2>2 DEF OwnerFail, ReaderFail, Fail
    <3>2. ~Out(Frame("TRANSPORT", activeTurn)) /\ Frame("TRANSPORT", activeTurn).type = "TRANSPORT"
      BY FrameTypes DEF Out, EndTypes
    <3>3. /\ pend'["owner"] = pend["owner"] \/ pend'["owner"].type \in {"none", "TRANSPORT"}
          /\ pend'["reader"] = pend["reader"] \/ ~Out(pend'["reader"])
      BY <1>1, <3>1, <3>2
    <3> QED
      BY <2>1, <3>1, <3>3, StopFrame
  <2>3. CASE ~(OwnerFail \/ ReaderFail)
    <3>1. UNCHANGED <<stray, late, how, pend>> /\ cancelled \subseteq cancelled' /\ (closing => closing')
      <4>1. CASE Call
        BY <1>6, <4>1 DEF Call, ListModels, ApproveTool, Cancel, Close
      <4>2. CASE Continue
        <5>1. CASE Send \/ SendFails \/ OwnerTerminate
          BY <5>1 DEF Send, SendFails, OwnerTerminate
        <5>2. CASE CloseIo \/ CloseState
          <6>1. UNCHANGED <<stray, late, how, pend, cancelled, closing>>
            BY <5>2 DEF CloseIo, CloseState
          <6> QED
            BY <6>1
        <5>3. CASE CloseJob \/ CloseJoin
          BY <5>3 DEF CloseJob, CloseJoin
        <5> QED
          BY <1>6, <2>3, <4>2, <5>1, <5>2, <5>3 DEF Continue
      <4>3. CASE Reader
        BY <1>6, <2>3, <4>3 DEF Reader, Connect, Connected, Hello, ReadIssue, ReadFrame, ReadFails,
           ReaderStops, ReaderTerminate
      <4>4. CASE Harness \/ HDie \/ HHang \/ UNCHANGED vars
        BY <4>4, HarnessLeaves
      <4> QED
        BY <4>1, <4>2, <4>3, <4>4 DEF Next
    <3> QED
      BY <2>1, <3>1, StopFrame
  <2> QED
    BY <2>2, <2>3
<1> QED
  BY <1>2, <1>3, <1>4, <1>5, <1>6

\* The invariant behind cancels that are kept to by both sides.
THEOREM CancelInvariant ==
  Spec => [](/\ TypeInv /\ PendInv /\ TurnInv /\ HonourInv
             /\ FreshInv /\ AnswerInv /\ NoticeInv /\ StopInv)
<1>1. Init => HonourInv
  BY FrameTypes DEF Init, HonourInv, Ends, EndTypes
<1>2. Init => FreshInv /\ AnswerInv /\ NoticeInv /\ StopInv
  <2> SUFFICES ASSUME Init PROVE FreshInv /\ AnswerInv /\ NoticeInv /\ StopInv
    OBVIOUS
  <2>1. /\ NoFrame.type = "none" /\ NoFrame.turn = 0
        /\ pend["owner"] = NoFrame /\ pend["reader"] = NoFrame
    BY FrameTypes DEF Init, Threads
  <2>2. FreshInv
    BY <2>1 DEF Init, FreshInv, UpTo, Idle, Threads
  <2>3. AnswerInv /\ NoticeInv
    BY <2>1 DEF Init, AnswerInv, NoticeInv
  <2>4. StopInv
    BY <2>1 DEF Init, StopInv, Out
  <2> QED
    BY <2>2, <2>3, <2>4
<1> QED
  BY <1>1, <1>2, HonourStep, FreshStep, AnswerStep, NoticeStep, StopStep, TurnInvariant, PTL DEF Spec

\* A cancel is kept to by both sides: the turn does not end as if it had not been
\* cancelled, and after the cancel returned at most the one event is delivered
\* that the reader had already taken (dio_agent_cancel, dio_accept_control,
\* dio_accept_pcm16).
THEOREM CancelIsSound == Spec => []CancelSound
<1>1. HonourInv /\ StopInv => CancelSound
  BY DEF HonourInv, StopInv, CancelSound, CancelHonoured, OutputStops, Kept
<1> QED
  BY <1>1, CancelInvariant, PTL

--------------------------------------------------------------------------------
(* Failures that have a cause *)

Running == state \in {"STARTING", "READY", "ACTIVE"}

\* What the client has yet to take: the frame it has read, and the pipe.
Places == 0..Len(fromHarness)
In(i) == IF i = 0 THEN frame ELSE fromHarness[i]

Dones == {"done", "doneCancelled", "error"}
Notices == {"status", "ask"}

\* Only a request that starts a turn starts one, and only lists and hellos are
\* of no turn.
WordsInv ==
  /\ \A i \in 1..Len(sending) : /\ sending[i].type # "hello"
                                /\ sending[i].turn = 0 => sending[i].type = "list"
                                /\ sending[i].type = "start" => i = 1
  /\ \A i \in 1..Len(toHarness) : toHarness[i].turn = 0 => toHarness[i].type \in {"list", "hello"}

\* A step in which no frame moves.
Quiet ==
  /\ UNCHANGED <<toHarness, fromHarness, frame, activeTurn, accepted, audio, h.turn, h.stale,
                 h.accepted, h.audio, h.owes>>
  /\ state' \in {state, "FAILED", "CLOSING"}
  /\ h'.phase = h.phase \/ {h.phase, h'.phase} \subseteq {"launched", "greeting"}
  /\ sending' = sending \/ \A i \in 1..Len(sending') : sending'[i].type \notin {"start", "hello"}
  /\ rpc' \in {"connect", "connecting", "hello"} => rpc \in {"connect", "connecting", "hello"}

LEMMA QuietStep ==
  ASSUME TypeInv, [Next]_vars
  PROVE  Submit \/ Send \/ Hello \/ ReadFrame \/ Accept \/ HRead \/ Speaks \/ Quiet
<1> USE DEF agent, vars, ownerFrame, readerFrame, harnessFrame, owner, reader, pipes, harness, told,
            TypeInv
<1>1. CASE ListModels \/ ApproveTool \/ Cancel
  <2>1. \A c : \A n : Len(<<Frame(c, n)>>) = 1 /\ <<Frame(c, n)>>[1].type = c
    BY FrameTypes
  <2>2. sending' = sending \/ \A i \in 1..Len(sending') : sending'[i].type \notin {"start", "hello"}
    BY <1>1, <2>1 DEF ListModels, ApproveTool, Cancel
  <2>3. UNCHANGED <<toHarness, fromHarness, frame, activeTurn, accepted, audio, h, state, rpc>>
    BY <1>1 DEF ListModels, ApproveTool, Cancel
  <2> QED
    BY <2>2, <2>3 DEF Quiet
<1>2. CASE Close
  BY <1>2 DEF Close, Quiet
<1>3. CASE Continue /\ ~Send
  <2>1. CASE SendFails
    BY <2>1 DEF SendFails, Quiet
  <2>2. CASE OwnerFail
    BY <2>2 DEF OwnerFail, Fail, Quiet
  <2>3. CASE CloseIo \/ CloseState \/ CloseJob \/ CloseJoin
    BY <2>3 DEF CloseIo, CloseState, CloseJob, CloseJoin, Quiet
  <2> QED
    BY <1>3, <2>1, <2>2, <2>3 DEF Continue, OwnerTerminate, OwnerEmit, Quiet
<1>4. CASE Reader /\ ~Hello /\ ~ReadFrame /\ ~Accept
  <2>1. CASE ReaderFail
    BY <2>1 DEF ReaderFail, Fail, Quiet
  <2> QED
    BY <1>4, <2>1 DEF Reader, Connect, Connected, ReadIssue, ReadFails, ReaderEmit, ReaderStops,
       ReaderTerminate, ReaderLastEmit, Quiet
<1>5. CASE HConnect
  BY <1>5 DEF HConnect, HarnessOK, Quiet
<1>6. CASE HDie \/ HHang \/ UNCHANGED vars
  BY <1>6 DEF HDie, HHang, Quiet
<1> QED
  BY <1>1, <1>2, <1>3, <1>4, <1>5, <1>6 DEF Next, Call, Harness, Speaks

\* How frames move towards the client.
LEMMA PlacesStep ==
  ASSUME TypeInv, [Next]_vars
  PROVE  /\ Len(fromHarness) \in Nat /\ Len(fromHarness') \in Nat
         /\ ReadFrame => /\ Len(fromHarness) = Len(fromHarness') + 1
                         /\ \A i \in 0..Len(fromHarness') :
                              /\ i + 1 \in 0..Len(fromHarness)
                              /\ In(i + 1) = IF i = 0 THEN frame' ELSE fromHarness'[i]
         /\ Accept => fromHarness' = fromHarness /\ frame' = NoFrame
         /\ ~ReadFrame /\ ~Speaks /\ ~Accept => fromHarness' = fromHarness /\ frame' = frame
<1>1. /\ fromHarness \in Seq(Of(HarnessTypes)) /\ Len(fromHarness) \in Nat
      /\ Len(fromHarness') \in Nat
  BY PipesStep DEF TypeInv, PipesOK
<1>2. ASSUME ReadFrame
      PROVE  /\ Len(fromHarness) = Len(fromHarness') + 1
             /\ \A i \in 0..Len(fromHarness') :
                  /\ i + 1 \in 0..Len(fromHarness)
                  /\ In(i + 1) = IF i = 0 THEN frame' ELSE fromHarness'[i]
  <2>1. fromHarness # <<>> /\ frame' = Head(fromHarness) /\ fromHarness' = Tail(fromHarness)
    BY <1>2 DEF ReadFrame
  <2>2. /\ frame' = fromHarness[1] /\ Len(fromHarness') = Len(fromHarness) - 1
        /\ 1 \in 1..Len(fromHarness)
        /\ \A i \in 1..Len(fromHarness') :
             i + 1 \in 1..Len(fromHarness) /\ fromHarness'[i] = fromHarness[i + 1]
    BY <1>1, <2>1, TailAt
  <2>3. ASSUME NEW i \in 0..Len(fromHarness')
        PROVE  /\ i + 1 \in 0..Len(fromHarness)
               /\ In(i + 1) = IF i = 0 THEN frame' ELSE fromHarness'[i]
    BY <1>1, <2>2, <2>3 DEF In
  <2> QED
    BY <1>1, <2>2, <2>3
<1>3. Accept => fromHarness' = fromHarness /\ frame' = NoFrame
  BY DEF Accept, AcceptReady, AcceptModels, AcceptNotice, AcceptTurn, AcceptDelta, AcceptPcm,
     AcceptDone, AcceptError, EndTurn, Consumed, acceptFrame, pipes
<1>4. ~ReadFrame /\ ~Speaks /\ ~Accept => fromHarness' = fromHarness /\ frame' = frame
  <2>1. Send \/ Hello \/ HRead => fromHarness' = fromHarness
    BY DEF Send, Hello, HRead
  <2>2. Speaks => frame' = frame
    BY HarnessLeaves DEF Speaks, Harness, reader
  <2> QED
    BY <2>1, <2>2, PipesKept, FrameKept DEF TypeInv
<1> QED
  BY <1>1, <1>2, <1>3, <1>4

Busy == {"started", "working", "asking"}

\* The frame said is the last one, and what it is tells of the harness.
Said(type, n) ==
  /\ UNCHANGED <<toHarness, frame, state, activeTurn, accepted, audio, sending, rpc>>
  /\ Len(fromHarness') = Len(fromHarness) + 1
  /\ fromHarness'[Len(fromHarness) + 1] = Frame(type, n)
  /\ \A i \in 1..Len(fromHarness) : fromHarness'[i] = fromHarness[i]
  /\ h'.phase \in Busy <=> h'.turn # 0
  /\ "ready" \in h'.owes => type # "ready" /\ "ready" \in h.owes
  /\ type = "ready" => "ready" \in h.owes
  /\ type \in {"ready", "models"} => n = 0
  /\ type \in Accepting \union Notices \union Dones => n = h.turn /\ h.turn # 0
  /\ type \in Accepting => ~h.accepted /\ h'.accepted /\ h'.audio = (type = "acceptedAudio")
  /\ type \notin Accepting => h'.accepted = h.accepted \/ h'.turn = 0
  /\ type \notin Accepting => h'.audio = h.audio \/ h'.turn = 0
  /\ type \in Dones => h'.turn = 0 /\ h'.stale \in {0, h.turn}
  /\ type \notin Dones => h'.turn = h.turn /\ h'.stale \in {0, h.stale}
  /\ type \in {"delta", "pcm"} =>
       \/ n = h.stale /\ h.stale # 0
       \/ n = h.turn /\ h.turn # 0 /\ h.accepted /\ (type = "pcm" => h.audio)

LEMMA SaidStep ==
  ASSUME TypeInv, h.phase \in Busy <=> h.turn # 0, Speaks
  PROVE  \E type \in HarnessTypes : \E n \in {0, h.turn, h.stale} : Said(type, n)
<1> USE DEF TypeInv
<1>1. /\ fromHarness \in Seq(Of(HarnessTypes)) /\ Len(fromHarness) \in Nat
  BY DEF PipesOK
<1>2. UNCHANGED <<frame, state, activeTurn, accepted, audio, sending, rpc>>
  BY HarnessLeaves DEF Speaks, Harness, reader, agent, owner
<1>3. ASSUME NEW type \in HarnessTypes, NEW n \in {0, h.turn, h.stale}, Says(type, n)
      PROVE  /\ UNCHANGED toHarness
             /\ Len(fromHarness') = Len(fromHarness) + 1
             /\ fromHarness'[Len(fromHarness) + 1] = Frame(type, n)
             /\ \A i \in 1..Len(fromHarness) : fromHarness'[i] = fromHarness[i]
  <2>1. fromHarness' = Append(fromHarness, Frame(type, n)) /\ UNCHANGED toHarness
    BY <1>3 DEF Says
  <2>2. Frame(type, n) \in Of(HarnessTypes)
    <3>1. n \in Number
      BY FrameTypes DEF HarnessOK
    <3> QED
      BY <3>1, FrameTypes
  <2> QED
    BY <1>1, <2>1, <2>2, AppendAt
<1> USE DEF Accepting, Notices, Dones, Busy, HarnessTypes
<1>4. CASE HReply
  <2>1. PICK type \in h.owes : Says(type, 0) /\ h' = [h EXCEPT !.owes = @ \ {type}]
    BY <1>4 DEF HReply
  <2>2. type \in {"ready", "models"}
    BY DEF HarnessOK
  <2>3. /\ h'.turn = h.turn /\ h'.stale = h.stale /\ h'.accepted = h.accepted /\ h'.audio = h.audio
        /\ h'.phase = h.phase /\ h'.owes = h.owes \ {type}
    BY <2>1 DEF HarnessOK
  <2>4. Said(type, 0)
    BY <1>2, <1>3, <2>1, <2>2, <2>3 DEF Said
  <2> QED
    BY <2>2, <2>4
<1>5. CASE HAccept
  <2>1. PICK a \in BOOLEAN : /\ Says(IF a THEN "acceptedAudio" ELSE "accepted", h.turn)
                             /\ h' = [h EXCEPT !.accepted = TRUE, !.audio = a]
    BY <1>5 DEF HAccept
  <2>2. /\ h'.turn = h.turn /\ h'.stale = h.stale /\ h'.accepted /\ h'.audio = a
        /\ h'.phase = h.phase /\ h'.owes = h.owes
    BY <2>1 DEF HarnessOK
  <2>3. h.turn # 0 /\ ~h.accepted
    BY <1>5 DEF HAccept
  <2>4. CASE a
    <3>1. Said("acceptedAudio", h.turn)
      BY <1>2, <1>3, <2>1, <2>2, <2>3, <2>4 DEF Said
    <3> QED
      BY <3>1
  <2>5. CASE ~a
    <3>1. Said("accepted", h.turn)
      BY <1>2, <1>3, <2>1, <2>2, <2>3, <2>5 DEF Said
    <3> QED
      BY <3>1
  <2> QED
    BY <2>4, <2>5
<1>6. CASE HOutput
  <2>1. PICK type \in {"delta", "status"} \union IF h.audio THEN {"pcm"} ELSE {} : Says(type, h.turn)
    BY <1>6 DEF HOutput
  <2>2. h' = h /\ h.turn # 0 /\ h.accepted
    BY <1>6 DEF HOutput
  <2>3. type \in {"delta", "status", "pcm"} /\ (type = "pcm" => h.audio)
    OBVIOUS
  <2>4. Said(type, h.turn)
    BY <1>2, <1>3, <2>1, <2>2, <2>3 DEF Said
  <2> QED
    BY <2>3, <2>4
<1>7. CASE HAsk
  <2>1. Says("ask", h.turn) /\ h' = [h EXCEPT !.phase = "asking"] /\ h.turn # 0
    BY <1>7 DEF HAsk
  <2>2. /\ h'.turn = h.turn /\ h'.stale = h.stale /\ h'.accepted = h.accepted /\ h'.audio = h.audio
        /\ h'.phase = "asking" /\ h'.owes = h.owes
    BY <2>1 DEF HarnessOK
  <2>3. Said("ask", h.turn)
    BY <1>2, <1>3, <2>1, <2>2 DEF Said
  <2> QED
    BY <2>3
<1>8. CASE HDone
  <2>1. PICK type \in {"done", "doneCancelled", "error"} : Says(type, h.turn)
    BY <1>8 DEF HDone
  <2>2. /\ h'.turn = 0 /\ h'.stale \in {0, h.turn} /\ h'.phase = "idle" /\ h'.owes = h.owes
        /\ h.turn # 0
    BY <1>8 DEF HDone, HarnessOK
  <2>3. Said(type, h.turn)
    BY <1>2, <1>3, <2>1, <2>2 DEF Said
  <2> QED
    BY <2>3
<1>9. CASE HStale
  <2>1. PICK type \in {"delta", "pcm"} : Says(type, h.stale)
    BY <1>9 DEF HStale
  <2>2. /\ h'.turn = h.turn /\ h'.stale = 0 /\ h'.accepted = h.accepted /\ h'.audio = h.audio
        /\ h'.phase = h.phase /\ h'.owes = h.owes /\ h.stale # 0
    BY <1>9 DEF HStale, HarnessOK
  <2>3. Said(type, h.stale)
    BY <1>2, <1>3, <2>1, <2>2 DEF Said
  <2> QED
    BY <2>3
<1> QED
  BY <1>4, <1>5, <1>6, <1>7, <1>8, <1>9 DEF Speaks

\* What is put into the pipe to the harness.
LEMMA SendStep ==
  ASSUME TypeInv, Send
  PROVE  /\ sending # <<>> /\ 1 \in 1..Len(sending) /\ Head(sending) = sending[1]
         /\ \A i \in 1..Len(sending') : i + 1 \in 1..Len(sending) /\ sending'[i] = sending[i + 1]
         /\ Len(toHarness) \in Nat /\ Len(toHarness') = Len(toHarness) + 1
         /\ toHarness'[Len(toHarness) + 1] = sending[1]
         /\ \A i \in 1..Len(toHarness) : toHarness'[i] = toHarness[i]
         /\ UNCHANGED <<fromHarness, frame, state, activeTurn, accepted, audio, rpc, h>>
<1> USE DEF TypeInv
<1>1. /\ sending # <<>> /\ sending \in Seq(Of(ClientTypes)) /\ toHarness \in Seq(Of(ClientTypes))
      /\ sending' = Tail(sending) /\ toHarness' = Append(toHarness, Head(sending))
  BY DEF Send, SendingInv, OwnerOK, PipesOK
<1>2. Head(sending) \in Of(ClientTypes)
  BY <1>1
<1>3. UNCHANGED <<fromHarness, frame, state, activeTurn, accepted, audio, rpc, h>>
  BY DEF Send, agent, reader, harness
<1> QED
  BY <1>1, <1>2, <1>3, TailAt, AppendAt

\* What the harness takes out of it.
LEMMA HReadStep ==
  ASSUME TypeInv, HRead
  PROVE  /\ 1 \in 1..Len(toHarness) /\ Head(toHarness) = toHarness[1]
         /\ Len(toHarness) \in Nat /\ Len(toHarness') = Len(toHarness) - 1
         /\ \A i \in 1..Len(toHarness') : i + 1 \in 1..Len(toHarness) /\ toHarness'[i] = toHarness[i + 1]
         /\ UNCHANGED <<fromHarness, frame, state, activeTurn, accepted, audio, rpc, sending>>
         /\ h' = Heard(toHarness[1])
<1>1. toHarness # <<>> /\ toHarness \in Seq(Of(ClientTypes)) /\ toHarness' = Tail(toHarness)
      /\ h' = Heard(Head(toHarness))
  BY DEF HRead, TypeInv, PipesOK
<1>2. UNCHANGED <<fromHarness, frame, state, activeTurn, accepted, audio, rpc, sending>>
  BY DEF HRead, harnessFrame, agent, reader, owner
<1> QED
  BY <1>1, <1>2, TailAt

\* What hearing a frame does to the harness.
LEMMA HeardStep ==
  ASSUME HarnessOK, NEW m
  PROVE  /\ Heard(m).stale = h.stale /\ Heard(m).audio = h.audio
         /\ m.type # "hello" => ("ready" \in Heard(m).owes <=> "ready" \in h.owes)
         /\ m.type # "start" => Heard(m).turn = h.turn /\ Heard(m).accepted = h.accepted
         /\ m.type = "start" => /\ Heard(m).turn = m.turn /\ ~Heard(m).accepted
                                /\ Heard(m).phase \in Busy
         /\ m.type \notin {"start", "hello"} =>
              \/ Heard(m).phase = h.phase
              \/ Heard(m).phase = "working" /\ m.type \in {"commit", "approval"} /\ m.turn = h.turn
         /\ m.type = "hello" => Heard(m).phase = "idle"
<1>1. CASE m.type = "start"
  BY <1>1 DEF Heard, HarnessOK, Busy
<1>2. CASE m.type # "start"
  BY <1>2 DEF Heard, HarnessOK, Busy
<1> QED
  BY <1>1, <1>2

LEMMA SubmitStep ==
  ASSUME Submit
  PROVE  /\ Len(sending') = 2
         /\ sending'[1].type = "start" /\ sending'[1].turn = nextTurn + 1
         /\ sending'[2].type = "commit" /\ sending'[2].turn = nextTurn + 1
         /\ state = "READY" /\ state' = "ACTIVE" /\ activeTurn' = nextTurn + 1 /\ ~accepted'
         /\ UNCHANGED <<toHarness, fromHarness, frame, h, rpc>>
<1>1. sending' = <<Frame("start", nextTurn + 1), Frame("commit", nextTurn + 1)>>
  BY DEF Submit
<1> QED
  BY <1>1, FrameTypes DEF Submit, ownerFrame, reader, pipes, harness

LEMMA WordsStep == TypeInv /\ WordsInv /\ [Next]_vars => WordsInv'
<1> SUFFICES ASSUME TypeInv, WordsInv, [Next]_vars PROVE WordsInv'
  OBVIOUS
<1>1. CASE Submit
  <2>1. /\ Len(sending') = 2
        /\ sending'[1].type = "start" /\ sending'[1].turn = nextTurn + 1
        /\ sending'[2].type = "commit" /\ sending'[2].turn = nextTurn + 1
        /\ toHarness' = toHarness
    BY <1>1, SubmitStep
  <2>2. nextTurn + 1 # 0
    BY DEF TypeInv, AgentOK, Number
  <2> QED
    BY <2>1, <2>2 DEF WordsInv
<1>2. CASE Send
  <2>1. \A i \in 1..Len(toHarness') : i \in 1..Len(toHarness) \/ i = Len(toHarness) + 1
    BY <1>2, SendStep
  <2>2. \A i \in 1..Len(toHarness') : toHarness'[i].turn = 0 => toHarness'[i].type \in {"list", "hello"}
    BY <1>2, <2>1, SendStep DEF WordsInv
  <2>3. \A i \in 1..Len(sending') : /\ sending'[i].type # "hello"
                                    /\ sending'[i].turn = 0 => sending'[i].type = "list"
                                    /\ sending'[i].type # "start"
    <3>1. \A i \in 1..Len(sending') : i + 1 \in 1..Len(sending) /\ i + 1 # 1 /\ sending'[i] = sending[i + 1]
      BY <1>2, SendStep
    <3> QED
      BY <3>1 DEF WordsInv
  <2> QED
    BY <2>2, <2>3 DEF WordsInv
<1>3. CASE HRead
  BY <1>3, HReadStep DEF WordsInv
<1>4. CASE Hello
  <2>1. sending' = sending /\ toHarness' \in {toHarness, Append(toHarness, Frame("hello", 0))}
    BY <1>4 DEF Hello, readerFrame, owner
  <2>2. toHarness = <<>> /\ Frame("hello", 0) \in Of(ClientTypes)
    BY <1>4, FrameTypes DEF ClientTypes, Hello, TypeInv, HelloInv
  <2>3. toHarness' = <<>> \/ (Len(toHarness') = 1 /\ toHarness'[1].type = "hello")
    BY <2>1, <2>2, FrameTypes
  <2> QED
    BY <2>1, <2>3 DEF WordsInv
<1>5. CASE ListModels \/ ApproveTool \/ Cancel
  <2>1. \A c : \A n : Len(<<Frame(c, n)>>) = 1 /\ <<Frame(c, n)>>[1].type = c /\ <<Frame(c, n)>>[1].turn = n
    BY FrameTypes
  <2>2. toHarness' = toHarness
    BY <1>5 DEF ListModels, ApproveTool, Cancel, ownerFrame, pipes
  <2>3. ApproveTool => asked # 0
    BY DEF ApproveTool
  <2>4. Cancel => activeTurn # 0
    BY DEF Cancel, TypeInv, SendingInv, Turns
  <2>5. \A i \in 1..Len(sending') : /\ sending'[i].type # "hello"
                                    /\ sending'[i].turn = 0 => sending'[i].type = "list"
                                    /\ sending'[i].type = "start" => i = 1
    BY <1>5, <2>1, <2>3, <2>4 DEF ListModels, ApproveTool, Cancel, WordsInv
  <2> QED
    BY <2>2, <2>5 DEF WordsInv
<1>6. CASE Continue /\ ~Send
  <2>1. toHarness' = toHarness /\ sending' \in {sending, <<>>}
    BY <1>6 DEF Continue, SendFails, OwnerFail, OwnerTerminate, OwnerEmit, CloseIo, CloseState,
       CloseJob, CloseJoin, owner, pipes
  <2> QED
    BY <2>1 DEF WordsInv
<1>7. CASE ~Submit /\ ~Send /\ ~HRead /\ ~Hello /\ ~ListModels /\ ~ApproveTool /\ ~Cancel /\ ~Continue
  <2>1. sending' = sending
    <3>1. CASE Harness \/ HDie \/ HHang \/ UNCHANGED vars
      BY <3>1, HarnessLeaves DEF owner
    <3>2. CASE Reader
      BY <3>2, <1>7 DEF Reader, Accept, Connect, Connected, ReadIssue, ReadFrame, ReadFails, AcceptReady,
       AcceptModels, AcceptNotice, AcceptTurn, AcceptDelta, AcceptPcm, AcceptDone, AcceptError,
       EndTurn, ReaderEmit, ReaderStops, ReaderFail, ReaderTerminate, ReaderLastEmit, readerFrame, acceptFrame, owner
    <3> QED
      BY <1>7, <3>1, <3>2 DEF Next, Call, Close
  <2>2. toHarness' = toHarness
    <3>1. Speaks \/ ReadFrame => toHarness' = toHarness
      BY DEF Speaks, HReply, HAccept, HOutput, HAsk, HDone, HStale, Says, ReadFrame
    <3> QED
      BY <1>7, <3>1, PipesKept DEF TypeInv
  <2> QED
    BY <2>1, <2>2 DEF WordsInv
<1> QED
  BY <1>1, <1>2, <1>3, <1>4, <1>5, <1>6, <1>7

\* A frame that is taken: what it changes, or why it is not a valid one.
Takes ==
  \/ /\ frame.type = "ready" /\ state = "STARTING" /\ state' = "READY"
     /\ UNCHANGED <<activeTurn, accepted, audio>>
  \/ /\ frame.type \in Dones /\ OnTurn /\ state' = "READY"
  \/ /\ frame.type \in Accepting /\ OnTurn /\ ~accepted
     /\ accepted' /\ audio' = (frame.type = "acceptedAudio") /\ UNCHANGED <<state, activeTurn>>
Refused ==
  \/ frame.type = "ready" /\ state # "STARTING"
  \/ frame.type \in Notices /\ ~OnTurn
  \/ frame.type = "pcm" /\ UnexpectedAudio
Passes ==
  /\ UNCHANGED <<state, activeTurn, accepted, audio>>
  /\ ~(frame.type = "ready" /\ state = "STARTING")
  /\ ~(frame.type \in Dones /\ OnTurn)
  /\ ~(frame.type \in Accepting /\ OnTurn /\ ~accepted)

LEMMA TakesStep ==
  ASSUME Accept
  PROVE  /\ UNCHANGED <<toHarness, fromHarness, h, sending, opc, closing, alive>>
         /\ rpc = "accept" /\ rpc' \in {"emit", "read", "fail"} /\ frame' = NoFrame
         /\ Takes \/ Passes
         /\ explained => explained'
         /\ rpc' = "fail" => explained' \/ (Refused /\ Passes)
<1> USE DEF acceptFrame, readerFrame, pipes, owner, harness, Consumed, Accepting, Dones, Notices
<1>1. CASE AcceptReady
  BY <1>1 DEF AcceptReady, Emits, Invalid, Takes, Passes, Refused
<1>2. CASE AcceptModels
  BY <1>2 DEF AcceptModels, Emits, agent, Passes
<1>3. CASE AcceptNotice
  <2>1. CASE OnTurn /\ ~cancelRequested
    BY <1>3, <2>1 DEF AcceptNotice, Emits, agent, Passes
  <2>2. CASE ~(OnTurn /\ ~cancelRequested)
    <3>1. explained' = (explained \/ OnTurn) /\ rpc' = "fail"
      BY <1>3, <2>2 DEF AcceptNotice
    <3>2. explained' \/ ~OnTurn
      BY <3>1, Zenon
    <3>3. explained => explained'
      BY <3>1, Zenon
    <3> QED
      BY <1>3, <2>2, <3>1, <3>2, <3>3 DEF AcceptNotice, agent, Passes, Refused
  <2> QED
    BY <2>1, <2>2
<1>4. CASE AcceptTurn
  BY <1>4 DEF AcceptTurn, Emits, Ignored, Takes, Passes
<1>5. CASE AcceptDelta
  BY <1>5 DEF AcceptDelta, Emits, Ignored, agent, Passes
<1>6. CASE AcceptPcm
  BY <1>6 DEF AcceptPcm, Emits, Ignored, Invalid, agent, Passes, Refused
<1>7. CASE AcceptDone \/ AcceptError
  BY <1>7 DEF AcceptDone, AcceptError, EndTurn, Emits, Ignored, Takes, Passes
<1> QED
  BY <1>1, <1>2, <1>3, <1>4, <1>5, <1>6, <1>7 DEF Accept

\* There is one hello, one answer to it, and it is taken in time.
ReadyAt(i) == In(i).type = "ready"
GreetInv ==
  Running =>
    /\ rpc \in {"connect", "connecting", "hello"} =>
         "ready" \notin h.owes /\ \A i \in Places : ~ReadyAt(i)
    /\ \A i, j \in 1..Len(toHarness) :
         toHarness[i].type = "hello" /\ toHarness[j].type = "hello" => i = j
    /\ \A i, j \in Places : ReadyAt(i) /\ ReadyAt(j) => i = j
    /\ \A i \in 1..Len(toHarness) : toHarness[i].type = "hello" =>
         state = "STARTING" /\ "ready" \notin h.owes /\ \A j \in Places : ~ReadyAt(j)
    /\ "ready" \in h.owes => state = "STARTING" /\ \A j \in Places : ~ReadyAt(j)
    /\ \A i \in Places : ReadyAt(i) => state = "STARTING"

LEMMA GreetStep ==
  ASSUME TypeInv, WordsInv, GreetInv, [Next]_vars, Running,
         h.phase \in Busy <=> h.turn # 0, frame # NoFrame => rpc = "accept"
  PROVE  GreetInv'
<1> SUFFICES ASSUME Running' PROVE GreetInv'
  BY DEF GreetInv
<1> DEFINE P(i) == (IF i = 0 THEN frame ELSE fromHarness[i]).type = "ready"
           Q(i) == (IF i = 0 THEN frame' ELSE fromHarness'[i]).type = "ready"
           T(i) == toHarness[i].type = "hello"
           U(i) == toHarness'[i].type = "hello"
           m == Len(fromHarness)
           n == Len(fromHarness')
           k == Len(toHarness)
           l == Len(toHarness')
           o == "ready" \in h.owes
           q == "ready" \in h'.owes
           early == rpc \in {"connect", "connecting", "hello"}
           late0 == rpc' \in {"connect", "connecting", "hello"}
<1>1. /\ early => ~o /\ \A i \in 0..m : ~P(i)
      /\ \A i, j \in 1..k : T(i) /\ T(j) => i = j
      /\ \A i, j \in 0..m : P(i) /\ P(j) => i = j
      /\ \A i \in 1..k : T(i) => state = "STARTING" /\ ~o /\ \A j \in 0..m : ~P(j)
      /\ o => state = "STARTING" /\ \A j \in 0..m : ~P(j)
      /\ \A i \in 0..m : P(i) => state = "STARTING"
  BY DEF GreetInv, Places, ReadyAt, In
<1> SUFFICES
      /\ late0 => ~q /\ \A i \in 0..n : ~Q(i)
      /\ \A i, j \in 1..l : U(i) /\ U(j) => i = j
      /\ \A i, j \in 0..n : Q(i) /\ Q(j) => i = j
      /\ \A i \in 1..l : U(i) => state' = "STARTING" /\ ~q /\ \A j \in 0..n : ~Q(j)
      /\ q => state' = "STARTING" /\ \A j \in 0..n : ~Q(j)
      /\ \A i \in 0..n : Q(i) => state' = "STARTING"
  BY DEF GreetInv, Places, ReadyAt, In
<1>2. CASE Submit
  <2>1. /\ state = "READY" /\ UNCHANGED <<toHarness, fromHarness, frame, h, rpc>>
    BY <1>2, SubmitStep
  <2> QED
    BY <1>1, <2>1
<1>3. CASE Send
  <2>1. /\ k \in Nat /\ l = k + 1 /\ 1 \in 1..Len(sending) /\ toHarness'[k + 1] = sending[1]
        /\ \A i \in 1..k : toHarness'[i] = toHarness[i]
        /\ UNCHANGED <<fromHarness, frame, state, rpc, h>>
    BY <1>3, SendStep
  <2>2. ~U(k + 1) /\ \A i \in 1..k : U(i) <=> T(i)
    BY <2>1 DEF WordsInv
  <2>3. \A i \in 1..l : U(i) => i \in 1..k /\ T(i)
    BY <2>1, <2>2
  <2> HIDE DEF T, U, k, l
  <2> QED
    BY <1>1, <2>1, <2>3
<1>4. CASE Hello
  <2>1. /\ toHarness = <<>> /\ rpc = "hello"
        /\ \/ rpc' = "read" /\ toHarness' = Append(toHarness, Frame("hello", 0)) /\ state = "STARTING"
           \/ rpc' = "fail" /\ toHarness' = toHarness
        /\ UNCHANGED <<fromHarness, frame, h, state>>
    BY <1>4 DEF Hello, TypeInv, HelloInv, readerFrame, agent, harness
  <2>2. l \in {0, 1}
    BY <2>1, FrameTypes
  <2> QED
    BY <1>1, <2>1, <2>2
<1>5. CASE ReadFrame
  <2>1. /\ m \in Nat /\ n \in Nat /\ m = n + 1
        /\ \A i \in 0..n : i + 1 \in 0..m /\ (P(i + 1) <=> Q(i))
    BY <1>5, PlacesStep DEF In
  <2>2. UNCHANGED <<toHarness, h, state>> /\ rpc' = "accept"
    BY <1>5 DEF ReadFrame, readerFrame, harness, agent
  <2> HIDE DEF P, Q, m, n
  <2> QED
    BY <1>1, <2>1, <2>2
<1>6. CASE Accept
  <2>1. UNCHANGED <<toHarness, h>> /\ ~late0 /\ (Takes \/ Passes)
    BY <1>6, TakesStep
  <2>2. m \in Nat /\ fromHarness' = fromHarness /\ frame' = NoFrame
    BY <1>6, PlacesStep
  <2>3. n = m /\ ~Q(0) /\ \A i \in 0..m : Q(i) => P(i) /\ i # 0
    BY <2>2, FrameTypes
  <2>4. CASE state' = state
    BY <1>1, <2>1, <2>3, <2>4
  <2>5. CASE state' # state
    <3>1. state # "STARTING" \/ P(0)
      BY <2>1, <2>5 DEF Takes, Passes, OnTurn
    <3>2. 0 \in 0..m
      BY <2>2
    <3>3. ~o /\ (\A i \in 1..k : ~T(i)) /\ \A i \in 0..n : ~Q(i)
      BY <1>1, <2>3, <3>1, <3>2
    <3> QED
      BY <2>1, <3>3
  <2> QED
    BY <2>4, <2>5
<1>7. CASE HRead
  <2>1. /\ 1 \in 1..k /\ k \in Nat /\ l = k - 1
        /\ \A i \in 1..l : i + 1 \in 1..k /\ (U(i) <=> T(i + 1))
        /\ UNCHANGED <<fromHarness, frame, state, rpc>> /\ h' = Heard(toHarness[1])
    BY <1>7, HReadStep
  <2>2. T(1) \/ (q <=> o)
    BY <2>1, HeardStep DEF TypeInv
  <2>3. ~early
    BY <1>7 DEF HRead, TypeInv, HelloInv
  <2>4. T(1) => \A i \in 1..l : ~U(i)
    BY <1>1, <2>1
  <2> HIDE DEF P, Q, T, U, o, q
  <2>5. n = m /\ (rpc' = rpc) /\ \A i : P(i) <=> Q(i)
    BY <2>1 DEF P, Q
  <2>6. CASE T(1)
    BY <1>1, <2>1, <2>3, <2>4, <2>5, <2>6
  <2>7. CASE ~T(1)
    BY <1>1, <2>1, <2>2, <2>3, <2>5, <2>7
  <2> QED
    BY <2>6, <2>7
<1>8. CASE Speaks
  <2>1. PICK type \in HarnessTypes, t \in {0, h.turn, h.stale} : Said(type, t)
    BY <1>8, SaidStep
  <2>2. m \in Nat /\ n = m + 1 /\ (Q(m + 1) <=> type = "ready") /\ \A i \in 0..m : Q(i) <=> P(i)
    BY <2>1, PlacesStep, FrameTypes DEF Said
  <2>3. /\ UNCHANGED <<toHarness, state, rpc>>
        /\ q => type # "ready" /\ o
        /\ type = "ready" => o
    BY <2>1 DEF Said
  <2>4. \A i \in 0..n : i \in 0..m \/ i = m + 1
    BY <2>2
  <2>5. l = k /\ \A i : T(i) <=> U(i)
    BY <2>3
  <2> HIDE DEF P, Q, T, U, o, q, m, n, k, l
  <2>6. CASE type = "ready"
    <3>1. state = "STARTING" /\ ~q /\ \A i \in 0..n : Q(i) => i = m + 1
      BY <1>1, <2>2, <2>3, <2>4, <2>6
    <3>2. ~early /\ (\A i \in 1..k : ~T(i))
      BY <1>1, <2>3, <2>6
    <3> QED
      BY <1>1, <2>3, <2>5, <3>1, <3>2
  <2>7. CASE type # "ready"
    <3>1. \A i \in 0..n : Q(i) => i \in 0..m /\ P(i)
      BY <2>2, <2>4, <2>7
    <3> QED
      BY <1>1, <2>3, <2>5, <3>1
  <2> QED
    BY <2>6, <2>7
<1>9. CASE Quiet
  <2>1. state' = state /\ h'.owes = h.owes /\ UNCHANGED <<toHarness, fromHarness, frame>>
        /\ (late0 => early)
    BY <1>9 DEF Quiet, Running
  <2> QED
    BY <1>1, <2>1
<1> QED
  BY <1>2, <1>3, <1>4, <1>5, <1>6, <1>7, <1>8, <1>9, QuietStep

\* A turn is started once, and until the harness has read of it nothing is
\* known of it.
Unknown(f) ==
  /\ state = "ACTIVE" /\ f.turn = activeTurn /\ h.turn = 0 /\ ~accepted
  /\ \A i \in Places : In(i).turn # activeTurn
StartInv ==
  Running =>
    /\ h.phase \in Busy <=> h.turn # 0
    /\ h.turn # 0 => state = "ACTIVE" /\ h.turn = activeTurn
    /\ \A i, j \in 1..Len(toHarness) :
         toHarness[i].type = "start" /\ toHarness[j].type = "start" => i = j
    /\ 1 \in 1..Len(sending) /\ sending[1].type = "start" =>
         Unknown(sending[1]) /\ \A i \in 1..Len(toHarness) : toHarness[i].type # "start"
    /\ \A i \in 1..Len(toHarness) : toHarness[i].type = "start" => Unknown(toHarness[i])

\* The harness ends a turn once; until the client has taken that, the turn is
\* active, no notice comes after it, and only then a frame that is stale.
EndInv ==
  Running =>
    /\ \A i \in Places : In(i).type \in Dones =>
         state = "ACTIVE" /\ In(i).turn = activeTurn /\ h.turn = 0
    /\ \A i, j \in Places : In(i).type \in Dones /\ In(j).type \in Dones => i = j
    /\ \A i \in Places : In(i).type \in Notices => state = "ACTIVE" /\ In(i).turn = activeTurn
    /\ \A i, j \in Places : In(i).type \in Notices /\ In(j).type \in Dones => i < j
    /\ h.stale # 0 /\ state = "ACTIVE" /\ h.stale = activeTurn =>
         \E i \in Places : In(i).type \in Dones

\* No frame is of a turn to come.
LEMMA PlacesFresh ==
  ASSUME TypeInv, FreshInv
  PROVE  /\ nextTurn \in Nat /\ h.turn \in Nat /\ h.turn <= nextTurn
         /\ h.stale \in Nat /\ h.stale <= nextTurn
         /\ \A i \in Places : In(i).turn \in Nat /\ In(i).turn <= nextTurn
<1>1. frame.turn \in Number /\ \A i \in 1..Len(fromHarness) : fromHarness[i].turn \in Number
  BY FrameTypes DEF TypeInv, ReaderOK, PipesOK
<1>2. Len(fromHarness) \in Nat
  BY DEF TypeInv, PipesOK
<1> QED
  BY <1>1, <1>2 DEF TypeInv, AgentOK, HarnessOK, FreshInv, UpTo, Number, Places, In

LEMMA StartStep ==
  ASSUME TypeInv, FreshInv, WordsInv, GreetInv, StartInv, EndInv, [Next]_vars, Running,
         frame # NoFrame => rpc = "accept"
  PROVE  StartInv'
<1> SUFFICES ASSUME Running' PROVE StartInv'
  BY DEF StartInv
<1> DEFINE P(i) == (IF i = 0 THEN frame ELSE fromHarness[i]).turn
           Q(i) == (IF i = 0 THEN frame' ELSE fromHarness'[i]).turn
           T(i) == toHarness[i].type = "start"
           U(i) == toHarness'[i].type = "start"
           m == Len(fromHarness)
           n == Len(fromHarness')
           k == Len(toHarness)
           l == Len(toHarness')
           New == 1 \in 1..Len(sending) /\ sending[1].type = "start"
           New2 == 1 \in 1..Len(sending') /\ sending'[1].type = "start"
           Blank == /\ state = "ACTIVE" /\ h.turn = 0 /\ ~accepted
                    /\ \A i \in 0..m : P(i) # activeTurn
           Blank2 == /\ state' = "ACTIVE" /\ h'.turn = 0 /\ ~accepted'
                     /\ \A i \in 0..n : Q(i) # activeTurn'
<1>1. /\ h.phase \in Busy <=> h.turn # 0
      /\ h.turn # 0 => state = "ACTIVE" /\ h.turn = activeTurn
      /\ \A i, j \in 1..k : T(i) /\ T(j) => i = j
      /\ New => Blank /\ sending[1].turn = activeTurn /\ \A i \in 1..k : ~T(i)
      /\ \A i \in 1..k : T(i) => Blank /\ toHarness[i].turn = activeTurn
  BY DEF StartInv, Unknown, Places, In
<1> SUFFICES
      /\ h'.phase \in Busy <=> h'.turn # 0
      /\ h'.turn # 0 => state' = "ACTIVE" /\ h'.turn = activeTurn'
      /\ \A i, j \in 1..l : U(i) /\ U(j) => i = j
      /\ New2 => Blank2 /\ sending'[1].turn = activeTurn' /\ \A i \in 1..l : ~U(i)
      /\ \A i \in 1..l : U(i) => Blank2 /\ toHarness'[i].turn = activeTurn'
  BY DEF StartInv, Unknown, Places, In
<1>2. CASE Submit
  <2>1. /\ Len(sending') = 2 /\ sending'[1].turn = nextTurn + 1
        /\ state = "READY" /\ state' = "ACTIVE" /\ activeTurn' = nextTurn + 1 /\ ~accepted'
        /\ UNCHANGED <<toHarness, fromHarness, frame, h>>
    BY <1>2, SubmitStep
  <2>2. n = m /\ nextTurn \in Nat /\ \A i \in 0..m : Q(i) = P(i) /\ P(i) \in Nat /\ P(i) <= nextTurn
    BY <2>1, PlacesFresh DEF Places, In
  <2>3. \A i \in 0..n : Q(i) # activeTurn'
    BY <2>1, <2>2
  <2>4. h.turn = 0 /\ \A i \in 1..k : ~T(i)
    BY <1>1, <2>1
  <2> QED
    BY <1>1, <2>1, <2>3, <2>4
<1>3. CASE Send
  <2>1. /\ k \in Nat /\ l = k + 1 /\ 1 \in 1..Len(sending) /\ toHarness'[k + 1] = sending[1]
        /\ \A i \in 1..k : toHarness'[i] = toHarness[i]
        /\ \A i \in 1..Len(sending') : i + 1 \in 1..Len(sending) /\ sending'[i] = sending[i + 1]
        /\ UNCHANGED <<fromHarness, frame, state, activeTurn, accepted, h>>
    BY <1>3, SendStep
  <2>2. ~New2
    <3>1. ASSUME New2 PROVE FALSE
      <4>1. 2 \in 1..Len(sending) /\ sending[2].type = "start"
        BY <2>1, <3>1
      <4> QED
        BY <4>1 DEF WordsInv
    <3> QED
      BY <3>1
  <2>3. (Blank2 <=> Blank) /\ (U(k + 1) <=> New)
    BY <2>1
  <2>4. \A i \in 1..l : i \in 1..k \/ i = k + 1
    BY <2>1
  <2>5. \A i \in 1..k : (U(i) <=> T(i)) /\ toHarness'[i].turn = toHarness[i].turn
    BY <2>1
  <2>6. toHarness'[k + 1].turn = sending[1].turn
    BY <2>1
  <2> HIDE DEF Blank, Blank2, T, U, New, New2, k, l
  <2>7. \A i \in 1..l : U(i) => Blank2 /\ toHarness'[i].turn = activeTurn
    BY <1>1, <2>3, <2>4, <2>5, <2>6
  <2>8. \A i, j \in 1..l : U(i) /\ U(j) => i = j
    BY <1>1, <2>3, <2>4, <2>5
  <2> QED
    BY <1>1, <2>1, <2>2, <2>7, <2>8
<1>4. CASE Hello
  <2>1. /\ toHarness = <<>> /\ toHarness' \in {<<>>, Append(toHarness, Frame("hello", 0))}
        /\ UNCHANGED <<fromHarness, frame, h, state, activeTurn, accepted, sending>>
    BY <1>4 DEF Hello, TypeInv, HelloInv, readerFrame, agent, harness, owner
  <2>2. \A i \in 1..l : ~U(i)
    BY <2>1, FrameTypes
  <2> QED
    BY <1>1, <2>1, <2>2
<1>5. CASE ReadFrame
  <2>1. /\ m \in Nat /\ n \in Nat /\ m = n + 1
        /\ \A i \in 0..n : i + 1 \in 0..m /\ P(i + 1) = Q(i)
    BY <1>5, PlacesStep DEF In
  <2>2. UNCHANGED <<toHarness, h, state, activeTurn, accepted, sending>>
    BY <1>5 DEF ReadFrame, readerFrame, harness, agent, owner
  <2> HIDE DEF P, Q, m, n
  <2>3. Blank => Blank2
    BY <2>1, <2>2
  <2> HIDE DEF Blank, Blank2
  <2> QED
    BY <1>1, <2>2, <2>3
<1>6. CASE Accept
  <2>1. UNCHANGED <<toHarness, h, sending>> /\ (Takes \/ Passes)
    BY <1>6, TakesStep
  <2>2. m \in Nat /\ fromHarness' = fromHarness /\ frame' = NoFrame
    BY <1>6, PlacesStep
  <2>3. n = m /\ Q(0) = 0 /\ \A i \in 0..m : i # 0 => Q(i) = P(i)
    BY <2>2, FrameTypes
  <2>4. state = "ACTIVE" => activeTurn # 0
    BY DEF TypeInv, SendingInv, Turns
  <2>5. CASE Passes
    <3>1. Blank => Blank2
      BY <2>1, <2>3, <2>4, <2>5 DEF Passes
    <3> QED
      BY <1>1, <2>1, <2>5, <3>1 DEF Passes
  <2>6. CASE Takes
    <3>1. ~Blank
      BY <2>2, <2>6 DEF Takes, OnTurn
    <3>2. CASE state' = state /\ activeTurn' = activeTurn
      BY <1>1, <2>1, <3>1, <3>2
    <3>3. CASE ~(state' = state /\ activeTurn' = activeTurn)
      <4>1. h.turn = 0
        <5>1. 0 \in Places /\ In(0) = frame
          BY <2>2 DEF Places, In
        <5> QED
          BY <1>1, <2>6, <3>3, <5>1 DEF Takes, EndInv
      <4> QED
        BY <1>1, <2>1, <3>1, <4>1
    <3> QED
      BY <3>2, <3>3
  <2> QED
    BY <2>1, <2>5, <2>6
<1>7. CASE HRead
  <2>1. /\ 1 \in 1..k /\ k \in Nat /\ l = k - 1
        /\ \A i \in 1..l : i + 1 \in 1..k /\ toHarness'[i] = toHarness[i + 1]
        /\ UNCHANGED <<fromHarness, frame, state, activeTurn, accepted, sending>>
        /\ h' = Heard(toHarness[1])
    BY <1>7, HReadStep
  <2>2. \A i \in 1..l : /\ i + 1 \in 1..k /\ i + 1 # 1 /\ (U(i) <=> T(i + 1))
                        /\ toHarness'[i].turn = toHarness[i + 1].turn
    BY <2>1
  <2>3. CASE T(1)
    <3>1. Blank /\ toHarness[1].turn = activeTurn
      BY <1>1, <2>1, <2>3
    <3>2. h'.turn = activeTurn /\ h'.phase \in Busy /\ activeTurn # 0
      BY <2>1, <2>3, <3>1, HeardStep DEF TypeInv, SendingInv, Turns
    <3>3. ~New /\ ~New2
      BY <1>1, <2>1, <2>3
    <3>4. \A i \in 1..l : ~U(i)
      BY <1>1, <2>1, <2>2, <2>3
    <3> QED
      BY <2>1, <3>1, <3>2, <3>3, <3>4
  <2>4. CASE ~T(1)
    <3>1. h'.turn = h.turn
      BY <2>1, <2>4, HeardStep DEF TypeInv
    <3>2. h'.phase \in Busy <=> h'.turn # 0
      <4>1. CASE toHarness[1].type = "hello"
        <5>1. state = "STARTING"
          BY <2>1, <4>1 DEF GreetInv
        <5> QED
          BY <1>1, <2>1, <3>1, <4>1, <5>1, HeardStep DEF TypeInv, Busy
      <4>2. CASE toHarness[1].type # "hello"
        <5>1. toHarness[1].type \in {"commit", "approval"} => toHarness[1].turn # 0
          BY <2>1 DEF WordsInv
        <5> QED
          BY <1>1, <2>1, <2>4, <3>1, <4>2, <5>1, HeardStep DEF TypeInv, Busy
      <4> QED
        BY <4>1, <4>2
    <3>3. Blank2 <=> Blank
      BY <2>1, <3>1
    <3>4. New2 <=> New
      BY <2>1
    <3> HIDE DEF Blank, Blank2, New, New2, T, U, k, l
    <3>5. \A i, j \in 1..l : U(i) /\ U(j) => i = j
      <4>1. \A i, j \in 1..l : U(i) /\ U(j) => i + 1 = j + 1
        BY <1>1, <2>2
      <4> QED
        BY <4>1
    <3> QED
      BY <1>1, <2>1, <2>2, <3>1, <3>2, <3>3, <3>4, <3>5
  <2> QED
    BY <2>3, <2>4
<1>8. CASE Speaks
  <2>1. PICK type \in HarnessTypes, t \in {0, h.turn, h.stale} : Said(type, t)
    BY <1>1, <1>8, SaidStep
  <2>2. m \in Nat /\ n = m + 1 /\ Q(m + 1) = t /\ \A i \in 0..m : Q(i) = P(i)
    BY <2>1, PlacesStep, FrameTypes DEF Said
  <2>3. /\ UNCHANGED <<toHarness, state, activeTurn, accepted, sending>>
        /\ h'.phase \in Busy <=> h'.turn # 0
        /\ h'.turn \in {0, h.turn}
    BY <2>1 DEF Said
  <2>4. Blank => t # activeTurn
    <3> SUFFICES ASSUME Blank, t = activeTurn PROVE FALSE
      OBVIOUS
    <3>1. activeTurn # 0
      BY DEF TypeInv, SendingInv, Turns
    <3>2. h.stale = activeTurn /\ h.stale # 0
      BY <3>1
    <3>3. PICK i \in Places : In(i).type \in Dones
      BY <3>2 DEF EndInv
    <3>4. In(i).turn = activeTurn
      BY <3>3 DEF EndInv
    <3> QED
      BY <3>3, <3>4 DEF Places, In
  <2>5. Blank => Blank2
    <3> SUFFICES ASSUME Blank PROVE Blank2
      OBVIOUS
    <3>1. h'.turn = 0 /\ \A i \in 0..n : i \in 0..m \/ i = m + 1
      BY <2>2, <2>3
    <3> HIDE DEF P, Q, m, n
    <3> QED
      BY <2>2, <2>3, <2>4, <3>1
  <2> HIDE DEF Blank, Blank2
  <2> QED
    BY <1>1, <2>3, <2>5
<1>9. CASE Quiet
  <2>1. /\ state' = state
        /\ UNCHANGED <<toHarness, fromHarness, frame, activeTurn, accepted, h.turn>>
        /\ (h'.phase \in Busy <=> h.phase \in Busy)
        /\ (New2 => sending' = sending)
    BY <1>9 DEF Quiet, Running, Busy
  <2> QED
    BY <1>1, <2>1
<1> QED
  BY <1>2, <1>3, <1>4, <1>5, <1>6, <1>7, <1>8, <1>9, QuietStep

LEMMA EndStep ==
  ASSUME TypeInv, FreshInv, StartInv, EndInv, [Next]_vars, Running,
         frame # NoFrame => rpc = "accept"
  PROVE  EndInv'
<1> SUFFICES ASSUME Running' PROVE EndInv'
  BY DEF EndInv
<1> DEFINE P(i) == IF i = 0 THEN frame ELSE fromHarness[i]
           Q(i) == IF i = 0 THEN frame' ELSE fromHarness'[i]
           m == Len(fromHarness)
           n == Len(fromHarness')
           D(i) == P(i).type \in Dones
           E(i) == Q(i).type \in Dones
           N(i) == P(i).type \in Notices
           O(i) == Q(i).type \in Notices
           A(i) == state = "ACTIVE" /\ P(i).turn = activeTurn
           B(i) == state' = "ACTIVE" /\ Q(i).turn = activeTurn'
           Z == h.stale # 0 /\ state = "ACTIVE" /\ h.stale = activeTurn
           Y == h'.stale # 0 /\ state' = "ACTIVE" /\ h'.stale = activeTurn'
<1>1. /\ \A i \in 0..m : D(i) => A(i) /\ h.turn = 0
      /\ \A i, j \in 0..m : D(i) /\ D(j) => i = j
      /\ \A i \in 0..m : N(i) => A(i)
      /\ \A i, j \in 0..m : N(i) /\ D(j) => i < j
      /\ Z => \E i \in 0..m : D(i)
  BY DEF EndInv, Places, In
<1> SUFFICES
      /\ \A i \in 0..n : E(i) => B(i) /\ h'.turn = 0
      /\ \A i, j \in 0..n : E(i) /\ E(j) => i = j
      /\ \A i \in 0..n : O(i) => B(i)
      /\ \A i, j \in 0..n : O(i) /\ E(j) => i < j
      /\ Y => \E i \in 0..n : E(i)
  BY DEF EndInv, Places, In
<1>2. CASE Submit
  <2>1. /\ state = "READY" /\ activeTurn' = nextTurn + 1 /\ UNCHANGED <<fromHarness, frame, h>>
    BY <1>2, SubmitStep
  <2>2. ~Y
    BY <2>1, PlacesFresh
  <2> QED
    BY <1>1, <2>1, <2>2
<1>3. CASE Send \/ Hello \/ Quiet
  <2>1. UNCHANGED <<fromHarness, frame, h.turn, h.stale, state, activeTurn>>
    BY <1>3, SendStep DEF Hello, readerFrame, harness, agent, Quiet, Running
  <2> QED
    BY <1>1, <2>1
<1>4. CASE HRead
  <2>1. /\ 1 \in 1..Len(toHarness) /\ h' = Heard(toHarness[1])
        /\ UNCHANGED <<fromHarness, frame, state, activeTurn>>
    BY <1>4, HReadStep
  <2>2. h'.stale = h.stale
    BY <2>1, HeardStep DEF TypeInv
  <2>3. CASE toHarness[1].type = "start"
    <3>1. \A i \in 0..m : P(i).turn # activeTurn
      BY <2>1, <2>3 DEF StartInv, Unknown, Places, In
    <3>2. \A i \in 0..m : ~D(i)
      BY <1>1, <3>1
    <3> QED
      BY <1>1, <2>1, <2>2, <3>2
  <2>4. CASE toHarness[1].type # "start"
    <3>1. h'.turn = h.turn
      BY <2>1, <2>4, HeardStep DEF TypeInv
    <3> QED
      BY <1>1, <2>1, <2>2, <3>1
  <2> QED
    BY <2>3, <2>4
<1>5. CASE ReadFrame
  <2>1. /\ m \in Nat /\ n \in Nat /\ m = n + 1
        /\ \A i \in 0..n : i + 1 \in 0..m /\ P(i + 1) = Q(i)
    BY <1>5, PlacesStep DEF In
  <2>2. UNCHANGED <<h, state, activeTurn>>
    BY <1>5 DEF ReadFrame, readerFrame, harness, agent
  <2>3. \A i \in 0..n : i + 1 \in 0..m /\ (E(i) <=> D(i + 1)) /\ (O(i) <=> N(i + 1)) /\ (B(i) <=> A(i + 1))
    BY <2>1, <2>2
  <2>4. ~D(0)
    BY <1>5, FrameTypes DEF ReadFrame, Dones
  <2>5. Y <=> Z
    BY <2>2
  <2> HIDE DEF D, E, N, O, A, B, P, Q, m, n, Y, Z
  <2>6. \A i \in 0..n : E(i) => B(i) /\ h'.turn = 0
    BY <1>1, <2>2, <2>3
  <2>7. \A i, j \in 0..n : E(i) /\ E(j) => i = j
    <3>1. \A i, j \in 0..n : E(i) /\ E(j) => i + 1 = j + 1
      BY <1>1, <2>3
    <3> QED
      BY <3>1
  <2>8. \A i, j \in 0..n : O(i) /\ E(j) => i < j
    <3>1. \A i, j \in 0..n : O(i) /\ E(j) => i + 1 < j + 1
      BY <1>1, <2>3
    <3> QED
      BY <3>1
  <2>9. Y => \E i \in 0..n : E(i)
    <3> SUFFICES ASSUME Y PROVE \E i \in 0..n : E(i)
      OBVIOUS
    <3>1. PICK i \in 0..m : D(i)
      BY <1>1, <2>5
    <3>2. i # 0
      BY <2>4, <3>1
    <3>3. i - 1 \in 0..n /\ (i - 1) + 1 = i
      BY <2>1, <3>2
    <3> QED
      BY <2>3, <3>1, <3>3
  <2>10. \A i \in 0..n : O(i) => B(i)
    BY <1>1, <2>3
  <2> QED
    BY <2>6, <2>7, <2>8, <2>9, <2>10
<1>6. CASE Accept
  <2>1. h' = h /\ (Takes \/ Passes)
    BY <1>6, TakesStep
  <2>2. m \in Nat /\ fromHarness' = fromHarness /\ frame' = NoFrame
    BY <1>6, PlacesStep
  <2>3. n = m /\ ~E(0) /\ ~O(0) /\ 0 \in 0..m
        /\ \A i \in 0..m : i # 0 => Q(i) = P(i)
    BY <2>2, FrameTypes DEF Dones, Notices
  <2>4. CASE state' = state /\ activeTurn' = activeTurn
    <3>1. ~D(0)
      <4>1. D(0) => OnTurn
        BY <1>1, <2>3 DEF OnTurn
      <4> QED
        BY <2>1, <2>4, <4>1 DEF Takes, Passes, Dones, Accepting, OnTurn
    <3>2. \A i \in 0..n : i \in 0..m /\ (E(i) => D(i)) /\ (O(i) => N(i))
      BY <2>3, <2>4
    <3>3. \A i \in 0..m : D(i) => E(i)
      BY <2>3, <3>1
    <3>4. \A i \in 0..n : D(i) \/ N(i) => (i # 0 /\ A(i) => B(i))
      BY <2>3, <2>4
    <3>5. Y => Z
      BY <2>1, <2>4
    <3> HIDE DEF D, E, N, O, A, B, P, Q, m, n, Y, Z
    <3> QED
      BY <1>1, <2>1, <2>3, <3>2, <3>3, <3>4, <3>5
  <2>5. CASE ~(state' = state /\ activeTurn' = activeTurn)
    <3>1. state' = "READY"
      BY <2>1, <2>5 DEF Takes, Passes
    <3>2. \A i \in 0..m : i # 0 => ~D(i) /\ ~N(i)
      <4>1. CASE frame.type \in Dones
        <5>1. D(0)
          BY <4>1
        <5>2. \A i \in 0..m : i # 0 => ~(i < 0)
          BY <2>2
        <5> QED
          BY <1>1, <2>3, <5>1, <5>2
      <4>2. CASE frame.type \notin Dones
        <5>1. state # "ACTIVE"
          BY <2>1, <2>5, <4>2 DEF Takes, Passes
        <5> QED
          BY <1>1, <5>1
      <4> QED
        BY <4>1, <4>2
    <3>3. \A i \in 0..n : ~E(i) /\ ~O(i)
      BY <2>3, <3>2
    <3> QED
      BY <3>1, <3>3
  <2> QED
    BY <2>4, <2>5
<1>7. CASE Speaks
  <2>0. h.phase \in Busy <=> h.turn # 0
    BY DEF StartInv
  <2>1. PICK type \in HarnessTypes, t \in {0, h.turn, h.stale} : Said(type, t)
    BY <1>7, <2>0, SaidStep
  <2>2. /\ m \in Nat /\ n = m + 1 /\ Q(m + 1).type = type /\ Q(m + 1).turn = t
        /\ \A i \in 0..m : Q(i) = P(i)
    BY <2>1, PlacesStep, FrameTypes DEF Said
  <2>3. /\ UNCHANGED <<state, activeTurn>>
        /\ type \in Notices \union Dones => t = h.turn /\ h.turn # 0
        /\ type \in Dones => h'.turn = 0 /\ h'.stale \in {0, h.turn}
        /\ type \notin Dones => h'.turn = h.turn /\ h'.stale \in {0, h.stale}
    BY <2>1 DEF Said
  <2>4. h.turn # 0 => state = "ACTIVE" /\ h.turn = activeTurn
    BY DEF StartInv
  <2>5. \A i \in 0..m : i \in 0..n /\ (E(i) <=> D(i)) /\ (O(i) <=> N(i)) /\ (B(i) <=> A(i)) /\ i < m + 1
    BY <2>2, <2>3
  <2>6. /\ m + 1 \in 0..n /\ \A i \in 0..n : i \in 0..m \/ i = m + 1
        /\ E(m + 1) <=> type \in Dones
        /\ O(m + 1) <=> type \in Notices
        /\ E(m + 1) \/ O(m + 1) => B(m + 1) /\ h.turn # 0
        /\ ~(E(m + 1) /\ O(m + 1))
    BY <2>2, <2>3, <2>4 DEF Dones, Notices
  <2>7. /\ E(m + 1) => h'.turn = 0
        /\ ~E(m + 1) => h'.turn = h.turn /\ (Y => Z)
    BY <2>3, <2>6
  <2> HIDE DEF D, E, N, O, A, B, P, Q, m, n, Y, Z
  <2>8. E(m + 1) \/ O(m + 1) => \A i \in 0..m : ~E(i)
    BY <1>1, <2>5, <2>6
  <2>9. \A i \in 0..n : E(i) => B(i) /\ h'.turn = 0
    BY <1>1, <2>5, <2>6, <2>7
  <2>10. \A i, j \in 0..n : E(i) /\ E(j) => i = j
    BY <1>1, <2>5, <2>6, <2>8
  <2>11. \A i, j \in 0..n : O(i) /\ E(j) => i < j
    BY <1>1, <2>5, <2>6, <2>8
  <2>12. Y => \E i \in 0..n : E(i)
    BY <1>1, <2>5, <2>6, <2>7
  <2>13. \A i \in 0..n : O(i) => B(i)
    BY <1>1, <2>5, <2>6
  <2> QED
    BY <2>9, <2>10, <2>11, <2>12, <2>13
<1> QED
  BY <1>2, <1>3, <1>4, <1>5, <1>6, <1>7, QuietStep

\* A turn is accepted once, and its audio is taken after it was accepted with
\* audio, or after its end.
AcceptsAt(i) == In(i).type \in Accepting /\ In(i).turn = activeTurn
OpensAudioAt(i) == In(i).type = "acceptedAudio" /\ In(i).turn = activeTurn
AudioInv ==
  Running /\ state = "ACTIVE" =>
    /\ h.turn # 0 /\ ~h.accepted => ~accepted /\ \A i \in Places : ~AcceptsAt(i)
    /\ \A i \in Places : AcceptsAt(i) => ~accepted
    /\ \A i, j \in Places : AcceptsAt(i) /\ AcceptsAt(j) => i = j
    /\ h.turn # 0 /\ h.accepted /\ h.audio =>
         \/ accepted /\ audio
         \/ \E i \in Places : OpensAudioAt(i)
    /\ \A i \in Places : In(i).type = "pcm" /\ In(i).turn = activeTurn =>
         \/ accepted /\ audio
         \/ \E j \in Places : j < i /\ (OpensAudioAt(j) \/ In(j).type \in Dones)

LEMMA AudioStep ==
  ASSUME TypeInv, FreshInv, StartInv, EndInv, AudioInv, [Next]_vars, Running,
         frame # NoFrame => rpc = "accept"
  PROVE  AudioInv'
<1> SUFFICES ASSUME Running', state' = "ACTIVE" PROVE AudioInv'
  BY DEF AudioInv
<1> DEFINE P(i) == IF i = 0 THEN frame ELSE fromHarness[i]
           Q(i) == IF i = 0 THEN frame' ELSE fromHarness'[i]
           m == Len(fromHarness)
           n == Len(fromHarness')
           C(i) == P(i).type \in Accepting /\ P(i).turn = activeTurn
           C2(i) == Q(i).type \in Accepting /\ Q(i).turn = activeTurn'
           X(i) == P(i).type = "acceptedAudio" /\ P(i).turn = activeTurn
           X2(i) == Q(i).type = "acceptedAudio" /\ Q(i).turn = activeTurn'
           V(i) == P(i).type = "pcm" /\ P(i).turn = activeTurn
           V2(i) == Q(i).type = "pcm" /\ Q(i).turn = activeTurn'
           D(i) == P(i).type \in Dones
           D2(i) == Q(i).type \in Dones
           Heard1 == accepted /\ audio
           Heard2 == accepted' /\ audio'
<1>1. state = "ACTIVE" =>
      /\ h.turn # 0 /\ ~h.accepted => ~accepted /\ \A i \in 0..m : ~C(i)
      /\ \A i \in 0..m : C(i) => ~accepted
      /\ \A i, j \in 0..m : C(i) /\ C(j) => i = j
      /\ h.turn # 0 /\ h.accepted /\ h.audio => Heard1 \/ \E i \in 0..m : X(i)
      /\ \A i \in 0..m : V(i) => Heard1 \/ \E j \in 0..m : j < i /\ (X(j) \/ D(j))
  BY DEF AudioInv, AcceptsAt, OpensAudioAt, Places, In
<1> SUFFICES
      /\ h'.turn # 0 /\ ~h'.accepted => ~accepted' /\ \A i \in 0..n : ~C2(i)
      /\ \A i \in 0..n : C2(i) => ~accepted'
      /\ \A i, j \in 0..n : C2(i) /\ C2(j) => i = j
      /\ h'.turn # 0 /\ h'.accepted /\ h'.audio => Heard2 \/ \E i \in 0..n : X2(i)
      /\ \A i \in 0..n : V2(i) => Heard2 \/ \E j \in 0..n : j < i /\ (X2(j) \/ D2(j))
  BY DEF AudioInv, AcceptsAt, OpensAudioAt, Places, In
<1>2. CASE Submit
  <2>1. /\ state = "READY" /\ activeTurn' = nextTurn + 1 /\ UNCHANGED <<fromHarness, frame, h>>
    BY <1>2, SubmitStep
  <2>2. \A i \in 0..n : Q(i).turn # activeTurn'
    BY <2>1, PlacesFresh DEF Places, In
  <2>3. h.turn = 0
    BY <2>1 DEF StartInv
  <2> QED
    BY <2>1, <2>2, <2>3
<1>3. CASE Send \/ Hello \/ Quiet
  <2>1. UNCHANGED <<fromHarness, frame, h.turn, h.accepted, h.audio, state, activeTurn, accepted, audio>>
    BY <1>3, SendStep DEF Hello, readerFrame, harness, agent, Quiet, Running
  <2> QED
    BY <1>1, <2>1
<1>4. CASE HRead
  <2>1. /\ 1 \in 1..Len(toHarness) /\ h' = Heard(toHarness[1])
        /\ UNCHANGED <<fromHarness, frame, state, activeTurn, accepted, audio>>
    BY <1>4, HReadStep
  <2>2. h'.audio = h.audio
    BY <2>1, HeardStep DEF TypeInv
  <2>3. CASE toHarness[1].type = "start"
    <3>1. ~accepted /\ \A i \in 0..m : P(i).turn # activeTurn
      BY <2>1, <2>3 DEF StartInv, Unknown, Places, In
    <3>2. ~h'.accepted
      BY <2>1, <2>3, HeardStep DEF TypeInv
    <3> QED
      BY <1>1, <2>1, <3>1, <3>2
  <2>4. CASE toHarness[1].type # "start"
    <3>1. h'.turn = h.turn /\ h'.accepted = h.accepted
      BY <2>1, <2>4, HeardStep DEF TypeInv
    <3> QED
      BY <1>1, <2>1, <2>2, <3>1
  <2> QED
    BY <2>3, <2>4
<1>5. CASE ReadFrame
  <2>1. /\ m \in Nat /\ n \in Nat /\ m = n + 1
        /\ \A i \in 0..n : i + 1 \in 0..m /\ P(i + 1) = Q(i)
    BY <1>5, PlacesStep DEF In
  <2>2. UNCHANGED <<h, state, activeTurn, accepted, audio>>
    BY <1>5 DEF ReadFrame, readerFrame, harness, agent
  <2>3. \A i \in 0..n : /\ i + 1 \in 0..m /\ (C2(i) <=> C(i + 1)) /\ (X2(i) <=> X(i + 1))
                        /\ V2(i) <=> V(i + 1)
                        /\ D2(i) <=> D(i + 1)
    BY <2>1, <2>2
  <2>4. ~X(0) /\ ~D(0)
    BY <1>5, FrameTypes DEF ReadFrame, Dones
  <2> HIDE DEF C, C2, X, X2, V, V2, D, D2, P, Q, m, n
  <2>5. ASSUME NEW j \in 0..m, X(j) \/ D(j)
        PROVE  j - 1 \in 0..n /\ (X2(j - 1) <=> X(j)) /\ (D2(j - 1) <=> D(j))
    <3>1. j # 0
      BY <2>4, <2>5
    <3>2. j - 1 \in 0..n /\ (j - 1) + 1 = j
      BY <2>1, <3>1
    <3> QED
      BY <2>3, <3>2
  <2>6. \A i \in 0..n : C2(i) => ~accepted'
    BY <1>1, <2>2, <2>3
  <2>7. \A i, j \in 0..n : C2(i) /\ C2(j) => i = j
    <3>1. \A i, j \in 0..n : C2(i) /\ C2(j) => i + 1 = j + 1
      BY <1>1, <2>2, <2>3
    <3> QED
      BY <3>1
  <2>8. h'.turn # 0 /\ ~h'.accepted => ~accepted' /\ \A i \in 0..n : ~C2(i)
    BY <1>1, <2>2, <2>3
  <2>9. h'.turn # 0 /\ h'.accepted /\ h'.audio => Heard2 \/ \E i \in 0..n : X2(i)
    BY <1>1, <2>2, <2>5
  <2>10. ASSUME NEW i \in 0..n, V2(i), ~Heard2
         PROVE  \E j \in 0..n : j < i /\ (X2(j) \/ D2(j))
    <3>1. PICK j \in 0..m : j < i + 1 /\ (X(j) \/ D(j))
      BY <1>1, <2>2, <2>3, <2>10
    <3>2. j - 1 < i
      BY <3>1
    <3> QED
      BY <2>5, <3>1, <3>2
  <2> QED
    BY <2>6, <2>7, <2>8, <2>9, <2>10
<1>6. CASE Accept
  <2>1. h' = h /\ (Takes \/ Passes)
    BY <1>6, TakesStep
  <2>2. m \in Nat /\ fromHarness' = fromHarness /\ frame' = NoFrame
    BY <1>6, PlacesStep
  <2>3. state = "ACTIVE" /\ activeTurn' = activeTurn
    BY <2>1 DEF Takes, Passes
  <2>4. /\ n = m /\ ~C2(0) /\ ~X2(0) /\ ~V2(0) /\ ~D2(0) /\ 0 \in 0..m
        /\ \A i \in 0..m : i # 0 => (C2(i) <=> C(i)) /\ (X2(i) <=> X(i)) /\ (V2(i) <=> V(i)) /\ (D2(i) <=> D(i))
        /\ \A i \in 0..m : X(i) => C(i)
    BY <2>2, <2>3, FrameTypes DEF Dones, Accepting
  <2>5. ~D(0)
    <3>1. D(0) => OnTurn
      BY <2>3, <2>4 DEF OnTurn, EndInv, Places, In
    <3> QED
      BY <2>1, <3>1 DEF Takes, Passes, OnTurn, Dones, Accepting
  <2>6. CASE Passes
    <3>1. accepted' = accepted /\ audio' = audio
      BY <2>6 DEF Passes
    <3>2. ~C(0)
      <4>1. C(0) => ~accepted
        BY <1>1, <2>3, <2>4
      <4> QED
        BY <2>3, <2>6, <4>1 DEF Passes, OnTurn
    <3> HIDE DEF C, C2, X, X2, V, V2, D, D2, P, Q, m, n
    <3>3. \A i \in 0..m : (C2(i) <=> C(i)) /\ (X2(i) <=> X(i)) /\ (D2(i) <=> D(i)) /\ (V2(i) => V(i))
      BY <2>4, <2>5, <3>2
    <3> QED
      BY <1>1, <2>1, <2>3, <2>4, <3>1, <3>3
  <2>7. CASE Takes
    <3>1. /\ C(0) /\ ~accepted /\ accepted' /\ audio' = (frame.type = "acceptedAudio")
          /\ X(0) <=> frame.type = "acceptedAudio"
      BY <2>3, <2>7 DEF Takes, OnTurn
    <3> HIDE DEF C, C2, X, X2, V, V2, D, D2, P, Q, m, n
    <3>2. X(0) => audio'
      BY <3>1
    <3>3. \A i \in 0..n : ~C2(i)
      BY <1>1, <2>3, <2>4, <3>1
    <3>4. \A i \in 0..m : X(i) => i = 0
      BY <1>1, <2>3, <2>4, <3>1
    <3>5. ~(h'.turn # 0 /\ ~h'.accepted)
      BY <1>1, <2>1, <2>3, <2>4, <3>1
    <3>6. h'.turn # 0 /\ h'.accepted /\ h'.audio => Heard2
      BY <1>1, <2>1, <2>3, <3>1, <3>2, <3>4
    <3>7. ASSUME NEW i \in 0..n, V2(i), ~Heard2
          PROVE  \E j \in 0..n : j < i /\ (X2(j) \/ D2(j))
      <4>1. V(i) /\ i # 0
        BY <2>4, <3>7
      <4>2. PICK j \in 0..m : j < i /\ (X(j) \/ D(j))
        BY <1>1, <2>3, <2>4, <3>1, <4>1
      <4>3. j # 0
        BY <2>5, <3>1, <3>2, <3>7, <4>2
      <4> QED
        BY <2>4, <4>2, <4>3
    <3> QED
      BY <3>3, <3>5, <3>6, <3>7
  <2> QED
    BY <2>1, <2>6, <2>7
<1>7. CASE Speaks
  <2>0. /\ h.phase \in Busy <=> h.turn # 0
        /\ h.turn # 0 => state = "ACTIVE" /\ h.turn = activeTurn
    BY DEF StartInv
  <2>1. PICK type \in HarnessTypes, t \in {0, h.turn, h.stale} : Said(type, t)
    BY <1>7, <2>0, SaidStep
  <2>2. /\ m \in Nat /\ n = m + 1 /\ Q(m + 1).type = type /\ Q(m + 1).turn = t
        /\ \A i \in 0..m : Q(i) = P(i)
    BY <2>1, PlacesStep, FrameTypes DEF Said
  <2>3. /\ UNCHANGED <<state, activeTurn, accepted, audio>>
        /\ type \in Accepting => t = h.turn /\ h.turn # 0 /\ ~h.accepted /\ h'.accepted
        /\ type \in Accepting => h'.audio = (type = "acceptedAudio")
        /\ type \notin Accepting => (h'.accepted = h.accepted /\ h'.audio = h.audio) \/ h'.turn = 0
        /\ h'.turn \in {0, h.turn}
        /\ type = "pcm" => \/ t = h.stale /\ h.stale # 0
                           \/ t = h.turn /\ h.turn # 0 /\ h.accepted /\ h.audio
    BY <2>1 DEF Said
  <2>4. state = "ACTIVE"
    BY <2>3
  <2>5. \A i \in 0..m : /\ i \in 0..n /\ i < m + 1 /\ (C2(i) <=> C(i)) /\ (X2(i) <=> X(i))
                        /\ V2(i) <=> V(i)
                        /\ D2(i) <=> D(i)
    BY <2>2, <2>3
  <2>6. /\ m + 1 \in 0..n /\ \A i \in 0..n : i \in 0..m \/ i = m + 1
        /\ C2(m + 1) => type \in Accepting
        /\ type = "acceptedAudio" => X2(m + 1)
        /\ V2(m + 1) => type = "pcm" /\ t = activeTurn
    BY <2>0, <2>2, <2>3 DEF Accepting
  <2>7. h.stale # 0 /\ h.stale = activeTurn => \E i \in 0..m : D(i)
    BY <2>4 DEF EndInv, Places, In
  <2> HIDE DEF C, C2, X, X2, V, V2, D, D2, P, Q, m, n
  <2>8. \A i \in 0..n : C2(i) => ~accepted'
    BY <1>1, <2>3, <2>4, <2>5, <2>6
  <2>9. \A i, j \in 0..n : C2(i) /\ C2(j) => i = j
    <3>1. C2(m + 1) => \A i \in 0..m : ~C2(i)
      BY <1>1, <2>3, <2>4, <2>5, <2>6
    <3> QED
      BY <1>1, <2>4, <2>5, <2>6, <3>1
  <2>10. h'.turn # 0 /\ ~h'.accepted => ~accepted' /\ \A i \in 0..n : ~C2(i)
    BY <1>1, <2>3, <2>4, <2>5, <2>6
  <2>11. h'.turn # 0 /\ h'.accepted /\ h'.audio => Heard2 \/ \E i \in 0..n : X2(i)
    <3>1. CASE type \in Accepting
      BY <2>3, <2>6, <3>1
    <3>2. CASE type \notin Accepting
      BY <1>1, <2>3, <2>4, <2>5, <3>2
    <3> QED
      BY <3>1, <3>2
  <2>12. \A i \in 0..m : V2(i) => Heard2 \/ \E j \in 0..n : j < i /\ (X2(j) \/ D2(j))
    BY <1>1, <2>3, <2>4, <2>5
  <2>13. V2(m + 1) => Heard2 \/ \E j \in 0..n : j < m + 1 /\ (X2(j) \/ D2(j))
    <3>1. CASE t = h.stale /\ h.stale # 0 /\ t = activeTurn
      BY <2>5, <2>7, <3>1
    <3>2. CASE t = h.turn /\ h.turn # 0 /\ h.accepted /\ h.audio
      BY <1>1, <2>3, <2>4, <2>5, <3>2
    <3> QED
      BY <2>3, <2>6, <3>1, <3>2
  <2> QED
    BY <2>6, <2>8, <2>9, <2>10, <2>11, <2>12, <2>13
<1> QED
  BY <1>2, <1>3, <1>4, <1>5, <1>6, <1>7, QuietStep

\* Nobody ends the harness who has not seen a failure, and nobody sees one that
\* has no cause.
CauseInv ==
  /\ ~alive => explained \/ state \in {"FAILED", "CLOSING"}
  /\ state = "FAILED" => explained
  /\ opc = "fail" => explained
  /\ rpc = "fail" => explained \/ closing
  /\ opc \in {"terminate", "emit"} => state = "FAILED"
  /\ rpc \in {"terminate", "lastEmit"} => state \in {"FAILED", "CLOSING"}
  /\ opc \in {"closeJob", "join", "closed"} => state = "CLOSING"
  /\ aborted => closing

\* The reader refuses no frame of a harness that keeps to the protocol.
LEMMA NothingRefused ==
  ASSUME TypeInv, GreetInv, EndInv, AudioInv, Running
  PROVE  ~Refused
<1>1. 0 \in Places /\ In(0) = frame
  BY DEF TypeInv, PipesOK, Places, In
<1>2. ~(frame.type = "ready" /\ state # "STARTING")
  BY <1>1 DEF GreetInv, ReadyAt
<1>3. ~(frame.type \in Notices /\ ~OnTurn)
  BY <1>1 DEF EndInv, OnTurn
<1>4. ~(frame.type = "pcm" /\ UnexpectedAudio)
  <2> SUFFICES ASSUME frame.type = "pcm", UnexpectedAudio PROVE FALSE
    OBVIOUS
  <2>1. state = "ACTIVE" /\ frame.turn = activeTurn /\ ~(accepted /\ audio)
    BY DEF UnexpectedAudio, OnTurn
  <2>2. \E j \in Places : j < 0
    BY <1>1, <2>1 DEF AudioInv
  <2> QED
    BY <2>2 DEF TypeInv, PipesOK, Places
<1> QED
  BY <1>2, <1>3, <1>4 DEF Refused

LEMMA CauseStep ==
  ASSUME TypeInv, PendInv, GreetInv, EndInv, AudioInv, CauseInv, [Next]_vars
  PROVE  CauseInv'
<1> USE DEF agent, vars, ownerFrame, readerFrame, harnessFrame, owner, reader, pipes, harness, told
<1>1. CASE Call
  BY <1>1 DEF Call, Submit, ListModels, ApproveTool, Cancel, Close, CauseInv, PendInv
<1>2. CASE Continue
  <2>1. CASE SendFails
    <3>1. explained'
      BY <2>1, Zenon DEF SendFails, CauseInv, PendInv
    <3> QED
      BY <2>1, <3>1 DEF SendFails, CauseInv
  <2>2. CASE OwnerFail
    BY <2>2 DEF OwnerFail, Fail, CauseInv, PendInv
  <2>3. CASE Send \/ OwnerTerminate \/ OwnerEmit
    BY <2>3 DEF Send, OwnerTerminate, OwnerEmit, CauseInv
  <2>4. CASE CloseIo
    <3>1. closing
      BY <2>4 DEF CloseIo, PendInv
    <3> QED
      BY <2>4, <3>1 DEF CloseIo, CauseInv
  <2>5. CASE CloseState
    BY <2>5 DEF CloseState, CauseInv
  <2>6. CASE CloseJob \/ CloseJoin
    BY <2>6 DEF CloseJob, CloseJoin, CauseInv
  <2> QED
    BY <1>2, <2>1, <2>2, <2>3, <2>4, <2>5, <2>6 DEF Continue
<1>3. CASE Accept
  <2>1. /\ UNCHANGED <<opc, closing, alive, aborted>> /\ (explained => explained')
        /\ rpc' \in {"emit", "read", "fail"} /\ (Takes \/ Passes)
        /\ rpc' = "fail" => explained' \/ (Refused /\ Passes)
    <3>1. aborted' = aborted
      BY <1>3 DEF Accept, AcceptReady, AcceptModels, AcceptNotice, AcceptTurn, AcceptDelta,
         AcceptPcm, AcceptDone, AcceptError, EndTurn, acceptFrame
    <3> QED
      BY <1>3, <3>1, TakesStep
  <2>2. rpc' = "fail" => explained' \/ closing
    <3>1. state \in States
      BY DEF TypeInv, AgentOK
    <3>2. Running \/ explained \/ closing
      BY <3>1 DEF States, Running, CauseInv, PendInv
    <3> QED
      BY <2>1, <3>2, NothingRefused
  <2>3. state' = state \/ (Running /\ Running')
    BY <2>1 DEF Takes, Passes, Running, OnTurn
  <2> QED
    BY <2>1, <2>2, <2>3 DEF CauseInv, Running
<1>4. CASE Reader /\ ~Accept
  <2>1. CASE Hello
    <3>1. (~closing /\ alive /\ state = "STARTING") \/ explained \/ closing
      BY <2>1 DEF Hello, TypeInv, HelloInv, CauseInv, PendInv
    <3> QED
      BY <2>1, <3>1 DEF Hello, CauseInv
  <2>2. CASE ReadFails
    <3>1. explained \/ closing
      BY <2>2 DEF ReadFails, CauseInv, PendInv
    <3> QED
      BY <2>2, <3>1 DEF ReadFails, CauseInv
  <2>3. CASE ReaderFail
    BY <2>3 DEF ReaderFail, Fail, CauseInv, PendInv
  <2>4. CASE ReaderTerminate \/ ReaderLastEmit
    BY <2>4 DEF ReaderTerminate, ReaderLastEmit, CauseInv
  <2> QED
    BY <1>4, <2>1, <2>2, <2>3, <2>4 DEF Reader, Connect, Connected, ReadIssue, ReadFrame, ReaderEmit,
       ReaderStops, CauseInv
<1>5. CASE Harness
  <2>1. UNCHANGED <<alive, explained>>
    BY <1>5 DEF Harness, HRead, HConnect, HReply, HAccept, HOutput, HAsk, HDone, HStale, Says
  <2> QED
    BY <1>5, <2>1, HarnessLeaves DEF CauseInv
<1>6. CASE HDie
  BY <1>6 DEF HDie, CauseInv
<1>7. CASE HHang \/ UNCHANGED vars
  BY <1>7 DEF HHang, CauseInv
<1> QED
  BY <1>1, <1>2, <1>3, <1>4, <1>5, <1>6, <1>7 DEF Next

\* What the two sides know of each other, for any pipe between them.
ProtocolInv == WordsInv /\ GreetInv /\ StartInv /\ EndInv /\ AudioInv

LEMMA ProtocolStep ==
  TypeInv /\ FreshInv /\ NoticeInv /\ ProtocolInv /\ [Next]_vars => ProtocolInv'
<1> SUFFICES ASSUME TypeInv, FreshInv, NoticeInv, ProtocolInv, [Next]_vars PROVE ProtocolInv'
  OBVIOUS
<1>1. frame # NoFrame => rpc = "accept"
  BY DEF NoticeInv
<1>2. WordsInv'
  BY WordsStep DEF ProtocolInv
<1>3. CASE Running
  <2>1. h.phase \in Busy <=> h.turn # 0
    BY <1>3 DEF ProtocolInv, StartInv
  <2> QED
    BY <1>1, <1>2, <1>3, <2>1, GreetStep, StartStep, EndStep, AudioStep DEF ProtocolInv
<1>4. CASE ~Running
  <2>1. ~Running'
    <3>1. Quiet \/ ReadFrame \/ Send \/ Hello \/ HRead \/ Speaks => state' \in {state, "FAILED", "CLOSING"}
      <4>1. HRead \/ Speaks => state' = state
        BY HarnessLeaves DEF Speaks, Harness, agent
      <4> QED
        BY <4>1 DEF Quiet, ReadFrame, Send, Hello, agent
    <3>2. ~Submit /\ (Accept => state' = state)
      BY <1>4, TakesStep DEF Submit, Running, Takes, Passes, OnTurn
    <3> QED
      BY <1>4, <3>1, <3>2, QuietStep DEF Running
  <2> QED
    BY <1>2, <2>1 DEF ProtocolInv, GreetInv, StartInv, EndInv, AudioInv
<1> QED
  BY <1>3, <1>4

\* The invariant behind failures that have a cause.
THEOREM ProtocolInvariant ==
  Spec => [](TypeInv /\ PendInv /\ FreshInv /\ NoticeInv /\ ProtocolInv /\ CauseInv)
<1>1. Init => ProtocolInv /\ CauseInv
  <2> SUFFICES ASSUME Init PROVE ProtocolInv /\ CauseInv
    OBVIOUS
  <2>1. /\ toHarness = <<>> /\ fromHarness = <<>> /\ sending = <<>> /\ frame = NoFrame /\ h = Idle
        /\ state = "STARTING"
    BY DEF Init
  <2>2. Places = {0} /\ In(0).type = "none"
    BY <2>1, FrameTypes DEF Places, In
  <2>3. WordsInv /\ GreetInv /\ StartInv
    BY <2>1, <2>2 DEF WordsInv, GreetInv, StartInv, ReadyAt, Idle, Busy
  <2>4. EndInv
    BY <2>1, <2>2 DEF EndInv, Dones, Notices
  <2>5. AudioInv
    BY <2>1 DEF AudioInv
  <2>6. CauseInv
    BY DEF Init, CauseInv
  <2> QED
    BY <2>3, <2>4, <2>5, <2>6 DEF ProtocolInv
<1>2. TypeInv /\ PendInv /\ FreshInv /\ NoticeInv /\ ProtocolInv /\ CauseInv /\ [Next]_vars
        => ProtocolInv' /\ CauseInv'
  BY ProtocolStep, CauseStep DEF ProtocolInv
<1> QED
  BY <1>1, <1>2, CancelInvariant, PTL DEF Spec

\* The transport fails only when the harness died, left the pipe full or sent a
\* notice that crossed a cancel: nothing else that a harness sends which keeps to
\* the protocol is taken for an invalid frame (dio_accept_control,
\* dio_accept_pcm16, dio_transport_failure).
THEOREM FailuresHaveCauses == Spec => []FailureExplained
<1>1. CauseInv => FailureExplained
  BY DEF CauseInv, FailureExplained
<1> QED
  BY <1>1, ProtocolInvariant, PTL

================================================================================
