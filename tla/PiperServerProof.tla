---------------------------- MODULE PiperServerProof ---------------------------
(***************************************************************************)
(* Proofs about the Piper server: its fields keep their types, its handles *)
(* outlive their users, and no text goes to a process that is still cold.  *)
(***************************************************************************)
EXTENDS PiperServer, TLAPS

--------------------------------------------------------------------------------
(* Types and handles *)

\* close follows the last cancel, so none is left when the record is freed.
HandleInv ==
  /\ HandlesOwned
  /\ closing => c = "idle"
  /\ w = "freed" => closing

PlacesOK ==
  /\ w \in {"idle", "check", "recheck", "post", "wait", "fail", "fail_kill", "decide", "stop",
            "stop_kill", "stop_wait", "reset", "launch", "freed"}
  /\ s \in {"none", "health", "warm", "warming", "ready", "give_up", "mark"}
  /\ c \in {"idle", "active", "ready", "clear", "job", "kill", "mark"}
  /\ proc \in {"none", "cold", "warm", "dead"}
  /\ active \in {"none", "user", "warmup"} /\ job \in {"null", "this", "gone"}
  /\ ready \in BOOLEAN /\ restart \in BOOLEAN /\ closing \in BOOLEAN
  /\ cancelled \in BOOLEAN /\ spoken \in BOOLEAN /\ crossed \in BOOLEAN

BoundsOK == cancels \in 0 .. MaxCancels /\ faults \in 0 .. MaxFaults

LEMMA PlacesStep == PlacesOK /\ [Next]_vars => PlacesOK'
<1> SUFFICES ASSUME PlacesOK, [Next]_vars PROVE PlacesOK'
  OBVIOUS
<1> USE DEF PlacesOK, Killed, Alive
<1>1. CASE Worker
  <2>1. CASE Check \/ Recheck \/ Post \/ Answer
    BY <2>1 DEF Check, Recheck, Post, Answer
  <2>2. CASE Failed \/ FailedKill \/ Decide \/ StopReady \/ StopKill
    BY <2>2 DEF Failed, FailedKill, Decide, StopReady, StopKill
  <2>3. CASE StopClose \/ Reset \/ Launch
    BY <2>3 DEF StopClose, Reset, Launch, Launched, LaunchFails
  <2> QED
    BY <1>1, <2>1, <2>2, <2>3 DEF Worker
<1>2. CASE Startup
  BY <1>2 DEF Startup, Health, WarmPost, Warming, Ready, GiveUp, Mark
<1>3. CASE Cancel \/ Canceller
  BY <1>3 DEF Cancel, Canceller, CancelActive, CancelReady, CancelClear, CancelJob,
     CancelKill, CancelMark
<1>4. CASE Freed \/ Speak \/ Close \/ Die \/ UNCHANGED vars
  BY <1>4 DEF Freed, Speak, Close, Die, vars
<1> QED
  BY <1>1, <1>2, <1>3, <1>4 DEF Next

\* A step takes at most one of the cancels and one of the faults.
LEMMA BoundsStep == BoundsOK /\ [Next]_vars => BoundsOK'
<1> SUFFICES ASSUME BoundsOK, [Next]_vars PROVE BoundsOK'
  OBVIOUS
<1>1. UNCHANGED cancels \/ (cancels > 0 /\ cancels' = cancels - 1)
  BY DEF Next, vars, Worker, Check, Recheck, Post, Answer, Failed, FailedKill, Decide,
     StopReady, StopKill, StopClose, Reset, Launch, Startup, Health, WarmPost, Warming,
     Ready, GiveUp, Mark, Cancel, Canceller, CancelActive, CancelReady, CancelClear,
     CancelJob, CancelKill, CancelMark, Freed, Speak, Close, Die
<1>2. Fault \/ NoFault
  BY DEF NoFault, Next, vars, Worker, Check, Recheck, Post, Answer, Failed, FailedKill,
     Decide, StopReady, StopKill, StopClose, Reset, Launch, Launched, LaunchFails, Startup,
     Health, WarmPost, Warming, Ready, GiveUp, Mark, Cancel, Canceller, CancelActive,
     CancelReady, CancelClear, CancelJob, CancelKill, CancelMark, Freed, Speak, Close, Die
<1> QED
  BY <1>1, <1>2, BoundsAssumption DEF BoundsOK, Fault, NoFault

\* Every variable keeps its type.
THEOREM TypeCorrect == Spec => []TypeOK
<1>1. Init => PlacesOK
  BY DEF Init, PlacesOK
<1>2. Init => BoundsOK
  BY BoundsAssumption DEF Init, BoundsOK
<1>3. PlacesOK /\ BoundsOK => TypeOK
  BY DEF PlacesOK, BoundsOK, TypeOK
<1> QED
  BY <1>1, <1>2, <1>3, PlacesStep, BoundsStep, PTL DEF Spec

\* No handle is closed, and the record is not freed, while a thread may use it.
THEOREM HandlesAreOwned == Spec => []HandlesOwned
<1>1. Init => HandleInv
  BY DEF Init, HandleInv, HandlesOwned
<1>2. HandleInv /\ [Next]_vars => HandleInv'
  <2> SUFFICES ASSUME HandleInv, [Next]_vars PROVE HandleInv'
    OBVIOUS
  <2> USE DEF HandleInv, HandlesOwned, Killed, Alive
  <2>1. CASE Worker
    BY <2>1 DEF Worker, Check, Recheck, Post, Answer, Failed, FailedKill, Decide,
       StopReady, StopKill, StopClose, StopWait, Reset, Launch, Launched, LaunchFails
  <2>2. CASE Startup
    BY <2>2 DEF Startup, Health, WarmPost, Warming, Ready, GiveUp, Mark
  <2>3. CASE Cancel \/ Canceller
    BY <2>3 DEF Cancel, Canceller, CancelActive, CancelReady, CancelClear, CancelJob,
       CancelKill, CancelMark
  <2>4. CASE Freed \/ Speak \/ Close \/ Die \/ UNCHANGED vars
    BY <2>4 DEF Freed, Speak, Close, Die, vars
  <2> QED
    BY <2>1, <2>2, <2>3, <2>4 DEF Next
<1>3. HandleInv => HandlesOwned
  BY DEF HandleInv
<1> QED
  BY <1>1, <1>2, <1>3, PTL DEF Spec

--------------------------------------------------------------------------------
(* Requests go to a warm process *)

\* While the startup thread is at work nothing has asked for a restart and no
\* cancel has read the process as ready; and what was read as ready had warmed
\* up.  A cancel that outlives its process, or close, breaks this.
Starting == s # "none"
Ended == {"warm", "dead"}

WarmInv ==
  ~crossed /\ ~closing =>
    /\ Starting => ~ready /\ ~restart /\ w \in {"idle", "check", "recheck", "decide"}
    /\ Starting => c \in {"idle", "active", "ready"}
    /\ s = "ready" => proc \in Ended
    /\ ready => proc \in Ended
    /\ ready => w \notin {"stop_kill", "stop_wait", "reset", "launch"}
    /\ w \in {"post", "wait"} => proc \in Ended
    /\ c \in {"clear", "job", "kill", "mark"} => w \notin {"reset", "launch"}
    /\ w = "launch" => ~restart

\* close leaves the worker with nothing but the end of the server.
ClosingInv == closing => w \in {"stop", "stop_kill", "stop_wait", "freed"}

LEMMA WarmStep == PlacesOK /\ WarmInv /\ ClosingInv /\ [Next]_vars => WarmInv' /\ ClosingInv'
<1> SUFFICES ASSUME PlacesOK, WarmInv, ClosingInv, [Next]_vars
             PROVE  WarmInv' /\ ClosingInv'
  OBVIOUS
<1> USE DEF PlacesOK, WarmInv, ClosingInv, Starting, Ended, Killed, Alive
<1>1. CASE Worker
  <2>1. CASE Check \/ Recheck \/ Post \/ Answer
    BY <2>1 DEF Check, Recheck, Post, Answer
  <2>2. CASE Failed \/ FailedKill \/ Decide
    BY <2>2 DEF Failed, FailedKill, Decide
  <2>3. CASE StopReady
    BY <2>3 DEF StopReady
  <2>4. CASE StopKill
    BY <2>4 DEF StopKill
  <2>5. CASE StopClose
    BY <2>5 DEF StopClose, StopWait
  <2>6. CASE Reset \/ Launch
    BY <2>6 DEF Reset, Launch, Launched, LaunchFails
  <2> QED
    BY <1>1, <2>1, <2>2, <2>3, <2>4, <2>5, <2>6 DEF Worker
<1>2. CASE Startup
  BY <1>2 DEF Startup, Health, WarmPost, Warming, Ready, GiveUp, Mark
<1>3. CASE Cancel \/ Canceller
  BY <1>3 DEF Cancel, Canceller, CancelActive, CancelReady, CancelClear, CancelJob,
     CancelKill, CancelMark
<1>4. CASE Freed \/ Speak \/ Close \/ Die \/ UNCHANGED vars
  BY <1>4 DEF Freed, Speak, Close, Die, vars
<1> QED
  BY <1>1, <1>2, <1>3, <1>4 DEF Next

\* The inductive invariant of a start against restarts and cancels.
THEOREM WarmInvariant == Spec => [](WarmInv /\ ClosingInv)
<1>1. Init => WarmInv /\ ClosingInv
  BY DEF Init, WarmInv, ClosingInv, Starting, Ended
<1>2. Init => PlacesOK
  BY DEF Init, PlacesOK
<1> QED
  BY <1>1, <1>2, PlacesStep, WarmStep, PTL DEF Spec

\* No text is sent to a process that has not warmed up, for any number of cancels
\* and faults, unless a cancel outlived the process it was meant for.
THEOREM WarmsBeforeUse == Spec => WarmBeforeUse
<1>1. WarmInv /\ ClosingInv /\ [Next]_vars =>
        [w = "post" /\ w' = "wait" => proc # "cold" \/ crossed]_vars
  BY DEF WarmInv, ClosingInv, Ended
<1> QED
  BY <1>1, WarmInvariant, PTL DEF Spec, WarmBeforeUse

================================================================================
