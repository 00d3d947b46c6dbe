----------------------------- MODULE PcmStream -----------------------------
(***************************************************************************)
(* The PCM stream of src/core/pcm_stream.c as a value: what create, write, *)
(* finish, cancel and the playback device's data callback read and change. *)
(* The modules that own streams apply these operators to their own state;  *)
(* samples are counted, their contents play no part.                       *)
(*                                                                         *)
(* started_event and terminal_event are manual-reset and never reset, so   *)
(* each is a flag of the record.  The compare-exchange on "started" and    *)
(* the SetEvent that follows it are one flag.                              *)
(***************************************************************************)
EXTENDS Naturals

CONSTANT RingCap        \* frames the ring holds: sample_rate * 120 seconds

Stream == [final     : BOOLEAN,
           cancelled : BOOLEAN,
           started   : BOOLEAN,
           terminal  : BOOLEAN,
           unread    : 0..RingCap]

\* A stream as dio_pcm_stream_create leaves it.
Created == [final |-> FALSE, cancelled |-> FALSE, started |-> FALSE,
            terminal |-> FALSE, unread |-> 0]

\* dio_pcm_stream_write accepts all the samples or none of them.
CanWrite(s, n) == /\ ~s.final
                  /\ ~s.cancelled
                  /\ s.unread + n <= RingCap
Written(s, n) == [s EXCEPT !.unread = s.unread + n]

\* dio_pcm_stream_finish succeeds once, and never after a cancel.
CanFinish(s) == ~s.cancelled /\ ~s.final
Finished(s) == [s EXCEPT !.final = TRUE]

Cancelled(s) == [s EXCEPT !.cancelled = TRUE, !.terminal = TRUE]

\* Mutant: the end is reported with samples left.
AtEndEarly(s) == ~s.cancelled /\ s.final

\* The data callback finds the stream final and its ring empty...
AtEnd(s) == ~s.cancelled /\ s.final /\ s.unread = 0
Ended(s) == [s EXCEPT !.terminal = TRUE]

\* ... or copies what the ring has, n samples ...
CanRead(s, n) == /\ ~s.cancelled
                 /\ n <= s.unread
Read(s, n) == [s EXCEPT !.unread = s.unread - n]

\* ... and, when it copied something and no cancel came in between, reports
\* that the first audio has reached the device.
FirstAudio(s) == [s EXCEPT !.started = s.started \/ ~s.cancelled]
=============================================================================
