--------------------------- MODULE SpeechContract ---------------------------
(***************************************************************************)
(* What the voice core promises of the utterances it accepts               *)
(* (include/dio_voice/voice_core.h, dio_voice_speak and stream_start): one *)
(* speaks at a time, SPEAKING precedes a successful end and nothing        *)
(* follows the end.  How the queue, the worker and cancel bring this about *)
(* is VoiceSpeech, which implements it.                                    *)
(***************************************************************************)
EXTENDS Naturals

CONSTANT MaxUtt

VARIABLE status

Utt == 1..MaxUtt
End == {"SUCCEEDED", "CANCELLED", "FAILED"}

Init == status = [u \in Utt |-> "new"]

\* Utterances are numbered in the order they are accepted.
Accept(u) == /\ status[u] = "new"
             /\ \A v \in Utt : v < u => status[v] # "new"
             /\ status' = [status EXCEPT ![u] = "pending"]

\* The device took the first audio of u: the SPEAKING event.
Speaking(u) == /\ status[u] = "pending"
               /\ \A v \in Utt : status[v] # "speaking"
               /\ status' = [status EXCEPT ![u] = "speaking"]

\* The SPEECH_COMPLETE event.
Complete(u) == /\ status[u] \in {"pending", "speaking"}
               /\ \E e \in End :
                    /\ e = "SUCCEEDED" => status[u] = "speaking"
                    /\ status' = [status EXCEPT ![u] = e]

Next == \E u \in Utt : Accept(u) \/ Speaking(u) \/ Complete(u)

Spec == Init /\ [][Next]_status
=============================================================================
