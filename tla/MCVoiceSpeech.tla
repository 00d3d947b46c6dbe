--------------------------- MODULE MCVoiceSpeech ---------------------------
(* VoiceSpeech for TLC. *)
EXTENDS VoiceSpeech, TLC

\* Sound: neither the callers' ids nor their order occur in the specification.
CallerSymmetry == Permutations(Callers)
=============================================================================
