----------------------------- MODULE MailContract ------------------------------
(***************************************************************************)
(* What the announcement inbox promises of the messages it accepts: each   *)
(* stays pending until it is given up, having been heard, or until an      *)
(* attempt to speak it failed; only a pending message is heard, and what   *)
(* is over never comes back.                                               *)
(***************************************************************************)
CONSTANT Messages

VARIABLES
  mail,     \* "new", "pending", "failed" or "over", by message
  heard     \* the messages that were heard to their end

Init == mail = [m \in Messages |-> "new"] /\ heard = {}

Accept(m) ==
  /\ mail[m] = "new"
  /\ mail' = [mail EXCEPT ![m] = "pending"]
  /\ UNCHANGED heard

Hear(m) ==
  /\ mail[m] = "pending"
  /\ heard' = heard \cup {m}
  /\ UNCHANGED mail

\* A heard message is done with; one that could not be spoken is kept aside,
\* and its file may be replaced by that of another failure (given by others).
Close(m) ==
  /\ mail[m] = "pending" /\ m \in heard
  /\ mail' = [mail EXCEPT ![m] = "over"]
  /\ UNCHANGED heard

SetAside(m, others) ==
  /\ mail[m] = "pending"
  /\ mail' = [n \in Messages |-> IF n = m THEN "failed"
                                 ELSE IF n \in others /\ mail[n] = "failed" THEN "over"
                                 ELSE mail[n]]
  /\ UNCHANGED heard

Next ==
  \E m \in Messages :
    \/ Accept(m) \/ Hear(m) \/ Close(m)
    \/ \E others \in SUBSET Messages : SetAside(m, others)

Spec == Init /\ [][Next]_<<mail, heard>>

================================================================================
