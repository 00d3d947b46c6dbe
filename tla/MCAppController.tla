---------------------------- MODULE MCAppController ----------------------------
(* Generation numbers are only ever compared with the current one: states that *)
(* differ in where the counters stand, but not in how far every event lies      *)
(* behind, behave alike and are explored once.                                  *)
EXTENDS AppController

Age(e) == CASE e.from = "agent" -> w.agentGen - e.gen
            [] e.from = "voice" -> w.voiceGen - e.gen
            [] OTHER -> 0

AgeView ==
  <<loop, [w EXCEPT !.agentGen = 0, !.voiceGen = 0,
                  !.queue = [i \in DOMAIN @ |-> [@[i] EXCEPT !.gen = Age(w.queue[i])]]]>>

================================================================================
