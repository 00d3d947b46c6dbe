---------------------------- MODULE ApplicationProof ----------------------------
(***************************************************************************)
(* Proofs about the application's worker and the announcement inbox it     *)
(* polls.                                                                  *)
(*                                                                         *)
(* The inbox, for any messages, names and number of failures: types, that  *)
(* the files implement the contract of the inbox, and that without a       *)
(* failure nothing is heard twice.                                         *)
(*                                                                         *)
(* The worker, for any size of its queue and of the speech table and any   *)
(* number of restarts, turns, output and failures: types, that every       *)
(* utterance and the announcement are accounted for, that worker, agent    *)
(* and voice core agree about the turn, and what follows an answer.        *)
(***************************************************************************)
EXTENDS AnnouncementInbox, AppController, SequenceTheorems, TLAPS

--------------------------------------------------------------------------------
(* The announcement inbox                                                   *)

Dirs == [Names -> [Kinds -> Messages \cup {None}]]
Pcs == {"down", "closed", "idle", "next", "read", "speaking", "spoken"}
InWork == {"read", "speaking", "spoken"}

LEMMA NamesFact ==
  /\ None \notin Messages
  /\ \A m \in Messages : NameOf[m] \in Names
  /\ \A n \in Names : n \in Nat
  /\ Reminders \subseteq Messages /\ Drops \subseteq Messages
BY NamesAssumption DEF Names, None, Messages

--------------------------------------------------------------------------------
(* What a step does to the directory *)

\* The files of a kind and of the names in S become files of another kind.
MovesAll(S, from, to) ==
  \A x \in Names : \A k \in Kinds :
    dir'[x][k] = IF x \in S /\ k = to THEN dir[x][from]
                 ELSE IF x \in S /\ k = from THEN None
                 ELSE dir[x][k]

\* One file is put, or deleted.
Puts(n, kind, m) ==
  \A x \in Names : \A k \in Kinds :
    dir'[x][k] = IF x = n /\ k = kind THEN m ELSE dir[x][k]

LEMMA MovedIs ==
  ASSUME dir \in Dirs, NEW n \in Names, NEW from \in Kinds, NEW to \in Kinds, from # to
  PROVE  /\ Moved(dir, n, from, to) \in Dirs
         /\ \A x \in Names : \A k \in Kinds :
              Moved(dir, n, from, to)[x][k] = IF x = n /\ k = to THEN dir[n][from]
                                              ELSE IF x = n /\ k = from THEN None
                                              ELSE dir[x][k]
BY DEF Moved, Dirs

LEMMA RecoveredIs ==
  ASSUME dir \in Dirs, NEW S \in SUBSET Names, dir' = Recovered(S)
  PROVE  dir' \in Dirs /\ MovesAll(S, "processing", "txt")
<1>1. \A n \in Names :
        /\ Moved(dir, n, "processing", "txt") \in Dirs
        /\ \A x \in Names : \A k \in Kinds :
             Moved(dir, n, "processing", "txt")[x][k] =
               IF x = n /\ k = "txt" THEN dir[n]["processing"]
               ELSE IF x = n /\ k = "processing" THEN None ELSE dir[x][k]
  BY MovedIs DEF Kinds
<1>2. dir' \in Dirs
  BY <1>1 DEF Recovered, Dirs
<1>3. \A x \in Names : dir'[x] = IF x \in S THEN Moved(dir, x, "processing", "txt")[x] ELSE dir[x]
  BY DEF Recovered
<1>4. MovesAll(S, "processing", "txt")
  BY <1>1, <1>3 DEF MovesAll
<1> QED
  BY <1>2, <1>4

\* The names that Open recovers have no .txt file in their way.
Movable(S) == \A n \in S : dir[n]["txt"] = None

LEMMA OpenIs ==
  ASSUME dir \in Dirs, Open
  PROVE  /\ pc = "down" /\ pc' \in {"idle", "closed"}
         /\ \E S \in SUBSET Names : dir' = Recovered(S) /\ Movable(S)
<1>1. Files("processing") \subseteq Names
  BY DEF Files
<1>2. \A n \in Names : CanMove(n, "txt") <=> dir[n]["txt"] = None
  BY DEF CanMove
<1> DEFINE all == Files("processing")
           stuck == {n \in all : ~CanMove(n, "txt")}
           before(x) == {n \in all : n < x}
<1>3. CASE stuck = {} /\ dir' = Recovered(all)
  <2>1. Movable(all)
    BY <1>1, <1>2, <1>3 DEF Movable
  <2> QED
    BY <1>1, <1>3, <2>1 DEF Open
<1>4. ASSUME NEW x \in stuck, First(x, stuck), dir' = Recovered(before(x)) PROVE Movable(before(x))
  BY <1>1, <1>2, <1>4, NamesFact DEF Movable, First
<1>5. ASSUME NEW x \in all, \A y \in stuck : x < y PROVE Movable(before(x))
  <2> SUFFICES ASSUME NEW n \in before(x), dir[n]["txt"] # None PROVE FALSE
    BY DEF Movable
  <2>1. n \in Nat /\ x \in Nat /\ n < x /\ n \in stuck
    BY <1>1, <1>2, NamesFact
  <2>2. x < n
    BY <1>5, <2>1
  <2> QED
    BY <2>1, <2>2
<1>6. pc = "down" /\ pc' \in {"idle", "closed"}
  BY DEF Open
<1>7. \/ stuck = {} /\ dir' = Recovered(all)
      \/ \E x \in stuck : First(x, stuck) /\ dir' = Recovered(before(x))
      \/ \E x \in all : (\A y \in stuck : x < y) /\ dir' = Recovered(before(x))
  BY DEF Open
<1>8. \A x : before(x) \in SUBSET Names
  BY <1>1
<1> HIDE DEF all, stuck, before
<1> QED
  BY <1>3, <1>4, <1>5, <1>6, <1>7, <1>8

--------------------------------------------------------------------------------
(* Types, files and the message in work *)

DirOK == dir \in Dirs
PlaceOK ==
  /\ pc \in Pcs /\ held \in Messages \cup {None} /\ sent \in SUBSET Messages
CountsOK == now \in Nat /\ heard \in [Messages -> Nat] /\ faults \in 0 .. MaxFaults

\* A file holds a message of its name, a message is in one file, and the files of
\* accepted messages are those without .tmp.
FilesInv ==
  /\ \A n \in Names : \A k \in Kinds : dir[n][k] # None => NameOf[dir[n][k]] = n
  /\ \A n \in Names : \A j, k \in Kinds : dir[n][j] = dir[n][k] /\ dir[n][j] # None => j = k
  /\ \A n \in Names : dir[n]["tmp"] # None => dir[n]["tmp"] \in Reminders \ sent
  /\ \A n \in Names : \A k \in Kinds \ {"tmp"} : dir[n][k] # None => dir[n][k] \in sent

\* The application holds the message whose file is in work.
HeldInv ==
  /\ held # None <=> pc \in InWork
  /\ held # None => dir[NameOf[held]]["processing"] = held

StateInv == DirOK /\ PlaceOK /\ FilesInv /\ HeldInv

\* The steps that only rename files of accepted messages.
LEMMA MoveKeepsFiles ==
  ASSUME DirOK, FilesInv, UNCHANGED sent, NEW S \in SUBSET Names,
         NEW from \in Kinds \ {"tmp"}, NEW to \in Kinds \ {"tmp"}, from # to, MovesAll(S, from, to)
  PROVE  FilesInv'
<1>1. \A n \in Names : \A k \in Kinds : dir'[n][k] # None => NameOf[dir'[n][k]] = n
  BY DEF MovesAll, FilesInv
<1>2. \A n \in Names : \A j, k \in Kinds : dir'[n][j] = dir'[n][k] /\ dir'[n][j] # None => j = k
  BY DEF MovesAll, FilesInv
<1>3. "tmp" \in Kinds
  BY DEF Kinds
<1>4. /\ \A n \in Names : dir'[n]["tmp"] # None => dir'[n]["tmp"] \in Reminders \ sent'
      /\ \A n \in Names : \A k \in Kinds \ {"tmp"} : dir'[n][k] # None => dir'[n][k] \in sent'
  BY <1>3 DEF MovesAll, FilesInv
<1> QED
  BY <1>1, <1>2, <1>4 DEF FilesInv

LEMMA DeleteKeepsFiles ==
  ASSUME DirOK, FilesInv, UNCHANGED sent, NEW n \in Names, NEW kind \in Kinds, Puts(n, kind, None)
  PROVE  FilesInv'
<1>1. "tmp" \in Kinds
  BY DEF Kinds
<1> QED
  BY <1>1 DEF Puts, FilesInv

\* What the end of a message in work does to its file.
LEMMA FinishIs ==
  ASSUME StateInv, held \in Messages, NEW spoken \in BOOLEAN, Finish(spoken)
  PROVE  /\ held' = None
         /\ \/ spoken /\ dir' \in Dirs /\ Puts(NameOf[held], "processing", None)
            \/ ~spoken /\ dir' \in Dirs /\ MovesAll({NameOf[held]}, "processing", "failed")
            \/ UNCHANGED dir /\ Fault
<1>1. NameOf[held] \in Names /\ "processing" \in Kinds /\ "failed" \in Kinds
  BY NamesFact DEF Kinds
<1>2. CASE dir' = [dir EXCEPT ![NameOf[held]]["processing"] = None] /\ spoken
  BY <1>1, <1>2 DEF StateInv, DirOK, Dirs, Puts, Finish
<1>3. CASE dir' = Moved(dir, NameOf[held], "processing", "failed") /\ ~spoken
  BY <1>1, <1>3, MovedIs DEF StateInv, DirOK, MovesAll, Finish
<1> QED
  BY <1>2, <1>3 DEF Finish

\* The settings put the message in work, if any, aside.
LEMMA SettingsIs ==
  ASSUME StateInv, Settings
  PROVE  /\ held' = None /\ pc' = "down" /\ Fault /\ UNCHANGED <<now, sent, heard>>
         /\ \/ held = None /\ UNCHANGED dir
            \/ held \in Messages /\ dir' \in Dirs
               /\ MovesAll({NameOf[held]}, "processing", "failed")
<1>1. CASE held # None
  <2>1. held \in Messages /\ NameOf[held] \in Names /\ "processing" \in Kinds /\ "failed" \in Kinds
    BY <1>1, NamesFact DEF StateInv, PlaceOK, Kinds
  <2> QED
    BY <1>1, <2>1, MovedIs DEF Settings, StateInv, DirOK, MovesAll
<1> QED
  BY <1>1 DEF Settings

LEMMA ReleaseIs ==
  ASSUME StateInv, ReleaseDue
  PROVE  /\ pc = "idle" /\ pc' \in {"idle", "next"} /\ UNCHANGED <<now, held, sent, heard>>
         /\ \/ UNCHANGED dir
            \/ \E n \in Names : dir[n]["txt"] = None /\ dir' \in Dirs
                                /\ MovesAll({n}, "timer", "txt")
<1>1. ASSUME NEW n \in DueTimers, CanMove(n, "txt"), dir' = Moved(dir, n, "timer", "txt")
      PROVE  n \in Names /\ dir[n]["txt"] = None /\ dir' \in Dirs /\ MovesAll({n}, "timer", "txt")
  <2>1. n \in Names /\ "timer" \in Kinds /\ "txt" \in Kinds
    BY DEF DueTimers, Files, Kinds
  <2> QED
    BY <1>1, <2>1, MovedIs DEF CanMove, StateInv, DirOK, MovesAll
<1> QED
  BY <1>1 DEF ReleaseDue

LEMMA TakeIs ==
  ASSUME StateInv, Take
  PROVE  /\ pc = "next" /\ UNCHANGED <<now, sent, heard>>
         /\ \/ UNCHANGED <<dir, held>> /\ pc' = "idle"
            \/ \E n \in Names :
                 /\ dir[n]["processing"] = None /\ dir[n]["txt"] \in Messages
                 /\ dir' \in Dirs /\ MovesAll({n}, "txt", "processing")
                 /\ held' = dir[n]["txt"] /\ pc' = "read"
<1>1. ASSUME NEW n \in Files("txt"), CanMove(n, "processing"),
             dir' = Moved(dir, n, "txt", "processing")
      PROVE  /\ n \in Names /\ dir[n]["processing"] = None /\ dir[n]["txt"] \in Messages
             /\ dir' \in Dirs /\ MovesAll({n}, "txt", "processing")
  <2>1. n \in Names /\ "processing" \in Kinds /\ "txt" \in Kinds /\ dir[n]["txt"] # None
    BY DEF Files, Kinds
  <2>2. dir[n]["txt"] \in Messages /\ dir[n]["processing"] = None
    BY <1>1, <2>1 DEF CanMove, StateInv, DirOK, Dirs
  <2>3. dir' \in Dirs /\ MovesAll({n}, "txt", "processing")
    BY <1>1, <2>1, MovedIs DEF StateInv, DirOK, MovesAll
  <2> QED
    BY <2>1, <2>2, <2>3
<1> QED
  BY <1>1 DEF Take

\* The steps of the senders.
LEMMA SendersStep ==
  ASSUME StateInv, NEW m \in Messages,
         \/ m \in Reminders /\ (Write(m) \/ Schedule(m))
         \/ m \in Drops /\ Drop(m)
  PROVE  /\ StateInv' /\ UNCHANGED <<now, pc, held, heard>>
         /\ \/ m \in Reminders \ sent /\ Puts(NameOf[m], "tmp", m) /\ UNCHANGED sent
               /\ dir[NameOf[m]]["tmp"] = None
            \/ m \in Reminders \ sent /\ MovesAll({NameOf[m]}, "tmp", "timer")
               /\ sent' = sent \cup {m} /\ dir[NameOf[m]]["tmp"] = m /\ dir[NameOf[m]]["timer"] = None
            \/ Puts(NameOf[m], "tmp", None) /\ UNCHANGED sent /\ dir[NameOf[m]]["tmp"] = m
            \/ m \in Drops \ sent /\ Puts(NameOf[m], "txt", m) /\ sent' = sent \cup {m}
               /\ dir[NameOf[m]]["txt"] = None
<1>0. /\ NameOf[m] \in Names /\ {"tmp", "timer", "txt", "processing"} \subseteq Kinds /\ m # None
      /\ dir \in Dirs /\ UNCHANGED <<now, pc, held, heard>>
  BY NamesFact DEF Kinds, StateInv, DirOK, Write, Schedule, Drop
<1>1. HeldInv /\ PlaceOK /\ FilesInv
  BY DEF StateInv
<1>2. ASSUME NEW n \in Names, NEW kind \in {"tmp", "timer", "txt"},
             \A x \in Names : dir'[x]["processing"] = dir[x]["processing"]
      PROVE  HeldInv'
  BY <1>0, <1>1, <1>2, NamesFact DEF HeldInv, PlaceOK
<1>3. sent' \in SUBSET Messages => PlaceOK'
  BY <1>0, <1>1 DEF PlaceOK
<1>4. CASE m \in Reminders /\ Write(m)
  <2>1. m \notin sent /\ dir[NameOf[m]]["tmp"] = None /\ UNCHANGED sent
        /\ dir' = [dir EXCEPT ![NameOf[m]]["tmp"] = m]
    BY <1>4 DEF Write
  <2>2. dir' \in Dirs /\ Puts(NameOf[m], "tmp", m)
    BY <1>0, <2>1 DEF Dirs, Puts
  <2>3. FilesInv'
    BY <1>0, <1>1, <1>4, <2>1, <2>2 DEF FilesInv, Puts
  <2>4. HeldInv' /\ PlaceOK'
    BY <1>0, <1>1, <1>2, <1>3, <2>1, <2>2 DEF Puts, PlaceOK
  <2> QED
    BY <1>0, <1>4, <2>1, <2>2, <2>3, <2>4 DEF StateInv, DirOK
<1>5. CASE m \in Reminders /\ Schedule(m) /\ sent' = sent \cup {m}
           /\ dir' = Moved(dir, NameOf[m], "tmp", "timer")
  <2>1. dir[NameOf[m]]["tmp"] = m
    BY <1>5 DEF Schedule
  <2>2. m \notin sent /\ sent' \in SUBSET Messages
    BY <1>0, <1>1, <1>5, <2>1 DEF FilesInv, PlaceOK
  <2>3. dir' \in Dirs /\ MovesAll({NameOf[m]}, "tmp", "timer")
    BY <1>0, <1>5, MovedIs DEF MovesAll
  <2>4. dir[NameOf[m]]["timer"] = None
    <3>1. SUFFICES ASSUME dir[NameOf[m]]["timer"] # None PROVE FALSE
      OBVIOUS
    <3>2. dir[NameOf[m]]["timer"] \in Messages /\ NameOf[dir[NameOf[m]]["timer"]] = NameOf[m]
      BY <1>0, <1>1, <3>1 DEF FilesInv, Dirs
    <3>3. dir[NameOf[m]]["timer"] = m
      BY <1>5, <3>2, NamesAssumption
    <3> QED
      BY <1>0, <1>1, <2>1, <3>3 DEF FilesInv
  <2>5. \A n \in Names : dir[n]["tmp"] = m => n = NameOf[m]
    BY <1>0, <1>1 DEF FilesInv
  <2>6. FilesInv'
    <3>1. /\ \A n \in Names : \A k \in Kinds : dir'[n][k] # None => NameOf[dir'[n][k]] = n
          /\ \A n \in Names : \A j, k \in Kinds : dir'[n][j] = dir'[n][k] /\ dir'[n][j] # None => j = k
      BY <1>0, <1>1, <2>3 DEF FilesInv, MovesAll
    <3>2. \A n \in Names : dir'[n]["tmp"] # None => dir'[n]["tmp"] \in Reminders \ sent'
      BY <1>0, <1>1, <1>5, <2>3, <2>5 DEF FilesInv, MovesAll
    <3>3. \A n \in Names : \A k \in Kinds \ {"tmp"} : dir'[n][k] # None => dir'[n][k] \in sent'
      BY <1>0, <1>1, <1>5, <2>1, <2>3 DEF FilesInv, MovesAll
    <3> QED
      BY <3>1, <3>2, <3>3 DEF FilesInv
  <2>7. HeldInv' /\ PlaceOK'
    BY <1>0, <1>2, <1>3, <2>2, <2>3 DEF MovesAll
  <2> QED
    BY <1>0, <1>5, <2>1, <2>2, <2>3, <2>4, <2>6, <2>7 DEF StateInv, DirOK
<1>6. CASE m \in Reminders /\ Schedule(m) /\ UNCHANGED sent
           /\ dir' = [dir EXCEPT ![NameOf[m]]["tmp"] = None]
  <2>1. dir' \in Dirs /\ Puts(NameOf[m], "tmp", None)
    BY <1>0, <1>6 DEF Dirs, Puts
  <2>2. FilesInv'
    BY <1>0, <1>1, <1>6, <2>1, DeleteKeepsFiles DEF DirOK
  <2>3. HeldInv' /\ PlaceOK'
    BY <1>0, <1>1, <1>2, <1>3, <1>6, <2>1 DEF Puts, PlaceOK
  <2>4. dir[NameOf[m]]["tmp"] = m
    BY <1>6 DEF Schedule
  <2> QED
    BY <1>0, <1>6, <2>1, <2>2, <2>3, <2>4 DEF StateInv, DirOK
<1>7. CASE m \in Drops /\ Drop(m)
  <2>1. m \notin sent /\ dir[NameOf[m]]["txt"] = None /\ sent' = sent \cup {m}
        /\ dir' = [dir EXCEPT ![NameOf[m]]["txt"] = m]
    BY <1>7 DEF Drop
  <2>2. dir' \in Dirs /\ Puts(NameOf[m], "txt", m)
    BY <1>0, <2>1 DEF Dirs, Puts
  <2>3. \A k \in Kinds : dir[NameOf[m]][k] = m => k = "tmp"
    BY <1>0, <1>1, <2>1 DEF FilesInv
  <2>4. \A n \in Names : dir[n]["tmp"] # m
    <3>1. m \notin Reminders => \A n \in Names : dir[n]["tmp"] # m
      BY <1>0, <1>1 DEF FilesInv
    <3> QED
      BY <1>7, <3>1, NamesAssumption
  <2>5. FilesInv'
    BY <1>0, <1>1, <2>1, <2>2, <2>3, <2>4 DEF FilesInv, Puts
  <2>6. HeldInv' /\ PlaceOK'
    BY <1>0, <1>1, <1>2, <1>3, <2>1, <2>2 DEF Puts, PlaceOK
  <2> QED
    BY <1>0, <1>7, <2>1, <2>2, <2>5, <2>6 DEF StateInv, DirOK
<1> QED
  BY <1>4, <1>5, <1>6, <1>7 DEF Schedule

\* The steps that end the message in work, or lose it.
LEMMA EndsStep ==
  ASSUME StateInv, held' = None, pc' \in Pcs \ InWork, UNCHANGED sent, dir' \in Dirs,
         \/ UNCHANGED dir
         \/ \E n \in Names : Puts(n, "processing", None)
         \/ \E n \in Names : MovesAll({n}, "processing", "failed")
         \/ \E S \in SUBSET Names : MovesAll(S, "processing", "txt")
         \/ \E n \in Names : MovesAll({n}, "timer", "txt")
  PROVE  StateInv'
<1>1. {"processing", "failed", "txt", "timer"} \subseteq Kinds \ {"tmp"}
  BY DEF Kinds
<1>2. DirOK /\ FilesInv /\ PlaceOK
  BY DEF StateInv
<1>3. FilesInv'
  <2>1. CASE UNCHANGED dir
    BY <1>2, <2>1 DEF FilesInv
  <2>2. CASE \E n \in Names : Puts(n, "processing", None)
    BY <1>1, <1>2, <2>2, DeleteKeepsFiles
  <2>3. \A S \in SUBSET Names : MovesAll(S, "processing", "failed") \/ MovesAll(S, "processing", "txt")
                                \/ MovesAll(S, "timer", "txt") => FilesInv'
    BY <1>1, <1>2, MoveKeepsFiles
  <2>4. \A n \in Names : {n} \in SUBSET Names
    OBVIOUS
  <2> QED
    BY <2>1, <2>2, <2>3, <2>4
<1>4. PlaceOK' /\ HeldInv'
  BY <1>2 DEF PlaceOK, HeldInv
<1> QED
  BY <1>3, <1>4 DEF StateInv, DirOK

LEMMA StateStep == StateInv /\ [Next]_vars => StateInv'
<1> SUFFICES ASSUME StateInv, [Next]_vars PROVE StateInv'
  OBVIOUS
<1>0. DirOK /\ FilesInv /\ PlaceOK /\ HeldInv /\ dir \in Dirs
  BY DEF StateInv, DirOK
<1>1. ASSUME NEW m \in Messages,
             (m \in Reminders /\ (Write(m) \/ Schedule(m))) \/ (m \in Drops /\ Drop(m))
      PROVE  StateInv'
  BY <1>1, SendersStep
<1>2. CASE Open
  <2>1. /\ pc = "down" /\ pc' \in {"idle", "closed"} /\ UNCHANGED <<held, sent>>
        /\ \E S \in SUBSET Names : dir' = Recovered(S)
    BY <1>0, <1>2, OpenIs DEF Open
  <2>2. dir' \in Dirs /\ \E S \in SUBSET Names : MovesAll(S, "processing", "txt")
    BY <1>0, <2>1, RecoveredIs
  <2>3. held' = None /\ pc' \in Pcs \ InWork
    BY <1>0, <2>1 DEF HeldInv, InWork, Pcs
  <2> QED
    BY <2>1, <2>2, <2>3, EndsStep
<1>3. CASE ReleaseDue
  <2>1. held' = None /\ pc' \in Pcs \ InWork /\ UNCHANGED sent
    BY <1>0, <1>3, ReleaseIs DEF HeldInv, InWork, Pcs
  <2> QED
    BY <1>0, <1>3, <2>1, ReleaseIs, EndsStep
<1>4. CASE Take
  <2>1. CASE UNCHANGED dir /\ held' = None /\ pc' = "idle"
    BY <1>0, <1>4, <2>1, TakeIs, EndsStep DEF Pcs, InWork
  <2>2. ASSUME NEW n \in Names, dir[n]["processing"] = None, dir[n]["txt"] \in Messages,
               dir' \in Dirs, MovesAll({n}, "txt", "processing"), held' = dir[n]["txt"], pc' = "read"
        PROVE  StateInv'
    <3>1. UNCHANGED sent /\ {"txt", "processing"} \subseteq Kinds \ {"tmp"} /\ {n} \in SUBSET Names
      BY <1>4, TakeIs DEF Kinds
    <3>2. FilesInv'
      BY <1>0, <2>2, <3>1, MoveKeepsFiles
    <3>3. dir'[n]["processing"] = held' /\ NameOf[held'] = n
      BY <1>0, <2>2, <3>1, NamesFact DEF MovesAll, FilesInv
    <3>4. HeldInv' /\ PlaceOK'
      BY <1>0, <2>2, <3>1, <3>3, NamesFact DEF HeldInv, PlaceOK, InWork, Pcs
    <3> QED
      BY <2>2, <3>2, <3>4 DEF StateInv, DirOK
  <2>3. held = None
    BY <1>0, <1>4, TakeIs DEF HeldInv, InWork
  <2> QED
    BY <1>4, <2>1, <2>2, <2>3, TakeIs
<1>5. ASSUME NEW spoken \in BOOLEAN, Finish(spoken), pc \in InWork, pc' = "idle", UNCHANGED sent
      PROVE  StateInv'
  <2>1. held \in Messages /\ NameOf[held] \in Names
    BY <1>0, <1>5, NamesFact DEF HeldInv, PlaceOK
  <2> QED
    BY <1>0, <1>5, <2>1, FinishIs, EndsStep DEF Pcs, InWork
<1>6. CASE Read \/ Complete
  <2>1. CASE Read /\ pc' = "speaking"
    BY <1>0, <1>6, <2>1 DEF Read, StateInv, DirOK, FilesInv, PlaceOK, HeldInv, Pcs, InWork
  <2> QED
    BY <1>5, <1>6, <2>1 DEF Read, Complete, InWork
<1>7. CASE Heard
  BY <1>0, <1>7 DEF Heard, StateInv, DirOK, FilesInv, PlaceOK, HeldInv, Pcs, InWork
<1>8. CASE Settings
  BY <1>0, <1>8, SettingsIs, EndsStep, NamesFact DEF Pcs, InWork
<1>9. CASE Crash
  BY <1>0, <1>9, EndsStep DEF Crash, Pcs, InWork
<1>10. CASE Restart
  <2>1. held' = None
    BY <1>0, <1>10 DEF Restart, HeldInv, InWork
  <2> QED
    BY <1>0, <1>10, <2>1, EndsStep DEF Restart, Pcs, InWork
<1>11. CASE UNCHANGED <<dir, pc, held, sent>>
  BY <1>0, <1>11 DEF StateInv, DirOK, FilesInv, PlaceOK, HeldInv
<1>12. CASE Tick \/ UNCHANGED vars
  BY <1>11, <1>12 DEF Tick, vars
<1> QED
  BY <1>1, <1>2, <1>3, <1>4, <1>6, <1>7, <1>8, <1>9, <1>10, <1>12, NamesFact DEF Next, App

LEMMA CountsStep == PlaceOK /\ HeldInv /\ CountsOK /\ [Next]_vars => CountsOK'
<1> SUFFICES ASSUME PlaceOK, HeldInv, CountsOK, [Next]_vars PROVE CountsOK'
  OBVIOUS
<1>1. Fault \/ NoFault
  BY DEF NoFault, Next, Write, Schedule, Drop, Tick, App, Open, ReleaseDue, Take, Read, Heard,
     Complete, Finish, Settings, Crash, Restart, vars
<1>2. faults' \in 0 .. MaxFaults
  BY <1>1, FaultsAssumption DEF CountsOK, Fault, NoFault
<1>3. now' = now \/ now' = now + 1
  BY DEF Next, Write, Schedule, Drop, Tick, App, Open, ReleaseDue, Take, Read, Heard,
     Complete, Settings, Crash, Restart, vars
<1>4. UNCHANGED heard \/ (held \in Messages /\ heard' = [heard EXCEPT ![held] = @ + 1])
  BY DEF Next, Write, Schedule, Drop, Tick, App, Open, ReleaseDue, Take, Read, Heard,
     Complete, Settings, Crash, Restart, vars, PlaceOK, HeldInv, InWork
<1>5. heard' \in [Messages -> Nat]
  BY <1>4 DEF CountsOK
<1> QED
  BY <1>2, <1>3, <1>5 DEF CountsOK

LEMMA StateInit == Init => StateInv /\ CountsOK
<1> SUFFICES ASSUME Init PROVE StateInv /\ CountsOK
  OBVIOUS
<1>1. DirOK /\ PlaceOK /\ HeldInv
  BY DEF Init, DirOK, Dirs, PlaceOK, HeldInv, Pcs, InWork
<1>2. FilesInv
  <2>1. "tmp" \in Kinds /\ \A n \in Names : \A k \in Kinds : dir[n][k] = None
    BY DEF Init, Kinds
  <2> QED
    BY <2>1 DEF FilesInv
<1>3. CountsOK
  BY FaultsAssumption DEF Init, CountsOK
<1> QED
  BY <1>1, <1>2, <1>3 DEF StateInv

THEOREM FilesInvariant == Spec => [](StateInv /\ CountsOK)
<1>1. StateInv => PlaceOK /\ HeldInv
  BY DEF StateInv
<1> QED
  BY <1>1, StateInit, StateStep, CountsStep, PTL DEF Spec

\* Every variable keeps its type.
THEOREM TypeCorrect == Spec => []TypeOK
<1>1. StateInv /\ CountsOK => TypeOK
  BY DEF StateInv, DirOK, Dirs, PlaceOK, Pcs, CountsOK, TypeOK
<1> QED
  BY <1>1, FilesInvariant, PTL

--------------------------------------------------------------------------------
(* Nothing is heard again without a failure of its own *)

\* A message that has no file that would be spoken again, but for the one it was
\* spoken from.
Rested(m) ==
  /\ m \in sent /\ ~Where(m, "timer") /\ ~Where(m, "txt")
  /\ Where(m, "processing") => pc = "spoken" /\ held = m

\* What failed so far pays for all hearings of a message but one, and for all of
\* one that may be spoken again.
OnceInv ==
  \A m \in Messages : heard[m] > MaxFaults - faults =>
    heard[m] = 1 + (MaxFaults - faults) /\ Rested(m)

LEMMA FaultPays ==
  ASSUME CountsOK, OnceInv, UNCHANGED heard, Fault
  PROVE  OnceInv'
<1> SUFFICES ASSUME NEW m \in Messages PROVE ~(heard[m] > MaxFaults - faults')
  BY DEF OnceInv
<1> QED
  BY FaultsAssumption DEF CountsOK, OnceInv, Fault

\* A step on files that hears nothing, keeps what is accepted, and brings no rested
\* message back into circulation.
LEMMA RestedStep ==
  ASSUME StateInv, CountsOK, CountsOK', OnceInv, UNCHANGED heard, sent \subseteq sent',
         NoFault \/ Fault,
         \A m \in Messages : m \in sent /\ Rested(m) =>
           ~Where(m, "timer")' /\ ~Where(m, "txt")'
           /\ (Where(m, "processing")' => pc' = "spoken" /\ held' = m)
  PROVE  OnceInv'
<1>1. CASE NoFault
  BY <1>1 DEF OnceInv, Rested, NoFault
<1>2. CASE Fault
  BY <1>2, FaultPays
<1> QED
  BY <1>1, <1>2

LEMMA OnceStep == StateInv /\ CountsOK /\ CountsOK' /\ OnceInv /\ [Next]_vars => OnceInv'
<1> SUFFICES ASSUME StateInv, CountsOK, CountsOK', OnceInv, [Next]_vars PROVE OnceInv'
  OBVIOUS
<1>0. /\ DirOK /\ FilesInv /\ PlaceOK /\ HeldInv /\ dir \in Dirs
      /\ {"tmp", "timer", "txt", "processing", "failed"} \subseteq Kinds
      /\ faults \in Nat /\ faults <= MaxFaults
  BY FaultsAssumption DEF StateInv, DirOK, Kinds, CountsOK
<1>1. NoFault \/ Fault
  BY DEF NoFault, Next, Write, Schedule, Drop, Tick, App, Open, ReleaseDue, Take, Read,
     Heard, Complete, Finish, Settings, Crash, Restart, vars
<1>2. ASSUME NEW m \in Messages,
             (m \in Reminders /\ (Write(m) \/ Schedule(m))) \/ (m \in Drops /\ Drop(m))
      PROVE  OnceInv'
  <2>1. /\ UNCHANGED <<pc, held, heard>> /\ sent \subseteq sent'
        /\ \A k \in {"timer", "txt", "processing"} : \A x \in Messages : x \in sent =>
             (Where(x, k)' => Where(x, k))
    <3>1. \A x \in Messages : NameOf[x] \in Names /\ x # None
      BY NamesFact
    <3> QED
      BY <1>0, <1>2, <3>1, SendersStep DEF Where, MovesAll, Puts
  <2> QED
    BY <1>1, <2>1, RestedStep DEF Rested
<1>3. ASSUME NEW S \in SUBSET Names, NEW from \in {"timer", "txt"}, NEW to \in {"txt", "processing"},
             MovesAll(S, from, to), from # to, UNCHANGED <<sent, heard>>, pc # "spoken"
      PROVE  OnceInv'
  <2>1. \A m \in Messages : Rested(m) =>
          ~Where(m, "timer")' /\ ~Where(m, "txt")' /\ ~Where(m, "processing")'
    BY <1>0, <1>3, NamesFact DEF Rested, Where, MovesAll
  <2> QED
    BY <1>1, <1>3, <2>1, RestedStep
<1>4. CASE Open
  <2>1. PICK S \in SUBSET Names : MovesAll(S, "processing", "txt")
    BY <1>0, <1>4, OpenIs, RecoveredIs
  <2>2. pc = "down" /\ UNCHANGED <<sent, heard>>
    BY <1>4 DEF Open
  <2>3. \A m \in Messages : Rested(m) =>
          ~Where(m, "timer")' /\ ~Where(m, "txt")' /\ ~Where(m, "processing")'
    BY <1>0, <2>1, <2>2, NamesFact DEF Rested, Where, MovesAll
  <2> QED
    BY <1>1, <2>2, <2>3, RestedStep
<1>5. ASSUME UNCHANGED <<dir, heard>>, sent \subseteq sent', pc # "spoken"
      PROVE  OnceInv'
  BY <1>1, <1>5, RestedStep DEF Rested, Where
<1>6. CASE ReleaseDue
  <2>1. \A n \in Names : {n} \in SUBSET Names
    OBVIOUS
  <2> QED
    BY <1>3, <1>5, <1>6, <2>1, ReleaseIs
<1>7. CASE Take
  <2>1. \A n \in Names : {n} \in SUBSET Names
    OBVIOUS
  <2> QED
    BY <1>3, <1>5, <1>7, <2>1, TakeIs
<1>8. ASSUME Fault, UNCHANGED heard PROVE OnceInv'
  BY <1>8, FaultPays
<1>9. ASSUME NEW spoken \in BOOLEAN, pc \in InWork, pc = "spoken" \/ ~spoken, Finish(spoken),
             UNCHANGED <<sent, heard>>
      PROVE  OnceInv'
  <2>1. held \in Messages /\ NameOf[held] \in Names
    BY <1>0, <1>9, NamesFact DEF HeldInv, PlaceOK
  <2>2. CASE UNCHANGED dir /\ Fault
    BY <1>8, <1>9, <2>2
  <2>3. CASE Puts(NameOf[held], "processing", None) \/ MovesAll({NameOf[held]}, "processing", "failed")
    <3>1. \A m \in Messages : Rested(m) =>
            ~Where(m, "timer")' /\ ~Where(m, "txt")' /\ ~Where(m, "processing")'
      BY <1>0, <2>1, <2>3, NamesFact DEF Rested, Where, MovesAll, Puts, HeldInv
    <3> QED
      BY <1>1, <1>9, <3>1, RestedStep
  <2> QED
    BY <1>9, <2>1, <2>2, <2>3, FinishIs
<1>10. CASE Read
  BY <1>5, <1>9, <1>10 DEF Read, InWork
<1>11. CASE Complete
  BY <1>9, <1>11 DEF Complete, InWork
<1>12. CASE Heard
  <2>1. /\ pc = "speaking" /\ pc' = "spoken" /\ UNCHANGED <<dir, held, sent, faults>>
        /\ heard' = [heard EXCEPT ![held] = @ + 1]
    BY <1>12 DEF Heard
  <2>2. /\ held \in Messages /\ held \in sent /\ Where(held, "processing")
        /\ ~Where(held, "timer") /\ ~Where(held, "txt")
    <3>1. held \in Messages /\ NameOf[held] \in Names /\ dir[NameOf[held]]["processing"] = held
          /\ held # None
      BY <1>0, <2>1, NamesFact DEF HeldInv, PlaceOK, InWork
    <3> QED
      BY <1>0, <3>1 DEF FilesInv, Where
  <2>3. heard[held] \in Nat /\ heard[held] <= MaxFaults - faults
    BY <1>0, <2>1, <2>2, FaultsAssumption DEF OnceInv, Rested, CountsOK
  <2>4. \A m \in Messages : heard'[m] = IF m = held THEN heard[m] + 1 ELSE heard[m]
    BY <2>1, <2>2 DEF CountsOK
  <2>5. ASSUME NEW m \in Messages, heard'[m] > MaxFaults - faults'
        PROVE  heard'[m] = 1 + (MaxFaults - faults') /\ Rested(m)'
    <3>1. CASE m = held
      <4>1. heard'[m] = 1 + (MaxFaults - faults')
        BY <1>0, <2>1, <2>3, <2>4, <2>5, <3>1, FaultsAssumption
      <4> QED
        BY <2>1, <2>2, <3>1, <4>1 DEF Rested, Where
    <3>2. CASE m # held
      BY <2>1, <2>4, <2>5, <3>2 DEF Rested, Where, OnceInv
    <3> QED
      BY <3>1, <3>2
  <2> QED
    BY <2>5 DEF OnceInv
<1>13. CASE Settings \/ Crash
  BY <1>8, <1>13 DEF Settings, Crash
<1>14. CASE Tick \/ UNCHANGED vars
  BY <1>1, <1>14, RestedStep DEF Tick, vars, Rested, Where
<1>15. CASE Restart
  BY <1>5, <1>15 DEF Restart
<1> QED
  BY <1>2, <1>4, <1>6, <1>7, <1>10, <1>11, <1>12, <1>13, <1>14, <1>15, NamesFact DEF Next, App

\* Each further hearing of a message has cost an end of the program or a failed
\* call (dio_announcement_finish, dio_recover_processing) of its own.
THEOREM HearsOnce == Spec => []HeardOnce
<1>1. Init => OnceInv
  BY FaultsAssumption DEF Init, OnceInv
<1>2. CountsOK /\ OnceInv => HeardOnce
  BY FaultsAssumption DEF CountsOK, OnceInv, HeardOnce
<1> QED
  BY <1>1, <1>2, OnceStep, FilesInvariant, PTL DEF Spec

--------------------------------------------------------------------------------
(* The files implement the contract of the inbox *)

mails == [m \in Messages |-> MailOf(m)]
hearers == {m \in Messages : heard[m] > 0}
Circulates(m) == Where(m, "timer") \/ Where(m, "txt") \/ Where(m, "processing")

\* The end of an utterance is what the application learns of.
SpokenInv == pc = "spoken" => heard[held] > 0

LEMMA SpokenStep == StateInv /\ CountsOK /\ SpokenInv /\ [Next]_vars => SpokenInv'
<1> SUFFICES ASSUME StateInv, CountsOK, SpokenInv, [Next]_vars PROVE SpokenInv'
  OBVIOUS
<1>1. CASE pc' # "spoken"
  BY <1>1 DEF SpokenInv
<1>2. CASE UNCHANGED <<pc, held, heard>>
  BY <1>2 DEF SpokenInv
<1>3. CASE Heard
  <2>1. held \in Messages /\ heard' = [heard EXCEPT ![held] = @ + 1] /\ held' = held
    BY <1>3 DEF Heard, StateInv, HeldInv, PlaceOK, InWork
  <2>2. heard'[held'] = heard[held] + 1 /\ heard[held] \in Nat
    BY <2>1 DEF CountsOK
  <2> QED
    BY <2>2 DEF SpokenInv
<1> QED
  BY <1>1, <1>2, <1>3 DEF Next, Write, Schedule, Drop, Tick, App, Open, ReleaseDue, Take, Read,
     Complete, Settings, Crash, Restart, vars

\* A step after which every message is as far as it was.
LEMMA MailStays ==
  ASSUME UNCHANGED sent,
         \A m \in Messages : /\ Circulates(m)' <=> Circulates(m)
                             /\ Where(m, "failed")' <=> Where(m, "failed")
  PROVE  UNCHANGED mails
BY DEF mails, MailOf, Circulates

LEMMA FilesStay ==
  ASSUME UNCHANGED <<sent, dir>>
  PROVE  UNCHANGED mails
BY MailStays DEF Where, Circulates

\* A message on its way takes one more step of it.
LEMMA MoveStays ==
  ASSUME StateInv, UNCHANGED sent, NEW S \in SUBSET Names,
         NEW from \in {"timer", "txt", "processing"}, NEW to \in {"timer", "txt", "processing"},
         from # to, MovesAll(S, from, to), \A n \in S : dir[n][to] = None
  PROVE  UNCHANGED mails
<1>1. \A m \in Messages : NameOf[m] \in Names /\ m # None
  BY NamesFact
<1>2. {"timer", "txt", "processing", "failed"} \subseteq Kinds
  BY DEF Kinds
<1>3. ASSUME NEW m \in Messages PROVE Circulates(m)' <=> Circulates(m)
  <2>1. /\ \A k \in {"timer", "txt", "processing"} : Where(m, k) <=> dir[NameOf[m]][k] = m
        /\ \A k \in {"timer", "txt", "processing"} : Where(m, k)' <=> dir'[NameOf[m]][k] = m
    BY DEF Where
  <2>2. CASE NameOf[m] \in S
    BY <1>1, <1>2, <2>1, <2>2 DEF MovesAll, Circulates
  <2>3. CASE NameOf[m] \notin S
    BY <1>1, <1>2, <2>1, <2>3 DEF MovesAll, Circulates
  <2> QED
    BY <2>2, <2>3
<1>4. \A m \in Messages : Where(m, "failed")' <=> Where(m, "failed")
  BY <1>1, <1>2 DEF MovesAll, Where
<1> QED
  BY <1>3, <1>4, MailStays

\* What the state of a message says of its files.
LEMMA MailIs ==
  ASSUME StateInv
  PROVE  \A m \in Messages :
           /\ mails[m] = "new" <=> m \notin sent
           /\ mails[m] = "pending" <=> m \in sent /\ Circulates(m)
           /\ mails[m] = "failed" <=> m \in sent /\ ~Circulates(m) /\ Where(m, "failed")
           /\ mails[m] = "over" <=> m \in sent /\ ~Circulates(m) /\ ~Where(m, "failed")
BY DEF mails, MailOf, Circulates

\* Only one message changes, and how.
LEMMA OneChanges ==
  ASSUME NEW m \in Messages,
         \A x \in Messages \ {m} : /\ x \in sent' <=> x \in sent
                                   /\ Circulates(x)' <=> Circulates(x)
                                   /\ Where(x, "failed")' <=> Where(x, "failed")
  PROVE  mails' = [mails EXCEPT ![m] = mails'[m]]
<1>1. \A x \in Messages \ {m} : mails'[x] = mails[x]
  BY DEF mails, MailOf, Circulates
<1> QED
  BY <1>1 DEF mails

LEMMA SenderMails ==
  ASSUME StateInv, NEW m \in Messages,
         \/ m \in Reminders /\ (Write(m) \/ Schedule(m))
         \/ m \in Drops /\ Drop(m)
  PROVE  \/ UNCHANGED mails
         \/ mails[m] = "new" /\ mails' = [mails EXCEPT ![m] = "pending"]
<1>1. \A x \in Messages : NameOf[x] \in Names /\ x # None
  BY NamesFact
<1>2. {"tmp", "timer", "txt", "processing", "failed"} \subseteq Kinds
  BY DEF Kinds
<1>3. StateInv'
  BY SendersStep
<1>4. CASE UNCHANGED sent /\ (Puts(NameOf[m], "tmp", m) \/ Puts(NameOf[m], "tmp", None))
  BY <1>1, <1>2, <1>4, MailStays DEF Puts, Where, Circulates
<1>5. ASSUME m \notin sent, sent' = sent \cup {m}, Circulates(m)',
             \A x \in Messages \ {m} : /\ Circulates(x)' <=> Circulates(x)
                                       /\ Where(x, "failed")' <=> Where(x, "failed")
      PROVE  mails[m] = "new" /\ mails' = [mails EXCEPT ![m] = "pending"]
  <2>1. mails[m] = "new"
    BY <1>5 DEF mails, MailOf
  <2>2. mails'[m] = "pending"
    BY <1>5 DEF mails, MailOf, Circulates
  <2>3. mails' = [mails EXCEPT ![m] = mails'[m]]
    BY <1>5, OneChanges
  <2> QED
    BY <2>1, <2>2, <2>3
<1>6. CASE m \notin sent /\ MovesAll({NameOf[m]}, "tmp", "timer") /\ sent' = sent \cup {m}
           /\ dir[NameOf[m]]["tmp"] = m /\ dir[NameOf[m]]["timer"] = None
  <2>1. Circulates(m)'
    BY <1>1, <1>2, <1>6 DEF MovesAll, Where, Circulates
  <2>2. \A x \in Messages \ {m} : \A k \in Kinds \ {"tmp"} : Where(x, k)' <=> Where(x, k)
    BY <1>1, <1>2, <1>6 DEF MovesAll, Where
  <2> QED
    BY <1>2, <1>5, <1>6, <2>1, <2>2 DEF Circulates
<1>7. CASE m \notin sent /\ Puts(NameOf[m], "txt", m) /\ sent' = sent \cup {m}
           /\ dir[NameOf[m]]["txt"] = None
  <2>1. Circulates(m)'
    BY <1>1, <1>2, <1>7 DEF Puts, Where, Circulates
  <2>2. \A x \in Messages \ {m} : \A k \in Kinds : Where(x, k)' <=> Where(x, k)
    BY <1>1, <1>2, <1>7 DEF Puts, Where
  <2> QED
    BY <1>2, <1>5, <1>7, <2>1, <2>2 DEF Circulates
<1> QED
  BY <1>4, <1>6, <1>7, SendersStep

\* The message in work is pending; heard and deleted, it is over.
LEMMA HeldPends ==
  ASSUME StateInv, pc \in InWork
  PROVE  /\ held \in Messages /\ held \in sent /\ Where(held, "processing") /\ mails[held] = "pending"
         /\ NameOf[held] \in Names /\ \A k \in Kinds : Where(held, k) => k = "processing"
<1>1. held \in Messages /\ NameOf[held] \in Names /\ dir[NameOf[held]]["processing"] = held /\ held # None
  BY NamesFact DEF StateInv, HeldInv, PlaceOK
<1>2. "processing" \in Kinds \ {"tmp"}
  BY DEF Kinds
<1>3. held \in sent /\ Where(held, "processing") /\ \A k \in Kinds : Where(held, k) => k = "processing"
  BY <1>1, <1>2 DEF StateInv, FilesInv, Where
<1>4. mails[held] = "pending"
  BY <1>1, <1>3 DEF mails, MailOf
<1> QED
  BY <1>1, <1>3, <1>4

LEMMA CloseMails ==
  ASSUME StateInv, pc \in InWork, NEW m \in Messages, m = held, UNCHANGED sent,
         Puts(NameOf[m], "processing", None)
  PROVE  mails[m] = "pending" /\ mails' = [mails EXCEPT ![m] = "over"]
<1>1. {"timer", "txt", "processing", "failed"} \subseteq Kinds
      /\ \A x \in Messages : NameOf[x] \in Names /\ x # None
  BY NamesFact DEF Kinds
<1>2. /\ m \in sent /\ Where(m, "processing") /\ mails[m] = "pending"
      /\ \A k \in Kinds : Where(m, k) => k = "processing"
  BY HeldPends
<1>3. \A k \in Kinds : ~Where(m, k)'
  BY <1>1, <1>2 DEF Puts, Where
<1>4. mails'[m] = "over"
  BY <1>1, <1>2, <1>3 DEF mails, MailOf
<1>5. \A x \in Messages \ {m} : \A k \in Kinds : Where(x, k)' <=> Where(x, k)
  BY <1>1, <1>2 DEF Puts, Where
<1>6. mails' = [mails EXCEPT ![m] = mails'[m]]
  BY <1>1, <1>5, OneChanges DEF Circulates
<1> QED
  BY <1>2, <1>4, <1>6

\* Set aside, it may replace the file of another that failed.
LEMMA SetAsideMails ==
  ASSUME StateInv, pc \in InWork, NEW m \in Messages, m = held, UNCHANGED sent,
         MovesAll({NameOf[m]}, "processing", "failed")
  PROVE  /\ mails[m] = "pending"
         /\ \E others \in SUBSET Messages :
              mails' = [n \in Messages |-> IF n = m THEN "failed"
                                           ELSE IF n \in others /\ mails[n] = "failed" THEN "over"
                                           ELSE mails[n]]
<1> DEFINE others == {n \in Messages : NameOf[n] = NameOf[m] /\ Where(n, "failed")}
<1>1. {"timer", "txt", "processing", "failed"} \subseteq Kinds
      /\ \A x \in Messages : NameOf[x] \in Names /\ x # None
  BY NamesFact DEF Kinds
<1>2. /\ m \in sent /\ Where(m, "processing") /\ mails[m] = "pending"
      /\ \A k \in Kinds : Where(m, k) => k = "processing"
  BY HeldPends
<1>3. Where(m, "failed")' /\ \A k \in Kinds \ {"failed"} : ~Where(m, k)'
  BY <1>1, <1>2 DEF MovesAll, Where
<1>4. mails'[m] = "failed"
  BY <1>1, <1>2, <1>3 DEF mails, MailOf
<1>5. ASSUME NEW n \in Messages \ {m}
      PROVE  mails'[n] = IF n \in others /\ mails[n] = "failed" THEN "over" ELSE mails[n]
  <2>1. \A k \in Kinds \ {"failed"} : Where(n, k)' <=> Where(n, k)
    BY <1>1, <1>2 DEF MovesAll, Where
  <2>2. Where(n, "failed")' <=> (Where(n, "failed") /\ NameOf[n] # NameOf[m])
    BY <1>1, <1>2 DEF MovesAll, Where
  <2>3. Circulates(n)' <=> Circulates(n)
    BY <1>1, <2>1 DEF Circulates
  <2>4. mails[n] = IF n \notin sent THEN "new" ELSE IF Circulates(n) THEN "pending"
                   ELSE IF Where(n, "failed") THEN "failed" ELSE "over"
    BY DEF mails, MailOf, Circulates
  <2>5. mails'[n] = IF n \notin sent THEN "new" ELSE IF Circulates(n)' THEN "pending"
                    ELSE IF Where(n, "failed")' THEN "failed" ELSE "over"
    BY DEF mails, MailOf, Circulates
  <2> QED
    BY <2>2, <2>3, <2>4, <2>5
<1>6. mails' = [n \in Messages |-> mails'[n]]
  BY DEF mails
<1>7. others \in SUBSET Messages
  OBVIOUS
<1> HIDE DEF others
<1>8. mails' = [n \in Messages |-> IF n = m THEN "failed"
                                   ELSE IF n \in others /\ mails[n] = "failed" THEN "over"
                                   ELSE mails[n]]
  BY <1>4, <1>5, <1>6
<1> QED
  BY <1>2, <1>7, <1>8

\* Every step of the inbox is a step of the contract, or none of its business.
LEMMA ContractStep ==
  ASSUME StateInv, CountsOK, SpokenInv, [Next]_vars
  PROVE  [Mail!Next]_<<mails, hearers>>
<1>0. DirOK /\ HeldInv /\ PlaceOK /\ FilesInv
  BY DEF StateInv
<1> USE <1>0
<1>1. CASE UNCHANGED <<mails, hearers>>
  BY <1>1
<1>2. UNCHANGED heard => UNCHANGED hearers
  BY DEF hearers
<1>3. CASE UNCHANGED <<dir, sent, heard>>
  BY <1>1, <1>2, <1>3, FilesStay
<1>4. ASSUME NEW m \in Messages,
             (m \in Reminders /\ (Write(m) \/ Schedule(m))) \/ (m \in Drops /\ Drop(m))
      PROVE  [Mail!Next]_<<mails, hearers>>
  <2>1. UNCHANGED hearers
    BY <1>2, <1>4, SendersStep
  <2>2. CASE mails[m] = "new" /\ mails' = [mails EXCEPT ![m] = "pending"]
    BY <2>1, <2>2 DEF Mail!Next, Mail!Accept, mails, hearers
  <2> QED
    BY <1>1, <1>4, <2>1, <2>2, SenderMails
<1>5. ASSUME NEW spoken \in BOOLEAN, pc \in InWork, spoken => pc = "spoken", Finish(spoken),
             UNCHANGED <<sent, heard>>
      PROVE  [Mail!Next]_<<mails, hearers>>
  <2>1. PICK m \in Messages : m = held
    BY <1>5, HeldPends
  <2>2. CASE UNCHANGED dir
    BY <1>3, <1>5, <2>2
  <2>3. CASE spoken /\ Puts(NameOf[m], "processing", None)
    <3>1. m \in hearers
      BY <1>5, <2>1, <2>3 DEF SpokenInv, hearers
    <3>2. mails[m] = "pending" /\ mails' = [mails EXCEPT ![m] = "over"]
      BY <1>5, <2>1, <2>3, CloseMails
    <3> QED
      BY <1>2, <1>5, <3>1, <3>2 DEF Mail!Next, Mail!Close, mails, hearers
  <2>4. CASE MovesAll({NameOf[m]}, "processing", "failed")
    BY <1>2, <1>5, <2>1, <2>4, SetAsideMails DEF Mail!Next, Mail!SetAside, mails, hearers
  <2> QED
    BY <1>5, <2>1, <2>2, <2>3, <2>4, FinishIs
<1>6. CASE Open
  <2>1. PICK S \in SUBSET Names : dir' = Recovered(S) /\ Movable(S)
    BY <1>6, OpenIs DEF DirOK
  <2>2. UNCHANGED <<sent, heard>> /\ MovesAll(S, "processing", "txt")
    BY <1>6, <2>1, RecoveredIs DEF Open, DirOK
  <2>3. UNCHANGED mails
    BY <2>1, <2>2, MoveStays DEF Movable
  <2> QED
    BY <1>1, <1>2, <2>2, <2>3
<1>7. CASE ReleaseDue
  <2>1. ASSUME NEW n \in Names, dir[n]["txt"] = None, MovesAll({n}, "timer", "txt"), UNCHANGED sent
        PROVE  UNCHANGED mails
    <3>1. {n} \in SUBSET Names /\ \A x \in {n} : dir[x]["txt"] = None
      BY <2>1
    <3> QED
      BY <2>1, <3>1, MoveStays
  <2> QED
    BY <1>1, <1>2, <1>3, <1>7, <2>1, ReleaseIs
<1>8. CASE Take
  <2>1. ASSUME NEW n \in Names, dir[n]["processing"] = None, MovesAll({n}, "txt", "processing"),
               UNCHANGED sent
        PROVE  UNCHANGED mails
    <3>1. {n} \in SUBSET Names /\ \A x \in {n} : dir[x]["processing"] = None
      BY <2>1
    <3> QED
      BY <2>1, <3>1, MoveStays
  <2> QED
    BY <1>1, <1>2, <1>3, <1>8, <2>1, TakeIs
<1>9. CASE Read
  BY <1>3, <1>5, <1>9 DEF Read, InWork
<1>10. CASE Heard
  <2>1. PICK m \in Messages : m = held
    BY <1>10, HeldPends DEF Heard, InWork
  <2>2. mails[m] = "pending" /\ UNCHANGED mails
    BY <1>10, <2>1, HeldPends, FilesStay DEF Heard, InWork
  <2>3. hearers' = hearers \cup {m}
    <3>1. heard' = [heard EXCEPT ![m] = heard[m] + 1] /\ heard \in [Messages -> Nat]
      BY <1>10, <2>1 DEF Heard, CountsOK
    <3>2. \A x \in Messages : heard'[x] = IF x = m THEN heard[m] + 1 ELSE heard[x]
      BY <3>1
    <3>3. \A x \in Messages : heard'[x] > 0 <=> (x = m \/ heard[x] > 0)
      BY <3>1, <3>2
    <3> QED
      BY <3>3 DEF hearers
  <2> QED
    BY <2>2, <2>3 DEF Mail!Next, Mail!Hear, mails, hearers
<1>11. CASE Complete
  BY <1>5, <1>11 DEF Complete, InWork
<1>12. CASE Settings
  <2>1. UNCHANGED <<sent, heard>>
    BY <1>12, SettingsIs
  <2>2. CASE UNCHANGED dir
    BY <1>3, <2>1, <2>2
  <2>3. ASSUME NEW m \in Messages, m = held, MovesAll({NameOf[m]}, "processing", "failed")
        PROVE  [Mail!Next]_<<mails, hearers>>
    <3>1. pc \in InWork
      BY <2>3, NamesFact DEF HeldInv
    <3> QED
      BY <1>2, <2>1, <2>3, <3>1, SetAsideMails DEF Mail!Next, Mail!SetAside, mails, hearers
  <2> QED
    BY <1>12, <2>2, <2>3, SettingsIs
<1>13. CASE Tick \/ Crash \/ Restart \/ UNCHANGED vars
  BY <1>3, <1>13 DEF Tick, Crash, Restart, vars
<1> QED
  BY <1>4, <1>6, <1>7, <1>8, <1>9, <1>10, <1>11, <1>12, <1>13, NamesFact DEF Next, App

\* The renames, deletions and recoveries of dio_announcement_* implement the
\* contract: what was accepted is pending until it was heard or was set aside,
\* and nothing else is heard, through crashes and failed calls at any step.
THEOREM ImplementsContract == Spec => ImplementsMail
<1>1. Init => Mail!Init
  <2> SUFFICES ASSUME Init PROVE Mail!Init
    OBVIOUS
  <2>1. mails = [m \in Messages |-> "new"] /\ hearers = {}
    BY DEF Init, mails, MailOf, hearers
  <2> QED
    BY <2>1 DEF Mail!Init, mails, hearers
<1>2. Init => SpokenInv
  BY DEF Init, SpokenInv
<1>3. StateInv /\ CountsOK /\ SpokenInv /\ [Next]_vars
        => [Mail!Next]_<<[m \in Messages |-> MailOf(m)], {m \in Messages : heard[m] > 0}>>
  BY ContractStep DEF mails, hearers
<1> QED
  BY <1>1, <1>2, <1>3, SpokenStep, FilesInvariant, PTL DEF Spec, ImplementsMail, Mail!Spec

--------------------------------------------------------------------------------
(* The worker                                                               *)

(* Records                                                                  *)

Fields == DOMAIN Blank
AgFields == DOMAIN NoAgent
CoreFields == DOMAIN NoCore

\* y is x but for the fields in S.
Same(x, y, S) == \A f \in Fields \ S : y[f] = x[f]
SameCore(c, d, S) == \A f \in CoreFields \ S : d[f] = c[f]

\* The names of the fields, so that the records themselves need not be expanded.
LEMMA FieldNames ==
  /\ "agent" \in Fields /\ "ready" \in Fields /\ "starting" \in Fields
  /\ "agentGen" \in Fields /\ "agentRestart" \in Fields /\ "agentTries" \in Fields
  /\ "voice" \in Fields /\ "voiceReady" \in Fields /\ "voiceGen" \in Fields
  /\ "voiceRestart" \in Fields /\ "voiceTries" \in Fields /\ "paused" \in Fields
  /\ "turn" \in Fields /\ "suppressed" \in Fields /\ "complete" \in Fields
  /\ "followAllowed" \in Fields /\ "followListening" \in Fields
  /\ "listening" \in Fields /\ "gated" \in Fields /\ "ptt" \in Fields
  /\ "speech" \in Fields /\ "nextId" \in Fields /\ "turnId" \in Fields
  /\ "pcm" \in Fields /\ "streamId" \in Fields /\ "streamAudio" \in Fields
  /\ "text" \in Fields /\ "receipt" \in Fields /\ "queue" \in Fields
  /\ "overflow" \in Fields /\ "ag" \in Fields /\ "core" \in Fields
  /\ "ann" \in Fields /\ "annHeard" \in Fields /\ "turns" \in Fields
  /\ "incidents" \in Fields /\ "quiet" \in Fields /\ "unheard" \in Fields
  /\ "refused" \in Fields
<1>1. Fields =
  {"agent", "ready", "starting", "agentGen", "agentRestart", "agentTries", "voice",
   "voiceReady", "voiceGen", "voiceRestart", "voiceTries", "paused", "turn",
   "suppressed", "complete", "followAllowed", "followListening", "listening", "gated",
   "ptt", "speech", "nextId", "turnId", "pcm", "streamId", "streamAudio", "text",
   "receipt", "queue", "overflow", "ag", "core", "ann", "annHeard", "turns",
   "incidents", "quiet", "unheard", "refused"}
  BY DEF Fields, Blank
<1> QED
  BY <1>1

LEMMA AgNames ==
  /\ "st" \in AgFields /\ "turn" \in AgFields /\ "accepted" \in AgFields
  /\ "pcm" \in AgFields /\ "cancel" \in AgFields /\ "said" \in AgFields
BY DEF AgFields, NoAgent

LEMMA CoreNames ==
  /\ "mode" \in CoreFields /\ "paused" \in CoreFields /\ "ptt" \in CoreFields
  /\ "follow" \in CoreFields /\ "cancel" \in CoreFields /\ "active" \in CoreFields
  /\ "begun" \in CoreFields /\ "waiting" \in CoreFields /\ "stream" \in CoreFields
  /\ "input" \in CoreFields /\ "failed" \in CoreFields
BY DEF CoreFields, NoCore

--------------------------------------------------------------------------------
(* Types                                                                    *)

UiTypes == {"SET_PAUSED", "PUSH_TO_TALK", "CANCEL", "SETTINGS", "EXIT"}
AgentTypes == {"READY", "ACCEPTED", "DELTA", "PCM", "COMPLETE", "ERROR"}
VoiceTypes == {"READY", "WAKE", "LISTENING", "TRANSCRIPT", "SPEAKING",
               "SPEECH_COMPLETE", "IDLE", "ERROR"}
Sent(from, types) == [from : {from}, gen : Nat, type : types, id : Nat, flag : BOOLEAN]
Events == Sent("ui", UiTypes) \union Sent("agent", AgentTypes) \union Sent("voice", VoiceTypes)
Utterances == [id : Nat \ {0}, kind : {"agent", "announcement"}]

QueueOK(x) == x.queue \in Seq(Events) /\ Len(x.queue) <= QueueCap
SpeechOK(x) ==
  x.speech \in Seq(Utterances) /\ Len(x.speech) <= SpeechCap /\ x.nextId \in Nat
CountersOK(x) ==
  /\ x.agentGen \in Nat /\ x.voiceGen \in Nat /\ x.turns \in Nat
  /\ x.agentTries \in 0 .. MaxRestarts /\ x.voiceTries \in 0 .. MaxRestarts
  /\ x.agentRestart => x.agentTries < MaxRestarts
  /\ x.voiceRestart => x.voiceTries < MaxRestarts
AgOK(x) ==
  /\ DOMAIN x.ag = AgFields /\ x.ag.turn \in Nat
  /\ x.ag.st \in {"none", "starting", "ready", "active", "failed"}
CoreOK(x) ==
  /\ DOMAIN x.core = CoreFields
  /\ x.core.mode \in {"wake", "listening", "follow", "paused"}
  /\ x.core.active \in Nat /\ x.core.waiting \in Seq(Nat)
AnnOK(x) == x.receipt \in Nat /\ x.ann \in {"due", "held", "spoken", "failed"}
AppOK(x) ==
  /\ DOMAIN x = Fields
  /\ QueueOK(x) /\ SpeechOK(x) /\ CountersOK(x) /\ AgOK(x) /\ CoreOK(x) /\ AnnOK(x)

\* What an event is made of, and what it can be.
LEMMA EventFields ==
  \A from : \A g : \A t : \A n : \A b :
    /\ Event(from, g, t, n, b).from = from /\ Event(from, g, t, n, b).gen = g
    /\ Event(from, g, t, n, b).type = t /\ Event(from, g, t, n, b).id = n
    /\ Event(from, g, t, n, b).flag = b
BY DEF Event

LEMMA EventIn ==
  /\ \A g \in Nat : \A t \in AgentTypes : \A n \in Nat : \A b \in BOOLEAN :
       Event("agent", g, t, n, b) \in Events
  /\ \A g \in Nat : \A t \in VoiceTypes : \A n \in Nat : \A b \in BOOLEAN :
       Event("voice", g, t, n, b) \in Events
  /\ \A t \in UiTypes : \A b \in BOOLEAN : Event("ui", 0, t, 0, b) \in Events
BY DEF Event, Events, Sent

LEMMA EventTypes ==
  ASSUME NEW e \in Events
  PROVE  /\ e.gen \in Nat /\ e.id \in Nat /\ e.flag \in BOOLEAN /\ e.type \in Types
         /\ \/ e.from = "ui" /\ e.type \in UiTypes
            \/ e.from = "agent" /\ e.type \in AgentTypes
            \/ e.from = "voice" /\ e.type \in VoiceTypes
BY DEF Events, Sent, Types, UiTypes, AgentTypes, VoiceTypes

--------------------------------------------------------------------------------
(* The queue                                                                *)

\* What is pushed is appended as far as there is room, and an overflow says that
\* there was none.
Pushed(x, y, events) ==
  /\ y.queue \in Seq(Events) /\ Len(y.queue) <= QueueCap
  /\ Len(x.queue) <= Len(y.queue) /\ Len(y.queue) <= Len(x.queue) + Len(events)
  /\ \A i \in 1..Len(x.queue) : y.queue[i] = x.queue[i]
  /\ \A i \in 1..Len(y.queue) : i > Len(x.queue) =>
       i - Len(x.queue) \in 1..Len(events) /\ y.queue[i] = events[i - Len(x.queue)]
  /\ y.overflow \/ Len(y.queue) = Len(x.queue) + Len(events)
  /\ x.overflow => y.overflow

PushedOne(x, y, e) ==
  \/ y.queue = Append(x.queue, e) /\ Len(y.queue) <= QueueCap /\ y.overflow = x.overflow
  \/ y.queue = x.queue /\ y.overflow = TRUE

\* Events are appended as far as there is room.
LEMMA PushAllIs ==
  ASSUME NEW x, DOMAIN x = Fields, QueueOK(x), NEW events \in Seq(Events),
         NEW y, y = PushAll(x, events)
  PROVE  /\ DOMAIN y = Fields /\ Same(x, y, {"queue", "overflow"})
         /\ Pushed(x, y, events)
<1> DEFINE all == x.queue \o events
<1>1. all \in Seq(Events) /\ Len(all) = Len(x.queue) + Len(events)
  BY DEF QueueOK
<1>2. \A i \in 1..Len(all) : all[i] = IF i <= Len(x.queue) THEN x.queue[i] ELSE events[i - Len(x.queue)]
  BY DEF QueueOK
<1>3. QueueCap \in Nat /\ Len(x.queue) \in Nat /\ Len(events) \in Nat
  BY ControllerAssumption DEF QueueOK
<1>4. DOMAIN y = Fields /\ Same(x, y, {"queue", "overflow"})
  BY FieldNames DEF PushAll, Same
<1>5. CASE Len(all) <= QueueCap
  <2>1. y.queue = all /\ y.overflow = x.overflow
    BY <1>5, FieldNames DEF PushAll
  <2> HIDE DEF all
  <2>2. \A i \in 1..Len(x.queue) : y.queue[i] = x.queue[i]
    BY <1>1, <1>2, <1>3, <2>1
  <2>3. \A i \in 1..Len(y.queue) : i > Len(x.queue) =>
          i - Len(x.queue) \in 1..Len(events) /\ y.queue[i] = events[i - Len(x.queue)]
    BY <1>1, <1>2, <1>3, <2>1
  <2> QED
    BY <1>1, <1>3, <1>4, <1>5, <2>1, <2>2, <2>3 DEF Pushed
<1>6. CASE ~(Len(all) <= QueueCap)
  <2>1. y.queue = SubSeq(all, 1, QueueCap) /\ y.overflow = TRUE
    BY <1>6, FieldNames DEF PushAll
  <2> HIDE DEF all
  <2>2. y.queue \in Seq(Events) /\ Len(y.queue) = QueueCap
    BY <1>1, <1>3, <1>6, <2>1
  <2>3. \A i \in 1..QueueCap : y.queue[i] = all[i]
    BY <1>1, <1>3, <1>6, <2>1
  <2> QED
    BY <1>1, <1>2, <1>3, <1>4, <1>6, <2>1, <2>2, <2>3 DEF QueueOK, Pushed
<1> QED
  BY <1>5, <1>6

\* One event is appended, or lost with an overflow.
LEMMA PushOneIs ==
  ASSUME NEW x, DOMAIN x = Fields, QueueOK(x), NEW e \in Events,
         NEW y, y = PushAll(x, <<e>>)
  PROVE  /\ DOMAIN y = Fields /\ Same(x, y, {"queue", "overflow"})
         /\ PushedOne(x, y, e) /\ QueueOK(y)
<1> DEFINE all == x.queue \o <<e>>
<1>1. all = Append(x.queue, e) /\ Len(all) = Len(x.queue) + 1 /\ all \in Seq(Events)
  BY DEF QueueOK
<1>3. QueueCap \in Nat /\ Len(x.queue) \in Nat
  BY ControllerAssumption DEF QueueOK
<1>4. DOMAIN y = Fields /\ Same(x, y, {"queue", "overflow"})
  BY FieldNames DEF PushAll, Same
<1>5. CASE Len(all) <= QueueCap
  <2>1. y.queue = all /\ y.overflow = x.overflow
    BY <1>5, FieldNames DEF PushAll
  <2> QED
    BY <1>1, <1>4, <1>5, <2>1 DEF QueueOK, PushedOne
<1>6. CASE ~(Len(all) <= QueueCap)
  <2>1. y.queue = SubSeq(all, 1, QueueCap) /\ y.overflow = TRUE
    BY <1>6, FieldNames DEF PushAll
  <2>2. QueueCap = Len(x.queue)
    BY <1>1, <1>3, <1>6 DEF QueueOK
  <2> HIDE DEF all
  <2>3. \A i \in 1..Len(x.queue) : all[i] = x.queue[i]
    BY <1>1 DEF QueueOK
  <2>4. SubSeq(all, 1, QueueCap) = x.queue
    BY <1>1, <1>3, <2>2, <2>3 DEF QueueOK
  <2> QED
    BY <1>4, <2>1, <2>4 DEF PushedOne, QueueOK
<1> QED
  BY <1>5, <1>6

At(x) == 1..Len(x.queue)

\* The queue of y is that of x and behind it events of a set, all of them unless
\* an overflow is raised.
Extends(x, y, new) ==
  /\ Len(x.queue) <= Len(y.queue)
  /\ \A i \in At(x) : y.queue[i] = x.queue[i]
  /\ \A i \in At(y) : i \in At(x) \/ (i > Len(x.queue) /\ y.queue[i] \in new)
  /\ y.overflow \/ \A e \in new : \E i \in At(y) : i > Len(x.queue) /\ y.queue[i] = e
  /\ x.overflow => y.overflow

\* So the queue is extended by what was pushed, or by nothing.
LEMMA OneExtends ==
  ASSUME NEW x, NEW y, NEW e \in Events, QueueOK(x), PushedOne(x, y, e)
  PROVE  Extends(x, y, {e}) /\ Len(y.queue) <= Len(x.queue) + 1
<1>1. CASE y.queue = Append(x.queue, e) /\ y.overflow = x.overflow
  <2>1. /\ Len(y.queue) = Len(x.queue) + 1 /\ Len(x.queue) \in Nat
        /\ \A i \in 1..Len(x.queue) : y.queue[i] = x.queue[i]
        /\ y.queue[Len(x.queue) + 1] = e
    BY <1>1 DEF QueueOK
  <2>2. Len(x.queue) + 1 \in At(y)
    BY <2>1 DEF At
  <2> QED
    BY <1>1, <2>1, <2>2 DEF Extends, At
<1>2. CASE y.queue = x.queue /\ y.overflow = TRUE
  BY <1>2 DEF Extends, At, QueueOK
<1> QED
  BY <1>1, <1>2 DEF PushedOne

LEMMA PushedExtends ==
  ASSUME NEW x, NEW y, NEW events \in Seq(Events), QueueOK(x), Pushed(x, y, events)
  PROVE  Extends(x, y, {events[i] : i \in 1..Len(events)})
<1>1. Len(x.queue) \in Nat /\ Len(y.queue) \in Nat /\ Len(events) \in Nat
  BY DEF QueueOK, Pushed
<1>2. ASSUME ~y.overflow, NEW k \in 1..Len(events)
      PROVE  \E i \in At(y) : i > Len(x.queue) /\ y.queue[i] = events[k]
  <2>1. Len(x.queue) + k \in 1..Len(y.queue) /\ Len(x.queue) + k > Len(x.queue)
    BY <1>1, <1>2 DEF Pushed
  <2>2. y.queue[Len(x.queue) + k] = events[(Len(x.queue) + k) - Len(x.queue)]
    BY <2>1 DEF Pushed
  <2>3. (Len(x.queue) + k) - Len(x.queue) = k
    BY <1>1
  <2> QED
    BY <2>1, <2>2, <2>3 DEF At
<1>3. \A i \in At(y) : i \in At(x) \/ (i > Len(x.queue) /\ y.queue[i] \in {events[k] : k \in 1..Len(events)})
  <2> TAKE i \in At(y)
  <2>1. CASE i > Len(x.queue)
    <3>1. i - Len(x.queue) \in 1..Len(events) /\ y.queue[i] = events[i - Len(x.queue)]
      BY <2>1 DEF Pushed, At
    <3> QED
      BY <2>1, <3>1
  <2> QED
    BY <1>1, <2>1 DEF At
<1>4. /\ Len(x.queue) <= Len(y.queue)
      /\ \A i \in At(x) : y.queue[i] = x.queue[i]
      /\ x.overflow => y.overflow
  BY DEF Pushed, At
<1> QED
  BY <1>2, <1>3, <1>4 DEF Extends

LEMMA NoneExtends ==
  ASSUME NEW x, NEW y, QueueOK(x), y.queue = x.queue, y.overflow = x.overflow
  PROVE  Extends(x, y, {})
BY DEF Extends, At, QueueOK

--------------------------------------------------------------------------------
(* The invariant, part by part                                              *)

OfAgent(x, e) == e.from = "agent" /\ e.gen = x.agentGen
OfVoice(x, e) == e.from = "voice" /\ e.gen = x.voiceGen

\* The end of a turn, or of the transport; output of a turn; a completion.
Over(x, e) == OfAgent(x, e) /\ e.type \in {"COMPLETE", "ERROR"}
Ends(x, e) == Over(x, e) /\ (e.type = "ERROR" => ~e.flag)
Outputs(x, e) == OfAgent(x, e) /\ e.type \in {"DELTA", "PCM"}
Completes(x, e) == OfVoice(x, e) /\ e.type = "SPEECH_COMPLETE"

OverComes(x) == \E i \in At(x) : Over(x, x.queue[i])
EndComes(x) == \E i \in At(x) : Ends(x, x.queue[i])
OutputComes(x) == \E i \in At(x) : Outputs(x, x.queue[i])
Done(x, id) == \E i \in At(x) : Completes(x, x.queue[i]) /\ x.queue[i].id = id
DoneWell(x, id) ==
  \E i \in At(x) : Completes(x, x.queue[i]) /\ x.queue[i].id = id /\ x.queue[i].flag
Tracks(x, id) == \E i \in 1..Len(x.speech) : x.speech[i].id = id
Carries(c, id) ==
  id # 0 /\ (id = c.active \/ \E i \in 1..Len(c.waiting) : c.waiting[i] = id)

\* No event is of an agent to come, and none of one that is closed is of the
\* current generation.
AgentGens(x) ==
  \A i \in At(x) : x.queue[i].from = "agent" =>
    x.queue[i].gen <= x.agentGen /\ (x.agent \/ x.queue[i].gen < x.agentGen)
VoiceGens(x) ==
  \A i \in At(x) : x.queue[i].from = "voice" =>
    x.queue[i].gen <= x.voiceGen /\ (x.voice \/ x.queue[i].gen < x.voiceGen)

\* A turn ends once, and nothing of it comes after its end.
EndIsLast(x) ==
  \A i, j \in At(x) : i < j /\ Ends(x, x.queue[i]) =>
    ~Ends(x, x.queue[j]) /\ ~Outputs(x, x.queue[j])

\* The agent works on a turn only in a turn of the worker, and not after its end was
\* sent; and what is pending of a turn is of the one that is active.
TurnInv(x) ==
  /\ x.agent <=> x.ag.st # "none"
  /\ x.turn => x.agent
  /\ x.ag.st = "active" => x.turn /\ ~x.refused /\ ~EndComes(x)
  /\ EndComes(x) \/ OutputComes(x) => x.turn
  /\ EndIsLast(x) /\ AgentGens(x)

\* A turn of the worker ends: the agent works on it, or its end is on the way.
EndInv(x) == x.turn => x.refused \/ x.ag.st = "active" \/ x.overflow \/ OverComes(x)

\* A core that is closed leaves nothing behind.
VoiceInv(x) ==
  /\ VoiceGens(x)
  /\ ~x.voice => x.speech = <<>> /\ x.core = NoCore /\ ~x.voiceReady /\ ~x.streamAudio

\* What waits in the core waits once.
WaitingOK(c) ==
  /\ \A i \in 1..Len(c.waiting) : c.waiting[i] # 0 /\ c.waiting[i] # c.active
  /\ \A i, j \in 1..Len(c.waiting) : c.waiting[i] = c.waiting[j] => i = j

\* What is in the core is tracked and not completed, and no id is used twice.
SpeechInv(x) ==
  /\ WaitingOK(x.core)
  /\ \A i, j \in 1..Len(x.speech) : x.speech[i].id = x.speech[j].id => i = j
  /\ \A id \in Nat : Carries(x.core, id) => Tracks(x, id) /\ ~Done(x, id)
  /\ \A id \in Nat : Tracks(x, id) \/ Done(x, id) => id <= x.nextId

\* What is tracked is in the core, or its completion is on the way.
TrackInv(x) ==
  x.overflow \/ \A id \in Nat : Tracks(x, id) => Carries(x.core, id) \/ Done(x, id)

\* The announcement that is held is tracked, outside of a turn.
AnnInv(x) ==
  /\ x.ann = "held" <=> x.receipt # 0
  /\ x.receipt # 0 => Tracks(x, x.receipt) /\ ~x.turn /\ ~x.complete
  /\ x.ann = "spoken" => x.annHeard
  /\ x.receipt # 0 /\ DoneWell(x, x.receipt) => x.annHeard

\* The gate is closed during a turn and until its answer was spoken.
GateInv(x) ==
  /\ x.gated <=> x.turn \/ x.complete
  /\ ~(x.turn /\ x.complete)
  /\ x.ptt => ~x.paused

\* A cancelled answer opens no follow-up; and if a part of an answer was not heard, the
\* utterance is still to be completed, without success.
AnswerInv(x) ==
  /\ x.quiet => ~x.followAllowed /\ (x.turn => x.suppressed)
  /\ x.followAllowed /\ x.unheard =>
       \E id \in Nat : Tracks(x, id) /\ ~Carries(x.core, id) /\ ~DoneWell(x, id)

\* The core is paused as the worker wants it.
MicInv(x) ==
  x.voice /\ x.voiceReady /\ ~x.core.failed /\ ~x.overflow =>
    /\ x.paused \/ x.gated => x.core.paused
    /\ x.core.paused => x.paused \/ x.gated \/ x.ptt

\* A push-to-talk that waits is heard before anything else is: behind the speech
\* it has cancelled, or when the core is idle.
IdleFirst(x, i) ==
  /\ OfVoice(x, x.queue[i]) /\ x.queue[i].type = "IDLE"
  /\ \A j \in 1..i : ~(OfVoice(x, x.queue[j]) /\ x.queue[j].type = "TRANSCRIPT")
PttFits(x) == x.overflow \/ (x.ptt => ~x.complete /\ (x.turn => x.suppressed))
PttTried(x) ==
  x.voice /\ x.voiceReady /\ x.ptt /\ ~x.turn /\ ~x.overflow =>
    x.speech # <<>> \/ \E i \in At(x) : IdleFirst(x, i)
StartsIdle(x) ==
  x.voice /\ ~x.voiceReady /\ ~x.overflow =>
    \E i, k \in At(x) : /\ i < k /\ IdleFirst(x, k)
                        /\ OfVoice(x, x.queue[i]) /\ x.queue[i].type = "READY"

\* What holds even inside a handler, and what holds between them.
Base(x) ==
  /\ AppOK(x) /\ TurnInv(x) /\ VoiceInv(x) /\ SpeechInv(x) /\ AnnInv(x) /\ GateInv(x)
AppInv(x) ==
  /\ Base(x) /\ AnswerInv(x) /\ EndInv(x) /\ TrackInv(x)
  /\ MicInv(x) /\ PttFits(x) /\ PttTried(x) /\ StartsIdle(x)

\* A piece of a handler keeps what holds inside of it, and the rest if it held.
Keeps(x, y) ==
  /\ Base(y) /\ (x.overflow => y.overflow)
  /\ AnswerInv(x) => AnswerInv(y)
  /\ EndInv(x) => EndInv(y)
  /\ TrackInv(x) => TrackInv(y)
  /\ PttTried(x) => PttTried(y)
  /\ StartsIdle(x) => StartsIdle(y)

--------------------------------------------------------------------------------
(* What is pushed and the parts of the invariant                            *)

\* New events that tell nothing of a turn's output or end.
Harmless(x, new) ==
  \A e \in new : e.from = "agent" => OfAgent(x, e) /\ x.agent /\ ~Ends(x, e) /\ ~Outputs(x, e)

\* A push that tells nothing of a turn leaves what is known of it.
LEMMA TurnPush ==
  ASSUME NEW x, NEW y, NEW new, Extends(x, y, new), QueueOK(x), QueueOK(y), TurnInv(x),
         Harmless(x, new), y.agentGen = x.agentGen, y.agent = x.agent, x.agentGen \in Nat
  PROVE  /\ EndComes(y) <=> EndComes(x)
         /\ OutputComes(y) <=> OutputComes(x)
         /\ OverComes(x) => OverComes(y)
         /\ EndIsLast(y) /\ AgentGens(y)
<1>1. Len(x.queue) \in Nat /\ Len(y.queue) \in Nat /\ At(x) \subseteq At(y)
  BY DEF QueueOK, At, Extends
<1>2. \A i \in At(x) : y.queue[i] = x.queue[i]
  BY DEF Extends
<1>3. \A i \in At(y) : i \in At(x) \/ (i > Len(x.queue) /\ y.queue[i] \in new)
  BY DEF Extends
<1>4. \A e : Ends(y, e) = Ends(x, e) /\ Outputs(y, e) = Outputs(x, e) /\ Over(y, e) = Over(x, e)
  BY DEF Ends, Outputs, Over, OfAgent
<1>5. \A i \in At(y) : Ends(x, y.queue[i]) \/ Outputs(x, y.queue[i]) => i \in At(x)
  BY <1>3 DEF Harmless, Ends, Outputs, Over, OfAgent
<1>6. AgentGens(y)
  BY <1>2, <1>3 DEF Harmless, OfAgent, AgentGens, TurnInv
<1>7. EndIsLast(y)
  BY <1>1, <1>2, <1>4, <1>5 DEF EndIsLast, TurnInv
<1> QED
  BY <1>1, <1>2, <1>4, <1>5, <1>6, <1>7 DEF EndComes, OutputComes, OverComes

\* A push adds the completions that are in it, and no other.
LEMMA DonePush ==
  ASSUME NEW x, NEW y, NEW new, Extends(x, y, new), QueueOK(x), QueueOK(y),
         y.voiceGen = x.voiceGen
  PROVE  \A id :
           /\ Done(x, id) => Done(y, id)
           /\ Done(y, id) => Done(x, id) \/ \E e \in new : Completes(x, e) /\ e.id = id
           /\ DoneWell(y, id) => DoneWell(x, id) \/ \E e \in new : Completes(x, e) /\ e.id = id /\ e.flag
           /\ y.overflow \/ \A e \in new : Completes(x, e) /\ e.id = id => Done(y, id)
<1>1. \A e : Completes(y, e) = Completes(x, e)
  BY DEF Completes, OfVoice
<1>2. At(x) \subseteq At(y)
  BY DEF QueueOK, At, Extends
<1> QED
  BY <1>1, <1>2 DEF Extends, Done, DoneWell

\* What a push-to-talk waits for stays in the queue.
LEMMA PttPush ==
  ASSUME NEW x, NEW y, NEW new, Extends(x, y, new), QueueOK(x), QueueOK(y),
         y.voiceGen = x.voiceGen
  PROVE  \A i \in At(x) : i \in At(y) /\ y.queue[i] = x.queue[i] /\ (IdleFirst(x, i) => IdleFirst(y, i))
<1>1. At(x) \subseteq At(y) /\ \A i \in At(x) : y.queue[i] = x.queue[i]
  BY DEF QueueOK, At, Extends
<1>2. \A i \in At(x) : \A j \in 1..i : j \in At(x)
  BY DEF QueueOK, At
<1> QED
  BY <1>1, <1>2 DEF IdleFirst, OfVoice

LEMMA VoicePush ==
  ASSUME NEW x, NEW y, NEW new, Extends(x, y, new), QueueOK(x), QueueOK(y), VoiceGens(x),
         y.voiceGen = x.voiceGen, y.voice = x.voice, x.voiceGen \in Nat,
         \A e \in new : e.from = "voice" => e.gen = x.voiceGen /\ x.voice
  PROVE  VoiceGens(y)
BY DEF Extends, VoiceGens, At

\* Each part of the invariant depends on a few fields: a step that keeps them keeps it.
LEMMA TurnKept ==
  ASSUME NEW x, NEW y, NEW new, Extends(x, y, new), QueueOK(x), QueueOK(y), TurnInv(x),
         Harmless(x, new), x.agentGen \in Nat,
         y.agentGen = x.agentGen, y.agent = x.agent, y.ag.st = x.ag.st, y.turn = x.turn,
         y.refused = x.refused
  PROVE  TurnInv(y) /\ (EndInv(x) => EndInv(y))
<1>1. /\ EndComes(y) <=> EndComes(x)
      /\ OutputComes(y) <=> OutputComes(x)
      /\ OverComes(x) => OverComes(y)
      /\ EndIsLast(y) /\ AgentGens(y)
  BY TurnPush
<1>2. x.overflow => y.overflow
  BY DEF Extends
<1> QED
  BY <1>1, <1>2 DEF TurnInv, EndInv

LEMMA VoiceKept ==
  ASSUME NEW x, NEW y, NEW new, Extends(x, y, new), QueueOK(x), QueueOK(y), VoiceInv(x),
         y.voiceGen = x.voiceGen, y.voice = x.voice, x.voiceGen \in Nat,
         x.voice \/ (y.speech = x.speech /\ y.core = x.core /\ y.voiceReady = x.voiceReady),
         y.streamAudio => x.streamAudio \/ x.voice,
         \A e \in new : e.from = "voice" => e.gen = x.voiceGen /\ x.voice
  PROVE  VoiceInv(y)
<1>1. VoiceGens(y)
  BY VoicePush DEF VoiceInv
<1> QED
  BY <1>1 DEF VoiceInv

SameSpeech(x, y) ==
  /\ y.speech = x.speech /\ y.voiceGen = x.voiceGen
  /\ y.core.active = x.core.active /\ y.core.waiting = x.core.waiting

LEMMA SpeechKept ==
  ASSUME NEW x, NEW y, NEW new, Extends(x, y, new), QueueOK(x), QueueOK(y), SpeechInv(x),
         SameSpeech(x, y), y.nextId = x.nextId, \A e \in new : ~Completes(x, e)
  PROVE  SpeechInv(y) /\ (TrackInv(x) => TrackInv(y))
<1>0. y.voiceGen = x.voiceGen /\ (x.overflow => y.overflow)
  BY DEF SameSpeech, Extends
<1>1. \A id : Done(y, id) <=> Done(x, id)
  BY <1>0, DonePush
<1>2. \A id : (Tracks(y, id) <=> Tracks(x, id)) /\ (Carries(y.core, id) <=> Carries(x.core, id))
  BY DEF Tracks, Carries, SameSpeech
<1>3. WaitingOK(y.core)
  BY DEF SpeechInv, WaitingOK, SameSpeech
<1> QED
  BY <1>0, <1>1, <1>2, <1>3 DEF SpeechInv, TrackInv, SameSpeech

LEMMA AnnKept ==
  ASSUME NEW x, NEW y, NEW new, Extends(x, y, new), QueueOK(x), QueueOK(y), AnnInv(x),
         y.ann = x.ann, y.receipt = x.receipt, y.speech = x.speech, y.voiceGen = x.voiceGen,
         y.annHeard = x.annHeard, x.receipt = 0 \/ (~y.turn /\ ~y.complete),
         \A e \in new : Completes(x, e) => ~e.flag
  PROVE  AnnInv(y)
<1>1. \A id : DoneWell(y, id) => DoneWell(x, id)
  BY DonePush
<1>2. \A id : (Tracks(y, id) <=> Tracks(x, id))
  BY DEF Tracks
<1> QED
  BY <1>1, <1>2 DEF AnnInv

LEMMA AnswerKept ==
  ASSUME NEW x, NEW y, NEW new, Extends(x, y, new), QueueOK(x), QueueOK(y), AnswerInv(x),
         y.quiet => ~y.followAllowed /\ (y.turn => y.suppressed),
         y.followAllowed => x.followAllowed, y.unheard = x.unheard,
         y.speech = x.speech, y.voiceGen = x.voiceGen,
         \A id \in Nat : Carries(y.core, id) => Carries(x.core, id),
         \A e \in new : Completes(x, e) => ~e.flag
  PROVE  AnswerInv(y)
<1>1. \A id : DoneWell(y, id) => DoneWell(x, id)
  BY DonePush
<1>2. \A id : (Tracks(y, id) <=> Tracks(x, id))
  BY DEF Tracks
<1> QED
  BY <1>1, <1>2 DEF AnswerInv

LEMMA TriedKept ==
  ASSUME NEW x, NEW y, NEW new, Extends(x, y, new), QueueOK(x), QueueOK(y),
         y.voiceGen = x.voiceGen, y.voice = x.voice, y.voiceReady = x.voiceReady,
         y.ptt => x.ptt, x.turn => y.turn, x.speech # <<>> => y.speech # <<>>
  PROVE  (PttTried(x) => PttTried(y)) /\ (StartsIdle(x) => StartsIdle(y))
<1>1. \A i \in At(x) : i \in At(y) /\ y.queue[i] = x.queue[i] /\ (IdleFirst(x, i) => IdleFirst(y, i))
  BY PttPush
<1>2. x.overflow => y.overflow
  BY DEF Extends
<1>3. \A e : OfVoice(y, e) = OfVoice(x, e)
  BY DEF OfVoice
<1> QED
  BY <1>1, <1>2, <1>3 DEF PttTried, StartsIdle


\* The fields that decide what the microphone does.
SameMic(x, y) ==
  /\ y.voice = x.voice /\ y.voiceReady = x.voiceReady /\ (x.overflow => y.overflow)
  /\ (x.core.failed => y.core.failed) /\ y.core.paused = x.core.paused
  /\ y.paused = x.paused /\ y.gated = x.gated /\ y.ptt = x.ptt

LEMMA MicKept ==
  ASSUME NEW x, NEW y, SameMic(x, y), MicInv(x)
  PROVE  MicInv(y)
BY DEF SameMic, MicInv

\* Two steps that keep the invariant keep it together.
LEMMA KeepsTwice ==
  ASSUME NEW x, NEW y, NEW z, Keeps(x, y), Keeps(y, z)
  PROVE  Keeps(x, z)
BY DEF Keeps

--------------------------------------------------------------------------------
(* Steps that only report, and only change what the parts do not speak of   *)

Idle == {"queue", "overflow", "incidents", "listening", "turnId", "pcm", "streamId",
         "text", "starting", "ready", "ag", "core", "voiceTries",
         "followListening", "agentTries", "agentRestart", "voiceRestart", "turns",
         "agent", "agentGen"}
Still(x, y) ==
  /\ DOMAIN y = Fields /\ Same(x, y, Idle) /\ QueueOK(y) /\ CountersOK(y) /\ AgOK(y) /\ CoreOK(y)
  /\ SameSpeech(x, y) /\ (~x.voice => y.core = x.core)

\* Reports of the voice core other than a completion.
Reports(x, new) ==
  \A e \in new : e.from = "voice" => e.gen = x.voiceGen /\ x.voice /\ e.type # "SPEECH_COMPLETE"

\* A step that changes none of the fields of the invariant.
LEMMA StillFields ==
  ASSUME NEW x, NEW y, Still(x, y)
  PROVE  /\ y.turn = x.turn /\ y.refused = x.refused
         /\ y.voice = x.voice /\ y.voiceReady = x.voiceReady /\ y.voiceGen = x.voiceGen
         /\ y.speech = x.speech /\ y.nextId = x.nextId
         /\ y.ann = x.ann /\ y.receipt = x.receipt /\ y.annHeard = x.annHeard
         /\ y.complete = x.complete /\ y.gated = x.gated /\ y.paused = x.paused /\ y.ptt = x.ptt
         /\ y.quiet = x.quiet /\ y.followAllowed = x.followAllowed /\ y.unheard = x.unheard
         /\ y.suppressed = x.suppressed /\ y.streamAudio = x.streamAudio
BY FieldNames DEF Still, Same, Idle

\* The agent may change as the turn's part of the invariant says.
LEMMA StillButTurn ==
  ASSUME NEW x, NEW y, NEW new, Base(x), Still(x, y), Extends(x, y, new), Reports(x, new),
         TurnInv(y), EndInv(x) => EndInv(y)
  PROVE  Keeps(x, y)
<1>0. /\ QueueOK(x) /\ QueueOK(y) /\ x.agentGen \in Nat /\ x.voiceGen \in Nat
      /\ SameSpeech(x, y) /\ (~x.voice => y.core = x.core)
      /\ TurnInv(x) /\ VoiceInv(x) /\ SpeechInv(x) /\ AnnInv(x) /\ GateInv(x)
  BY DEF Base, AppOK, CountersOK, Still
<1>1. /\ y.turn = x.turn /\ y.refused = x.refused
      /\ y.voice = x.voice /\ y.voiceReady = x.voiceReady /\ y.voiceGen = x.voiceGen
      /\ y.speech = x.speech /\ y.nextId = x.nextId
      /\ y.ann = x.ann /\ y.receipt = x.receipt /\ y.annHeard = x.annHeard
      /\ y.complete = x.complete /\ y.gated = x.gated /\ y.paused = x.paused /\ y.ptt = x.ptt
      /\ y.quiet = x.quiet /\ y.followAllowed = x.followAllowed /\ y.unheard = x.unheard
      /\ y.suppressed = x.suppressed /\ y.streamAudio = x.streamAudio
  BY StillFields
<1>2. AppOK(y)
  BY <1>1 DEF Base, AppOK, SpeechOK, AnnOK, Still
<1>4. VoiceInv(y)
  BY <1>0, <1>1, VoiceKept DEF Reports
<1>5. \A e \in new : ~Completes(x, e)
  BY DEF Reports, Completes, OfVoice
<1>6. SpeechInv(y) /\ (TrackInv(x) => TrackInv(y))
  BY <1>0, <1>1, <1>5, SpeechKept
<1>7. AnnInv(y)
  BY <1>0, <1>1, <1>5, AnnKept DEF AnnInv
<1>8. GateInv(y)
  BY <1>0, <1>1 DEF GateInv
<1>9. ASSUME AnswerInv(x) PROVE AnswerInv(y)
  <2>1. \A id \in Nat : Carries(y.core, id) => Carries(x.core, id)
    BY <1>0 DEF SameSpeech, Carries
  <2>2. y.quiet => ~y.followAllowed /\ (y.turn => y.suppressed)
    BY <1>1, <1>9 DEF AnswerInv
  <2> QED
    BY <1>0, <1>1, <1>5, <1>9, <2>1, <2>2, AnswerKept
<1>10. x.overflow => y.overflow
  BY DEF Extends
<1>11. (PttTried(x) => PttTried(y)) /\ (StartsIdle(x) => StartsIdle(y))
  BY <1>0, <1>1, TriedKept
<1> QED
  BY <1>2, <1>4, <1>6, <1>7, <1>8, <1>9, <1>10, <1>11 DEF Base, Keeps

LEMMA StillKeeps ==
  ASSUME NEW x, NEW y, NEW new, Base(x), Still(x, y), Extends(x, y, new),
         y.agent = x.agent, y.agentGen = x.agentGen, y.ag.st = x.ag.st,
         Harmless(x, new), Reports(x, new)
  PROVE  Keeps(x, y)
<1>1. QueueOK(x) /\ QueueOK(y) /\ x.agentGen \in Nat /\ TurnInv(x)
  BY DEF Base, AppOK, CountersOK, Still
<1>2. TurnInv(y) /\ (EndInv(x) => EndInv(y))
  BY <1>1, StillFields, TurnKept
<1> QED
  BY <1>2, StillButTurn

--------------------------------------------------------------------------------
(* What the calls of the handlers do                                        *)

\* What the agent and the voice core push.
LEMMA FromAgentIs ==
  ASSUME NEW x, DOMAIN x = Fields, QueueOK(x), AgOK(x), x.agentGen \in Nat,
         NEW type \in AgentTypes, NEW flag \in BOOLEAN
  PROVE  LET y == FromAgent(x, type, flag)
             e == Event("agent", x.agentGen, type, x.ag.turn, flag)
         IN /\ DOMAIN y = Fields /\ Same(x, y, {"queue", "overflow"}) /\ QueueOK(y)
            /\ Extends(x, y, {e}) /\ Len(y.queue) <= Len(x.queue) + 1
<1> DEFINE y == FromAgent(x, type, flag)
           e == Event("agent", x.agentGen, type, x.ag.turn, flag)
<1>1. e \in Events
  BY EventIn DEF AgOK
<1>2. y = PushAll(x, <<e>>)
  BY DEF FromAgent
<1> HIDE DEF y, e
<1>3. /\ DOMAIN y = Fields /\ Same(x, y, {"queue", "overflow"})
      /\ PushedOne(x, y, e) /\ QueueOK(y)
  BY <1>1, <1>2, PushOneIs
<1>4. Extends(x, y, {e}) /\ Len(y.queue) <= Len(x.queue) + 1
  BY <1>1, <1>3, OneExtends
<1> QED
  BY <1>3, <1>4 DEF y, e

LEMMA FromVoiceIs ==
  ASSUME NEW x, DOMAIN x = Fields, QueueOK(x), x.voiceGen \in Nat,
         NEW type \in VoiceTypes, NEW id \in Nat, NEW flag \in BOOLEAN
  PROVE  LET y == FromVoice(x, type, id, flag)
             e == Event("voice", x.voiceGen, type, id, flag)
         IN /\ DOMAIN y = Fields /\ Same(x, y, {"queue", "overflow"}) /\ QueueOK(y)
            /\ Extends(x, y, {e}) /\ Len(y.queue) <= Len(x.queue) + 1
<1> DEFINE y == FromVoice(x, type, id, flag)
           e == Event("voice", x.voiceGen, type, id, flag)
<1>1. e \in Events
  BY EventIn
<1>2. y = PushAll(x, <<e>>)
  BY DEF FromVoice
<1> HIDE DEF y, e
<1>3. /\ DOMAIN y = Fields /\ Same(x, y, {"queue", "overflow"})
      /\ PushedOne(x, y, e) /\ QueueOK(y)
  BY <1>1, <1>2, PushOneIs
<1>4. Extends(x, y, {e}) /\ Len(y.queue) <= Len(x.queue) + 1
  BY <1>1, <1>3, OneExtends
<1> QED
  BY <1>3, <1>4 DEF y, e

\* The parts of the invariant that nearly every proof starts with.
LEMMA SomeFields ==
  ASSUME NEW x, Base(x)
  PROVE  /\ DOMAIN x = Fields /\ QueueOK(x) /\ SpeechOK(x) /\ CountersOK(x) /\ AgOK(x)
         /\ CoreOK(x) /\ AnnOK(x)
         /\ x.agentGen \in Nat /\ x.voiceGen \in Nat /\ x.nextId \in Nat
         /\ TurnInv(x) /\ VoiceInv(x) /\ SpeechInv(x) /\ AnnInv(x) /\ GateInv(x)
BY DEF Base, AppOK, CountersOK, SpeechOK

\* The agent is marked as failed and says so, which ends a turn too.
LEMMA TransportFailsIs ==
  ASSUME NEW x, Base(x), x.ag.st # "none", NEW y, y = TransportFails(x)
  PROVE  /\ Keeps(x, y) /\ Same(x, y, {"ag", "queue", "overflow"}) /\ EndInv(y)
         /\ y.ag.st = "failed"
<1> DEFINE z == [x EXCEPT !.ag.st = "failed"]
           e == Event("agent", z.agentGen, "ERROR", z.ag.turn, TRUE)
<1>0. DOMAIN x = Fields /\ QueueOK(x) /\ AgOK(x) /\ x.agentGen \in Nat /\ TurnInv(x)
  BY SomeFields
<1>1. /\ DOMAIN z = Fields /\ Same(x, z, {"ag"}) /\ z.ag.st = "failed" /\ z.ag.turn = x.ag.turn
      /\ DOMAIN z.ag = AgFields
  BY <1>0, FieldNames, AgNames DEF Same, AgOK
<1>2. /\ z.queue = x.queue /\ z.overflow = x.overflow /\ z.agentGen = x.agentGen
      /\ z.agent = x.agent /\ z.turn = x.turn /\ z.refused = x.refused /\ z.voiceGen = x.voiceGen
      /\ z.voice = x.voice /\ z.core = x.core /\ z.speech = x.speech
  BY <1>1, FieldNames DEF Same
<1>3. AgOK(z) /\ QueueOK(z)
  BY <1>0, <1>1, <1>2 DEF AgOK, QueueOK
<1>4. y = FromAgent(z, "ERROR", TRUE)
  BY DEF TransportFails
<1>5. e = Event("agent", z.agentGen, "ERROR", z.ag.turn, TRUE)
  OBVIOUS
<1>5a. e.from = "agent" /\ e.gen = z.agentGen /\ e.type = "ERROR" /\ e.flag
  BY DEF Event
<1>5b. z.agentGen \in Nat /\ "ERROR" \in AgentTypes /\ TRUE \in BOOLEAN
  BY <1>0, <1>2 DEF AgentTypes
<1> HIDE DEF z, e
<1>6. /\ DOMAIN y = Fields /\ Same(z, y, {"queue", "overflow"}) /\ QueueOK(y)
      /\ Extends(z, y, {e})
  BY <1>1, <1>3, <1>4, <1>5, <1>5b, FromAgentIs
<1>7. Same(x, y, {"ag", "queue", "overflow"}) /\ y.ag = z.ag
  BY <1>1, <1>6, FieldNames DEF Same
<1>8. Extends(x, y, {e})
  BY <1>2, <1>6 DEF Extends, At
<1>9. Harmless(x, {e}) /\ Reports(x, {e})
  BY <1>0, <1>1, <1>2, <1>5a DEF Harmless, Reports, Ends, Outputs, Over, OfAgent, TurnInv
<1>10. TurnInv(y)
  <2>1. /\ EndComes(y) <=> EndComes(x)
        /\ OutputComes(y) <=> OutputComes(x)
        /\ EndIsLast(y) /\ AgentGens(y)
    BY <1>0, <1>6, <1>7, <1>8, <1>9, TurnPush, FieldNames DEF Same
  <2> QED
    BY <1>0, <1>1, <1>7, <2>1, FieldNames DEF TurnInv, Same
<1>11. EndInv(y)
  BY <1>2, <1>5a, <1>6, <1>7, FieldNames DEF EndInv, OverComes, Over, OfAgent, Extends, Same
<1>12. Still(x, y)
  <2>1. /\ Same(x, y, Idle) /\ y.core = x.core
        /\ y.speech = x.speech /\ y.voiceGen = x.voiceGen /\ y.agentGen = x.agentGen
        /\ y.agentTries = x.agentTries /\ y.agentRestart = x.agentRestart
        /\ y.voiceTries = x.voiceTries /\ y.voiceRestart = x.voiceRestart /\ y.turns = x.turns
    BY <1>7, FieldNames DEF Same, Idle
  <2>2. AgOK(y) /\ CoreOK(y) /\ CountersOK(y)
    BY <1>3, <1>7, <2>1, SomeFields DEF AgOK, CoreOK, CountersOK
  <2> QED
    BY <1>6, <2>1, <2>2 DEF Still, SameSpeech
<1>13. Keeps(x, y)
  BY <1>8, <1>9, <1>10, <1>11, <1>12, StillButTurn
<1> QED
  BY <1>1, <1>7, <1>11, <1>13

\* A step of the worker that pushes nothing and changes only what no part of the
\* invariant speaks of.
LEMMA QuietKeeps ==
  ASSUME NEW x, NEW y, Base(x), DOMAIN y = Fields, Same(x, y, Idle \ {"queue", "overflow"}),
         CountersOK(y), AgOK(y), CoreOK(y),
         y.agent = x.agent, y.agentGen = x.agentGen, y.ag.st = x.ag.st,
         SameSpeech(x, y), ~x.voice => y.core = x.core
  PROVE  Keeps(x, y)
<1>1. y.queue = x.queue /\ y.overflow = x.overflow /\ Same(x, y, Idle)
  BY FieldNames DEF Same, Idle
<1>2. Still(x, y) /\ Extends(x, y, {})
  BY <1>1, SomeFields, NoneExtends DEF Still, QueueOK
<1>3. Harmless(x, {}) /\ Reports(x, {})
  BY DEF Harmless, Reports
<1> QED
  BY <1>2, <1>3, StillKeeps

SameCounts(x, y) ==
  /\ y.agentGen = x.agentGen /\ y.voiceGen = x.voiceGen /\ y.turns = x.turns
  /\ y.agentTries = x.agentTries /\ y.agentRestart = x.agentRestart
  /\ y.voiceTries = x.voiceTries /\ y.voiceRestart = x.voiceRestart

LEMMA SameCountsOK == ASSUME NEW x, NEW y, CountersOK(x), SameCounts(x, y) PROVE CountersOK(y)
BY DEF CountersOK, SameCounts

\* dio_agent_cancel asks, or it fails the transport: an ERROR is on the way.
LEMMA AgentCancelIs ==
  ASSUME NEW x, Base(x), NEW fails, NEW y, y = AgentCancel(x, fails)
  PROVE  Keeps(x, y) /\ Same(x, y, {"ag", "queue", "overflow"})
<1>0. DOMAIN x = Fields /\ AgOK(x) /\ CoreOK(x) /\ CountersOK(x)
  BY SomeFields
<1>1. CASE y = x
  <2>1. Same(x, y, {})
    BY <1>1 DEF Same
  <2> QED
    BY <1>0, <1>1, <2>1 DEF Same, Keeps
<1>2. CASE x.ag.st = "active" /\ y = TransportFails(x)
  BY <1>2, TransportFailsIs
<1>3. CASE y = [x EXCEPT !.ag.cancel = TRUE]
  <2>1. /\ DOMAIN y = Fields /\ Same(x, y, {"ag"}) /\ y.ag.st = x.ag.st
        /\ y.ag.turn = x.ag.turn /\ DOMAIN y.ag = AgFields
    BY <1>0, <1>3, FieldNames, AgNames DEF Same, AgOK
  <2>2. /\ Same(x, y, Idle \ {"queue", "overflow"}) /\ y.core = x.core /\ y.speech = x.speech
        /\ SameCounts(x, y) /\ y.agent = x.agent
        /\ Same(x, y, {"ag", "queue", "overflow"})
    BY <2>1, FieldNames DEF Same, Idle, SameCounts
  <2>3. AgOK(y) /\ CoreOK(y) /\ CountersOK(y) /\ SameSpeech(x, y)
    BY <1>0, <2>1, <2>2, SameCountsOK DEF AgOK, CoreOK, SameSpeech, SameCounts
  <2> QED
    BY <2>1, <2>2, <2>3, QuietKeeps DEF SameCounts
<1> QED
  BY <1>1, <1>2, <1>3 DEF AgentCancel

\* The completions of what is given up.
LEMMA CompletionsAre ==
  ASSUME NEW gen \in Nat, NEW ids \in Seq(Nat), NEW events, events = Completions(gen, ids)
  PROVE  /\ events \in Seq(Events) /\ Len(events) = Len(ids)
         /\ \A i \in 1..Len(ids) :
              /\ events[i].from = "voice" /\ events[i].gen = gen /\ events[i].id = ids[i]
              /\ events[i].type = "SPEECH_COMPLETE" /\ ~events[i].flag
<1>1. \A i \in 1..Len(ids) : events[i] = Event("voice", gen, "SPEECH_COMPLETE", ids[i], FALSE)
  BY DEF Completions
<1>2. \A i \in 1..Len(ids) : events[i] \in Events
  <2>1. "SPEECH_COMPLETE" \in VoiceTypes /\ FALSE \in BOOLEAN /\ \A i \in 1..Len(ids) : ids[i] \in Nat
    BY DEF VoiceTypes
  <2> QED
    BY <1>1, <2>1, EventIn
<1>3. DOMAIN events = 1..Len(ids) /\ Len(ids) \in Nat
  BY DEF Completions
<1>4. events = [i \in 1..Len(ids) |-> events[i]]
  BY DEF Completions
<1>5. events \in Seq(Events)
  BY <1>2, <1>3, <1>4
<1>6. Len(events) = Len(ids)
  BY <1>3, <1>5
<1>7. \A i \in 1..Len(ids) :
        /\ events[i].from = "voice" /\ events[i].gen = gen /\ events[i].id = ids[i]
        /\ events[i].type = "SPEECH_COMPLETE" /\ ~events[i].flag
  <2> TAKE i \in 1..Len(ids)
  <2> DEFINE e == Event("voice", gen, "SPEECH_COMPLETE", ids[i], FALSE)
  <2>1. events[i] = e
    BY <1>1
  <2>2. e.from = "voice" /\ e.gen = gen /\ e.id = ids[i] /\ e.type = "SPEECH_COMPLETE" /\ ~e.flag
    BY DEF Event
  <2> HIDE DEF e
  <2> QED
    BY <2>1, <2>2
<1> QED
  BY <1>5, <1>6, <1>7

\* dio_voice_cancel: what waited is no longer in the core, and reported.
LEMMA VoiceCancelIs ==
  ASSUME NEW x, Base(x), x.voice, NEW y, y = VoiceCancel(x)
  PROVE  /\ Keeps(x, y) /\ Same(x, y, {"core", "queue", "overflow"})
         /\ y.core.active = x.core.active /\ y.core.waiting = <<>>
         /\ y.core.paused = x.core.paused /\ y.core.failed = x.core.failed
<1> DEFINE z == [x EXCEPT !.core.cancel = TRUE, !.core.waiting = <<>>,
                          !.core.stream = IF @ = x.core.active THEN @ ELSE 0,
                          !.core.input = "cut"]
           events == Completions(x.voiceGen, x.core.waiting)
           new == {events[i] : i \in 1..Len(events)}
<1>0. /\ DOMAIN x = Fields /\ QueueOK(x) /\ SpeechOK(x) /\ CountersOK(x) /\ AgOK(x) /\ CoreOK(x)
      /\ AnnOK(x) /\ TurnInv(x) /\ VoiceInv(x) /\ SpeechInv(x) /\ AnnInv(x) /\ GateInv(x)
      /\ x.voiceGen \in Nat /\ x.agentGen \in Nat
  BY SomeFields
<1>1. /\ DOMAIN z = Fields /\ Same(x, z, {"core"}) /\ DOMAIN z.core = CoreFields
      /\ z.core.active = x.core.active /\ z.core.waiting = <<>> /\ z.core.mode = x.core.mode
      /\ z.core.paused = x.core.paused /\ z.core.failed = x.core.failed
  BY <1>0, FieldNames, CoreNames DEF Same, CoreOK
<1>2a. /\ events \in Seq(Events) /\ Len(events) = Len(x.core.waiting)
       /\ \A i \in 1..Len(x.core.waiting) :
            /\ events[i].from = "voice" /\ events[i].gen = x.voiceGen /\ events[i].id = x.core.waiting[i]
            /\ events[i].type = "SPEECH_COMPLETE" /\ ~events[i].flag
  <2>1. x.core.waiting \in Seq(Nat) /\ x.voiceGen \in Nat
    BY <1>0 DEF CoreOK
  <2> QED
    BY <2>1, CompletionsAre
<1>2b. y = PushAll(z, events)
  BY DEF VoiceCancel
<1> HIDE DEF z, events
<1>2. /\ events \in Seq(Events)
      /\ \A e \in new : /\ e.from = "voice" /\ e.gen = x.voiceGen /\ e.type = "SPEECH_COMPLETE"
                        /\ ~e.flag
                        /\ \E i \in 1..Len(x.core.waiting) : e.id = x.core.waiting[i]
      /\ \A i \in 1..Len(x.core.waiting) : \E e \in new : e.id = x.core.waiting[i]
  BY <1>2a
<1>3. z.queue = x.queue /\ z.overflow = x.overflow
  BY <1>1, FieldNames DEF Same
<1>5. DOMAIN y = Fields /\ Same(z, y, {"queue", "overflow"}) /\ Pushed(z, y, events)
  BY <1>0, <1>1, <1>2, <1>2b, <1>3, PushAllIs DEF QueueOK
<1>6. Extends(z, y, new)
  BY <1>0, <1>2, <1>3, <1>5, PushedExtends DEF QueueOK
<1>7. Extends(x, y, new) /\ QueueOK(y)
  BY <1>3, <1>5, <1>6 DEF Extends, At, Pushed, QueueOK
<1> HIDE DEF new
<1>8. Same(x, y, {"core", "queue", "overflow"}) /\ y.core = z.core
  BY <1>1, <1>5, FieldNames DEF Same
<1>9. /\ y.agent = x.agent /\ y.agentGen = x.agentGen /\ y.turn = x.turn /\ y.refused = x.refused
      /\ y.voice = x.voice /\ y.voiceReady = x.voiceReady /\ y.voiceGen = x.voiceGen
      /\ y.speech = x.speech /\ y.nextId = x.nextId /\ y.ag = x.ag
      /\ y.ann = x.ann /\ y.receipt = x.receipt /\ y.annHeard = x.annHeard
      /\ y.complete = x.complete /\ y.gated = x.gated /\ y.paused = x.paused /\ y.ptt = x.ptt
      /\ y.quiet = x.quiet /\ y.followAllowed = x.followAllowed /\ y.unheard = x.unheard
      /\ y.suppressed = x.suppressed /\ y.turns = x.turns /\ y.streamAudio = x.streamAudio
      /\ y.agentTries = x.agentTries /\ y.agentRestart = x.agentRestart
      /\ y.voiceRestart = x.voiceRestart /\ y.voiceTries = x.voiceTries
  BY <1>8, FieldNames DEF Same
<1>10. AppOK(y)
  <2>1. CoreOK(y)
    <3>1. y.core.waiting = <<>> /\ <<>> \in Seq(Nat)
      BY <1>1, <1>8
    <3> QED
      BY <1>0, <1>1, <1>8, <3>1 DEF CoreOK
  <2>2. CountersOK(y) /\ AgOK(y) /\ AnnOK(y) /\ SpeechOK(y)
    BY <1>0, <1>9 DEF CountersOK, AgOK, AnnOK, SpeechOK
  <2> QED
    BY <1>5, <1>7, <2>1, <2>2 DEF AppOK
<1>11. Harmless(x, new)
  BY <1>2 DEF Harmless
<1>12. TurnInv(y) /\ (EndInv(x) => EndInv(y))
  BY <1>0, <1>7, <1>9, <1>11, TurnKept
<1>13. VoiceInv(y)
  BY <1>0, <1>2, <1>7, <1>9, VoiceKept
<1>14. \A id : Carries(y.core, id) <=> id # 0 /\ id = x.core.active
  BY <1>1, <1>8 DEF Carries
<1>15. \A id : Tracks(y, id) <=> Tracks(x, id)
  BY <1>9 DEF Tracks
<1>16. \A id : /\ Done(x, id) => Done(y, id)
               /\ Done(y, id) => Done(x, id) \/ \E i \in 1..Len(x.core.waiting) : x.core.waiting[i] = id
               /\ y.overflow \/ \A i \in 1..Len(x.core.waiting) : x.core.waiting[i] = id => Done(y, id)
  <2>1. \A e \in new : Completes(x, e)
    BY <1>2 DEF Completes, OfVoice
  <2>2. \A id :
          /\ Done(x, id) => Done(y, id)
          /\ Done(y, id) => Done(x, id) \/ \E e \in new : Completes(x, e) /\ e.id = id
          /\ y.overflow \/ \A e \in new : Completes(x, e) /\ e.id = id => Done(y, id)
    BY <1>0, <1>7, <1>9, DonePush
  <2>3. \A id : Done(x, id) => Done(y, id)
    BY <2>2
  <2>4. \A id : Done(y, id) => Done(x, id) \/ \E i \in 1..Len(x.core.waiting) : x.core.waiting[i] = id
    BY <1>2, <2>2
  <2>5. \A id : y.overflow \/ \A i \in 1..Len(x.core.waiting) : x.core.waiting[i] = id => Done(y, id)
    BY <1>2, <2>1, <2>2
  <2> QED
    BY <2>3, <2>4, <2>5
<1>17. SpeechInv(y)
  <2>1. WaitingOK(y.core)
    BY <1>1, <1>8 DEF WaitingOK
  <2>2. \A id \in Nat : Carries(y.core, id) => Tracks(y, id) /\ ~Done(y, id)
    <3> SUFFICES ASSUME NEW id \in Nat, Carries(y.core, id) PROVE Tracks(y, id) /\ ~Done(y, id)
      OBVIOUS
    <3>1. id # 0 /\ id = x.core.active /\ Carries(x.core, id)
      BY <1>14 DEF Carries
    <3>2. \A i \in 1..Len(x.core.waiting) : x.core.waiting[i] # id
      BY <1>0, <3>1 DEF SpeechInv, WaitingOK
    <3>3. Tracks(x, id) /\ ~Done(x, id)
      BY <1>0, <3>1 DEF SpeechInv
    <3> QED
      BY <1>15, <1>16, <3>2, <3>3
  <2>3. \A id \in Nat : Tracks(y, id) \/ Done(y, id) => id <= y.nextId
    <3>1. \A i \in 1..Len(x.core.waiting) : x.core.waiting[i] \in Nat /\ Carries(x.core, x.core.waiting[i])
      BY <1>0 DEF SpeechInv, WaitingOK, Carries, CoreOK
    <3> QED
      BY <1>0, <1>9, <1>15, <1>16, <3>1 DEF SpeechInv
  <2> QED
    BY <1>0, <1>9, <2>1, <2>2, <2>3 DEF SpeechInv
<1>18. TrackInv(x) => TrackInv(y)
  <2>1. x.overflow => y.overflow
    BY <1>7 DEF Extends
  <2> QED
    BY <1>14, <1>15, <1>16, <2>1 DEF TrackInv, Carries
<1>19. \A e \in new : Completes(x, e) => ~e.flag
  BY <1>2
<1>20. AnnInv(y)
  BY <1>0, <1>7, <1>9, <1>19, AnnKept DEF AnnInv
<1>21. GateInv(y)
  BY <1>0, <1>9 DEF GateInv
<1>22. ASSUME AnswerInv(x) PROVE AnswerInv(y)
  <2>1. \A id \in Nat : Carries(y.core, id) => Carries(x.core, id)
    BY <1>14 DEF Carries
  <2>2. y.quiet => ~y.followAllowed /\ (y.turn => y.suppressed)
    BY <1>9, <1>22 DEF AnswerInv
  <2> QED
    BY <1>0, <1>7, <1>9, <1>19, <1>22, <2>1, <2>2, AnswerKept
<1>23. (PttTried(x) => PttTried(y)) /\ (StartsIdle(x) => StartsIdle(y))
  BY <1>0, <1>7, <1>9, TriedKept
<1>24. Keeps(x, y)
  BY <1>7, <1>10, <1>12, <1>13, <1>17, <1>18, <1>20, <1>21, <1>22, <1>23 DEF Base, Keeps, Extends
<1> QED
  BY <1>1, <1>8, <1>24

SameCoreSpeech(x, y) ==
  /\ y.core.active = x.core.active /\ y.core.waiting = x.core.waiting
  /\ y.core.failed = x.core.failed

\* dio_app_set_voice_paused makes the core agree with the mute and the gate.
LEMMA SetVoicePausedIs ==
  ASSUME NEW x, Base(x), NEW y, y = SetVoicePaused(x)
  PROVE  /\ Keeps(x, y) /\ Same(x, y, {"core"}) /\ SameCoreSpeech(x, y) /\ MicInv(y)
<1>0. DOMAIN x = Fields /\ AgOK(x) /\ CoreOK(x) /\ CountersOK(x) /\ VoiceInv(x)
  BY SomeFields
<1>1. CASE y = x /\ ~(x.voice /\ x.voiceReady /\ ~x.core.failed)
  <2>1. Same(x, y, {}) /\ MicInv(y)
    BY <1>1 DEF Same, MicInv
  <2> QED
    BY <1>0, <1>1, <2>1 DEF Same, Keeps, SameCoreSpeech
<1>2. CASE x.voice /\ y = [x EXCEPT !.core.paused = x.paused \/ x.gated]
  <2>1. /\ DOMAIN y = Fields /\ Same(x, y, {"core"}) /\ DOMAIN y.core = CoreFields
        /\ SameCoreSpeech(x, y) /\ y.core.mode = x.core.mode
        /\ y.core.paused <=> x.paused \/ x.gated
    <3>1. /\ DOMAIN y = Fields /\ Same(x, y, {"core"})
          /\ y.core = [x.core EXCEPT !.paused = x.paused \/ x.gated]
      BY <1>0, <1>2, FieldNames DEF Same
    <3>2. DOMAIN x.core = CoreFields
      BY <1>0 DEF CoreOK
    <3>3. y.core.paused <=> x.paused \/ x.gated
      BY <3>1, <3>2, CoreNames
    <3> QED
      BY <3>1, <3>2, <3>3, CoreNames DEF SameCoreSpeech
  <2>2. /\ Same(x, y, Idle \ {"queue", "overflow"}) /\ y.ag = x.ag /\ y.speech = x.speech
        /\ SameCounts(x, y) /\ y.agent = x.agent
        /\ y.paused = x.paused /\ y.gated = x.gated
    BY <2>1, FieldNames DEF Same, Idle, SameCounts
  <2>3. AgOK(y) /\ CoreOK(y) /\ CountersOK(y) /\ SameSpeech(x, y)
    BY <1>0, <2>1, <2>2, SameCountsOK DEF AgOK, CoreOK, SameSpeech, SameCoreSpeech, SameCounts
  <2>4. MicInv(y)
    BY <2>1, <2>2 DEF MicInv
  <2> QED
    BY <1>2, <2>1, <2>2, <2>3, <2>4, QuietKeeps DEF SameCounts
<1> QED
  BY <1>1, <1>2 DEF SetVoicePaused

LEMMA AwayIs ==
  ASSUME NEW x, ~x.voice
  PROVE  MicInv(x) /\ PttTried(x) /\ StartsIdle(x)
BY DEF MicInv, PttTried, StartsIdle

OfItsVoice == {"voice", "voiceReady", "followListening", "listening", "voiceGen", "core",
               "queue", "overflow", "ann", "receipt", "speech", "streamId", "streamAudio",
               "turnId", "pcm", "text"}

\* Nothing of the voice is left, and what it still reports is of a generation
\* that has passed.
LEMMA CloseVoiceIs ==
  ASSUME NEW x, Base(x), NEW y, y = CloseVoice(x)
  PROVE  /\ Base(y) /\ (x.overflow => y.overflow) /\ (EndInv(x) => EndInv(y)) /\ TrackInv(y)
         /\ AnswerInv(x) /\ ~(x.followAllowed /\ x.unheard) => AnswerInv(y)
         /\ ~y.voice /\ y.voiceGen = x.voiceGen + 1 /\ y.speech = <<>> /\ ~y.followListening
         /\ Same(x, y, OfItsVoice)
<1> DEFINE c == x.core
           given == c.waiting \o IF c.active = 0 THEN <<>> ELSE <<c.active>>
           z == [x EXCEPT !.voice = FALSE, !.voiceReady = FALSE, !.followListening = FALSE,
                          !.listening = FALSE, !.voiceGen = @ + 1, !.core = NoCore]
           events == Completions(x.voiceGen, given)
           new == {events[i] : i \in 1..Len(events)}
           v == PushAll(z, events)
<1>0. /\ DOMAIN x = Fields /\ QueueOK(x) /\ SpeechOK(x) /\ CountersOK(x) /\ AgOK(x) /\ CoreOK(x)
      /\ AnnOK(x) /\ TurnInv(x) /\ VoiceInv(x) /\ SpeechInv(x) /\ AnnInv(x) /\ GateInv(x)
      /\ x.voiceGen \in Nat /\ x.agentGen \in Nat
  BY SomeFields
<1>1. given \in Seq(Nat)
  BY <1>0 DEF CoreOK
<1>2. /\ DOMAIN z = Fields
      /\ Same(x, z, {"voice", "voiceReady", "followListening", "listening", "voiceGen", "core"})
      /\ ~z.voice /\ ~z.voiceReady /\ z.voiceGen = x.voiceGen + 1 /\ z.core = NoCore
      /\ ~z.followListening
  BY <1>0, FieldNames DEF Same
<1>3. y = ClearSpeech(v)
  BY DEF CloseVoice
<1> HIDE DEF given
<1>4. events \in Seq(Events) /\ \A e \in new : e.from = "voice" /\ e.gen = x.voiceGen
  BY <1>0, <1>1, CompletionsAre
<1>5. z.queue = x.queue /\ z.overflow = x.overflow
  BY <1>2, FieldNames DEF Same
<1>6. v = PushAll(z, events)
  OBVIOUS
<1> HIDE DEF z, events, v
<1>7. DOMAIN v = Fields /\ Same(z, v, {"queue", "overflow"}) /\ Pushed(z, v, events)
  BY <1>0, <1>2, <1>4, <1>5, <1>6, PushAllIs DEF QueueOK
<1>8. Extends(z, v, new)
  BY <1>0, <1>4, <1>5, <1>7, PushedExtends DEF QueueOK
<1> HIDE DEF new
<1>9. /\ DOMAIN y = Fields
      /\ Same(v, y, {"ann", "receipt", "speech", "streamId", "streamAudio", "turnId", "pcm", "text"})
      /\ y.receipt = 0 /\ y.speech = <<>> /\ ~y.streamAudio
      /\ y.ann = IF v.receipt # 0 THEN "failed" ELSE v.ann
  <2>1. y.ann = IF v.receipt # 0 THEN "failed" ELSE v.ann
    BY <1>3, <1>7, FieldNames DEF ClearSpeech
  <2> QED
    BY <1>3, <1>7, <2>1, FieldNames DEF ClearSpeech, Same
<1>10. Same(x, y, OfItsVoice)
  BY <1>2, <1>7, <1>9, FieldNames DEF Same, OfItsVoice
<1>11. /\ y.agent = x.agent /\ y.agentGen = x.agentGen /\ y.turn = x.turn /\ y.refused = x.refused
       /\ y.nextId = x.nextId /\ y.ag = x.ag /\ y.annHeard = x.annHeard
       /\ y.complete = x.complete /\ y.gated = x.gated /\ y.paused = x.paused /\ y.ptt = x.ptt
       /\ y.quiet = x.quiet /\ y.followAllowed = x.followAllowed /\ y.unheard = x.unheard
       /\ y.suppressed = x.suppressed /\ y.turns = x.turns
       /\ y.agentTries = x.agentTries /\ y.agentRestart = x.agentRestart
       /\ y.voiceRestart = x.voiceRestart /\ y.voiceTries = x.voiceTries
  BY <1>10, FieldNames DEF Same, OfItsVoice
<1>12. /\ ~y.voice /\ ~y.voiceReady /\ y.voiceGen = x.voiceGen + 1 /\ y.core = NoCore
       /\ y.ann = IF x.receipt # 0 THEN "failed" ELSE x.ann
       /\ y.queue = v.queue /\ y.overflow = v.overflow /\ ~y.followListening
  BY <1>2, <1>7, <1>9, FieldNames DEF Same
<1>13. Extends(x, y, new) /\ QueueOK(y)
  BY <1>5, <1>7, <1>8, <1>12 DEF Extends, At, Pushed, QueueOK
<1>14. TurnInv(y) /\ (EndInv(x) => EndInv(y))
  <2>1. Harmless(x, new)
    BY <1>4 DEF Harmless
  <2> QED
    BY <1>0, <1>11, <1>13, <2>1, TurnKept
<1>15. \A i \in At(y) : y.queue[i].from = "voice" => y.queue[i].gen <= x.voiceGen
  BY <1>0, <1>4, <1>13 DEF Extends, VoiceInv, VoiceGens, At
<1>16. \A i \in At(y) : y.queue[i] \in Events /\ y.queue[i].gen \in Nat
  BY <1>13, EventTypes DEF QueueOK, At
<1>17. VoiceInv(y)
  BY <1>0, <1>9, <1>12, <1>15, <1>16 DEF VoiceInv, VoiceGens
<1>18. \A id : ~Done(y, id) /\ ~DoneWell(y, id) /\ ~Tracks(y, id)
  BY <1>0, <1>9, <1>12, <1>15, <1>16 DEF Done, DoneWell, Completes, OfVoice, Tracks
<1>19. NoCore.waiting = <<>> /\ NoCore.active = 0 /\ NoCore.mode = "wake" /\ DOMAIN NoCore = CoreFields
  BY DEF NoCore, CoreFields
<1>20. \A id : ~Carries(y.core, id)
  BY <1>12, <1>19 DEF Carries
<1>21. SpeechInv(y) /\ TrackInv(y)
  <2>1. WaitingOK(y.core)
    BY <1>12, <1>19 DEF WaitingOK
  <2>2. \A i, j \in 1..Len(y.speech) : y.speech[i].id = y.speech[j].id => i = j
    BY <1>9
  <2> QED
    BY <1>18, <1>20, <2>1, <2>2 DEF SpeechInv, TrackInv
<1>22. AnnInv(y)
  BY <1>0, <1>9, <1>11, <1>12 DEF AnnInv
<1>23. GateInv(y)
  BY <1>0, <1>11 DEF GateInv
<1>24. AppOK(y)
  <2>1. CoreOK(y)
    <3>1. <<>> \in Seq(Nat)
      OBVIOUS
    <3> QED
      BY <1>12, <1>19, <3>1 DEF CoreOK
  <2>2. SpeechOK(y)
    <3>1. <<>> \in Seq(Utterances) /\ Len(<<>>) = 0 /\ 0 <= SpeechCap
      BY ControllerAssumption
    <3> QED
      BY <1>0, <1>9, <1>11, <3>1 DEF SpeechOK
  <2>3. CountersOK(y) /\ AgOK(y) /\ AnnOK(y)
    BY <1>0, <1>9, <1>11, <1>12 DEF CountersOK, AgOK, AnnOK
  <2> QED
    BY <1>9, <1>13, <2>1, <2>2, <2>3 DEF AppOK
<1>25. AnswerInv(x) /\ ~(x.followAllowed /\ x.unheard) => AnswerInv(y)
  BY <1>11 DEF AnswerInv
<1> QED
  BY <1>9, <1>10, <1>12, <1>13, <1>14, <1>17, <1>21, <1>22, <1>23, <1>24, <1>25 DEF Base, Extends

OfItsAgent == {"agent", "ready", "turn", "suppressed", "complete", "followAllowed", "gated",
               "starting", "agentGen", "ag"}

\* Nothing of the agent is left, its turn neither.
LEMMA CloseAgentIs ==
  ASSUME NEW x, Base(x), NEW y, y = CloseAgent(x)
  PROVE  /\ Base(y) /\ AnswerInv(y) /\ EndInv(y) /\ (TrackInv(x) => TrackInv(y)) /\ PttFits(y)
         /\ Same(x, y, OfItsAgent) /\ y.agentGen = x.agentGen + 1
         /\ ~y.agent /\ ~y.turn /\ ~y.followAllowed /\ ~y.gated /\ ~y.complete
<1>0. /\ DOMAIN x = Fields /\ QueueOK(x) /\ SpeechOK(x) /\ CountersOK(x) /\ AgOK(x) /\ CoreOK(x)
      /\ AnnOK(x) /\ TurnInv(x) /\ VoiceInv(x) /\ SpeechInv(x) /\ AnnInv(x) /\ GateInv(x)
      /\ x.voiceGen \in Nat /\ x.agentGen \in Nat
  BY SomeFields
<1>1. /\ DOMAIN y = Fields /\ Same(x, y, OfItsAgent)
      /\ ~y.agent /\ ~y.turn /\ ~y.suppressed /\ ~y.complete /\ ~y.followAllowed /\ ~y.gated
      /\ y.agentGen = x.agentGen + 1 /\ y.ag = NoAgent
  BY <1>0, FieldNames DEF CloseAgent, Same, OfItsAgent
<1>2. /\ y.queue = x.queue /\ y.overflow = x.overflow /\ y.refused = x.refused
      /\ y.voice = x.voice /\ y.voiceReady = x.voiceReady /\ y.voiceGen = x.voiceGen
      /\ y.streamAudio = x.streamAudio
      /\ y.speech = x.speech /\ y.nextId = x.nextId /\ y.core = x.core
      /\ y.ann = x.ann /\ y.receipt = x.receipt /\ y.annHeard = x.annHeard
      /\ y.paused = x.paused /\ y.ptt = x.ptt
      /\ y.quiet = x.quiet /\ y.unheard = x.unheard /\ y.turns = x.turns
      /\ y.agentTries = x.agentTries /\ y.agentRestart = x.agentRestart
      /\ y.voiceRestart = x.voiceRestart /\ y.voiceTries = x.voiceTries
  BY <1>1, FieldNames DEF Same, OfItsAgent
<1>3. Extends(x, y, {}) /\ QueueOK(y)
  BY <1>0, <1>2, NoneExtends DEF QueueOK
<1>4. NoAgent.st = "none" /\ NoAgent.turn = 0 /\ DOMAIN NoAgent = AgFields
  BY DEF NoAgent, AgFields
<1>5. \A i \in At(y) : y.queue[i].from = "agent" => y.queue[i].gen <= x.agentGen /\ y.queue[i].gen \in Nat
  BY <1>0, <1>2, EventTypes DEF TurnInv, AgentGens, QueueOK, At
<1>6. TurnInv(y)
  <2>1. \A i \in At(y) : ~OfAgent(y, y.queue[i])
    BY <1>0, <1>1, <1>5 DEF OfAgent
  <2>2. ~EndComes(y) /\ ~OutputComes(y) /\ EndIsLast(y)
    BY <2>1 DEF EndComes, OutputComes, EndIsLast, Ends, Over, Outputs
  <2>3. AgentGens(y)
    BY <1>0, <1>1, <1>5 DEF AgentGens
  <2> QED
    BY <1>1, <1>4, <2>2, <2>3 DEF TurnInv
<1>7. EndInv(y) /\ PttFits(y)
  BY <1>1 DEF EndInv, PttFits
<1>8. VoiceInv(y)
  BY <1>0, <1>2 DEF VoiceInv, VoiceGens, At
<1>9. SpeechInv(y) /\ (TrackInv(x) => TrackInv(y))
  BY <1>0, <1>2, <1>3, SpeechKept DEF SameSpeech
<1>10. AnnInv(y)
  BY <1>0, <1>1, <1>2, <1>3, AnnKept
<1>11. GateInv(y)
  BY <1>0, <1>1, <1>2 DEF GateInv
<1>12. AnswerInv(y)
  BY <1>1 DEF AnswerInv
<1>13. AppOK(y)
  <2>1. CountersOK(y) /\ AgOK(y) /\ AnnOK(y) /\ SpeechOK(y) /\ CoreOK(y)
    BY <1>0, <1>1, <1>2, <1>4 DEF CountersOK, AgOK, AnnOK, SpeechOK, CoreOK
  <2> QED
    BY <1>1, <1>3, <2>1 DEF AppOK
<1> QED
  BY <1>1, <1>6, <1>7, <1>8, <1>9, <1>10, <1>11, <1>12, <1>13 DEF Base

\* A restart is scheduled while one is left.
LEMMA ScheduleAgentIs ==
  ASSUME NEW x, Base(x), NEW y, y = ScheduleAgent(x)
  PROVE  Keeps(x, y) /\ Same(x, y, {"agentRestart"})
<1>0. DOMAIN x = Fields /\ AgOK(x) /\ CoreOK(x) /\ CountersOK(x)
  BY SomeFields
<1>1. /\ DOMAIN y = Fields /\ Same(x, y, {"agentRestart"})
      /\ y.agentRestart => x.agentTries < MaxRestarts
  BY <1>0, FieldNames DEF ScheduleAgent, Same
<1>2. /\ Same(x, y, Idle \ {"queue", "overflow"}) /\ y.core = x.core /\ y.speech = x.speech
      /\ y.voiceGen = x.voiceGen /\ y.agentGen = x.agentGen /\ y.agent = x.agent /\ y.ag = x.ag
      /\ y.turns = x.turns /\ y.agentTries = x.agentTries
      /\ y.voiceTries = x.voiceTries /\ y.voiceRestart = x.voiceRestart
  BY <1>1, FieldNames DEF Same, Idle
<1>3. AgOK(y) /\ CoreOK(y) /\ CountersOK(y) /\ SameSpeech(x, y)
  BY <1>0, <1>1, <1>2 DEF AgOK, CoreOK, CountersOK, SameSpeech
<1> QED
  BY <1>1, <1>2, <1>3, QuietKeeps

LEMMA ScheduleVoiceIs ==
  ASSUME NEW x, Base(x), NEW y, y = ScheduleVoice(x)
  PROVE  Keeps(x, y) /\ Same(x, y, {"voiceRestart"})
<1>0. DOMAIN x = Fields /\ AgOK(x) /\ CoreOK(x) /\ CountersOK(x)
  BY SomeFields
<1>1. /\ DOMAIN y = Fields /\ Same(x, y, {"voiceRestart"})
      /\ y.voiceRestart => x.voiceTries < MaxRestarts
  BY <1>0, FieldNames DEF ScheduleVoice, Same
<1>2. /\ Same(x, y, Idle \ {"queue", "overflow"}) /\ y.core = x.core /\ y.speech = x.speech
      /\ y.voiceGen = x.voiceGen /\ y.agentGen = x.agentGen /\ y.agent = x.agent /\ y.ag = x.ag
      /\ y.turns = x.turns /\ y.agentTries = x.agentTries
      /\ y.voiceTries = x.voiceTries /\ y.agentRestart = x.agentRestart
  BY <1>1, FieldNames DEF Same, Idle
<1>3. AgOK(y) /\ CoreOK(y) /\ CountersOK(y) /\ SameSpeech(x, y)
  BY <1>0, <1>1, <1>2 DEF AgOK, CoreOK, CountersOK, SameSpeech
<1> QED
  BY <1>1, <1>2, <1>3, QuietKeeps

LEMMA KeepsSelf == ASSUME NEW x, Base(x) PROVE Keeps(x, x) /\ \A S : Same(x, x, S)
BY DEF Keeps, Same

\* An agent is opened where there was none: it takes no event of the one before.
LEMMA OpenAgentIs ==
  ASSUME NEW x, Base(x), NEW fails, NEW y, y = OpenAgent(x, fails)
  PROVE  Keeps(x, y) /\ Same(x, y, {"agent", "starting", "agentGen", "ag", "agentRestart"})
<1>0. /\ DOMAIN x = Fields /\ AgOK(x) /\ CoreOK(x) /\ CountersOK(x) /\ QueueOK(x) /\ TurnInv(x)
      /\ x.agentGen \in Nat
  BY SomeFields
<1>1. CASE x.agent
  BY <1>1, KeepsSelf DEF OpenAgent
<1>2. ASSUME NEW z, ~x.agent, DOMAIN z = Fields,
             Same(x, z, {"agent", "starting", "agentGen", "ag"}),
             z.agentGen = x.agentGen + 1, z.agent <=> z.ag.st # "none", z.ag.st # "active", AgOK(z)
      PROVE  Keeps(x, z)
  <2>1. /\ Same(x, z, Idle) /\ z.queue = x.queue /\ z.overflow = x.overflow
        /\ z.core = x.core /\ z.speech = x.speech /\ z.voiceGen = x.voiceGen
        /\ z.turns = x.turns /\ z.agentTries = x.agentTries /\ z.agentRestart = x.agentRestart
        /\ z.voiceTries = x.voiceTries /\ z.voiceRestart = x.voiceRestart /\ z.turn = x.turn
    BY <1>2, FieldNames DEF Same, Idle
  <2>2. CountersOK(z) /\ CoreOK(z) /\ QueueOK(z) /\ SameSpeech(x, z)
    BY <1>0, <1>2, <2>1 DEF CountersOK, CoreOK, QueueOK, SameSpeech
  <2>3. Still(x, z) /\ Extends(x, z, {}) /\ Reports(x, {})
    BY <1>0, <1>2, <2>1, <2>2, NoneExtends DEF Still, Reports
  <2>4. ~z.turn
    BY <1>0, <1>2, <2>1 DEF TurnInv
  <2>5. \A i \in At(z) : z.queue[i].from = "agent" => z.queue[i].gen < x.agentGen /\ z.queue[i].gen \in Nat
    BY <1>0, <1>2, <2>1, EventTypes DEF TurnInv, AgentGens, QueueOK, At
  <2>6. \A i \in At(z) : ~OfAgent(z, z.queue[i])
    BY <1>0, <1>2, <2>5 DEF OfAgent
  <2>7. ~EndComes(z) /\ ~OutputComes(z) /\ EndIsLast(z)
    BY <2>6 DEF EndComes, OutputComes, EndIsLast, Ends, Over, Outputs
  <2>8. AgentGens(z)
    BY <1>0, <1>2, <2>5 DEF AgentGens
  <2>9. TurnInv(z) /\ EndInv(z)
    BY <1>2, <2>4, <2>7, <2>8 DEF TurnInv, EndInv
  <2> QED
    BY <2>3, <2>9, StillButTurn
<1>3. CASE ~x.agent /\ fails = "open"
  <2> DEFINE z == [x EXCEPT !.agentGen = @ + 1]
  <2>1. /\ DOMAIN z = Fields /\ Same(x, z, {"agentGen"}) /\ z.agentGen = x.agentGen + 1
    BY <1>0, FieldNames DEF Same
  <2>2. y = ScheduleAgent(z)
    BY <1>3 DEF OpenAgent
  <2> HIDE DEF z
  <2>3. z.agent = x.agent /\ z.ag = x.ag /\ Same(x, z, {"agent", "starting", "agentGen", "ag"})
    BY <2>1, FieldNames DEF Same
  <2>4. Keeps(x, z)
    BY <1>0, <1>2, <1>3, <2>1, <2>3 DEF TurnInv, AgOK
  <2>5. Keeps(z, y) /\ Same(z, y, {"agentRestart"})
    BY <2>2, <2>4, ScheduleAgentIs DEF Keeps
  <2> QED
    BY <2>1, <2>4, <2>5, KeepsTwice DEF Same
<1>4. CASE ~x.agent /\ fails # "open"
  <2> DEFINE a == [NoAgent EXCEPT !.st = "starting"]
  <2>1. a.st = "starting" /\ DOMAIN a = AgFields /\ a.turn = 0
    BY DEF NoAgent, AgFields
  <2>2. y = [x EXCEPT !.agentGen = @ + 1, !.agent = TRUE, !.starting = TRUE, !.ag = a]
    BY <1>4 DEF OpenAgent
  <2> HIDE DEF a
  <2>3. /\ DOMAIN y = Fields /\ Same(x, y, {"agent", "starting", "agentGen", "ag"})
        /\ y.agentGen = x.agentGen + 1 /\ y.agent /\ y.ag = a
    BY <1>0, <2>2, FieldNames DEF Same
  <2>4. AgOK(y)
    BY <2>1, <2>3 DEF AgOK
  <2> QED
    BY <1>2, <1>4, <2>1, <2>3, <2>4 DEF Same
<1> QED
  BY <1>1, <1>3, <1>4

\* Without a voice core nothing is said and nothing is tracked.
LEMMA EmptyVoice ==
  ASSUME NEW x, x.speech = <<>>, x.core = NoCore, QueueOK(x),
         \A i \in At(x) : x.queue[i].from = "voice" => x.queue[i].gen < x.voiceGen,
         x.voiceGen \in Nat
  PROVE  /\ SpeechInv(x) /\ TrackInv(x)
         /\ \A id : ~Done(x, id) /\ ~DoneWell(x, id) /\ ~Tracks(x, id) /\ ~Carries(x.core, id)
<1>1. \A i \in At(x) : x.queue[i] \in Events /\ x.queue[i].gen \in Nat
  BY EventTypes DEF QueueOK, At
<1>2. \A id : ~Done(x, id) /\ ~DoneWell(x, id) /\ ~Tracks(x, id)
  BY <1>1 DEF Done, DoneWell, Completes, OfVoice, Tracks
<1>3. NoCore.waiting = <<>> /\ NoCore.active = 0
  BY DEF NoCore
<1>4. \A id : ~Carries(x.core, id)
  BY <1>3 DEF Carries
<1>5. WaitingOK(x.core)
  BY <1>3 DEF WaitingOK
<1>6. \A i, j \in 1..Len(x.speech) : x.speech[i].id = x.speech[j].id => i = j
  OBVIOUS
<1> QED
  BY <1>2, <1>4, <1>5, <1>6 DEF SpeechInv, TrackInv

\* The voice core that is opened has said nothing yet.
LEMMA OpenedVoice ==
  ASSUME NEW x, Base(x), ~x.voice, NEW z, z = [x EXCEPT !.voiceGen = @ + 1, !.voice = TRUE]
  PROVE  /\ Base(z) /\ Same(x, z, {"voice", "voiceGen"}) /\ z.voice /\ ~z.voiceReady
         /\ (AnswerInv(x) => AnswerInv(z) /\ ~(z.followAllowed /\ z.unheard))
         /\ (EndInv(x) => EndInv(z)) /\ TrackInv(z)
<1>0. /\ DOMAIN x = Fields /\ QueueOK(x) /\ SpeechOK(x) /\ CountersOK(x) /\ AgOK(x) /\ CoreOK(x)
      /\ AnnOK(x) /\ TurnInv(x) /\ VoiceInv(x) /\ SpeechInv(x) /\ AnnInv(x) /\ GateInv(x)
      /\ x.voiceGen \in Nat /\ x.agentGen \in Nat
  BY SomeFields
<1>1. /\ DOMAIN z = Fields /\ Same(x, z, {"voice", "voiceGen"}) /\ z.voice
      /\ z.voiceGen = x.voiceGen + 1
  BY <1>0, FieldNames DEF Same
<1>2. /\ z.queue = x.queue /\ z.overflow = x.overflow
      /\ z.agent = x.agent /\ z.agentGen = x.agentGen /\ z.turn = x.turn /\ z.refused = x.refused
      /\ z.nextId = x.nextId /\ z.ag = x.ag /\ z.annHeard = x.annHeard /\ z.voiceReady = x.voiceReady
      /\ z.complete = x.complete /\ z.gated = x.gated /\ z.paused = x.paused /\ z.ptt = x.ptt
      /\ z.quiet = x.quiet /\ z.followAllowed = x.followAllowed /\ z.unheard = x.unheard
      /\ z.suppressed = x.suppressed /\ z.turns = x.turns
      /\ z.agentTries = x.agentTries /\ z.agentRestart = x.agentRestart
      /\ z.voiceRestart = x.voiceRestart /\ z.voiceTries = x.voiceTries
      /\ z.speech = x.speech /\ z.core = x.core /\ z.ann = x.ann /\ z.receipt = x.receipt
      /\ z.streamAudio = x.streamAudio
  BY <1>1, FieldNames DEF Same
<1>3. z.speech = <<>> /\ z.core = NoCore /\ ~z.voiceReady
  BY <1>0, <1>2 DEF VoiceInv
<1>4. \A i \in At(z) : z.queue[i].from = "voice" =>
        z.queue[i].gen < x.voiceGen /\ z.queue[i].gen \in Nat
  BY <1>0, <1>2, EventTypes DEF VoiceInv, VoiceGens, QueueOK, At
<1>5. QueueOK(z) /\ Extends(x, z, {})
  BY <1>0, <1>2, NoneExtends DEF QueueOK
<1>6. /\ SpeechInv(z) /\ TrackInv(z)
      /\ \A id : ~Done(z, id) /\ ~DoneWell(z, id) /\ ~Tracks(z, id) /\ ~Carries(z.core, id)
  <2>1. /\ z.voiceGen \in Nat
        /\ \A i \in At(z) : z.queue[i].from = "voice" => z.queue[i].gen < z.voiceGen
    BY <1>0, <1>1, <1>4
  <2> QED
    BY <1>3, <1>5, <2>1, EmptyVoice
<1>7. VoiceInv(z)
  BY <1>0, <1>1, <1>4 DEF VoiceInv, VoiceGens
<1>8. TurnInv(z) /\ (EndInv(x) => EndInv(z))
  <2>1. Harmless(x, {})
    BY DEF Harmless
  <2> QED
    BY <1>0, <1>2, <1>5, <2>1, TurnKept
<1>9. \A id : ~Tracks(x, id)
  BY <1>2, <1>6 DEF Tracks
<1>10. AnnInv(z)
  BY <1>0, <1>2, <1>6, <1>9 DEF AnnInv
<1>11. GateInv(z)
  BY <1>0, <1>2 DEF GateInv
<1>12. AnswerInv(x) => AnswerInv(z) /\ ~(z.followAllowed /\ z.unheard)
  BY <1>2, <1>9 DEF AnswerInv
<1>13. AppOK(z)
  <2>1. CountersOK(z) /\ AgOK(z) /\ AnnOK(z) /\ SpeechOK(z) /\ CoreOK(z)
    BY <1>0, <1>1, <1>2 DEF CountersOK, AgOK, AnnOK, SpeechOK, CoreOK
  <2> QED
    BY <1>1, <1>5, <2>1 DEF AppOK
<1> QED
  BY <1>1, <1>3, <1>6, <1>7, <1>8, <1>10, <1>11, <1>12, <1>13 DEF Base

\* An event of the core that completes no speech changes nothing that matters.
LEMMA FromVoiceKeeps ==
  ASSUME NEW x, Base(x), x.voice, NEW type \in VoiceTypes \ {"SPEECH_COMPLETE"},
         NEW id \in Nat, NEW flag \in BOOLEAN, NEW y, y = FromVoice(x, type, id, flag)
  PROVE  /\ Keeps(x, y) /\ Same(x, y, {"queue", "overflow"})
         /\ Extends(x, y, {Event("voice", x.voiceGen, type, id, flag)})
         /\ (MicInv(x) => MicInv(y)) /\ (PttFits(x) => PttFits(y))
<1> DEFINE e == Event("voice", x.voiceGen, type, id, flag)
<1>0. /\ DOMAIN x = Fields /\ QueueOK(x) /\ CountersOK(x) /\ AgOK(x) /\ CoreOK(x)
      /\ x.voiceGen \in Nat
  BY SomeFields
<1>1. e.from = "voice" /\ e.gen = x.voiceGen /\ e.type = type
  BY DEF Event
<1>2. /\ DOMAIN y = Fields /\ Same(x, y, {"queue", "overflow"}) /\ QueueOK(y)
      /\ Extends(x, y, {e})
  BY <1>0, FromVoiceIs
<1> HIDE DEF e
<1>3. /\ Same(x, y, Idle) /\ y.core = x.core /\ y.ag = x.ag /\ y.agent = x.agent
      /\ y.speech = x.speech /\ SameCounts(x, y) /\ y.voice = x.voice
      /\ y.voiceReady = x.voiceReady /\ y.paused = x.paused /\ y.gated = x.gated /\ y.ptt = x.ptt
      /\ y.turn = x.turn /\ y.complete = x.complete /\ y.suppressed = x.suppressed
  BY <1>2, FieldNames DEF Same, Idle, SameCounts
<1>4. Still(x, y)
  BY <1>0, <1>2, <1>3, SameCountsOK DEF Still, AgOK, CoreOK, SameSpeech, SameCounts
<1>5. Harmless(x, {e}) /\ Reports(x, {e})
  BY <1>1 DEF Harmless, Reports
<1>6. Keeps(x, y)
  BY <1>2, <1>3, <1>4, <1>5, StillKeeps DEF SameCounts
<1>7. x.overflow => y.overflow
  BY <1>6 DEF Keeps
<1>8. (MicInv(x) => MicInv(y)) /\ (PttFits(x) => PttFits(y))
  BY <1>3, <1>7, MicKept DEF SameMic, PttFits
<1> QED
  BY <1>2, <1>6, <1>8 DEF e

\* A voice core that is opened says that it is ready, and idle.
LEMMA OpenVoiceIs ==
  ASSUME NEW x, Base(x), AnswerInv(x), NEW fails, NEW y, y = OpenVoice(x, fails)
  PROVE  /\ Keeps(x, y) /\ Same(x, y, OfItsVoice \union {"voiceRestart"})
         /\ (MicInv(x) => MicInv(y))
         /\ y.speech = x.speech \/ y.speech = <<>>
         /\ (y.followListening => x.followListening)
<1> DEFINE z == [x EXCEPT !.voiceGen = @ + 1, !.voice = TRUE]
<1>0. x.voiceGen \in Nat /\ DOMAIN x = Fields /\ QueueOK(x)
  BY SomeFields
<1>1. CASE x.voice \/ ~x.ready
  <2>1. y = x
    BY <1>1 DEF OpenVoice
  <2> QED
    BY <2>1, KeepsSelf
<1>2. ASSUME ~x.voice
      PROVE  /\ Base(z) /\ Same(x, z, {"voice", "voiceGen"}) /\ z.voice /\ ~z.voiceReady
             /\ AnswerInv(z) /\ ~(z.followAllowed /\ z.unheard)
             /\ (EndInv(x) => EndInv(z)) /\ TrackInv(z)
  BY <1>2, OpenedVoice
<1>3. CASE ~x.voice /\ y = ScheduleVoice(CloseVoice(z))
  <2> HIDE DEF z
  <2> DEFINE v == CloseVoice(z)
  <2>1. /\ Base(v) /\ (z.overflow => v.overflow) /\ (EndInv(z) => EndInv(v)) /\ TrackInv(v)
        /\ AnswerInv(v) /\ ~v.voice /\ Same(z, v, OfItsVoice)
        /\ v.speech = <<>> /\ ~v.followListening
    BY <1>2, <1>3, CloseVoiceIs
  <2> HIDE DEF v
  <2>2. Keeps(v, y) /\ Same(v, y, {"voiceRestart"})
    BY <1>3, <2>1, ScheduleVoiceIs DEF v
  <2>3. /\ y.speech = <<>> /\ ~y.followListening
        /\ ~y.voice /\ Same(x, y, OfItsVoice \union {"voiceRestart"}) /\ (x.overflow => z.overflow)
    BY <1>2, <1>3, <2>1, <2>2, FieldNames DEF Same, OfItsVoice
  <2> QED
    BY <1>2, <1>3, <2>1, <2>2, <2>3, AwayIs DEF Keeps
<1>4. CASE /\ ~x.voice
           /\ y = FromVoice(FromVoice(z, "READY", 0, FALSE), "IDLE", 0, FALSE)
  <2> DEFINE v == FromVoice(z, "READY", 0, FALSE)
             r == Event("voice", z.voiceGen, "READY", 0, FALSE)
             e == Event("voice", v.voiceGen, "IDLE", 0, FALSE)
  <2>0. z.queue = x.queue /\ z.overflow = x.overflow /\ z.voiceGen = x.voiceGen + 1
    BY <1>0, FieldNames
  <2> HIDE DEF z
  <2>1. Keeps(z, v) /\ Same(z, v, {"queue", "overflow"}) /\ Extends(z, v, {r})
    BY <1>2, <1>4, FromVoiceKeeps DEF VoiceTypes
  <2>2. v.voice /\ Base(v) /\ v.voiceGen = z.voiceGen
    BY <1>2, <1>4, <2>1, FieldNames DEF Same, Keeps
  <2>3. r.from = "voice" /\ r.gen = z.voiceGen /\ r.type = "READY"
    BY DEF Event
  <2>4. e.from = "voice" /\ e.gen = v.voiceGen /\ e.type = "IDLE"
    BY DEF Event
  <2>5. y = FromVoice(v, "IDLE", 0, FALSE)
    BY <1>4
  <2> HIDE DEF v, r
  <2>6. Keeps(v, y) /\ Same(v, y, {"queue", "overflow"}) /\ Extends(v, y, {e})
    BY <2>2, <2>5, FromVoiceKeeps DEF VoiceTypes
  <2> HIDE DEF e
  <2>7. /\ y.speech = x.speech /\ y.followListening = x.followListening
        /\ ~y.voiceReady /\ Same(x, y, OfItsVoice \union {"voiceRestart"})
        /\ y.voiceGen = z.voiceGen
    BY <1>2, <1>4, <2>1, <2>2, <2>6, FieldNames DEF Same, OfItsVoice
  <2>8. MicInv(y) /\ PttTried(y)
    BY <2>7 DEF MicInv, PttTried
  <2>9. QueueOK(z) /\ QueueOK(v) /\ QueueOK(y)
    BY <1>2, <1>4, <2>1, <2>6, SomeFields DEF Keeps
  <2>10. ASSUME ~y.overflow PROVE StartsIdle(y)
    <3>1. ~v.overflow
      BY <2>6, <2>10 DEF Keeps
    <3>2. PICK i \in At(v) : i > Len(z.queue) /\ v.queue[i] = r
      BY <2>1, <3>1 DEF Extends
    <3>3. PICK k \in At(y) : k > Len(v.queue) /\ y.queue[k] = e
      BY <2>6, <2>10 DEF Extends
    <3>4. i \in At(y) /\ y.queue[i] = r /\ i < k
      BY <2>6, <2>9, <3>2, <3>3 DEF Extends, At, QueueOK
    <3>5. \A j \in At(y) : ~(OfVoice(y, y.queue[j]) /\ y.queue[j].type = "TRANSCRIPT")
      <4> SUFFICES ASSUME NEW j \in At(y), OfVoice(y, y.queue[j]), y.queue[j].type = "TRANSCRIPT"
                   PROVE  FALSE
        OBVIOUS
      <4>1. j \in At(v) /\ v.queue[j] = y.queue[j]
        BY <2>4, <2>6 DEF Extends, e
      <4>2. j \in At(z) /\ z.queue[j] = y.queue[j]
        BY <2>1, <2>3, <4>1 DEF Extends
      <4>3. y.queue[j] = x.queue[j] /\ j \in At(x)
        BY <2>0, <4>2 DEF At
      <4>4. x.queue[j].gen < x.voiceGen /\ x.queue[j].gen \in Nat
        <5>1. VoiceInv(x) /\ QueueOK(x)
          BY SomeFields
        <5>2. x.queue[j] \in Events
          BY <4>3, <5>1 DEF QueueOK, At
        <5>3. x.queue[j].from = "voice" /\ x.queue[j].gen \in Nat
          BY <4>3, <5>2, EventTypes DEF OfVoice
        <5> QED
          BY <1>4, <4>3, <5>1, <5>3 DEF VoiceInv, VoiceGens
      <4> QED
        BY <1>0, <2>0, <2>7, <4>3, <4>4 DEF OfVoice
    <3>6. IdleFirst(y, k)
      <4>1. \A j \in 1..k : j \in At(y)
        BY <2>9, <3>3 DEF At, QueueOK
      <4> QED
        BY <2>2, <2>4, <2>7, <3>3, <3>5, <4>1 DEF IdleFirst, OfVoice, e
    <3> QED
      BY <2>3, <2>7, <3>3, <3>4, <3>6 DEF StartsIdle, OfVoice
  <2>11. StartsIdle(y)
    BY <2>10 DEF StartsIdle
  <2> QED
    BY <1>2, <1>4, <2>0, <2>1, <2>6, <2>7, <2>8, <2>11 DEF Keeps
<1> QED
  BY <1>1, <1>3, <1>4 DEF OpenVoice

Flags == {"turn", "suppressed", "complete", "followAllowed", "gated", "paused", "ptt",
          "quiet", "listening", "followListening", "text", "streamAudio", "streamId",
          "turnId", "pcm", "core", "agentTries", "voiceTries", "starting", "ready",
          "agentRestart", "voiceRestart", "unheard"}

\* A step that pushes nothing and tracks no speech, in which a turn ends at most.
LEMMA FlagsKeep ==
  ASSUME NEW x, NEW y, Base(x), DOMAIN y = Fields, Same(x, y, Flags),
         CountersOK(y), CoreOK(y), SameSpeech(x, y), ~x.voice => y.core = x.core,
         y.streamAudio => x.streamAudio \/ x.voice,
         GateInv(y), x.receipt = 0 \/ (~y.turn /\ ~y.complete),
         \/ y.turn = x.turn
         \/ ~y.turn /\ x.ag.st # "active" /\ ~EndComes(x) /\ ~OutputComes(x)
  PROVE  /\ Base(y) /\ y.overflow = x.overflow
         /\ (EndInv(x) => EndInv(y)) /\ (TrackInv(x) => TrackInv(y))
         /\ (StartsIdle(x) => StartsIdle(y))
         /\ (x.turn => y.turn) /\ (y.ptt => x.ptt) => (PttTried(x) => PttTried(y))
         /\ AnswerInv(x) /\ (y.followAllowed => x.followAllowed) /\ y.unheard = x.unheard
            /\ (y.quiet => ~y.followAllowed /\ (y.turn => y.suppressed)) => AnswerInv(y)
<1>0. /\ DOMAIN x = Fields /\ QueueOK(x) /\ SpeechOK(x) /\ CountersOK(x) /\ AgOK(x) /\ CoreOK(x)
      /\ AnnOK(x) /\ TurnInv(x) /\ VoiceInv(x) /\ SpeechInv(x) /\ AnnInv(x) /\ GateInv(x)
      /\ x.voiceGen \in Nat /\ x.agentGen \in Nat
  BY SomeFields
<1>1. /\ y.queue = x.queue /\ y.overflow = x.overflow /\ y.refused = x.refused
      /\ y.agent = x.agent /\ y.agentGen = x.agentGen /\ y.ag = x.ag
      /\ y.voice = x.voice /\ y.voiceReady = x.voiceReady /\ y.voiceGen = x.voiceGen
      /\ y.speech = x.speech /\ y.nextId = x.nextId
      /\ y.ann = x.ann /\ y.receipt = x.receipt /\ y.annHeard = x.annHeard
  BY FieldNames DEF Same, Flags
<1>2. Extends(x, y, {}) /\ QueueOK(y)
  BY <1>0, <1>1, NoneExtends DEF QueueOK
<1>3. Harmless(x, {})
  BY DEF Harmless
<1>4. /\ EndComes(y) <=> EndComes(x)
      /\ OutputComes(y) <=> OutputComes(x)
      /\ OverComes(x) => OverComes(y)
      /\ EndIsLast(y) /\ AgentGens(y)
  BY <1>0, <1>1, <1>2, <1>3, TurnPush
<1>5. TurnInv(y) /\ (EndInv(x) => EndInv(y))
  BY <1>0, <1>1, <1>4 DEF TurnInv, EndInv
<1>6. VoiceInv(y)
  BY <1>0, <1>1, <1>2, VoiceKept
<1>7. SpeechInv(y) /\ (TrackInv(x) => TrackInv(y))
  BY <1>0, <1>1, <1>2, SpeechKept
<1>8. AnnInv(y)
  BY <1>0, <1>1, <1>2, AnnKept
<1>9. AppOK(y)
  <2>1. AgOK(y) /\ AnnOK(y) /\ SpeechOK(y)
    BY <1>0, <1>1 DEF AgOK, AnnOK, SpeechOK
  <2> QED
    BY <1>2, <2>1 DEF AppOK
<1>10. StartsIdle(x) => StartsIdle(y)
  BY <1>1 DEF StartsIdle, IdleFirst, OfVoice, At
<1>11. (x.turn => y.turn) /\ (y.ptt => x.ptt) => (PttTried(x) => PttTried(y))
  BY <1>0, <1>1, <1>2, TriedKept
<1>12. ASSUME AnswerInv(x), y.followAllowed => x.followAllowed, y.unheard = x.unheard,
              y.quiet => ~y.followAllowed /\ (y.turn => y.suppressed)
       PROVE  AnswerInv(y)
  <2>1. \A id \in Nat : Carries(y.core, id) => Carries(x.core, id)
    BY DEF SameSpeech, Carries
  <2> QED
    BY <1>0, <1>1, <1>2, <1>12, <2>1, AnswerKept
<1> QED
  BY <1>1, <1>5, <1>6, <1>7, <1>8, <1>9, <1>10, <1>11, <1>12 DEF Base

\* What a cancel changes.
Cancels == {"followAllowed", "complete", "followListening", "listening", "gated", "text",
            "streamAudio", "quiet", "suppressed", "ag", "queue", "overflow", "core"}

\* dio_app_cancel keeps the invariant, and silences the answer.
LEMMA AppCancelIs ==
  ASSUME NEW x, Base(x), NEW fails, NEW y, y = AppCancel(x, fails)
  PROVE  /\ Keeps(x, y) /\ Same(x, y, Cancels)
         /\ AnswerInv(y) /\ PttFits(y) /\ (~x.ptt \/ MicInv(x) => MicInv(y))
         /\ ~y.complete /\ ~y.followAllowed /\ ~y.followListening /\ (y.gated <=> x.turn)
         /\ y.core.active = x.core.active /\ y.core.failed = x.core.failed
         /\ (x.turn => y.suppressed)
<1> DEFINE f == [x EXCEPT !.followAllowed = FALSE, !.complete = FALSE,
                          !.followListening = FALSE, !.listening = FALSE,
                          !.gated = x.turn, !.text = FALSE, !.streamAudio = FALSE,
                          !.quiet = @ \/ x.turn \/ x.complete]
           g == IF x.turn /\ x.agent THEN [f EXCEPT !.suppressed = TRUE] ELSE f
           a == IF x.turn /\ x.agent THEN AgentCancel(g, fails) ELSE g
           v == IF x.voice THEN VoiceCancel(a) ELSE a
<1>0. /\ DOMAIN x = Fields /\ CountersOK(x) /\ CoreOK(x) /\ TurnInv(x) /\ GateInv(x) /\ AnnInv(x)
  BY SomeFields
<1>1. /\ DOMAIN f = Fields
      /\ Same(x, f, {"followAllowed", "complete", "followListening", "listening", "gated",
                     "text", "streamAudio", "quiet"})
      /\ ~f.followAllowed /\ ~f.complete /\ ~f.followListening /\ (f.gated <=> x.turn)
      /\ ~f.streamAudio
  BY <1>0, FieldNames DEF Same
<1>2. /\ DOMAIN g = Fields
      /\ Same(x, g, {"followAllowed", "complete", "followListening", "listening", "gated",
                     "text", "streamAudio", "quiet", "suppressed"})
      /\ ~g.followAllowed /\ ~g.complete /\ ~g.followListening /\ (g.gated <=> x.turn)
      /\ ~g.streamAudio
      /\ (x.turn => g.suppressed)
  <2>1. x.turn => x.agent
    BY <1>0 DEF TurnInv
  <2> HIDE DEF f
  <2>2. CASE x.turn
    <3>1. g = [f EXCEPT !.suppressed = TRUE]
      BY <2>1, <2>2
    <3> QED
      BY <1>1, <2>2, <3>1, FieldNames DEF Same
  <2>3. CASE ~x.turn
    <3>1. g = f
      BY <2>3
    <3> HIDE DEF g
    <3> QED
      BY <1>1, <2>3, <3>1 DEF Same
  <2> QED
    BY <2>2, <2>3
<1>3. y = IF x.ptt THEN v ELSE SetVoicePaused(v)
  BY DEF AppCancel
<1> HIDE DEF f, g
<1>4. /\ g.turn = x.turn /\ g.ptt = x.ptt /\ g.paused = x.paused /\ g.core = x.core
      /\ g.speech = x.speech /\ g.voiceGen = x.voiceGen /\ g.receipt = x.receipt
      /\ g.voice = x.voice /\ g.voiceReady = x.voiceReady /\ g.agent = x.agent
      /\ Same(x, g, Flags) /\ SameCounts(x, g)
  BY <1>2, FieldNames DEF Same, SameCounts, Flags
<1>5. CountersOK(g) /\ CoreOK(g) /\ SameSpeech(x, g) /\ GateInv(g)
  BY <1>0, <1>2, <1>4, SameCountsOK DEF CoreOK, SameSpeech, GateInv
<1>6. /\ Base(g) /\ g.overflow = x.overflow
      /\ (EndInv(x) => EndInv(g)) /\ (TrackInv(x) => TrackInv(g))
      /\ (StartsIdle(x) => StartsIdle(g)) /\ (PttTried(x) => PttTried(g))
  <2>1. x.receipt = 0 \/ (~g.turn /\ ~g.complete)
    BY <1>0, <1>2, <1>4 DEF AnnInv
  <2> QED
    BY <1>2, <1>4, <1>5, <2>1, FlagsKeep
<1>7. AnswerInv(g) /\ PttFits(g) /\ (x.ptt /\ MicInv(x) => MicInv(g))
  <2>1. x.ptt /\ MicInv(x) => MicInv(g)
    BY <1>0, <1>2, <1>4, <1>6 DEF MicInv, GateInv
  <2> QED
    BY <1>2, <1>4, <2>1 DEF AnswerInv, PttFits
<1>8. Keeps(x, g)
  BY <1>6, <1>7 DEF Keeps
<1>9. Keeps(g, a) /\ Same(g, a, {"ag", "queue", "overflow"})
  BY <1>6, AgentCancelIs, KeepsSelf
<1> HIDE DEF a
<1>10. Base(a) /\ a.voice = x.voice
  BY <1>4, <1>9, FieldNames DEF Keeps, Same
<1>11. /\ Keeps(a, v) /\ Same(a, v, {"core", "queue", "overflow"})
       /\ v.core.active = a.core.active /\ v.core.paused = a.core.paused
       /\ v.core.failed = a.core.failed
  BY <1>10, VoiceCancelIs, KeepsSelf
<1> HIDE DEF v
<1>12. Keeps(x, v) /\ Base(v)
  BY <1>8, <1>9, <1>11, KeepsTwice DEF Keeps
<1>13. /\ Keeps(v, y) /\ Same(v, y, {"core"}) /\ SameCoreSpeech(v, y)
       /\ (~x.ptt => MicInv(y)) /\ (x.ptt => y = v)
  BY <1>3, <1>12, SetVoicePausedIs, KeepsSelf DEF SameCoreSpeech
<1>14. /\ Same(x, y, Cancels) /\ y.turn = x.turn /\ y.ptt = x.ptt
       /\ ~y.followAllowed /\ ~y.complete /\ ~y.followListening /\ (y.gated <=> x.turn)
       /\ (x.turn => y.suppressed)
  BY <1>2, <1>4, <1>9, <1>11, <1>13, FieldNames DEF Same, Cancels
<1>15. AnswerInv(y) /\ PttFits(y)
  BY <1>14 DEF AnswerInv, PttFits
<1>16. y.core.active = x.core.active /\ y.core.failed = x.core.failed
  BY <1>4, <1>9, <1>11, <1>13, FieldNames DEF Same, SameCoreSpeech
<1>17. ASSUME x.ptt, MicInv(x) PROVE MicInv(y)
  <2>1. SameMic(g, v)
    BY <1>9, <1>11, FieldNames DEF SameMic, Same, Keeps
  <2> QED
    BY <1>7, <1>13, <1>17, <2>1, MicKept
<1> QED
  BY <1>12, <1>13, <1>14, <1>15, <1>16, <1>17, KeepsTwice

Ended == {"turn", "suppressed", "complete", "followAllowed", "followListening", "listening",
          "gated", "turnId", "pcm", "text", "queue", "overflow", "core"}

\* dio_app_end_failed_turn ends the turn and opens the gate.
LEMMA EndFailedTurnIs ==
  ASSUME NEW x, Base(x), x.ag.st # "active", ~EndComes(x), ~OutputComes(x),
         NEW y, y = EndFailedTurn(x)
  PROVE  /\ Base(y) /\ Same(x, y, Ended) /\ (x.overflow => y.overflow)
         /\ AnswerInv(y) /\ EndInv(y) /\ PttFits(y) /\ MicInv(y)
         /\ (TrackInv(x) => TrackInv(y)) /\ (StartsIdle(x) => StartsIdle(y))
         /\ ~y.turn /\ ~y.complete /\ ~y.followListening
<1> DEFINE f == [x EXCEPT !.turn = FALSE, !.suppressed = FALSE, !.complete = FALSE,
                          !.followAllowed = FALSE, !.followListening = FALSE,
                          !.listening = FALSE, !.gated = FALSE, !.turnId = 0,
                          !.pcm = FALSE, !.text = FALSE]
           v == IF x.voice THEN VoiceCancel(f) ELSE f
<1>0. /\ DOMAIN x = Fields /\ CountersOK(x) /\ CoreOK(x) /\ TurnInv(x) /\ GateInv(x) /\ AnnInv(x)
  BY SomeFields
<1>1. /\ DOMAIN f = Fields
      /\ Same(x, f, {"turn", "suppressed", "complete", "followAllowed", "followListening",
                     "listening", "gated", "turnId", "pcm", "text"})
      /\ ~f.turn /\ ~f.followAllowed /\ ~f.complete /\ ~f.followListening /\ ~f.gated
  BY <1>0, FieldNames DEF Same
<1>3. y = SetVoicePaused(v)
  BY DEF EndFailedTurn
<1> HIDE DEF f
<1>4. /\ f.ptt = x.ptt /\ f.paused = x.paused /\ f.core = x.core
      /\ f.speech = x.speech /\ f.voiceGen = x.voiceGen
      /\ f.voice = x.voice /\ Same(x, f, Flags) /\ SameCounts(x, f)
      /\ f.streamAudio = x.streamAudio
  BY <1>1, FieldNames DEF Same, SameCounts, Flags
<1>5. CountersOK(f) /\ CoreOK(f) /\ SameSpeech(x, f) /\ GateInv(f)
  BY <1>0, <1>1, <1>4, SameCountsOK DEF CoreOK, SameSpeech, GateInv
<1>6. /\ Base(f) /\ f.overflow = x.overflow /\ (TrackInv(x) => TrackInv(f))
      /\ (StartsIdle(x) => StartsIdle(f))
  BY <1>1, <1>4, <1>5, FlagsKeep
<1>8. Keeps(f, v) /\ Same(f, v, {"core", "queue", "overflow"})
  BY <1>4, <1>6, VoiceCancelIs, KeepsSelf
<1> HIDE DEF v
<1>9. Keeps(v, y) /\ Same(v, y, {"core"}) /\ MicInv(y)
  BY <1>3, <1>8, SetVoicePausedIs DEF Keeps
<1>10. /\ Same(x, y, Ended)
       /\ ~y.turn /\ ~y.followAllowed /\ ~y.complete /\ ~y.followListening
  BY <1>1, <1>8, <1>9, FieldNames DEF Same, Ended
<1>11. AnswerInv(y) /\ EndInv(y) /\ PttFits(y)
  BY <1>10 DEF AnswerInv, EndInv, PttFits
<1> QED
  BY <1>6, <1>8, <1>9, <1>10, <1>11, KeepsTwice DEF Keeps

\* A push-to-talk is given up, tells the core to listen, or waits for speech.
LEMMA TryPttIs ==
  ASSUME NEW x, Base(x), MicInv(x), PttFits(x), NEW y, y = TryPtt(x)
  PROVE  /\ Keeps(x, y) /\ Same(x, y, {"ptt", "followListening", "listening", "core"})
         /\ MicInv(y) /\ PttFits(y) /\ PttTried(y)
         /\ (y.followListening => x.followListening)
<1>0. /\ DOMAIN x = Fields /\ CountersOK(x) /\ CoreOK(x) /\ SpeechInv(x) /\ GateInv(x)
      /\ AnnInv(x)
  BY SomeFields
<1>1. CASE ~x.ptt \/ ~x.voice \/ ~x.voiceReady \/ x.turn
  <2>1. y = x
    BY <1>1 DEF TryPtt
  <2>2. PttTried(y)
    BY <1>1, <2>1 DEF PttTried
  <2> QED
    BY <2>1, <2>2, KeepsSelf
<1>2. CASE x.ptt /\ x.voice /\ x.voiceReady /\ ~x.turn /\ x.core.failed
  <2>1. y = [x EXCEPT !.ptt = FALSE]
    BY <1>2 DEF TryPtt
  <2>2. DOMAIN y = Fields /\ Same(x, y, {"ptt"}) /\ ~y.ptt
    BY <1>0, <2>1, FieldNames DEF Same
  <2>3. /\ y.core = x.core /\ Same(x, y, Flags) /\ SameCounts(x, y) /\ y.turn = x.turn
        /\ y.complete = x.complete /\ y.gated = x.gated /\ y.speech = x.speech
        /\ y.followAllowed = x.followAllowed /\ y.quiet = x.quiet /\ y.suppressed = x.suppressed
        /\ y.unheard = x.unheard /\ y.streamAudio = x.streamAudio
        /\ Same(x, y, {"ptt", "followListening", "listening", "core"})
        /\ (y.followListening => x.followListening)
    BY <2>2, FieldNames DEF Same, Flags, SameCounts
  <2>4. CountersOK(y) /\ CoreOK(y) /\ SameSpeech(x, y) /\ GateInv(y)
    BY <1>0, <2>2, <2>3, SameCountsOK DEF CoreOK, SameSpeech, GateInv, SameCounts
  <2>5. x.receipt = 0 \/ (~y.turn /\ ~y.complete)
    BY <1>0, <2>3 DEF AnnInv
  <2>6. MicInv(y) /\ PttFits(y) /\ PttTried(y)
    BY <1>2, <2>2, <2>3 DEF MicInv, PttFits, PttTried
  <2>7. /\ Base(y) /\ y.overflow = x.overflow
        /\ (EndInv(x) => EndInv(y)) /\ (TrackInv(x) => TrackInv(y))
        /\ (StartsIdle(x) => StartsIdle(y))
        /\ AnswerInv(x) /\ (y.followAllowed => x.followAllowed) /\ y.unheard = x.unheard
            /\ (y.quiet => ~y.followAllowed /\ (y.turn => y.suppressed)) => AnswerInv(y)
    BY <2>2, <2>3, <2>4, <2>5, FlagsKeep
  <2>8. AnswerInv(x) => AnswerInv(y)
    BY <2>3, <2>7 DEF AnswerInv
  <2> QED
    BY <2>3, <2>6, <2>7, <2>8 DEF Keeps
<1>3. CASE /\ x.ptt /\ x.voice /\ x.voiceReady /\ ~x.turn /\ ~x.core.failed
           /\ x.core.active # 0
  <2>1. y = x
    BY <1>3 DEF TryPtt
  <2>2. x.core.active \in Nat /\ Carries(x.core, x.core.active)
    BY <1>0, <1>3 DEF CoreOK, Carries
  <2>3. x.speech # <<>>
    BY <1>0, <2>2 DEF SpeechInv, Tracks
  <2>4. PttTried(y)
    BY <2>1, <2>3 DEF PttTried
  <2> QED
    BY <2>1, <2>4, KeepsSelf
<1>4. CASE /\ x.ptt /\ x.voice /\ x.voiceReady /\ ~x.turn /\ ~x.core.failed
           /\ x.core.active = 0
  <2> DEFINE c == [[x.core EXCEPT !.ptt = TRUE] EXCEPT !.paused = FALSE]
  <2>1. y = [x EXCEPT !.ptt = FALSE, !.followListening = FALSE, !.listening = TRUE,
                      !.core.ptt = TRUE, !.core.paused = FALSE]
    BY <1>4 DEF TryPtt
  <2>2. /\ DOMAIN y = Fields /\ ~y.ptt /\ ~y.followListening /\ y.core = c
        /\ Same(x, y, {"ptt", "followListening", "listening", "core"})
    BY <1>0, <2>1, FieldNames DEF Same
  <2>3. /\ ~c.paused /\ DOMAIN c = CoreFields /\ c.active = x.core.active
        /\ c.waiting = x.core.waiting /\ c.mode = x.core.mode
    BY <1>0, CoreNames DEF CoreOK
  <2> HIDE DEF c
  <2>4. /\ Same(x, y, Flags) /\ SameCounts(x, y) /\ y.turn = x.turn /\ y.paused = x.paused
        /\ y.complete = x.complete /\ y.gated = x.gated /\ y.speech = x.speech
        /\ y.followAllowed = x.followAllowed /\ y.quiet = x.quiet /\ y.suppressed = x.suppressed
        /\ y.unheard = x.unheard /\ y.streamAudio = x.streamAudio
        /\ y.overflow = x.overflow
    BY <2>2, FieldNames DEF Same, Flags, SameCounts
  <2>5. CountersOK(y) /\ CoreOK(y) /\ SameSpeech(x, y) /\ GateInv(y)
    BY <1>0, <2>2, <2>3, <2>4, SameCountsOK DEF CoreOK, SameSpeech, GateInv, SameCounts
  <2>6. x.receipt = 0 \/ (~y.turn /\ ~y.complete)
    BY <1>0, <2>4 DEF AnnInv
  <2>7. PttFits(y) /\ PttTried(y)
    BY <2>2 DEF PttFits, PttTried
  <2>8. MicInv(y)
    <3>1. y.overflow \/ (~y.paused /\ ~y.gated)
      BY <1>0, <1>4, <2>4 DEF PttFits, GateInv
    <3> QED
      BY <2>2, <2>3, <3>1 DEF MicInv
  <2>9. /\ Base(y) /\ y.overflow = x.overflow
        /\ (EndInv(x) => EndInv(y)) /\ (TrackInv(x) => TrackInv(y))
        /\ (StartsIdle(x) => StartsIdle(y))
        /\ AnswerInv(x) /\ (y.followAllowed => x.followAllowed) /\ y.unheard = x.unheard
            /\ (y.quiet => ~y.followAllowed /\ (y.turn => y.suppressed)) => AnswerInv(y)
    BY <1>4, <2>2, <2>4, <2>5, <2>6, FlagsKeep
  <2>10. AnswerInv(x) => AnswerInv(y)
    BY <2>4, <2>9 DEF AnswerInv
  <2> QED
    BY <2>2, <2>7, <2>8, <2>9, <2>10 DEF Keeps
<1> QED
  BY <1>1, <1>2, <1>3, <1>4

Follows == {"complete", "followAllowed", "gated", "followListening", "listening", "core"}

\* What is left of an answer that is over: a follow-up, or the microphone.
LEMMA MaybeFollowUpIs ==
  ASSUME NEW x, Base(x), MicInv(x), NEW y, y = MaybeFollowUp(x)
  PROVE  /\ Keeps(x, y) /\ Same(x, y, Follows) /\ MicInv(y) /\ (PttFits(x) => PttFits(y))
         /\ (y.complete => x.complete)
         /\ y.followListening =>
              \/ x.followListening
              \/ x.followAllowed /\ x.speech = <<>> /\ ~x.paused
<1> DEFINE d == [x EXCEPT !.complete = FALSE, !.followAllowed = FALSE, !.gated = FALSE]
<1>0. /\ DOMAIN x = Fields /\ CountersOK(x) /\ CoreOK(x) /\ GateInv(x) /\ AnnInv(x)
  BY SomeFields
<1>1. CASE ~x.complete \/ x.speech # <<>>
  <2>1. y = x
    BY <1>1 DEF MaybeFollowUp
  <2> QED
    BY <2>1, KeepsSelf
<1>2. ASSUME x.complete
      PROVE  /\ DOMAIN d = Fields /\ Same(x, d, {"complete", "followAllowed", "gated"})
             /\ ~d.complete /\ ~d.followAllowed /\ ~d.gated
             /\ d.turn = x.turn /\ d.ptt = x.ptt /\ d.paused = x.paused /\ ~d.turn
             /\ d.core = x.core /\ d.voice = x.voice /\ d.speech = x.speech
             /\ d.suppressed = x.suppressed /\ d.quiet = x.quiet
             /\ d.followListening = x.followListening
             /\ Keeps(x, d) /\ (PttFits(x) => PttFits(d))
  <2>1. /\ DOMAIN d = Fields /\ Same(x, d, {"complete", "followAllowed", "gated"})
        /\ ~d.complete /\ ~d.followAllowed /\ ~d.gated
    BY <1>0, FieldNames DEF Same
  <2> HIDE DEF d
  <2>2. /\ Same(x, d, Flags) /\ SameCounts(x, d) /\ d.turn = x.turn /\ d.ptt = x.ptt
        /\ d.core = x.core /\ d.voice = x.voice /\ d.speech = x.speech
        /\ d.voiceGen = x.voiceGen /\ d.paused = x.paused /\ d.quiet = x.quiet
        /\ d.suppressed = x.suppressed /\ d.overflow = x.overflow /\ d.streamAudio = x.streamAudio
        /\ d.followListening = x.followListening
    BY <2>1, FieldNames DEF Same, Flags, SameCounts
  <2>3. ~d.turn
    BY <1>0, <1>2, <2>2 DEF GateInv
  <2>4. CountersOK(d) /\ CoreOK(d) /\ SameSpeech(x, d) /\ GateInv(d)
    BY <1>0, <2>1, <2>2, <2>3, SameCountsOK DEF CoreOK, SameSpeech, GateInv
  <2>5. /\ Base(d) /\ d.overflow = x.overflow
        /\ (EndInv(x) => EndInv(d)) /\ (TrackInv(x) => TrackInv(d))
        /\ (StartsIdle(x) => StartsIdle(d)) /\ (PttTried(x) => PttTried(d))
    BY <2>1, <2>2, <2>3, <2>4, FlagsKeep
  <2>6. AnswerInv(d) /\ (PttFits(x) => PttFits(d))
    BY <2>1, <2>2, <2>3 DEF AnswerInv, PttFits
  <2> QED
    BY <2>1, <2>2, <2>3, <2>5, <2>6 DEF Keeps
<1>3. CASE x.complete /\ y = SetVoicePaused(d)
  <2> HIDE DEF d
  <2>1. Base(d)
    BY <1>2, <1>3 DEF Keeps
  <2>2. Keeps(d, y) /\ Same(d, y, {"core"}) /\ MicInv(y)
    BY <1>3, <2>1, SetVoicePausedIs
  <2>3. Keeps(x, y)
    BY <1>2, <1>3, <2>2, KeepsTwice
  <2>4. /\ Same(x, y, Follows) /\ y.followListening = x.followListening
        /\ ~y.complete /\ ~y.turn
    BY <1>2, <1>3, <2>2, FieldNames DEF Same, Follows
  <2>5. PttFits(y)
    BY <2>4 DEF PttFits
  <2> QED
    BY <2>2, <2>3, <2>4, <2>5
<1>4. CASE /\ x.complete /\ x.speech = <<>> /\ x.followAllowed /\ ~x.paused
           /\ y = [d EXCEPT !.followListening = TRUE, !.listening = TRUE,
                            !.core.follow = TRUE, !.core.paused = FALSE]
           /\ x.voice
  <2> HIDE DEF d
  <2> DEFINE c == [[d.core EXCEPT !.follow = TRUE] EXCEPT !.paused = FALSE]
  <2>1. Base(d) /\ DOMAIN d = Fields /\ CoreOK(d) /\ CountersOK(d) /\ GateInv(d) /\ AnnInv(d)
    BY <1>2, <1>4, SomeFields DEF Keeps
  <2>2. /\ DOMAIN y = Fields /\ y.core = c
        /\ Same(d, y, {"followListening", "listening", "core"})
    BY <1>4, <2>1, FieldNames DEF Same
  <2>3. /\ ~c.paused /\ DOMAIN c = CoreFields /\ c.active = d.core.active
        /\ c.waiting = d.core.waiting /\ c.mode = d.core.mode
    BY <2>1, CoreNames DEF CoreOK
  <2> HIDE DEF c
  <2>4. /\ Same(d, y, Flags) /\ SameCounts(d, y) /\ y.turn = d.turn /\ y.ptt = d.ptt
        /\ y.complete = d.complete /\ y.gated = d.gated /\ y.speech = d.speech
        /\ y.followAllowed = d.followAllowed /\ y.quiet = d.quiet /\ y.paused = d.paused
        /\ y.streamAudio = d.streamAudio
        /\ y.suppressed = d.suppressed /\ y.overflow = d.overflow /\ y.voiceGen = d.voiceGen
    BY <2>2, FieldNames DEF Same, Flags, SameCounts
  <2>5. CountersOK(y) /\ CoreOK(y) /\ SameSpeech(d, y) /\ GateInv(y)
    BY <2>1, <2>2, <2>3, <2>4, SameCountsOK DEF CoreOK, SameSpeech, GateInv
  <2>6. d.receipt = 0 \/ (~y.turn /\ ~y.complete)
    BY <2>1, <2>4 DEF AnnInv
  <2>7. /\ Base(y) /\ y.overflow = d.overflow
        /\ (EndInv(d) => EndInv(y)) /\ (TrackInv(d) => TrackInv(y))
        /\ (StartsIdle(d) => StartsIdle(y)) /\ (PttTried(d) => PttTried(y))
    BY <1>2, <1>4, <2>1, <2>2, <2>4, <2>5, <2>6, FlagsKeep
  <2>8. AnswerInv(y)
    BY <1>2, <1>4, <2>4 DEF AnswerInv
  <2>9. Keeps(x, y)
    BY <1>2, <1>4, <2>7, <2>8 DEF Keeps
  <2>10. MicInv(y) /\ PttFits(y)
    BY <1>2, <1>4, <2>2, <2>3, <2>4 DEF MicInv, PttFits
  <2>11. Same(x, y, Follows)
    BY <1>2, <1>4, <2>2, FieldNames DEF Same, Follows
  <2> QED
    BY <1>2, <1>4, <2>4, <2>9, <2>10, <2>11
<1> QED
  BY <1>1, <1>3, <1>4 DEF MaybeFollowUp

\* An utterance is tracked and waits in the core, under an identity of its own.
LEMMA SpeakIs ==
  ASSUME NEW x, Base(x), x.voice, Len(x.speech) < SpeechCap,
         NEW kind \in {"agent", "announcement"}, NEW y, y = Speak(x, kind)
  PROVE  /\ Keeps(x, y) /\ Same(x, y, {"nextId", "speech", "core"}) /\ SameMic(x, y)
         /\ y.speech = Append(x.speech, [id |-> x.nextId + 1, kind |-> kind])
         /\ y.nextId = x.nextId + 1 /\ Tracks(y, x.nextId + 1) /\ ~Tracks(x, x.nextId + 1)
         /\ ~Done(y, x.nextId + 1) /\ ~DoneWell(y, x.nextId + 1)
<1> DEFINE n == x.nextId + 1
           u == [id |-> n, kind |-> kind]
           c == [x.core EXCEPT !.waiting = Append(@, n)]
<1>0. /\ DOMAIN x = Fields /\ QueueOK(x) /\ SpeechOK(x) /\ CountersOK(x) /\ AgOK(x) /\ CoreOK(x)
      /\ AnnOK(x) /\ TurnInv(x) /\ VoiceInv(x) /\ SpeechInv(x) /\ AnnInv(x) /\ GateInv(x)
      /\ x.voiceGen \in Nat /\ x.agentGen \in Nat /\ x.nextId \in Nat
  BY SomeFields
<1>1. n \in Nat /\ n # 0 /\ n > x.nextId
  BY <1>0
<1>2. u \in Utterances /\ u.id = n
  BY <1>1 DEF Utterances
<1>3. /\ DOMAIN y = Fields /\ Same(x, y, {"nextId", "speech", "core"})
      /\ y.nextId = n /\ y.speech = Append(x.speech, u) /\ y.core = c
  BY <1>0, FieldNames DEF Speak, Same
<1>4. /\ DOMAIN c = CoreFields /\ c.waiting = Append(x.core.waiting, n) /\ c.active = x.core.active
      /\ c.mode = x.core.mode /\ c.failed = x.core.failed /\ c.paused = x.core.paused
  BY <1>0, CoreNames DEF CoreOK
<1> HIDE DEF n, u, c
<1>5. /\ y.agent = x.agent /\ y.agentGen = x.agentGen /\ y.turn = x.turn /\ y.refused = x.refused
      /\ y.voice = x.voice /\ y.voiceReady = x.voiceReady /\ y.voiceGen = x.voiceGen
      /\ y.ag = x.ag /\ y.queue = x.queue /\ y.overflow = x.overflow
      /\ y.ann = x.ann /\ y.receipt = x.receipt /\ y.annHeard = x.annHeard
      /\ y.complete = x.complete /\ y.gated = x.gated /\ y.paused = x.paused /\ y.ptt = x.ptt
      /\ y.quiet = x.quiet /\ y.followAllowed = x.followAllowed /\ y.unheard = x.unheard
      /\ y.suppressed = x.suppressed /\ y.streamAudio = x.streamAudio /\ SameCounts(x, y)
  BY <1>3, FieldNames DEF Same, SameCounts
<1>6. Extends(x, y, {}) /\ QueueOK(y) /\ Harmless(x, {})
  BY <1>0, <1>5, NoneExtends DEF QueueOK, Harmless
<1>7. /\ Len(y.speech) = Len(x.speech) + 1 /\ y.speech \in Seq(Utterances)
      /\ \A i \in 1..Len(x.speech) : y.speech[i] = x.speech[i]
      /\ y.speech[Len(x.speech) + 1] = u /\ Len(x.speech) \in Nat
  BY <1>0, <1>2, <1>3 DEF SpeechOK
<1>8. /\ Len(c.waiting) = Len(x.core.waiting) + 1 /\ c.waiting \in Seq(Nat)
      /\ \A i \in 1..Len(x.core.waiting) : c.waiting[i] = x.core.waiting[i]
      /\ c.waiting[Len(x.core.waiting) + 1] = n /\ Len(x.core.waiting) \in Nat
  BY <1>0, <1>1, <1>4 DEF CoreOK
<1>7a. /\ \A i \in 1..Len(y.speech) : i \in 1..Len(x.speech) \/ i = Len(x.speech) + 1
       /\ \A i \in 1..Len(x.speech) : i \in 1..Len(y.speech)
       /\ Len(x.speech) + 1 \in 1..Len(y.speech)
  BY <1>7
<1>8a. /\ \A i \in 1..Len(c.waiting) : i \in 1..Len(x.core.waiting) \/ i = Len(x.core.waiting) + 1
       /\ \A i \in 1..Len(x.core.waiting) : i \in 1..Len(c.waiting)
       /\ Len(x.core.waiting) + 1 \in 1..Len(c.waiting)
  BY <1>8
<1>9. \A id : Tracks(y, id) <=> Tracks(x, id) \/ id = n
  BY <1>2, <1>7, <1>7a DEF Tracks
<1>10. \A id : Carries(y.core, id) <=> Carries(x.core, id) \/ id = n
  BY <1>1, <1>3, <1>4, <1>8, <1>8a DEF Carries
<1>11. \A id : (Done(y, id) <=> Done(x, id)) /\ (DoneWell(y, id) <=> DoneWell(x, id))
  BY <1>5 DEF Done, DoneWell, Completes, OfVoice, At
<1>12. ~Tracks(x, n) /\ ~Done(x, n) /\ ~Carries(x.core, n)
  BY <1>0, <1>1 DEF SpeechInv
<1>13. ~DoneWell(x, n)
  BY <1>12 DEF DoneWell, Done
<1>14. \A i \in 1..Len(x.core.waiting) : x.core.waiting[i] # n
  BY <1>1, <1>12 DEF Carries
<1>15. SpeechInv(y)
  <2>1. WaitingOK(y.core)
    <3>1. x.core.active # n
      BY <1>1, <1>12 DEF Carries
    <3>2. WaitingOK(x.core)
      BY <1>0 DEF SpeechInv
    <3> QED
      BY <1>1, <1>3, <1>4, <1>8, <1>8a, <1>14, <3>1, <3>2 DEF WaitingOK
  <2>2. \A i, j \in 1..Len(y.speech) : y.speech[i].id = y.speech[j].id => i = j
    <3>1. \A i \in 1..Len(x.speech) : x.speech[i].id # n
      BY <1>12 DEF Tracks
    <3>2. \A i, j \in 1..Len(x.speech) : x.speech[i].id = x.speech[j].id => i = j
      BY <1>0 DEF SpeechInv
    <3> SUFFICES ASSUME NEW i \in 1..Len(y.speech), NEW j \in 1..Len(y.speech),
                        y.speech[i].id = y.speech[j].id
                 PROVE  i = j
      OBVIOUS
    <3>3. CASE i \in 1..Len(x.speech) /\ j \in 1..Len(x.speech)
      <4>1. x.speech[i].id = x.speech[j].id
        BY <1>7, <3>3
      <4> QED
        BY <3>2, <3>3, <4>1
    <3>4. CASE i = Len(x.speech) + 1 /\ j \in 1..Len(x.speech)
      BY <1>2, <1>7, <3>1, <3>4
    <3>5. CASE j = Len(x.speech) + 1 /\ i \in 1..Len(x.speech)
      BY <1>2, <1>7, <3>1, <3>5
    <3> QED
      BY <1>7a, <3>3, <3>4, <3>5
  <2>3. \A id \in Nat : Carries(y.core, id) => Tracks(y, id) /\ ~Done(y, id)
    BY <1>0, <1>9, <1>10, <1>11, <1>12 DEF SpeechInv
  <2>4. \A id \in Nat : Tracks(y, id) \/ Done(y, id) => id <= y.nextId
    BY <1>0, <1>1, <1>3, <1>9, <1>11 DEF SpeechInv
  <2> QED
    BY <2>1, <2>2, <2>3, <2>4 DEF SpeechInv
<1>16. TrackInv(x) => TrackInv(y)
  BY <1>5, <1>9, <1>10, <1>11 DEF TrackInv
<1>17. TurnInv(y) /\ (EndInv(x) => EndInv(y))
  BY <1>0, <1>5, <1>6, TurnKept
<1>18. VoiceInv(y)
  BY <1>0, <1>5 DEF VoiceInv, VoiceGens, At
<1>19. AnnInv(y)
  BY <1>0, <1>5, <1>9, <1>11 DEF AnnInv
<1>20. GateInv(y)
  BY <1>0, <1>5 DEF GateInv
<1>21. AnswerInv(x) => AnswerInv(y)
  BY <1>5, <1>9, <1>10, <1>11, <1>12 DEF AnswerInv
<1>22. AppOK(y)
  <2>1. SpeechOK(y)
    <3>1. Len(y.speech) <= SpeechCap
      BY <1>7, ControllerAssumption
    <3> QED
      BY <1>1, <1>3, <1>7, <3>1 DEF SpeechOK
  <2>2. CountersOK(y) /\ AgOK(y) /\ AnnOK(y)
    BY <1>0, <1>5, SameCountsOK DEF AgOK, AnnOK
  <2>3. CoreOK(y)
    BY <1>0, <1>3, <1>4, <1>8 DEF CoreOK
  <2> QED
    BY <1>3, <1>6, <2>1, <2>2, <2>3 DEF AppOK
<1>23. (PttTried(x) => PttTried(y)) /\ (StartsIdle(x) => StartsIdle(y))
  <2>1. x.speech # <<>> => y.speech # <<>>
    BY <1>7
  <2> QED
    BY <1>0, <1>5, <1>6, <2>1, TriedKept
<1>24. Keeps(x, y)
  BY <1>5, <1>15, <1>16, <1>17, <1>18, <1>19, <1>20, <1>21, <1>22, <1>23 DEF Base, Keeps
<1>25. SameMic(x, y)
  BY <1>3, <1>4, <1>5 DEF SameMic
<1> QED
  BY <1>3, <1>9, <1>11, <1>12, <1>13, <1>24, <1>25 DEF n, u

\* dio_app_speak_sentence tracks the utterance and hands it to the core, or the answer is not whole.
LEMMA SpeakSentenceIs ==
  ASSUME NEW x, Base(x), NEW fails, NEW y, y = SpeakSentence(x, fails)
  PROVE  /\ Keeps(x, y) /\ Same(x, y, {"nextId", "speech", "core", "followAllowed", "unheard"})
         /\ SameMic(x, y)
<1>0. DOMAIN x = Fields /\ CountersOK(x) /\ CoreOK(x) /\ GateInv(x) /\ AnnInv(x)
  BY SomeFields
<1>1. CASE CanSpeak(x, fails) /\ y = Speak(x, "agent")
  <2>1. Keeps(x, y) /\ Same(x, y, {"nextId", "speech", "core"}) /\ SameMic(x, y)
    BY <1>1, SpeakIs DEF CanSpeak
  <2> QED
    BY <2>1 DEF Same
<1>2. CASE y = [x EXCEPT !.followAllowed = FALSE, !.unheard = TRUE]
  <2>1. /\ DOMAIN y = Fields /\ Same(x, y, {"followAllowed", "unheard"}) /\ ~y.followAllowed
    BY <1>0, <1>2, FieldNames DEF Same
  <2>2. /\ Same(x, y, Flags) /\ SameCounts(x, y) /\ SameMic(x, y) /\ y.turn = x.turn /\ y.ptt = x.ptt
        /\ y.core = x.core /\ y.speech = x.speech /\ y.voiceGen = x.voiceGen
        /\ y.complete = x.complete /\ y.gated = x.gated /\ y.paused = x.paused
        /\ y.quiet = x.quiet /\ y.suppressed = x.suppressed /\ y.streamAudio = x.streamAudio
        /\ Same(x, y, {"nextId", "speech", "core", "followAllowed", "unheard"})
    BY <2>1, FieldNames DEF Same, Flags, SameCounts, SameMic
  <2>3. CountersOK(y) /\ CoreOK(y) /\ SameSpeech(x, y) /\ GateInv(y)
    BY <1>0, <2>2, SameCountsOK DEF CoreOK, SameSpeech, GateInv
  <2>4. x.receipt = 0 \/ (~y.turn /\ ~y.complete)
    BY <1>0, <2>2 DEF AnnInv
  <2>5. /\ Base(y) /\ y.overflow = x.overflow
        /\ (EndInv(x) => EndInv(y)) /\ (TrackInv(x) => TrackInv(y))
        /\ (StartsIdle(x) => StartsIdle(y)) /\ (PttTried(x) => PttTried(y))
    BY <2>1, <2>2, <2>3, <2>4, FlagsKeep
  <2>6. AnswerInv(x) => AnswerInv(y)
    BY <2>1, <2>2 DEF AnswerInv
  <2> QED
    BY <2>2, <2>5, <2>6 DEF Keeps
<1> QED
  BY <1>1, <1>2 DEF SpeakSentence

Minor == {"text", "streamAudio", "streamId", "turnId", "pcm", "core", "listening",
          "followListening", "followAllowed", "agentTries", "voiceTries", "starting",
          "ready", "agentRestart", "voiceRestart"}

\* A step that changes neither turn nor gate, and allows no follow-up.
LEMMA MinorKeeps ==
  ASSUME NEW x, NEW y, Base(x), DOMAIN y = Fields, Same(x, y, Minor), CountersOK(y), CoreOK(y),
         SameSpeech(x, y), ~x.voice => y.core = x.core,
         y.streamAudio => x.streamAudio \/ x.voice, y.followAllowed => x.followAllowed
  PROVE  Keeps(x, y) /\ y.overflow = x.overflow
<1>0. GateInv(x) /\ AnnInv(x)
  BY SomeFields
<1>1. /\ Same(x, y, Flags) /\ y.turn = x.turn /\ y.ptt = x.ptt /\ y.complete = x.complete
      /\ y.gated = x.gated /\ y.paused = x.paused /\ y.unheard = x.unheard
      /\ y.quiet = x.quiet /\ y.suppressed = x.suppressed
  BY FieldNames DEF Same, Flags, Minor
<1>2. GateInv(y) /\ (x.receipt = 0 \/ (~y.turn /\ ~y.complete))
  BY <1>0, <1>1 DEF GateInv, AnnInv
<1>3. /\ Base(y) /\ y.overflow = x.overflow
      /\ (EndInv(x) => EndInv(y)) /\ (TrackInv(x) => TrackInv(y))
      /\ (StartsIdle(x) => StartsIdle(y))
      /\ (x.turn => y.turn) /\ (y.ptt => x.ptt) => (PttTried(x) => PttTried(y))
      /\ AnswerInv(x) /\ (y.followAllowed => x.followAllowed) /\ y.unheard = x.unheard
            /\ (y.quiet => ~y.followAllowed /\ (y.turn => y.suppressed)) => AnswerInv(y)
  BY <1>1, <1>2, FlagsKeep
<1>4. AnswerInv(x) => AnswerInv(y)
  BY <1>1, <1>3 DEF AnswerInv
<1> QED
  BY <1>1, <1>3, <1>4 DEF Keeps

\* dio_app_stream_pcm starts a stream that is tracked, or writes to it.
LEMMA StreamIs ==
  ASSUME NEW x, Base(x), x.voice, x.streamAudio \/ Len(x.speech) < SpeechCap,
         NEW y, y = Stream(x)
  PROVE  /\ Keeps(x, y) /\ SameMic(x, y)
         /\ Same(x, y, {"nextId", "speech", "core", "streamId", "streamAudio", "text"})
<1>1. CASE x.streamAudio
  <2>1. y = x
    BY <1>1 DEF Stream
  <2> QED
    BY <2>1, KeepsSelf DEF SameMic
<1>2. CASE ~x.streamAudio
  <2> DEFINE s == Speak(x, "agent")
             c == [[s.core EXCEPT !.stream = x.nextId + 1] EXCEPT !.input = "open"]
  <2>1. Keeps(x, s) /\ Same(x, s, {"nextId", "speech", "core"}) /\ SameMic(x, s)
    BY <1>2, SpeakIs
  <2>2. y = [s EXCEPT !.streamId = x.nextId + 1, !.streamAudio = TRUE, !.text = FALSE,
                      !.core.stream = x.nextId + 1, !.core.input = "open"]
    BY <1>2 DEF Stream
  <2> HIDE DEF s
  <2>3. Base(s) /\ DOMAIN s = Fields /\ CoreOK(s) /\ CountersOK(s) /\ s.voice
    BY <2>1, SomeFields DEF Keeps, SameMic
  <2>4. /\ DOMAIN y = Fields /\ Same(s, y, {"streamId", "streamAudio", "text", "core"})
        /\ y.core = c
    BY <2>2, <2>3, FieldNames DEF Same
  <2>5. /\ DOMAIN c = CoreFields /\ c.active = s.core.active /\ c.waiting = s.core.waiting
        /\ c.mode = s.core.mode /\ c.paused = s.core.paused /\ c.failed = s.core.failed
    BY <2>3, CoreNames DEF CoreOK
  <2> HIDE DEF c
  <2>6. /\ Same(s, y, Minor) /\ SameCounts(s, y) /\ y.speech = s.speech
        /\ y.voiceGen = s.voiceGen /\ y.followAllowed = s.followAllowed
        /\ y.voice = s.voice /\ y.voiceReady = s.voiceReady /\ y.overflow = s.overflow
        /\ y.paused = s.paused /\ y.gated = s.gated /\ y.ptt = s.ptt
    BY <2>4, FieldNames DEF Same, Minor, SameCounts
  <2>7. CountersOK(y) /\ CoreOK(y) /\ SameSpeech(s, y)
    BY <2>3, <2>4, <2>5, <2>6, SameCountsOK DEF CoreOK, SameSpeech
  <2>8. Keeps(s, y)
    BY <2>3, <2>4, <2>6, <2>7, MinorKeeps
  <2>9. SameMic(x, y)
    BY <2>1, <2>4, <2>5, <2>6 DEF SameMic
  <2>10. Same(x, y, {"nextId", "speech", "core", "streamId", "streamAudio", "text"})
    BY <2>1, <2>4 DEF Same
  <2> QED
    BY <2>1, <2>8, <2>9, <2>10, KeepsTwice
<1> QED
  BY <1>1, <1>2

EndsOutput == {"text", "core", "queue", "overflow", "followAllowed", "unheard", "nextId",
               "speech"}

\* The text or the follow-up flag is set, before or after another step.
LEMMA TextKeeps ==
  ASSUME NEW x, Base(x), NEW y, NEW b,
         y = [x EXCEPT !.text = b] \/ y = [x EXCEPT !.followAllowed = FALSE]
  PROVE  /\ Keeps(x, y) /\ Same(x, y, {"text", "followAllowed"}) /\ SameMic(x, y)
         /\ y.overflow = x.overflow
<1>0. DOMAIN x = Fields /\ CountersOK(x) /\ CoreOK(x)
  BY SomeFields
<1>1. /\ DOMAIN y = Fields /\ Same(x, y, {"text", "followAllowed"})
      /\ (y.followAllowed => x.followAllowed)
  BY <1>0, FieldNames DEF Same
<1>2. /\ Same(x, y, Minor) /\ SameCounts(x, y) /\ y.core = x.core /\ y.speech = x.speech
      /\ y.voiceGen = x.voiceGen /\ y.streamAudio = x.streamAudio /\ SameMic(x, y)
  BY <1>1, FieldNames DEF Same, Minor, SameCounts, SameMic
<1>3. CountersOK(y) /\ CoreOK(y) /\ SameSpeech(x, y)
  BY <1>0, <1>2, SameCountsOK DEF CoreOK, SameSpeech
<1> QED
  BY <1>1, <1>2, <1>3, MinorKeeps

\* What is left of an answer is spoken, or given up.
LEMMA EndOutputIs ==
  ASSUME NEW x, Base(x), NEW cancelled, NEW fails, NEW y, y = EndOutput(x, cancelled, fails)
  PROVE  /\ Keeps(x, y) /\ Same(x, y, EndsOutput) /\ SameMic(x, y)
         /\ (cancelled => y.speech = x.speech)
<1>0. DOMAIN x = Fields /\ CountersOK(x) /\ CoreOK(x) /\ VoiceInv(x)
  BY SomeFields
<1>1. ASSUME NEW z, Keeps(x, z), Same(x, z, {"text", "followAllowed"}), SameMic(x, z),
             x.voice, NEW v, v = VoiceCancel(z)
      PROVE  /\ Keeps(x, v) /\ Same(x, v, EndsOutput) /\ SameMic(x, v)
             /\ v.speech = x.speech
  <2>1. Base(z) /\ z.voice
    BY <1>1 DEF Keeps, SameMic
  <2>2. /\ Keeps(z, v) /\ Same(z, v, {"core", "queue", "overflow"})
        /\ v.core.paused = z.core.paused /\ v.core.failed = z.core.failed
    BY <1>1, <2>1, VoiceCancelIs
  <2>3. Keeps(x, v)
    BY <1>1, <2>2, KeepsTwice
  <2>4. Same(x, v, EndsOutput) /\ v.speech = x.speech
    BY <1>1, <2>2, FieldNames DEF Same, EndsOutput
  <2>5. /\ v.voice = z.voice /\ v.voiceReady = z.voiceReady
        /\ v.paused = z.paused /\ v.gated = z.gated /\ v.ptt = z.ptt
    BY <2>2, FieldNames DEF Same
  <2>6. SameMic(x, v)
    BY <1>1, <2>2, <2>3, <2>5 DEF SameMic, Keeps
  <2> QED
    BY <2>3, <2>4, <2>6
<1>2. CASE cancelled
  <2> DEFINE z == [x EXCEPT !.text = FALSE]
  <2>1. Keeps(x, z) /\ Same(x, z, {"text", "followAllowed"}) /\ SameMic(x, z)
    BY TextKeeps
  <2>2. (y = VoiceCancel(z) /\ x.voice) \/ y = z
    BY <1>2 DEF EndOutput
  <2> HIDE DEF z
  <2>3. Same(x, z, EndsOutput) /\ z.speech = x.speech
    BY <2>1, FieldNames DEF Same, EndsOutput
  <2> QED
    BY <1>1, <2>1, <2>2, <2>3
<1>3. CASE ~cancelled /\ x.streamAudio /\ TakesInput(x)
  <2> DEFINE c == [x.core EXCEPT !.input = "finished"]
  <2>1. DOMAIN y = Fields /\ Same(x, y, {"core"}) /\ y.core = c
    BY <1>0, <1>3, FieldNames DEF EndOutput, Same
  <2>2. /\ DOMAIN c = CoreFields /\ c.active = x.core.active /\ c.waiting = x.core.waiting
        /\ c.mode = x.core.mode /\ c.paused = x.core.paused /\ c.failed = x.core.failed
    BY <1>0, CoreNames DEF CoreOK
  <2> HIDE DEF c
  <2>3. /\ Same(x, y, Minor) /\ SameCounts(x, y) /\ y.speech = x.speech
        /\ y.voiceGen = x.voiceGen /\ y.followAllowed = x.followAllowed
        /\ y.streamAudio = x.streamAudio
        /\ y.voice = x.voice /\ y.voiceReady = x.voiceReady /\ y.overflow = x.overflow
        /\ y.paused = x.paused /\ y.gated = x.gated /\ y.ptt = x.ptt /\ Same(x, y, EndsOutput)
    BY <2>1, FieldNames DEF Same, Minor, SameCounts, EndsOutput
  <2>4. CountersOK(y) /\ CoreOK(y) /\ SameSpeech(x, y)
    BY <1>0, <2>1, <2>2, <2>3, SameCountsOK DEF CoreOK, SameSpeech
  <2>5. ~x.voice => FALSE
    BY <1>0, <1>3 DEF VoiceInv
  <2>6. Keeps(x, y)
    BY <2>1, <2>3, <2>4, <2>5, MinorKeeps
  <2>7. SameMic(x, y)
    BY <2>1, <2>2, <2>3 DEF SameMic
  <2> QED
    BY <2>3, <2>6, <2>7
<1>4. CASE ~cancelled /\ x.streamAudio /\ ~TakesInput(x)
  <2> DEFINE z == [x EXCEPT !.followAllowed = FALSE]
  <2>1. Keeps(x, z) /\ Same(x, z, {"text", "followAllowed"}) /\ SameMic(x, z)
    BY TextKeeps
  <2>2. y = VoiceCancel(z)
    BY <1>4 DEF EndOutput
  <2> HIDE DEF z
  <2>3. x.voice
    BY <1>0, <1>4 DEF VoiceInv
  <2> QED
    BY <1>1, <2>1, <2>2, <2>3
<1>5. CASE ~cancelled /\ ~x.streamAudio /\ x.text
  <2> DEFINE s == SpeakSentence(x, fails)
  <2>1. /\ Keeps(x, s) /\ Same(x, s, {"nextId", "speech", "core", "followAllowed", "unheard"})
        /\ SameMic(x, s)
    BY SpeakSentenceIs
  <2>2. y = [s EXCEPT !.text = ~CanSpeak(x, fails)]
    BY <1>5 DEF EndOutput
  <2> HIDE DEF s
  <2>3. Keeps(s, y) /\ Same(s, y, {"text", "followAllowed"}) /\ SameMic(s, y)
    BY <2>1, <2>2, TextKeeps DEF Keeps
  <2>4. Keeps(x, y)
    BY <2>1, <2>3, KeepsTwice
  <2>5. Same(x, y, EndsOutput)
    BY <2>1, <2>3 DEF Same, EndsOutput
  <2>6. SameMic(x, y)
    BY <2>1, <2>3 DEF SameMic
  <2> QED
    BY <1>5, <2>4, <2>5, <2>6
<1>6. CASE ~cancelled /\ ~x.streamAudio /\ ~x.text
  <2>1. y = x
    BY <1>6 DEF EndOutput
  <2> QED
    BY <2>1, KeepsSelf DEF SameMic
<1> QED
  BY <1>2, <1>3, <1>4, <1>5, <1>6

\* The event e was taken from the head of the queue of v, and x is left.
Taken(v, x, e) ==
  /\ v.queue # <<>> /\ x = [v EXCEPT !.queue = Tail(@)] /\ e = Head(v.queue)

\* The first event is taken out of the queue.
LEMMA TailIs ==
  ASSUME NEW v, NEW x, NEW e, AppOK(v), Taken(v, x, e)
  PROVE  /\ DOMAIN x = Fields /\ Same(v, x, {"queue"}) /\ QueueOK(x) /\ e \in Events
         /\ 1 \in At(v) /\ v.queue[1] = e
         /\ \A i \in At(x) : i + 1 \in At(v) /\ x.queue[i] = v.queue[i + 1]
         /\ \A i \in At(v) : i = 1 \/ (i - 1 \in At(x) /\ x.queue[i - 1] = v.queue[i])
<1>1. DOMAIN x = Fields /\ Same(v, x, {"queue"}) /\ x.queue = Tail(v.queue)
  BY FieldNames DEF AppOK, Taken, Same
<1>2. /\ v.queue \in Seq(Events) /\ v.queue # <<>> /\ Len(v.queue) \in Nat \ {0}
      /\ Len(v.queue) <= QueueCap /\ e = v.queue[1]
  BY DEF AppOK, QueueOK, Taken
<1>3. /\ x.queue \in Seq(Events) /\ Len(x.queue) = Len(v.queue) - 1
      /\ \A i \in 1..Len(x.queue) : x.queue[i] = v.queue[i + 1]
  BY <1>1, <1>2
<1>4. QueueOK(x)
  BY <1>2, <1>3, ControllerAssumption DEF QueueOK
<1>5. e \in Events
  BY <1>2
<1>6. \A i \in At(x) : i + 1 \in At(v) /\ x.queue[i] = v.queue[i + 1]
  BY <1>2, <1>3 DEF At
<1>7. \A i \in At(v) : i = 1 \/ (i - 1 \in At(x) /\ x.queue[i - 1] = v.queue[i])
  <2> SUFFICES ASSUME NEW i \in At(v), i # 1
               PROVE  i - 1 \in At(x) /\ x.queue[i - 1] = v.queue[i]
    OBVIOUS
  <2>1. i - 1 \in 1..Len(x.queue) /\ (i - 1) + 1 = i
    BY <1>2, <1>3 DEF At
  <2> QED
    BY <1>3, <2>1 DEF At
<1> QED
  BY <1>1, <1>2, <1>4, <1>5, <1>6, <1>7 DEF At

\* What is known of the event a handler gets.
AgentEvent(x, e) ==
  /\ OfAgent(x, e) => x.agent
  /\ Ends(x, e) => x.turn /\ x.ag.st # "active" /\ ~EndComes(x) /\ ~OutputComes(x)
  /\ Outputs(x, e) => x.turn
  /\ ~Over(x, e) => EndInv(x)
VoiceEvent(x, e) ==
  /\ OfVoice(x, e) => x.voice
  /\ Completes(x, e) =>
       /\ ~Carries(x.core, e.id)
       /\ x.receipt # 0 /\ e.id = x.receipt /\ e.flag => x.annHeard
       /\ x.followAllowed /\ x.unheard =>
            \E id \in Nat : /\ Tracks(x, id) /\ ~Carries(x.core, id) /\ ~DoneWell(x, id)
                            /\ id = e.id => ~e.flag
       /\ x.overflow \/ \A id \in Nat :
            Tracks(x, id) => Carries(x.core, id) \/ Done(x, id) \/ id = e.id
  /\ ~Completes(x, e) => TrackInv(x)
PttEvent(x, e) ==
  /\ OfVoice(x, e) /\ e.type = "TRANSCRIPT" /\ ~x.turn /\ x.speech = <<>> =>
       x.overflow \/ ~x.ptt
  /\ ~(OfVoice(x, e) /\ e.type = "IDLE") => PttTried(x)
  /\ OfVoice(x, e) /\ e.type = "READY" /\ x.ptt /\ ~x.turn /\ ~x.overflow =>
       x.speech # <<>> \/ \E i \in At(x) : IdleFirst(x, i)
  /\ ~(OfVoice(x, e) /\ e.type = "READY") => StartsIdle(x)

LEMMA TakenIs ==
  ASSUME NEW v, NEW x, NEW e, AppInv(v), Taken(v, x, e)
  PROVE  /\ Base(x) /\ AnswerInv(x) /\ MicInv(x) /\ PttFits(x)
         /\ Same(v, x, {"queue"}) /\ x.overflow = v.overflow /\ e \in Events
         /\ AgentEvent(x, e) /\ VoiceEvent(x, e) /\ PttEvent(x, e)
<1>0. /\ Base(v) /\ AppOK(v) /\ AnswerInv(v) /\ EndInv(v) /\ TrackInv(v) /\ MicInv(v) /\ PttFits(v)
      /\ PttTried(v) /\ StartsIdle(v)
      /\ SpeechOK(v) /\ CountersOK(v) /\ AgOK(v) /\ CoreOK(v) /\ AnnOK(v)
      /\ TurnInv(v) /\ VoiceInv(v) /\ SpeechInv(v) /\ AnnInv(v) /\ GateInv(v)
  BY SomeFields DEF AppInv, Base
<1>1. /\ DOMAIN x = Fields /\ Same(v, x, {"queue"}) /\ QueueOK(x) /\ e \in Events
      /\ 1 \in At(v) /\ v.queue[1] = e
      /\ \A i \in At(x) : i + 1 \in At(v) /\ x.queue[i] = v.queue[i + 1]
      /\ \A i \in At(v) : i = 1 \/ (i - 1 \in At(x) /\ x.queue[i - 1] = v.queue[i])
  BY <1>0, TailIs
<1>2. /\ x.agent = v.agent /\ x.agentGen = v.agentGen /\ x.turn = v.turn /\ x.refused = v.refused
      /\ x.voice = v.voice /\ x.voiceReady = v.voiceReady /\ x.voiceGen = v.voiceGen
      /\ x.ag = v.ag /\ x.overflow = v.overflow /\ x.core = v.core /\ x.speech = v.speech
      /\ x.nextId = v.nextId
      /\ x.ann = v.ann /\ x.receipt = v.receipt /\ x.annHeard = v.annHeard
      /\ x.complete = v.complete /\ x.gated = v.gated /\ x.paused = v.paused /\ x.ptt = v.ptt
      /\ x.quiet = v.quiet /\ x.followAllowed = v.followAllowed /\ x.unheard = v.unheard
      /\ x.suppressed = v.suppressed /\ x.streamAudio = v.streamAudio /\ SameCounts(v, x)
  BY <1>1, FieldNames DEF Same, SameCounts
<1>3. At(x) \subseteq Nat \ {0} /\ At(v) \subseteq Nat \ {0}
  BY DEF At
<1>4. /\ \A k : Over(x, k) = Over(v, k) /\ Ends(x, k) = Ends(v, k) /\ Outputs(x, k) = Outputs(v, k)
                /\ OfAgent(x, k) = OfAgent(v, k) /\ OfVoice(x, k) = OfVoice(v, k)
                /\ Completes(x, k) = Completes(v, k)
  BY <1>2 DEF Over, Ends, Outputs, Completes, OfAgent, OfVoice
<1>5. /\ OverComes(x) => OverComes(v)
      /\ EndComes(x) => EndComes(v)
      /\ OutputComes(x) => OutputComes(v)
  BY <1>1, <1>4 DEF OverComes, EndComes, OutputComes
<1>6. /\ OverComes(v) => OverComes(x) \/ Over(x, e)
      /\ Ends(x, e) => EndComes(v) /\ ~EndComes(x) /\ ~OutputComes(x)
      /\ Outputs(x, e) => OutputComes(v)
  <2>1. OverComes(v) => OverComes(x) \/ Over(x, e)
    BY <1>1, <1>4 DEF OverComes
  <2>2. (Ends(x, e) => EndComes(v)) /\ (Outputs(x, e) => OutputComes(v))
    BY <1>1, <1>4 DEF EndComes, OutputComes
  <2>3. ASSUME Ends(x, e), NEW i \in At(x) PROVE ~Ends(x, x.queue[i]) /\ ~Outputs(x, x.queue[i])
    <3>1. i + 1 \in At(v) /\ x.queue[i] = v.queue[i + 1] /\ 1 < i + 1
      BY <1>1, <1>3
    <3>2. \A j, k \in At(v) : j < k /\ Ends(v, v.queue[j]) =>
            ~Ends(v, v.queue[k]) /\ ~Outputs(v, v.queue[k])
      BY <1>0 DEF TurnInv, EndIsLast
    <3> QED
      BY <1>1, <1>4, <2>3, <3>1, <3>2
  <2> QED
    BY <2>1, <2>2, <2>3 DEF EndComes, OutputComes
<1>7. TurnInv(x)
  <2>1. AgentGens(x)
    BY <1>0, <1>1, <1>2 DEF TurnInv, AgentGens
  <2>2. EndIsLast(x)
    <3> SUFFICES ASSUME NEW i \in At(x), NEW j \in At(x), i < j, Ends(x, x.queue[i])
                 PROVE  ~Ends(x, x.queue[j]) /\ ~Outputs(x, x.queue[j])
      BY DEF EndIsLast
    <3>1. i + 1 \in At(v) /\ j + 1 \in At(v) /\ i + 1 < j + 1
      BY <1>1, <1>3
    <3> QED
      BY <1>0, <1>1, <1>4, <3>1 DEF TurnInv, EndIsLast
  <2> QED
    BY <1>0, <1>2, <1>5, <2>1, <2>2 DEF TurnInv
<1>8. VoiceInv(x)
  BY <1>0, <1>1, <1>2 DEF VoiceInv, VoiceGens
<1>9. /\ \A id : Tracks(x, id) <=> Tracks(v, id)
      /\ \A id : Done(x, id) => Done(v, id)
      /\ \A id : DoneWell(x, id) => DoneWell(v, id)
      /\ \A id : Done(v, id) => Done(x, id) \/ (Completes(x, e) /\ e.id = id)
      /\ Completes(x, e) => Done(v, e.id)
      /\ Completes(x, e) /\ e.flag => DoneWell(v, e.id)
  <2>1. \A id : Tracks(x, id) <=> Tracks(v, id)
    BY <1>2 DEF Tracks
  <2>2. \A id : (Done(x, id) => Done(v, id)) /\ (DoneWell(x, id) => DoneWell(v, id))
    BY <1>1, <1>4 DEF Done, DoneWell
  <2>3. \A id : Done(v, id) => Done(x, id) \/ (Completes(x, e) /\ e.id = id)
    BY <1>1, <1>4 DEF Done
  <2>4. (Completes(x, e) => Done(v, e.id)) /\ (Completes(x, e) /\ e.flag => DoneWell(v, e.id))
    BY <1>1, <1>4 DEF Done, DoneWell
  <2> QED
    BY <2>1, <2>2, <2>3, <2>4
<1>10. SpeechInv(x)
  BY <1>0, <1>2, <1>9 DEF SpeechInv
<1>11. AnnInv(x)
  BY <1>0, <1>2, <1>9 DEF AnnInv
<1>12. GateInv(x) /\ PttFits(x) /\ MicInv(x)
  BY <1>0, <1>2 DEF GateInv, PttFits, MicInv
<1>13. AnswerInv(x)
  BY <1>0, <1>2, <1>9 DEF AnswerInv
<1>14. Base(x)
  <2>1. CountersOK(x) /\ AgOK(x) /\ CoreOK(x) /\ AnnOK(x) /\ SpeechOK(x)
    BY <1>0, <1>2, SameCountsOK DEF AgOK, CoreOK, AnnOK, SpeechOK
  <2> QED
    BY <1>1, <1>7, <1>8, <1>10, <1>11, <1>12, <2>1 DEF Base, AppOK
<1>15. AgentEvent(x, e)
  <2>1. OfAgent(x, e) => x.agent
    <3>1. e.gen \in Nat /\ v.agentGen \in Nat
      BY <1>0, <1>1, EventTypes DEF CountersOK
    <3> QED
      BY <1>0, <1>1, <1>2, <1>4, <3>1 DEF OfAgent, TurnInv, AgentGens
  <2>2. Ends(x, e) => x.turn /\ x.ag.st # "active"
    BY <1>0, <1>2, <1>6 DEF TurnInv
  <2>3. Outputs(x, e) => x.turn
    BY <1>0, <1>2, <1>6 DEF TurnInv
  <2>4. ~Over(x, e) => EndInv(x)
    BY <1>0, <1>2, <1>6 DEF EndInv
  <2> QED
    BY <1>6, <2>1, <2>2, <2>3, <2>4 DEF AgentEvent
<1>16. VoiceEvent(x, e)
  <2>1. OfVoice(x, e) => x.voice
    <3>1. e.gen \in Nat /\ v.voiceGen \in Nat
      BY <1>0, <1>1, EventTypes DEF CountersOK
    <3> QED
      BY <1>0, <1>1, <1>2, <1>4, <3>1 DEF OfVoice, VoiceInv, VoiceGens
  <2>2. ASSUME Completes(x, e) PROVE ~Carries(x.core, e.id)
    <3>1. e.id \in Nat
      BY <1>1, EventTypes
    <3> QED
      BY <1>0, <1>2, <1>9, <2>2, <3>1 DEF SpeechInv
  <2>3. Completes(x, e) /\ x.receipt # 0 /\ e.id = x.receipt /\ e.flag => x.annHeard
    BY <1>0, <1>2, <1>9 DEF AnnInv
  <2>4. ASSUME Completes(x, e), x.followAllowed, x.unheard
        PROVE  \E id \in Nat : /\ Tracks(x, id) /\ ~Carries(x.core, id) /\ ~DoneWell(x, id)
                               /\ id = e.id => ~e.flag
    <3>1. PICK id \in Nat : Tracks(v, id) /\ ~Carries(v.core, id) /\ ~DoneWell(v, id)
      BY <1>0, <1>2, <2>4 DEF AnswerInv
    <3> QED
      BY <1>2, <1>9, <2>4, <3>1
  <2>5. x.overflow \/ \A id \in Nat :
          Tracks(x, id) => Carries(x.core, id) \/ Done(x, id) \/ (Completes(x, e) /\ id = e.id)
    BY <1>0, <1>2, <1>9 DEF TrackInv
  <2>6. ~Completes(x, e) => TrackInv(x)
    BY <2>5 DEF TrackInv
  <2> QED
    BY <2>1, <2>2, <2>3, <2>4, <2>5, <2>6 DEF VoiceEvent
<1>17. \A i \in At(v) : i # 1 /\ IdleFirst(v, i) => i - 1 \in At(x) /\ IdleFirst(x, i - 1)
  <2> SUFFICES ASSUME NEW i \in At(v), i # 1, IdleFirst(v, i)
               PROVE  i - 1 \in At(x) /\ IdleFirst(x, i - 1)
    OBVIOUS
  <2>1. i - 1 \in At(x) /\ x.queue[i - 1] = v.queue[i]
    BY <1>1
  <2>2. ASSUME NEW j \in 1..(i - 1)
        PROVE  ~(OfVoice(x, x.queue[j]) /\ x.queue[j].type = "TRANSCRIPT")
    <3>1. j \in At(x) /\ j + 1 \in 1..i
      BY <1>3, <2>1 DEF At
    <3>2. x.queue[j] = v.queue[j + 1]
      BY <1>1, <3>1
    <3> QED
      BY <1>4, <3>1, <3>2 DEF IdleFirst
  <2> QED
    BY <1>4, <2>1, <2>2 DEF IdleFirst
<1>18. \A i \in At(v) : IdleFirst(v, i) => ~(OfVoice(x, e) /\ e.type = "TRANSCRIPT")
  <2>1. \A i \in At(v) : 1 \in 1..i
    BY <1>3
  <2> QED
    BY <1>1, <1>4, <2>1 DEF IdleFirst
<1>19. IdleFirst(v, 1) => OfVoice(x, e) /\ e.type = "IDLE"
  BY <1>1, <1>4 DEF IdleFirst
<1>20. PttEvent(x, e)
  <2>1. OfVoice(x, e) /\ e.type = "TRANSCRIPT" /\ ~x.turn /\ x.speech = <<>> => x.overflow \/ ~x.ptt
    BY <1>0, <1>2, <1>16, <1>18 DEF PttTried, StartsIdle, VoiceEvent
  <2>2. ~(OfVoice(x, e) /\ e.type = "IDLE") => PttTried(x)
    BY <1>0, <1>2, <1>17, <1>19 DEF PttTried
  <2>3. ASSUME OfVoice(x, e), e.type = "READY", x.ptt, ~x.turn, ~x.overflow
        PROVE  x.speech # <<>> \/ \E i \in At(x) : IdleFirst(x, i)
    <3>1. e.type # "IDLE" /\ x.voice
      BY <1>16, <2>3 DEF VoiceEvent
    <3>2. v.speech # <<>> \/ \E i \in At(v) : IdleFirst(v, i)
      BY <1>0, <1>2, <2>3, <3>1 DEF PttTried, StartsIdle
    <3> QED
      BY <1>2, <1>17, <1>19, <3>1, <3>2
  <2>4. ASSUME ~(OfVoice(x, e) /\ e.type = "READY"), x.voice, ~x.voiceReady, ~x.overflow
        PROVE  \E i, k \in At(x) : /\ i < k /\ IdleFirst(x, k)
                                   /\ OfVoice(x, x.queue[i]) /\ x.queue[i].type = "READY"
    <3>1. PICK i \in At(v), k \in At(v) :
            /\ i < k /\ IdleFirst(v, k)
            /\ OfVoice(v, v.queue[i]) /\ v.queue[i].type = "READY"
      BY <1>0, <1>2, <2>4 DEF StartsIdle
    <3>2. i # 1 /\ k # 1
      BY <1>1, <1>3, <1>4, <2>4, <3>1
    <3>3. i - 1 \in At(x) /\ x.queue[i - 1] = v.queue[i] /\ k - 1 \in At(x) /\ IdleFirst(x, k - 1)
      BY <1>1, <1>17, <3>1, <3>2
    <3>4. i - 1 < k - 1
      BY <1>3, <3>1
    <3> QED
      BY <1>4, <3>1, <3>3, <3>4
  <2>5. ~(OfVoice(x, e) /\ e.type = "READY") => StartsIdle(x)
    BY <2>4 DEF StartsIdle
  <2> QED
    BY <2>1, <2>2, <2>3, <2>5 DEF PttEvent
<1> QED
  BY <1>1, <1>2, <1>12, <1>13, <1>14, <1>15, <1>16, <1>20

\* No utterance of an answer is handed to the core.
NoNew(x, y) ==
  \A i \in 1..Len(y.speech) : y.speech[i].kind = "agent" =>
    \E j \in 1..Len(x.speech) : x.speech[j] = y.speech[i]
\* What AnswerSound says of a step.
Sound(x, y) ==
  /\ x.quiet => NoNew(x, y)
  /\ y.followListening => x.followListening \/ (~y.unheard /\ ~y.quiet /\ ~y.paused)

\* Speech that stays or is cleared holds no new utterance.
LEMMA NothingNew ==
  ASSUME NEW x, NEW y, y.speech = x.speech \/ y.speech = <<>>
  PROVE  NoNew(x, y)
BY DEF NoNew

\* Between handlers the microphone and a push-to-talk must fit too.
LEMMA KeepsApp ==
  ASSUME NEW x, NEW y, AppInv(x), Keeps(x, y), MicInv(y), PttFits(y)
  PROVE  AppInv(y)
BY DEF AppInv, Keeps

\* Nothing is left of agent and voice: the invariant holds without further ado.
LEMMA CloseBothIs ==
  ASSUME NEW x, Base(x), NEW y, y = CloseAgent(CloseVoice(x))
  PROVE  /\ AppInv(y) /\ (x.overflow => y.overflow) /\ Same(x, y, OfItsVoice \union OfItsAgent)
         /\ ~y.voice /\ ~y.agent /\ ~y.complete /\ y.speech = <<>> /\ ~y.followListening
         /\ y.agentGen = x.agentGen + 1 /\ y.voiceGen = x.voiceGen + 1
<1> DEFINE z == CloseVoice(x)
<1>1. /\ Base(z) /\ (x.overflow => z.overflow) /\ TrackInv(z) /\ ~z.voice /\ z.voiceGen = x.voiceGen + 1
      /\ z.speech = <<>> /\ ~z.followListening /\ Same(x, z, OfItsVoice)
  BY CloseVoiceIs
<1>2. y = CloseAgent(z)
  OBVIOUS
<1> HIDE DEF z
<1>3. /\ Base(y) /\ AnswerInv(y) /\ EndInv(y) /\ TrackInv(y) /\ PttFits(y)
      /\ Same(z, y, OfItsAgent) /\ y.agentGen = z.agentGen + 1 /\ ~y.agent
      /\ ~y.complete
  BY <1>1, <1>2, CloseAgentIs
<1>4. /\ ~y.voice /\ y.speech = <<>> /\ ~y.followListening /\ y.overflow = z.overflow
      /\ y.voiceGen = z.voiceGen /\ z.agentGen = x.agentGen
      /\ Same(x, y, OfItsVoice \union OfItsAgent)
  BY <1>1, <1>3, FieldNames DEF Same, OfItsVoice, OfItsAgent
<1>5. MicInv(y) /\ PttTried(y) /\ StartsIdle(y)
  BY <1>4, AwayIs
<1> QED
  BY <1>1, <1>3, <1>4, <1>5 DEF AppInv

\* Another queue, of which no event is of an agent or a voice to come.
LEMMA RequeueIs ==
  ASSUME NEW x, AppInv(x), ~x.agent, ~x.voice, ~x.complete, NEW y, DOMAIN y = Fields,
         Same(x, y, {"queue", "overflow"}), QueueOK(y),
         \A i \in At(y) : y.queue[i].from = "agent" => y.queue[i].gen < x.agentGen,
         \A i \in At(y) : y.queue[i].from = "voice" => y.queue[i].gen < x.voiceGen
  PROVE  AppInv(y)
<1>0. /\ DOMAIN x = Fields /\ QueueOK(x) /\ SpeechOK(x) /\ CountersOK(x) /\ AgOK(x) /\ CoreOK(x)
      /\ AnnOK(x) /\ TurnInv(x) /\ VoiceInv(x) /\ SpeechInv(x) /\ AnnInv(x) /\ GateInv(x)
      /\ x.voiceGen \in Nat /\ x.agentGen \in Nat /\ AnswerInv(x) /\ PttFits(x)
  BY SomeFields DEF AppInv
<1>2. /\ y.agent = x.agent /\ y.agentGen = x.agentGen /\ y.turn = x.turn /\ y.refused = x.refused
      /\ y.voice = x.voice /\ y.voiceReady = x.voiceReady /\ y.voiceGen = x.voiceGen
      /\ y.ag = x.ag /\ y.core = x.core /\ y.speech = x.speech /\ y.nextId = x.nextId
      /\ y.ann = x.ann /\ y.receipt = x.receipt /\ y.annHeard = x.annHeard
      /\ y.complete = x.complete /\ y.gated = x.gated /\ y.paused = x.paused /\ y.ptt = x.ptt
      /\ y.quiet = x.quiet /\ y.followAllowed = x.followAllowed /\ y.unheard = x.unheard
      /\ y.suppressed = x.suppressed /\ y.streamAudio = x.streamAudio /\ SameCounts(x, y)
  BY FieldNames DEF Same, SameCounts
<1>3. \A i \in At(y) : y.queue[i] \in Events /\ y.queue[i].gen \in Nat
  BY EventTypes DEF QueueOK, At
<1>4. ~y.turn /\ y.speech = <<>> /\ y.core = NoCore
  BY <1>0, <1>2 DEF TurnInv, VoiceInv
<1>5. TurnInv(y) /\ EndInv(y)
  <2>1. \A i \in At(y) : ~OfAgent(y, y.queue[i])
    BY <1>0, <1>2, <1>3 DEF OfAgent
  <2>2. ~EndComes(y) /\ ~OutputComes(y) /\ EndIsLast(y)
    BY <2>1 DEF EndComes, OutputComes, EndIsLast, Ends, Over, Outputs
  <2>3. AgentGens(y)
    BY <1>0, <1>2, <1>3 DEF AgentGens
  <2> QED
    BY <1>0, <1>2, <1>4, <2>2, <2>3 DEF TurnInv, EndInv
<1>6. VoiceInv(y)
  BY <1>0, <1>2, <1>3 DEF VoiceInv, VoiceGens
<1>7. /\ SpeechInv(y) /\ TrackInv(y)
      /\ \A id : ~Done(y, id) /\ ~DoneWell(y, id) /\ ~Tracks(y, id) /\ ~Carries(y.core, id)
  BY <1>0, <1>2, <1>4, EmptyVoice
<1>8. \A id : Tracks(x, id) <=> Tracks(y, id)
  BY <1>2 DEF Tracks
<1>9. AnnInv(y) /\ GateInv(y) /\ AnswerInv(y)
  BY <1>0, <1>2, <1>7, <1>8 DEF AnnInv, GateInv, AnswerInv
<1>10. MicInv(y) /\ PttTried(y) /\ StartsIdle(y)
  BY <1>2, AwayIs
<1>11. PttFits(y)
  BY <1>2, <1>4 DEF PttFits
<1>12. AppOK(y)
  <2>1. CountersOK(y) /\ AgOK(y) /\ CoreOK(y) /\ AnnOK(y) /\ SpeechOK(y)
    BY <1>0, <1>2, SameCountsOK DEF AgOK, CoreOK, AnnOK, SpeechOK
  <2> QED
    BY <2>1 DEF AppOK
<1> QED
  BY <1>5, <1>6, <1>7, <1>9, <1>10, <1>11, <1>12 DEF AppInv, Base

\* An event that is not the end of something leaves the invariant as it was.
LEMMA TakenApp ==
  ASSUME NEW v, NEW x, NEW e, AppInv(v), Taken(v, x, e), ~Over(x, e), ~Completes(x, e),
         ~(OfVoice(x, e) /\ e.type \in {"READY", "IDLE"})
  PROVE  AppInv(x)
BY TakenIs DEF AppInv, AgentEvent, VoiceEvent, PttEvent

\* A step that changes neither turn nor gate, and keeps the invariant.
LEMMA MinorApp ==
  ASSUME NEW x, NEW y, Base(x), DOMAIN y = Fields, Same(x, y, Minor \ {"core", "streamAudio"}),
         CountersOK(y), y.followAllowed => x.followAllowed
  PROVE  /\ Keeps(x, y) /\ SameMic(x, y) /\ (MicInv(x) => MicInv(y))
         /\ (PttFits(x) => PttFits(y)) /\ y.speech = x.speech /\ y.core = x.core
<1>0. DOMAIN x = Fields /\ CoreOK(x)
  BY SomeFields
<1>1. /\ Same(x, y, Minor) /\ y.core = x.core /\ y.speech = x.speech /\ y.voiceGen = x.voiceGen
      /\ y.streamAudio = x.streamAudio /\ y.ptt = x.ptt /\ y.complete = x.complete
      /\ y.turn = x.turn /\ y.suppressed = x.suppressed /\ y.overflow = x.overflow
      /\ y.voice = x.voice /\ y.voiceReady = x.voiceReady /\ y.paused = x.paused
      /\ y.gated = x.gated
  BY FieldNames DEF Same, Minor
<1>2. CoreOK(y) /\ SameSpeech(x, y) /\ SameMic(x, y)
  BY <1>0, <1>1 DEF CoreOK, SameSpeech, SameMic
<1>3. Keeps(x, y)
  BY <1>1, <1>2, MinorKeeps
<1> QED
  BY <1>1, <1>2, <1>3, MicKept DEF PttFits

\* The microphone's flags are set: muted or not, a push-to-talk asked for or not.
LEMMA MutedIs ==
  ASSUME NEW x, AppInv(x), NEW y, DOMAIN y = Fields, Same(x, y, {"paused", "ptt"}),
         ~(y.paused /\ y.ptt)
  PROVE  /\ Base(y) /\ AnswerInv(y) /\ EndInv(y) /\ TrackInv(y) /\ StartsIdle(y)
         /\ y.overflow = x.overflow
         /\ (~y.ptt => PttTried(y) /\ PttFits(y)) /\ (y.ptt => MicInv(y))
<1>0. /\ DOMAIN x = Fields /\ CountersOK(x) /\ CoreOK(x) /\ GateInv(x) /\ AnnInv(x) /\ AnswerInv(x)
      /\ MicInv(x) /\ Base(x)
  BY SomeFields DEF AppInv
<1>2. /\ Same(x, y, Flags) /\ SameCounts(x, y) /\ y.core = x.core /\ y.speech = x.speech
      /\ y.voiceGen = x.voiceGen /\ y.streamAudio = x.streamAudio /\ y.complete = x.complete
      /\ y.turn = x.turn /\ y.suppressed = x.suppressed /\ y.overflow = x.overflow
      /\ y.voice = x.voice /\ y.voiceReady = x.voiceReady /\ y.gated = x.gated
      /\ y.followAllowed = x.followAllowed /\ y.quiet = x.quiet /\ y.unheard = x.unheard
  BY FieldNames DEF Same, Flags, SameCounts
<1>3. CoreOK(y) /\ CountersOK(y) /\ SameSpeech(x, y) /\ GateInv(y)
  BY <1>0, <1>2, SameCountsOK DEF CoreOK, SameSpeech, GateInv
<1>4. x.receipt = 0 \/ (~y.turn /\ ~y.complete)
  BY <1>0, <1>2 DEF AnnInv
<1>5. /\ Base(y) /\ y.overflow = x.overflow
      /\ (EndInv(x) => EndInv(y)) /\ (TrackInv(x) => TrackInv(y))
      /\ (StartsIdle(x) => StartsIdle(y))
      /\ AnswerInv(x) /\ (y.followAllowed => x.followAllowed) /\ y.unheard = x.unheard
            /\ (y.quiet => ~y.followAllowed /\ (y.turn => y.suppressed)) => AnswerInv(y)
  <2>1. y.streamAudio => x.streamAudio \/ x.voice
    BY <1>2
  <2>2. ~x.voice => y.core = x.core
    BY <1>2
  <2>3. Base(x) /\ DOMAIN y = Fields /\ Same(x, y, Flags) /\ y.turn = x.turn
    BY <1>0, <1>2
  <2> QED
    BY <1>3, <1>4, <2>1, <2>2, <2>3, FlagsKeep
<1>6. AnswerInv(y)
  BY <1>0, <1>2, <1>5 DEF AnswerInv
<1>7. ~y.ptt => PttTried(y) /\ PttFits(y)
  BY DEF PttTried, PttFits
<1>8. y.ptt => MicInv(y)
  BY <1>0, <1>2 DEF MicInv
<1> QED
  BY <1>5, <1>6, <1>7, <1>8 DEF AppInv

\* dio_app_handle_ui: mute and unmute, push-to-talk, cancel.
LEMMA PauseHandled ==
  ASSUME NEW x, AppInv(x), NEW e \in Events, NEW y,
         y = SetVoicePaused([x EXCEPT !.paused = e.flag, !.ptt = FALSE])
  PROVE  AppInv(y) /\ Sound(x, y)
<1> DEFINE z == [x EXCEPT !.paused = e.flag, !.ptt = FALSE]
<1>1. /\ Base(z) /\ AnswerInv(z) /\ EndInv(z) /\ TrackInv(z) /\ StartsIdle(z)
      /\ Same(x, z, {"paused", "ptt"}) /\ PttTried(z) /\ PttFits(z)
  <2>1. DOMAIN z = Fields /\ Same(x, z, {"paused", "ptt"}) /\ ~z.ptt
    BY SomeFields, FieldNames DEF Same, AppInv
  <2> HIDE DEF z
  <2> QED
    BY <2>1, MutedIs
<1>2. y = SetVoicePaused(z)
  OBVIOUS
<1> HIDE DEF z
<1>3. Keeps(z, y) /\ Same(z, y, {"core"}) /\ MicInv(y)
  BY <1>1, <1>2, SetVoicePausedIs
<1>4. /\ y.ptt = z.ptt /\ y.complete = z.complete /\ y.turn = z.turn
      /\ y.suppressed = z.suppressed /\ y.overflow = z.overflow
      /\ y.speech = x.speech /\ y.followListening = x.followListening
  BY <1>1, <1>3, FieldNames DEF Same
<1>5. PttFits(y)
  BY <1>1, <1>4 DEF PttFits
<1> QED
  BY <1>1, <1>3, <1>4, <1>5, NothingNew DEF AppInv, Keeps, Sound

LEMMA PushToTalkHandled ==
  ASSUME NEW x, AppInv(x), NEW fails, NEW y,
         y = TryPtt(AppCancel([x EXCEPT !.paused = FALSE, !.ptt = TRUE], fails))
  PROVE  AppInv(y) /\ Sound(x, y)
<1> DEFINE z == [x EXCEPT !.paused = FALSE, !.ptt = TRUE]
           c == AppCancel(z, fails)
<1>1. /\ Base(z) /\ AnswerInv(z) /\ EndInv(z) /\ TrackInv(z) /\ StartsIdle(z)
      /\ Same(x, z, {"paused", "ptt"}) /\ MicInv(z)
  <2>1. DOMAIN z = Fields /\ Same(x, z, {"paused", "ptt"}) /\ ~z.paused /\ z.ptt
    BY SomeFields, FieldNames DEF Same, AppInv
  <2> HIDE DEF z
  <2> QED
    BY <2>1, MutedIs
<1>2. y = TryPtt(c)
  OBVIOUS
<1> HIDE DEF z
<1>3. /\ Keeps(z, c) /\ Same(z, c, Cancels) /\ AnswerInv(c) /\ PttFits(c) /\ MicInv(c)
      /\ ~c.followListening
  BY <1>1, AppCancelIs
<1> HIDE DEF c
<1>4. /\ Keeps(c, y) /\ Same(c, y, {"ptt", "followListening", "listening", "core"})
      /\ MicInv(y) /\ PttFits(y) /\ PttTried(y) /\ (y.followListening => c.followListening)
  BY <1>2, <1>3, TryPttIs DEF Keeps
<1>5. y.speech = x.speech
  BY <1>1, <1>3, <1>4, FieldNames DEF Same, Cancels
<1> QED
  BY <1>1, <1>3, <1>4, <1>5, NothingNew DEF AppInv, Keeps, Sound

LEMMA CancelHandled ==
  ASSUME NEW x, AppInv(x), NEW fails, NEW y, y = AppCancel([x EXCEPT !.ptt = FALSE], fails)
  PROVE  AppInv(y) /\ Sound(x, y)
<1> DEFINE z == [x EXCEPT !.ptt = FALSE]
<1>0. /\ DOMAIN x = Fields /\ CountersOK(x) /\ CoreOK(x) /\ GateInv(x) /\ AnnInv(x) /\ AnswerInv(x)
      /\ Base(x)
  BY SomeFields DEF AppInv
<1>1. DOMAIN z = Fields /\ Same(x, z, {"ptt"}) /\ ~z.ptt
  BY <1>0, FieldNames DEF Same
<1> HIDE DEF z
<1>2. /\ Same(x, z, Flags) /\ SameCounts(x, z) /\ z.core = x.core /\ z.speech = x.speech
      /\ z.voiceGen = x.voiceGen /\ z.streamAudio = x.streamAudio /\ z.complete = x.complete
      /\ z.turn = x.turn /\ z.gated = x.gated
  BY <1>1, FieldNames DEF Same, Flags, SameCounts
<1>3. CoreOK(z) /\ CountersOK(z) /\ SameSpeech(x, z) /\ GateInv(z)
  BY <1>0, <1>1, <1>2, SameCountsOK DEF CoreOK, SameSpeech, GateInv
<1>4. x.receipt = 0 \/ (~z.turn /\ ~z.complete)
  BY <1>0, <1>2 DEF AnnInv
<1>5. /\ Base(z)
      /\ (EndInv(x) => EndInv(z)) /\ (TrackInv(x) => TrackInv(z))
      /\ (StartsIdle(x) => StartsIdle(z))
  BY <1>0, <1>1, <1>2, <1>3, <1>4, FlagsKeep
<1>6. PttTried(z)
  BY <1>1 DEF PttTried
<1>7. y = AppCancel(z, fails)
  BY DEF z
<1>8. /\ Keeps(z, y) /\ Same(z, y, Cancels) /\ AnswerInv(y) /\ PttFits(y) /\ MicInv(y)
      /\ ~y.followListening
  BY <1>1, <1>5, <1>7, AppCancelIs
<1>9. y.speech = x.speech
  BY <1>2, <1>8, FieldNames DEF Same, Cancels
<1> QED
  BY <1>5, <1>6, <1>8, <1>9, NothingNew DEF AppInv, Keeps, Sound

\* Everything is closed, and an agent opened again.
LEMMA SettingsHandled ==
  ASSUME NEW x, AppInv(x), NEW fails, NEW y, y = ChangeSettings(x, fails)
  PROVE  AppInv(y) /\ Sound(x, y)
<1> DEFINE a == AppCancel(x, fails)
           c == CloseAgent(CloseVoice(a))
           z == [c EXCEPT !.agentRestart = FALSE, !.agentTries = 0,
                          !.voiceRestart = FALSE, !.voiceTries = 0]
<1>1. Base(a)
  BY AppCancelIs DEF AppInv, Keeps
<1> HIDE DEF a
<1>2. /\ AppInv(c) /\ ~c.voice /\ c.speech = <<>> /\ ~c.followListening
  BY <1>1, CloseBothIs
<1>3. y = OpenAgent(z, fails)
  BY DEF ChangeSettings, a
<1> HIDE DEF c
<1>4. DOMAIN c = Fields /\ CountersOK(c) /\ Base(c)
  BY <1>2, SomeFields DEF AppInv
<1>5. /\ DOMAIN z = Fields
      /\ Same(c, z, {"agentRestart", "agentTries", "voiceRestart", "voiceTries"})
      /\ ~z.agentRestart /\ z.agentTries = 0 /\ ~z.voiceRestart /\ z.voiceTries = 0
  BY <1>4, FieldNames DEF Same
<1> HIDE DEF z
<1>6. /\ Same(c, z, Minor \ {"core", "streamAudio"}) /\ z.agentGen = c.agentGen
      /\ z.voiceGen = c.voiceGen /\ z.turns = c.turns /\ z.followAllowed = c.followAllowed
      /\ z.voice = c.voice /\ z.followListening = c.followListening /\ z.speech = c.speech
  BY <1>5, FieldNames DEF Same, Minor
<1>7. CountersOK(z)
  <2>1. 0 \in 0..MaxRestarts
    BY ControllerAssumption
  <2> QED
    BY <1>4, <1>5, <1>6, <2>1 DEF CountersOK
<1>8. Keeps(c, z) /\ MicInv(z) /\ PttFits(z)
  BY <1>2, <1>4, <1>5, <1>6, <1>7, MinorApp DEF AppInv
<1>9. AppInv(z) /\ Base(z)
  BY <1>2, <1>8, KeepsApp DEF Keeps
<1>10. /\ Keeps(z, y) /\ Same(z, y, {"agent", "starting", "agentGen", "ag", "agentRestart"})
  BY <1>3, <1>9, OpenAgentIs
<1>11. /\ y.voice = z.voice /\ y.speech = <<>> /\ ~y.followListening
       /\ y.ptt = z.ptt /\ y.complete = z.complete /\ y.turn = z.turn
       /\ y.suppressed = z.suppressed /\ y.overflow = z.overflow
  BY <1>2, <1>6, <1>10, FieldNames DEF Same
<1>12. MicInv(y) /\ PttFits(y)
  BY <1>2, <1>6, <1>8, <1>11, AwayIs DEF PttFits
<1> QED
  BY <1>9, <1>10, <1>11, <1>12, KeepsApp, NothingNew DEF Sound

\* dio_app_handle_agent: each of its events.
LEMMA ReadyHandled ==
  ASSUME NEW x, AppInv(x), NEW e, NEW fails, NEW y, y = OnReady(x, e, fails)
  PROVE  AppInv(y) /\ Sound(x, y)
<1> DEFINE z == [x EXCEPT !.ready = e.flag, !.starting = FALSE]
<1>0. DOMAIN x = Fields /\ CountersOK(x) /\ Base(x) /\ MicInv(x) /\ PttFits(x)
  BY SomeFields DEF AppInv
<1>1. DOMAIN z = Fields /\ Same(x, z, {"ready", "starting"})
  BY <1>0, FieldNames DEF Same
<1>2. y = OpenVoice(z, fails)
  BY DEF OnReady
<1> HIDE DEF z
<1>3. /\ Same(x, z, Minor \ {"core", "streamAudio"}) /\ SameCounts(x, z)
      /\ z.followAllowed = x.followAllowed /\ z.followListening = x.followListening
  BY <1>1, FieldNames DEF Same, Minor, SameCounts
<1>4. CountersOK(z)
  BY <1>0, <1>3, SameCountsOK
<1>5. Keeps(x, z) /\ MicInv(z) /\ PttFits(z) /\ z.speech = x.speech
  BY <1>0, <1>1, <1>3, <1>4, MinorApp
<1>6. AppInv(z)
  BY <1>5, KeepsApp
<1>7. /\ Keeps(z, y) /\ Same(z, y, OfItsVoice \union {"voiceRestart"}) /\ MicInv(y)
      /\ y.speech = z.speech \/ y.speech = <<>>
      /\ (y.followListening => z.followListening)
  BY <1>2, <1>6, OpenVoiceIs DEF AppInv
<1>8. /\ y.ptt = z.ptt /\ y.complete = z.complete /\ y.turn = z.turn
      /\ y.suppressed = z.suppressed
  BY <1>7, FieldNames DEF Same, OfItsVoice
<1>9. PttFits(y)
  BY <1>5, <1>7, <1>8 DEF PttFits, Keeps
<1>10. NoNew(x, y)
  BY <1>5, <1>7, NothingNew
<1> QED
  BY <1>3, <1>6, <1>7, <1>9, <1>10, KeepsApp DEF Sound

LEMMA MinorHandled ==
  ASSUME NEW x, AppInv(x), NEW y, DOMAIN y = Fields,
         Same(x, y, {"turnId", "pcm", "text", "voiceTries", "followListening", "listening"}),
         y.voiceTries = x.voiceTries \/ y.voiceTries = 0,
         y.followListening => x.followListening
  PROVE  AppInv(y) /\ Sound(x, y)
<1>0. CountersOK(x) /\ Base(x) /\ MicInv(x) /\ PttFits(x)
  BY SomeFields DEF AppInv
<1>1. /\ Same(x, y, Minor \ {"core", "streamAudio"}) /\ y.followAllowed = x.followAllowed
      /\ y.agentGen = x.agentGen /\ y.voiceGen = x.voiceGen /\ y.turns = x.turns
      /\ y.agentTries = x.agentTries /\ y.agentRestart = x.agentRestart
      /\ y.voiceRestart = x.voiceRestart
  BY FieldNames DEF Same, Minor
<1>2. CountersOK(y)
  BY <1>0, <1>1, ControllerAssumption DEF CountersOK
<1>3. Keeps(x, y) /\ MicInv(y) /\ PttFits(y) /\ y.speech = x.speech
  BY <1>0, <1>1, <1>2, MinorApp
<1> QED
  BY <1>3, KeepsApp, NothingNew DEF Sound

LEMMA AcceptedHandled ==
  ASSUME NEW x, AppInv(x), NEW e, NEW y, y = OnAccepted(x, e)
  PROVE  AppInv(y) /\ Sound(x, y)
<1>1. DOMAIN x = Fields
  BY SomeFields DEF AppInv
<1>2. DOMAIN y = Fields /\ Same(x, y, {"turnId", "pcm"})
  BY <1>1, FieldNames DEF OnAccepted, Same
<1>3. /\ Same(x, y, {"turnId", "pcm", "text", "voiceTries", "followListening", "listening"})
      /\ y.voiceTries = x.voiceTries /\ y.followListening = x.followListening
  BY <1>2, FieldNames DEF Same
<1> QED
  BY <1>2, <1>3, MinorHandled

\* A step that keeps the microphone and the flags of the turn.
LEMMA PlainApp ==
  ASSUME NEW x, NEW y, AppInv(x), Keeps(x, y), SameMic(x, y), y.complete = x.complete,
         y.turn = x.turn, y.suppressed = x.suppressed, y.followListening = x.followListening,
         y.speech = x.speech \/ ~x.quiet
  PROVE  AppInv(y) /\ Sound(x, y)
<1>1. MicInv(y)
  BY MicKept DEF AppInv
<1>2. PttFits(y)
  BY DEF PttFits, SameMic, AppInv
<1>3. x.quiet => NoNew(x, y)
  BY NothingNew
<1> QED
  BY <1>1, <1>2, <1>3, KeepsApp DEF Sound

LEMMA DeltaHandled ==
  ASSUME NEW x, AppInv(x), NEW e, x.turn, NEW fails, NEW y, y = OnDelta(x, e, fails)
  PROVE  AppInv(y) /\ Sound(x, y)
<1>0. DOMAIN x = Fields /\ Base(x)
  BY SomeFields DEF AppInv
<1>1. CASE y = x
  BY <1>1, NothingNew DEF Sound
<1>2. ASSUME ~x.suppressed PROVE ~x.quiet
  BY <1>2 DEF AppInv, AnswerInv
<1>3. CASE /\ ~x.suppressed
           /\ y = AgentCancel([x EXCEPT !.followAllowed = FALSE], fails)
  <2> DEFINE z == [x EXCEPT !.followAllowed = FALSE]
  <2>1. Keeps(x, z) /\ Same(x, z, {"text", "followAllowed"}) /\ SameMic(x, z)
    BY <1>0, TextKeeps
  <2>2. y = AgentCancel(z, fails)
    BY <1>3
  <2> HIDE DEF z
  <2>3. Keeps(z, y) /\ Same(z, y, {"ag", "queue", "overflow"})
    BY <2>1, <2>2, AgentCancelIs DEF Keeps
  <2>4. Keeps(x, y)
    BY <2>1, <2>3, KeepsTwice
  <2>5. /\ SameMic(x, y) /\ y.complete = x.complete /\ y.turn = x.turn
        /\ y.suppressed = x.suppressed /\ y.followListening = x.followListening
    BY <2>1, <2>3, FieldNames DEF Same, SameMic, Keeps
  <2> QED
    BY <1>2, <1>3, <2>4, <2>5, PlainApp
<1>4. CASE ~x.suppressed /\ y = [x EXCEPT !.text = TRUE]
  <2>1. Keeps(x, y) /\ Same(x, y, {"text", "followAllowed"}) /\ SameMic(x, y)
    BY <1>0, <1>4, TextKeeps
  <2>2. /\ y.complete = x.complete /\ y.turn = x.turn
        /\ y.suppressed = x.suppressed /\ y.followListening = x.followListening
    BY <2>1, FieldNames DEF Same
  <2> QED
    BY <1>2, <1>4, <2>1, <2>2, PlainApp
<1>5. ASSUME ~x.suppressed, NEW b, NEW z, z = [SpeakSentence(x, fails) EXCEPT !.text = b]
      PROVE  /\ Keeps(x, z) /\ SameMic(x, z) /\ z.complete = x.complete /\ z.turn = x.turn
             /\ z.suppressed = x.suppressed /\ z.followListening = x.followListening
  <2> DEFINE s == SpeakSentence(x, fails)
  <2>1. /\ Keeps(x, s) /\ SameMic(x, s)
        /\ Same(x, s, {"nextId", "speech", "core", "followAllowed", "unheard"})
    BY <1>0, SpeakSentenceIs
  <2>2. z = [s EXCEPT !.text = b]
    BY <1>5
  <2> HIDE DEF s
  <2>3. Keeps(s, z) /\ Same(s, z, {"text", "followAllowed"}) /\ SameMic(s, z)
    BY <2>1, <2>2, TextKeeps DEF Keeps
  <2>4. Keeps(x, z)
    BY <2>1, <2>3, KeepsTwice
  <2>5. /\ SameMic(x, z) /\ z.complete = x.complete /\ z.turn = x.turn
        /\ z.suppressed = x.suppressed /\ z.followListening = x.followListening
    BY <2>1, <2>3, FieldNames DEF Same, SameMic
  <2> QED
    BY <2>4, <2>5
<1>6. CASE ~x.suppressed /\ y = [SpeakSentence(x, fails) EXCEPT !.text = FALSE]
  BY <1>2, <1>5, <1>6, PlainApp
<1>7. CASE ~x.suppressed /\ y = AgentCancel([SpeakSentence(x, fails) EXCEPT !.text = TRUE], fails)
  <2> DEFINE z == [SpeakSentence(x, fails) EXCEPT !.text = TRUE]
  <2>1. /\ Keeps(x, z) /\ SameMic(x, z) /\ z.complete = x.complete /\ z.turn = x.turn
        /\ z.suppressed = x.suppressed /\ z.followListening = x.followListening
    BY <1>5, <1>7
  <2>2. y = AgentCancel(z, fails)
    BY <1>7
  <2> HIDE DEF z
  <2>3. Keeps(z, y) /\ Same(z, y, {"ag", "queue", "overflow"})
    BY <2>1, <2>2, AgentCancelIs DEF Keeps
  <2>4. Keeps(x, y)
    BY <2>1, <2>3, KeepsTwice
  <2>5. /\ SameMic(x, y) /\ y.complete = x.complete /\ y.turn = x.turn
        /\ y.suppressed = x.suppressed /\ y.followListening = x.followListening
    BY <2>1, <2>3, FieldNames DEF Same, SameMic, Keeps
  <2> QED
    BY <1>2, <1>7, <2>4, <2>5, PlainApp
<1> QED
  BY <1>1, <1>3, <1>4, <1>6, <1>7 DEF OnDelta

LEMMA PcmHandled ==
  ASSUME NEW x, AppInv(x), NEW e, x.turn, NEW fails, NEW y, y = OnPcm(x, e, fails)
  PROVE  AppInv(y) /\ Sound(x, y)
<1>0. Base(x)
  BY DEF AppInv
<1>1. CASE x.suppressed
  <2>1. y = x
    BY <1>1 DEF OnPcm
  <2> QED
    BY <2>1, NothingNew DEF Sound
<1>2. CASE ~x.suppressed /\ CanStream(x, e, fails)
  <2>1. y = Stream(x) /\ x.voice /\ (x.streamAudio \/ Len(x.speech) < SpeechCap)
    BY <1>2 DEF OnPcm, CanStream
  <2>2. /\ Keeps(x, y) /\ SameMic(x, y)
        /\ Same(x, y, {"nextId", "speech", "core", "streamId", "streamAudio", "text"})
    BY <1>0, <2>1, StreamIs
  <2>3. /\ y.complete = x.complete /\ y.turn = x.turn /\ ~x.quiet
        /\ y.suppressed = x.suppressed /\ y.followListening = x.followListening
    BY <1>2, <2>2, FieldNames DEF Same, AppInv, AnswerInv
  <2> QED
    BY <2>2, <2>3, PlainApp
<1>3. CASE ~x.suppressed /\ ~CanStream(x, e, fails)
  <2>1. y = AppCancel(x, fails)
    BY <1>3 DEF OnPcm
  <2>2. /\ Keeps(x, y) /\ Same(x, y, Cancels) /\ PttFits(y) /\ (MicInv(x) => MicInv(y))
        /\ ~y.followListening
    BY <1>0, <2>1, AppCancelIs
  <2>3. y.speech = x.speech
    BY <2>2, FieldNames DEF Same, Cancels
  <2> QED
    BY <2>2, <2>3, KeepsApp, NothingNew DEF Sound, AppInv
<1> QED
  BY <1>1, <1>2, <1>3

\* The transport's end closes everything.
LEMMA TransportEndHandled ==
  ASSUME NEW x, Base(x), NEW y, y = ScheduleAgent(CloseAgent(CloseVoice(x)))
  PROVE  AppInv(y) /\ Sound(x, y) /\ y.speech = <<>> /\ ~y.followListening
<1> DEFINE c == CloseAgent(CloseVoice(x))
<1>1. AppInv(c) /\ ~c.voice /\ c.speech = <<>> /\ ~c.followListening
  BY CloseBothIs
<1>2. y = ScheduleAgent(c)
  OBVIOUS
<1> HIDE DEF c
<1>3. Keeps(c, y) /\ Same(c, y, {"agentRestart"})
  BY <1>1, <1>2, ScheduleAgentIs DEF AppInv
<1>4. /\ SameMic(c, y) /\ y.complete = c.complete /\ y.turn = c.turn /\ y.speech = <<>>
      /\ y.suppressed = c.suppressed /\ y.followListening = c.followListening
  BY <1>1, <1>3, FieldNames DEF Same, SameMic, Keeps
<1>5. AppInv(y)
  BY <1>1, <1>3, <1>4, PlainApp
<1> QED
  BY <1>1, <1>4, <1>5, NothingNew DEF Sound

\* What a push and a cancel leave as it was.
LEMMA PushSame ==
  ASSUME NEW x, NEW z, DOMAIN x = Fields, DOMAIN z = Fields, NEW events, NEW S,
         Same(x, z, S), "queue" \notin S, "overflow" \notin S
  PROVE  Same(PushAll(x, events), PushAll(z, events), S) /\ DOMAIN PushAll(z, events) = Fields
<1>1. z.queue = x.queue /\ z.overflow = x.overflow
  BY FieldNames DEF Same
<1>2. CASE Len(x.queue \o events) <= QueueCap
  <2>1. /\ PushAll(x, events) = [x EXCEPT !.queue = x.queue \o events]
        /\ PushAll(z, events) = [z EXCEPT !.queue = x.queue \o events]
    BY <1>1, <1>2 DEF PushAll
  <2> QED
    BY <2>1, FieldNames DEF Same
<1>3. CASE ~(Len(x.queue \o events) <= QueueCap)
  <2> DEFINE q == SubSeq(x.queue \o events, 1, QueueCap)
  <2>1. /\ PushAll(x, events) = [x EXCEPT !.queue = q, !.overflow = TRUE]
        /\ PushAll(z, events) = [z EXCEPT !.queue = q, !.overflow = TRUE]
    BY <1>1, <1>3 DEF PushAll
  <2> HIDE DEF q
  <2> QED
    BY <2>1, FieldNames DEF Same
<1> QED
  BY <1>2, <1>3

\* Cancelling the voice does not depend on the gate.
LEMMA VoiceCancelSame ==
  ASSUME NEW x, NEW z, DOMAIN x = Fields, DOMAIN z = Fields, Same(x, z, {"gated"})
  PROVE  Same(VoiceCancel(x), VoiceCancel(z), {"gated"}) /\ DOMAIN VoiceCancel(z) = Fields
<1> DEFINE core(v) == [[[[v.core EXCEPT !.cancel = TRUE] EXCEPT !.waiting = <<>>]
                         EXCEPT !.stream = IF v.core.stream = v.core.active THEN v.core.stream ELSE 0]
                         EXCEPT !.input = "cut"]
           a == [x EXCEPT !.core.cancel = TRUE, !.core.waiting = <<>>,
                          !.core.stream = IF @ = x.core.active THEN @ ELSE 0,
                          !.core.input = "cut"]
           b == [z EXCEPT !.core.cancel = TRUE, !.core.waiting = <<>>,
                          !.core.stream = IF @ = z.core.active THEN @ ELSE 0,
                          !.core.input = "cut"]
<1>1. z.core = x.core /\ z.voiceGen = x.voiceGen
  BY FieldNames DEF Same
<1>2. DOMAIN a = Fields /\ DOMAIN b = Fields /\ Same(x, a, {"core"}) /\ Same(z, b, {"core"})
  BY FieldNames DEF Same
<1>3. b.core = a.core
  BY <1>1, FieldNames
<1>4. /\ VoiceCancel(x) = PushAll(a, Completions(x.voiceGen, x.core.waiting))
      /\ VoiceCancel(z) = PushAll(b, Completions(x.voiceGen, x.core.waiting))
  BY <1>1 DEF VoiceCancel
<1> HIDE DEF a, b
<1>5. Same(a, b, {"gated"})
  BY <1>2, <1>3, FieldNames DEF Same
<1> QED
  BY <1>2, <1>4, <1>5, PushSame

\* What the handler of a turn's end knows.
AtEnd(x) ==
  /\ Base(x) /\ AnswerInv(x) /\ MicInv(x) /\ PttFits(x) /\ TrackInv(x) /\ PttTried(x) /\ StartsIdle(x)
  /\ x.turn /\ x.ag.st # "active" /\ ~EndComes(x) /\ ~OutputComes(x)

\* COMPLETE of a turn that was cancelled, of one that was answered, and ERROR of a turn.
LEMMA CancelledTurnEnds ==
  ASSUME NEW x, AtEnd(x), x.suppressed, NEW e, NEW fails, NEW y, y = OnComplete(x, e, fails)
  PROVE  AppInv(y) /\ Sound(x, y)
<1> DEFINE o == [x EXCEPT !.agentTries = 0, !.suppressed = FALSE, !.turn = FALSE,
                          !.complete = ~x.suppressed,
                          !.followAllowed = @ /\ ~x.suppressed /\ ~e.flag]
           t == [o EXCEPT !.text = FALSE]
           g == [t EXCEPT !.gated = FALSE]
           r == IF x.streamAudio /\ x.voice THEN VoiceCancel(t) ELSE t
           rg == IF x.streamAudio /\ x.voice THEN VoiceCancel(g) ELSE g
           n == [r EXCEPT !.turnId = 0, !.pcm = FALSE]
           z == [n EXCEPT !.gated = FALSE]
<1>0. /\ DOMAIN x = Fields /\ CountersOK(x) /\ CoreOK(x) /\ GateInv(x) /\ AnnInv(x) /\ Base(x)
      /\ AnswerInv(x) /\ TrackInv(x) /\ StartsIdle(x)
  BY SomeFields DEF AtEnd
<1>1. y = TryPtt(SetVoicePaused(z))
  <2>1. o.streamAudio = x.streamAudio /\ o.voice = x.voice
    BY <1>0, FieldNames
  <2> HIDE DEF o
  <2>2. EndOutput(o, TRUE, fails) = r
    BY <2>1 DEF EndOutput
  <2>3. EndOutput(o, x.suppressed \/ e.flag, fails) = EndOutput(o, TRUE, fails)
    BY DEF EndOutput
  <2> QED
    BY <2>2, <2>3 DEF OnComplete, o
<1>2. /\ DOMAIN t = Fields /\ DOMAIN g = Fields /\ Same(t, g, {"gated"}) /\ ~g.gated
      /\ Same(x, g, {"agentTries", "suppressed", "turn", "complete", "followAllowed", "text",
                     "gated"})
      /\ g.agentTries = 0 /\ ~g.turn /\ ~g.complete /\ ~g.followAllowed
  BY <1>0, FieldNames DEF Same
<1> HIDE DEF o, t, g
<1>3. /\ Same(x, g, Flags) /\ g.core = x.core /\ g.speech = x.speech /\ g.unheard = x.unheard
      /\ g.voiceGen = x.voiceGen /\ g.streamAudio = x.streamAudio /\ g.voice = x.voice
      /\ g.paused = x.paused /\ g.ptt = x.ptt /\ g.agentGen = x.agentGen /\ g.turns = x.turns
      /\ g.voiceTries = x.voiceTries /\ g.agentRestart = x.agentRestart
      /\ g.voiceRestart = x.voiceRestart /\ g.followListening = x.followListening
  BY <1>2, FieldNames DEF Same, Flags
<1>4. /\ CountersOK(g) /\ CoreOK(g) /\ SameSpeech(x, g) /\ GateInv(g)
  BY <1>0, <1>2, <1>3, ControllerAssumption DEF CountersOK, CoreOK, SameSpeech, GateInv
<1>5. /\ Base(g) /\ (TrackInv(x) => TrackInv(g)) /\ (StartsIdle(x) => StartsIdle(g))
  <2>1. ~g.turn /\ x.ag.st # "active" /\ ~EndComes(x) /\ ~OutputComes(x)
    BY <1>2 DEF AtEnd
  <2> QED
    BY <1>0, <1>2, <1>3, <1>4, <2>1, FlagsKeep
<1>6. AnswerInv(g) /\ EndInv(g)
  BY <1>2 DEF AnswerInv, EndInv
<1>7. Keeps(g, rg) /\ Same(g, rg, {"core", "queue", "overflow"})
  BY <1>3, <1>5, VoiceCancelIs, KeepsSelf
<1>8. Same(r, rg, {"gated"}) /\ DOMAIN rg = Fields
  BY <1>2, VoiceCancelSame
<1>9. DOMAIN r = Fields
  <2>1. DOMAIN VoiceCancel(t) = Fields
    BY <1>2, VoiceCancelSame DEF Same
  <2> QED
    BY <1>2, <2>1
<1> HIDE DEF r, rg
<1>10. /\ DOMAIN z = Fields /\ Same(rg, z, {"turnId", "pcm", "gated"}) /\ z.gated = FALSE
  BY <1>8, <1>9, FieldNames DEF Same
<1>11. rg.gated = FALSE
  BY <1>2, <1>7, FieldNames DEF Same, g
<1> HIDE DEF z
<1>12. Same(rg, z, {"turnId", "pcm"})
  BY <1>10, <1>11, FieldNames DEF Same
<1>13. /\ Same(rg, z, Minor \ {"core", "streamAudio"}) /\ SameCounts(rg, z)
       /\ z.followAllowed = rg.followAllowed
       /\ z.turn = rg.turn /\ z.complete = rg.complete
       /\ z.speech = rg.speech /\ z.followListening = rg.followListening
  BY <1>12, FieldNames DEF Same, Minor, SameCounts
<1>14. Base(rg) /\ CountersOK(rg)
  BY <1>7, SomeFields DEF Keeps
<1>15. Keeps(rg, z)
  BY <1>10, <1>13, <1>14, SameCountsOK, MinorApp
<1>16. Keeps(g, z) /\ Base(z)
  BY <1>7, <1>15, KeepsTwice DEF Keeps
<1>17. /\ ~z.turn /\ ~z.complete /\ z.speech = x.speech /\ z.followListening = x.followListening
  BY <1>2, <1>3, <1>7, <1>13, FieldNames DEF Same
<1> DEFINE s == SetVoicePaused(z)
<1>18. Keeps(z, s) /\ Same(z, s, {"core"}) /\ MicInv(s)
  BY <1>16, SetVoicePausedIs
<1>19. y = TryPtt(s)
  BY <1>1
<1> HIDE DEF s
<1>20. /\ ~s.turn /\ ~s.complete /\ s.speech = x.speech /\ s.followListening = x.followListening
  BY <1>17, <1>18, FieldNames DEF Same
<1>21. PttFits(s)
  BY <1>20 DEF PttFits
<1>22. /\ Keeps(s, y) /\ Same(s, y, {"ptt", "followListening", "listening", "core"})
       /\ MicInv(y) /\ PttFits(y) /\ PttTried(y)
       /\ (y.followListening => s.followListening)
  BY <1>18, <1>19, <1>21, TryPttIs DEF Keeps
<1>23. y.speech = x.speech
  BY <1>20, <1>22, FieldNames DEF Same
<1>24. AppInv(y)
  BY <1>0, <1>5, <1>6, <1>16, <1>18, <1>22 DEF AppInv, Keeps
<1> QED
  BY <1>20, <1>22, <1>23, <1>24, NothingNew DEF Sound

\* A follow-up opens only for an answer that was heard.
LEMMA FollowUpSound ==
  ASSUME NEW x, Base(x), MicInv(x), AnswerInv(x), NEW y, y = MaybeFollowUp(x)
  PROVE  y.followListening => x.followListening \/ (~y.unheard /\ ~y.quiet /\ ~y.paused)
<1>1. /\ Same(x, y, Follows)
      /\ y.followListening =>
           \/ x.followListening
           \/ x.followAllowed /\ x.speech = <<>> /\ ~x.paused
  BY MaybeFollowUpIs
<1>2. y.unheard = x.unheard /\ y.quiet = x.quiet /\ y.paused = x.paused
  BY <1>1, FieldNames DEF Same, Follows
<1>3. x.followAllowed /\ x.speech = <<>> => ~x.unheard /\ ~x.quiet
  BY DEF AnswerInv, Tracks
<1> QED
  BY <1>1, <1>2, <1>3

LEMMA AnsweredTurnEnds ==
  ASSUME NEW x, AtEnd(x), ~x.suppressed, NEW e, NEW fails, NEW y, y = OnComplete(x, e, fails)
  PROVE  AppInv(y) /\ Sound(x, y)
<1> DEFINE o == [x EXCEPT !.agentTries = 0, !.suppressed = FALSE, !.turn = FALSE,
                          !.complete = ~x.suppressed,
                          !.followAllowed = @ /\ ~x.suppressed /\ ~e.flag]
           r == EndOutput(o, x.suppressed \/ e.flag, fails)
           z == [r EXCEPT !.turnId = 0, !.pcm = FALSE]
<1>0. /\ DOMAIN x = Fields /\ CountersOK(x) /\ CoreOK(x) /\ GateInv(x) /\ AnnInv(x) /\ Base(x)
      /\ AnswerInv(x) /\ TrackInv(x) /\ StartsIdle(x) /\ PttTried(x) /\ PttFits(x) /\ MicInv(x)
      /\ x.turn
  BY SomeFields DEF AtEnd
<1>1. y = MaybeFollowUp(z)
  BY DEF OnComplete
<1>2. /\ DOMAIN o = Fields
      /\ Same(x, o, {"agentTries", "suppressed", "turn", "complete", "followAllowed"})
      /\ o.agentTries = 0 /\ ~o.turn /\ o.complete /\ (o.followAllowed => x.followAllowed)
  BY <1>0, FieldNames DEF Same
<1> HIDE DEF o
<1>3. /\ Same(x, o, Flags) /\ o.core = x.core /\ o.speech = x.speech /\ o.unheard = x.unheard
      /\ o.voiceGen = x.voiceGen /\ o.streamAudio = x.streamAudio /\ o.voice = x.voice
      /\ o.paused = x.paused /\ o.ptt = x.ptt /\ o.agentGen = x.agentGen /\ o.turns = x.turns
      /\ o.voiceTries = x.voiceTries /\ o.agentRestart = x.agentRestart
      /\ o.voiceRestart = x.voiceRestart /\ o.followListening = x.followListening
      /\ o.gated = x.gated /\ o.quiet = x.quiet /\ o.overflow = x.overflow
      /\ o.voiceReady = x.voiceReady
  BY <1>2, FieldNames DEF Same, Flags
<1>4. /\ CountersOK(o) /\ CoreOK(o) /\ SameSpeech(x, o) /\ GateInv(o)
  BY <1>0, <1>2, <1>3, ControllerAssumption DEF CountersOK, CoreOK, SameSpeech, GateInv
<1>5. ~x.quiet /\ (x.overflow \/ ~x.ptt)
  BY <1>0 DEF AnswerInv, PttFits
<1>6. /\ Base(o) /\ TrackInv(o) /\ StartsIdle(o) /\ AnswerInv(o)
  <2>1. ~o.turn /\ x.ag.st # "active" /\ ~EndComes(x) /\ ~OutputComes(x)
    BY <1>2 DEF AtEnd
  <2>2. x.receipt = 0
    BY <1>0 DEF AnnInv
  <2>3. /\ Base(o)
        /\ (TrackInv(x) => TrackInv(o)) /\ (StartsIdle(x) => StartsIdle(o))
        /\ AnswerInv(x) /\ (o.followAllowed => x.followAllowed) /\ o.unheard = x.unheard
            /\ (o.quiet => ~o.followAllowed /\ (o.turn => o.suppressed)) => AnswerInv(o)
    BY <1>0, <1>2, <1>3, <1>4, <2>1, <2>2, FlagsKeep
  <2>4. o.quiet => ~o.followAllowed /\ (o.turn => o.suppressed)
    BY <1>3, <1>5
  <2> QED
    BY <1>0, <1>2, <1>3, <2>3, <2>4
<1>7. EndInv(o) /\ MicInv(o) /\ PttTried(o)
  BY <1>0, <1>2, <1>3, <1>5 DEF EndInv, MicInv, PttTried
<1>8. Keeps(o, r) /\ Same(o, r, EndsOutput) /\ SameMic(o, r)
  BY <1>6, EndOutputIs
<1> HIDE DEF r
<1>9. DOMAIN r = Fields /\ Base(r) /\ CountersOK(r) /\ MicInv(r)
  BY <1>7, <1>8, SomeFields, MicKept DEF Keeps
<1>10. DOMAIN z = Fields /\ Same(r, z, {"turnId", "pcm"})
  BY <1>9, FieldNames DEF Same
<1> HIDE DEF z
<1>11. /\ Same(r, z, Minor \ {"core", "streamAudio"}) /\ SameCounts(r, z)
       /\ z.followAllowed = r.followAllowed /\ z.overflow = r.overflow
       /\ z.turn = r.turn /\ z.ptt = r.ptt /\ z.followListening = r.followListening
  BY <1>10, FieldNames DEF Same, Minor, SameCounts
<1>12. Keeps(r, z) /\ MicInv(z)
  BY <1>9, <1>10, <1>11, SameCountsOK, MinorApp
<1>13. Keeps(o, z) /\ Base(z) /\ AnswerInv(z)
  BY <1>6, <1>8, <1>12, KeepsTwice DEF Keeps
<1>14. z.followListening = x.followListening /\ z.ptt = x.ptt /\ (x.overflow => z.overflow)
  BY <1>3, <1>8, <1>11, FieldNames DEF Same, EndsOutput, Keeps
<1>15. PttFits(z)
  BY <1>5, <1>14 DEF PttFits
<1>16. Keeps(z, y) /\ MicInv(y) /\ PttFits(y)
  BY <1>1, <1>12, <1>13, <1>15, MaybeFollowUpIs
<1>17. y.followListening => z.followListening \/ (~y.unheard /\ ~y.quiet /\ ~y.paused)
  BY <1>1, <1>12, <1>13, FollowUpSound
<1>18. AppInv(y)
  BY <1>6, <1>7, <1>13, <1>16 DEF AppInv, Keeps
<1> QED
  BY <1>5, <1>14, <1>17, <1>18 DEF Sound

LEMMA TurnErrorHandled ==
  ASSUME NEW x, AtEnd(x), NEW e, ~e.flag, NEW y, y = OnError(x, e)
  PROVE  AppInv(y) /\ Sound(x, y)
<1>0. DOMAIN x = Fields /\ Base(x) /\ MicInv(x) /\ TrackInv(x) /\ StartsIdle(x)
  BY SomeFields DEF AtEnd
<1>1. CASE x.suppressed
  <2>1. y = [x EXCEPT !.refused = TRUE]
    BY <1>1 DEF OnError
  <2>2. DOMAIN y = Fields /\ Same(x, y, {"refused"}) /\ y.refused
    BY <1>0, <2>1, FieldNames DEF Same
  <2>3. /\ y.agent = x.agent /\ y.agentGen = x.agentGen /\ y.turn = x.turn
        /\ y.voice = x.voice /\ y.voiceReady = x.voiceReady /\ y.voiceGen = x.voiceGen
        /\ y.ag = x.ag /\ y.core = x.core /\ y.speech = x.speech /\ y.nextId = x.nextId
        /\ y.ann = x.ann /\ y.receipt = x.receipt /\ y.annHeard = x.annHeard
        /\ y.complete = x.complete /\ y.gated = x.gated /\ y.paused = x.paused /\ y.ptt = x.ptt
        /\ y.quiet = x.quiet /\ y.followAllowed = x.followAllowed /\ y.unheard = x.unheard
        /\ y.suppressed = x.suppressed /\ y.streamAudio = x.streamAudio /\ SameCounts(x, y)
        /\ y.queue = x.queue /\ y.overflow = x.overflow /\ y.followListening = x.followListening
    BY <2>2, FieldNames DEF Same, SameCounts
  <2>4. /\ QueueOK(x) /\ SpeechOK(x) /\ CountersOK(x) /\ AgOK(x) /\ CoreOK(x)
        /\ AnnOK(x) /\ TurnInv(x) /\ VoiceInv(x) /\ SpeechInv(x) /\ AnnInv(x) /\ GateInv(x)
    BY <1>0, SomeFields
  <2>5. /\ EndComes(y) <=> EndComes(x)
        /\ OutputComes(y) <=> OutputComes(x)
        /\ EndIsLast(y) <=> EndIsLast(x)
        /\ AgentGens(y) <=> AgentGens(x)
    BY <2>3 DEF EndComes, OutputComes, EndIsLast, AgentGens, Ends, Over, Outputs, OfAgent, At
  <2>6. TurnInv(y) /\ EndInv(y)
    BY <2>2, <2>3, <2>4, <2>5 DEF TurnInv, EndInv, AtEnd
  <2>7. VoiceInv(y)
    BY <2>3, <2>4 DEF VoiceInv, VoiceGens, At
  <2>8. QueueOK(y) /\ Extends(x, y, {})
    BY <2>3, <2>4, NoneExtends DEF QueueOK
  <2>9. SpeechInv(y) /\ TrackInv(y)
    BY <1>0, <2>3, <2>4, <2>8, SpeechKept DEF SameSpeech
  <2>10. AnnInv(y)
    BY <2>3, <2>4, <2>8, AnnKept DEF AnnInv
  <2>11. GateInv(y) /\ MicInv(y) /\ PttFits(y)
    BY <2>3, <2>4 DEF GateInv, MicInv, PttFits, AtEnd
  <2>12. AnswerInv(y)
    <3>1. AnswerInv(x)
      BY DEF AtEnd
    <3> QED
      BY <2>3, <2>4, <2>8, <3>1, AnswerKept DEF AnswerInv
  <2>13. PttTried(y) /\ StartsIdle(y)
    BY <2>3, <2>4, <2>8, TriedKept DEF AtEnd
  <2>14. CountersOK(y) /\ AgOK(y) /\ CoreOK(y) /\ AnnOK(y) /\ SpeechOK(y)
    BY <2>3, <2>4, SameCountsOK DEF AgOK, CoreOK, AnnOK, SpeechOK
  <2> QED
    BY <2>2, <2>3, <2>6, <2>7, <2>8, <2>9, <2>10, <2>11, <2>12, <2>13, <2>14, NothingNew
       DEF AppInv, Base, AppOK, Sound
<1>2. CASE ~x.suppressed
  <2> DEFINE z == EndFailedTurn(x)
  <2>1. y = TryPtt(z)
    BY <1>2 DEF OnError
  <2>2. /\ Base(z) /\ Same(x, z, Ended) /\ AnswerInv(z) /\ EndInv(z) /\ PttFits(z) /\ MicInv(z)
        /\ TrackInv(z) /\ StartsIdle(z) /\ ~z.followListening
    BY <1>0, EndFailedTurnIs DEF AtEnd
  <2> HIDE DEF z
  <2>3. /\ Keeps(z, y) /\ Same(z, y, {"ptt", "followListening", "listening", "core"})
        /\ MicInv(y) /\ PttFits(y) /\ PttTried(y)
        /\ (y.followListening => z.followListening)
    BY <2>1, <2>2, TryPttIs
  <2>4. y.speech = x.speech
    BY <2>2, <2>3, FieldNames DEF Same, Ended
  <2>5. AppInv(y)
    BY <2>2, <2>3 DEF AppInv, Keeps
  <2> QED
    BY <2>2, <2>3, <2>4, <2>5, NothingNew DEF Sound
<1> QED
  BY <1>1, <1>2

--------------------------------------------------------------------------------
(* The handlers of agent and voice core                                     *)

\* All of dio_app_handle_agent.
LEMMA AgentHandled ==
  ASSUME NEW v, NEW x, NEW e, AppInv(v), Taken(v, x, e), e.from = "agent", NEW fails,
         NEW y, y = OnAgent(x, e, fails)
  PROVE  AppInv(y) /\ Sound(x, y)
<1>1. /\ Base(x) /\ AnswerInv(x) /\ MicInv(x) /\ PttFits(x) /\ e \in Events
      /\ AgentEvent(x, e) /\ VoiceEvent(x, e) /\ PttEvent(x, e)
  BY TakenIs
<1>2. ~Completes(x, e) /\ ~OfVoice(x, e)
  BY DEF Completes, OfVoice
<1>3. ASSUME ~Over(x, e) PROVE AppInv(x)
  BY <1>2, <1>3, TakenApp
<1>4. CASE e.gen # x.agentGen
  <2>1. ~Over(x, e) /\ y = x
    BY <1>4 DEF Over, OfAgent, OnAgent
  <2> QED
    BY <1>3, <2>1, NothingNew DEF Sound
<1>5. ASSUME e.gen = x.agentGen PROVE OfAgent(x, e)
  BY <1>5 DEF OfAgent
<1>6. ASSUME e.gen = x.agentGen, e.type \in {"READY", "ACCEPTED", "DELTA", "PCM"}
      PROVE  AppInv(x)
  BY <1>3, <1>6 DEF Over
<1>7. ASSUME e.gen = x.agentGen, e.type \in {"DELTA", "PCM"} PROVE x.turn
  BY <1>1, <1>5, <1>7 DEF Outputs, AgentEvent
<1>8. ASSUME Ends(x, e) PROVE AtEnd(x)
  BY <1>1, <1>2, <1>8 DEF AtEnd, AgentEvent, VoiceEvent, PttEvent
<1>9. CASE e.gen = x.agentGen /\ e.type = "READY"
  <2>1. y = OnReady(x, e, fails)
    BY <1>9 DEF OnAgent
  <2> QED
    BY <1>6, <1>9, <2>1, ReadyHandled
<1>10. CASE e.gen = x.agentGen /\ e.type = "ACCEPTED"
  <2>1. y = OnAccepted(x, e)
    BY <1>10 DEF OnAgent
  <2> QED
    BY <1>6, <1>10, <2>1, AcceptedHandled
<1>11. CASE e.gen = x.agentGen /\ e.type = "DELTA"
  <2>1. y = OnDelta(x, e, fails)
    BY <1>11 DEF OnAgent
  <2> QED
    BY <1>6, <1>7, <1>11, <2>1, DeltaHandled
<1>12. CASE e.gen = x.agentGen /\ e.type = "PCM"
  <2>1. y = OnPcm(x, e, fails)
    BY <1>12 DEF OnAgent
  <2> QED
    BY <1>6, <1>7, <1>12, <2>1, PcmHandled
<1>13. CASE e.gen = x.agentGen /\ e.type = "COMPLETE"
  <2>1. y = OnComplete(x, e, fails)
    BY <1>13 DEF OnAgent
  <2>2. AtEnd(x)
    BY <1>5, <1>8, <1>13 DEF Ends, Over
  <2> QED
    BY <2>1, <2>2, CancelledTurnEnds, AnsweredTurnEnds
<1>14. CASE e.gen = x.agentGen /\ e.type = "ERROR"
  <2>1. y = OnError(x, e)
    BY <1>14 DEF OnAgent
  <2>2. CASE e.flag
    <3>1. y = ScheduleAgent(CloseAgent(CloseVoice(x)))
      BY <2>1, <2>2 DEF OnError
    <3> QED
      BY <1>1, <3>1, TransportEndHandled
  <2>3. CASE ~e.flag
    <3>1. AtEnd(x)
      BY <1>5, <1>8, <1>14, <2>3 DEF Ends, Over
    <3> QED
      BY <2>1, <2>3, <3>1, TurnErrorHandled
  <2> QED
    BY <2>2, <2>3
<1>15. e.type \in {"READY", "ACCEPTED", "DELTA", "PCM", "COMPLETE", "ERROR"}
  BY <1>1, EventTypes DEF AgentTypes
<1> QED
  BY <1>4, <1>9, <1>10, <1>11, <1>12, <1>13, <1>14, <1>15

\* The core says that it is ready: from now on it is paused to match.
LEMMA VoiceReadyHandled ==
  ASSUME NEW x, Base(x), AnswerInv(x), EndInv(x), TrackInv(x), PttFits(x), x.voice,
         x.ptt /\ ~x.turn /\ ~x.overflow =>
           x.speech # <<>> \/ \E i \in At(x) : IdleFirst(x, i),
         NEW y, y = SetVoicePaused([x EXCEPT !.voiceReady = TRUE])
  PROVE  AppInv(y) /\ Sound(x, y)
<1> DEFINE z == [x EXCEPT !.voiceReady = TRUE]
<1>0. /\ DOMAIN x = Fields /\ QueueOK(x) /\ SpeechOK(x) /\ CountersOK(x) /\ AgOK(x) /\ CoreOK(x)
      /\ AnnOK(x) /\ TurnInv(x) /\ VoiceInv(x) /\ SpeechInv(x) /\ AnnInv(x) /\ GateInv(x)
  BY SomeFields
<1>1. DOMAIN z = Fields /\ Same(x, z, {"voiceReady"}) /\ z.voiceReady
  BY <1>0, FieldNames DEF Same
<1>2. y = SetVoicePaused(z)
  OBVIOUS
<1> HIDE DEF z
<1>3. /\ z.agent = x.agent /\ z.agentGen = x.agentGen /\ z.turn = x.turn /\ z.refused = x.refused
      /\ z.voice = x.voice /\ z.voiceGen = x.voiceGen
      /\ z.ag = x.ag /\ z.core = x.core /\ z.speech = x.speech /\ z.nextId = x.nextId
      /\ z.ann = x.ann /\ z.receipt = x.receipt /\ z.annHeard = x.annHeard
      /\ z.complete = x.complete /\ z.gated = x.gated /\ z.paused = x.paused /\ z.ptt = x.ptt
      /\ z.quiet = x.quiet /\ z.followAllowed = x.followAllowed /\ z.unheard = x.unheard
      /\ z.suppressed = x.suppressed /\ z.streamAudio = x.streamAudio /\ SameCounts(x, z)
      /\ z.queue = x.queue /\ z.overflow = x.overflow /\ z.followListening = x.followListening
  BY <1>1, FieldNames DEF Same, SameCounts
<1>4. /\ EndComes(z) <=> EndComes(x)
      /\ OutputComes(z) <=> OutputComes(x)
      /\ OverComes(z) <=> OverComes(x)
      /\ EndIsLast(z) <=> EndIsLast(x)
      /\ AgentGens(z) <=> AgentGens(x)
  BY <1>3 DEF EndComes, OutputComes, OverComes, EndIsLast, AgentGens, Ends, Over, Outputs, OfAgent, At
<1>5. TurnInv(z) /\ EndInv(z)
  BY <1>0, <1>3, <1>4 DEF TurnInv, EndInv
<1>6. VoiceInv(z)
  BY <1>0, <1>3 DEF VoiceInv, VoiceGens, At
<1>7. QueueOK(z) /\ Extends(x, z, {})
  BY <1>0, <1>3, NoneExtends DEF QueueOK
<1>8. SpeechInv(z) /\ TrackInv(z)
  BY <1>0, <1>3, <1>7, SpeechKept DEF SameSpeech
<1>9. AnnInv(z)
  BY <1>0, <1>3, <1>7, AnnKept DEF AnnInv
<1>10. GateInv(z) /\ PttFits(z)
  BY <1>0, <1>3 DEF GateInv, PttFits
<1>11. AnswerInv(z)
  BY <1>0, <1>3, <1>7, AnswerKept DEF AnswerInv
<1>12. PttTried(z) /\ StartsIdle(z)
  <2>1. \A i \in At(x) : i \in At(z) /\ (IdleFirst(x, i) => IdleFirst(z, i))
    BY <1>3 DEF IdleFirst, OfVoice, At
  <2> QED
    BY <1>1, <1>3, <2>1 DEF PttTried, StartsIdle
<1>13. CountersOK(z) /\ AgOK(z) /\ CoreOK(z) /\ AnnOK(z) /\ SpeechOK(z)
  BY <1>0, <1>3, SameCountsOK DEF AgOK, CoreOK, AnnOK, SpeechOK
<1>14. Base(z)
  BY <1>1, <1>5, <1>6, <1>7, <1>8, <1>9, <1>10, <1>13 DEF Base, AppOK
<1>15. Keeps(z, y) /\ Same(z, y, {"core"}) /\ MicInv(y)
  BY <1>2, <1>14, SetVoicePausedIs
<1>16. /\ y.ptt = z.ptt /\ y.complete = z.complete /\ y.turn = z.turn
       /\ y.suppressed = z.suppressed /\ y.overflow = z.overflow /\ y.speech = x.speech
       /\ y.followListening = x.followListening
  BY <1>3, <1>15, FieldNames DEF Same
<1>17. PttFits(y)
  BY <1>10, <1>16 DEF PttFits
<1>18. AppInv(y)
  BY <1>5, <1>8, <1>11, <1>12, <1>15, <1>17 DEF AppInv, Keeps
<1> QED
  BY <1>16, <1>18, NothingNew DEF Sound

\* ERROR of the voice core closes it.
LEMMA VoiceErrorHandled ==
  ASSUME NEW x, AppInv(x), NEW fails, NEW y,
         y = ScheduleVoice(CloseVoice(AppCancel([x EXCEPT !.listening = FALSE], fails)))
  PROVE  AppInv(y) /\ Sound(x, y)
<1> DEFINE z == [x EXCEPT !.listening = FALSE]
           a == AppCancel(z, fails)
           c == CloseVoice(a)
<1>0. DOMAIN x = Fields
  BY SomeFields DEF AppInv
<1>1. DOMAIN z = Fields /\ Same(x, z, {"listening"})
  BY <1>0, FieldNames DEF Same
<1>2. y = ScheduleVoice(c)
  OBVIOUS
<1> HIDE DEF z
<1>3. /\ Same(x, z, {"turnId", "pcm", "text", "voiceTries", "followListening", "listening"})
      /\ z.voiceTries = x.voiceTries /\ z.followListening = x.followListening
  BY <1>1, FieldNames DEF Same
<1>4. AppInv(z)
  BY <1>1, <1>3, MinorHandled
<1>5. /\ Keeps(z, a) /\ AnswerInv(a) /\ PttFits(a) /\ ~a.followAllowed
  BY <1>4, AppCancelIs DEF AppInv
<1> HIDE DEF a
<1>6. /\ Base(c) /\ (a.overflow => c.overflow) /\ EndInv(c) /\ TrackInv(c) /\ AnswerInv(c)
      /\ ~c.voice /\ c.speech = <<>> /\ ~c.followListening /\ Same(a, c, OfItsVoice)
  BY <1>4, <1>5, CloseVoiceIs DEF Keeps, AppInv
<1> HIDE DEF c
<1>7. PttFits(c)
  <2>1. /\ c.ptt = a.ptt /\ c.complete = a.complete /\ c.turn = a.turn
        /\ c.suppressed = a.suppressed
    BY <1>6, FieldNames DEF Same, OfItsVoice
  <2> QED
    BY <1>5, <1>6, <2>1 DEF PttFits
<1>8. AppInv(c)
  BY <1>6, <1>7, AwayIs DEF AppInv
<1>9. Keeps(c, y) /\ Same(c, y, {"voiceRestart"})
  BY <1>2, <1>6, ScheduleVoiceIs
<1>10. /\ SameMic(c, y) /\ y.complete = c.complete /\ y.turn = c.turn /\ y.speech = c.speech
       /\ y.suppressed = c.suppressed /\ y.followListening = c.followListening
  BY <1>9, FieldNames DEF Same, SameMic, Keeps
<1>11. AppInv(y)
  BY <1>8, <1>9, <1>10, PlainApp
<1> QED
  BY <1>6, <1>10, <1>11, NothingNew DEF Sound

\* The core is idle: a push-to-talk that waits is tried.
LEMMA VoiceIdleHandled ==
  ASSUME NEW x, Base(x), AnswerInv(x), MicInv(x), PttFits(x), EndInv(x), TrackInv(x), StartsIdle(x),
         NEW y, y = TryPtt([x EXCEPT !.followListening = FALSE, !.listening = FALSE])
  PROVE  AppInv(y) /\ Sound(x, y)
<1> DEFINE z == [x EXCEPT !.followListening = FALSE, !.listening = FALSE]
<1>0. DOMAIN x = Fields /\ CountersOK(x)
  BY SomeFields
<1>1. DOMAIN z = Fields /\ Same(x, z, {"followListening", "listening"}) /\ ~z.followListening
  BY <1>0, FieldNames DEF Same
<1>2. y = TryPtt(z)
  OBVIOUS
<1> HIDE DEF z
<1>3. /\ Same(x, z, Minor \ {"core", "streamAudio"}) /\ SameCounts(x, z)
      /\ z.followAllowed = x.followAllowed
  BY <1>1, FieldNames DEF Same, Minor, SameCounts
<1>4. Keeps(x, z) /\ MicInv(z) /\ PttFits(z) /\ z.speech = x.speech
  BY <1>0, <1>1, <1>3, SameCountsOK, MinorApp
<1>5. /\ Keeps(z, y) /\ Same(z, y, {"ptt", "followListening", "listening", "core"})
      /\ MicInv(y) /\ PttFits(y) /\ PttTried(y) /\ (y.followListening => z.followListening)
  BY <1>2, <1>4, TryPttIs DEF Keeps
<1>6. y.speech = x.speech
  BY <1>4, <1>5, FieldNames DEF Same
<1>7. AppInv(y)
  BY <1>4, <1>5 DEF AppInv, Keeps
<1> QED
  BY <1>1, <1>5, <1>6, <1>7, NothingNew DEF Sound

\* A turn begins: the microphone is gated, and what was said of the last is forgotten.
LEMMA SubmitHandled ==
  ASSUME NEW x, AppInv(x), ~x.turn, ~x.complete, x.speech = <<>>, x.overflow \/ ~x.ptt, x.voice,
         NEW fails, NEW y, y = Submit(x, fails)
  PROVE  AppInv(y) /\ Sound(x, y)
<1>0. /\ DOMAIN x = Fields /\ QueueOK(x) /\ SpeechOK(x) /\ CountersOK(x) /\ AgOK(x) /\ CoreOK(x)
      /\ AnnOK(x) /\ TurnInv(x) /\ VoiceInv(x) /\ SpeechInv(x) /\ AnnInv(x) /\ GateInv(x) /\ Base(x)
  BY SomeFields DEF AppInv
<1>1. CASE y = x
  BY <1>1, NothingNew DEF Sound
<1>2. CASE x.ag.st = "ready" /\ y = TransportFails([x EXCEPT !.ag.turn = x.turns + 1])
  <2> DEFINE q == [x EXCEPT !.ag.turn = x.turns + 1]
  <2>1. /\ DOMAIN q = Fields /\ Same(x, q, {"ag"}) /\ q.ag.st = x.ag.st
        /\ q.ag.turn = x.turns + 1 /\ DOMAIN q.ag = AgFields
    BY <1>0, FieldNames, AgNames DEF Same, AgOK
  <2>2. y = TransportFails(q)
    BY <1>2
  <2> HIDE DEF q
  <2>3. /\ Same(x, q, Idle \ {"queue", "overflow"}) /\ SameCounts(x, q) /\ q.agent = x.agent
        /\ q.core = x.core /\ q.speech = x.speech
    BY <2>1, FieldNames DEF Same, Idle, SameCounts
  <2>4. AgOK(q) /\ CoreOK(q) /\ CountersOK(q) /\ SameSpeech(x, q)
    <3>1. q.ag.turn \in Nat
      BY <1>0, <2>1 DEF CountersOK
    <3> QED
      BY <1>0, <2>1, <2>3, <3>1, SameCountsOK DEF AgOK, CoreOK, SameSpeech, SameCounts
  <2>5. Keeps(x, q)
    BY <1>0, <2>1, <2>3, <2>4, QuietKeeps DEF SameCounts
  <2>6. Keeps(q, y) /\ Same(q, y, {"ag", "queue", "overflow"})
    BY <1>2, <2>1, <2>2, <2>5, TransportFailsIs DEF Keeps
  <2>7. Keeps(x, y)
    BY <2>5, <2>6, KeepsTwice
  <2>8. /\ SameMic(x, y) /\ y.complete = x.complete /\ y.turn = x.turn /\ y.speech = x.speech
        /\ y.suppressed = x.suppressed /\ y.followListening = x.followListening
    BY <2>1, <2>6, <2>7, FieldNames DEF Same, SameMic, Keeps
  <2> QED
    BY <2>7, <2>8, PlainApp
<1> DEFINE active == [NoAgent EXCEPT !.st = "active", !.turn = x.turns + 1]
           z == [x EXCEPT !.turns = @ + 1,
                          !.ag = [NoAgent EXCEPT !.st = "active", !.turn = x.turns + 1],
                          !.turn = TRUE, !.suppressed = FALSE, !.complete = FALSE,
                          !.followAllowed = TRUE, !.followListening = FALSE,
                          !.turnId = 0, !.pcm = FALSE, !.streamId = 0,
                          !.streamAudio = FALSE, !.text = FALSE, !.gated = TRUE,
                          !.quiet = FALSE, !.unheard = FALSE, !.refused = FALSE]
           s == SetVoicePaused(z)
<1>3. ASSUME x.agent, x.ag.st = "ready"
      PROVE  /\ AppInv(s) /\ ~s.followListening /\ s.speech = x.speech /\ s.voice
  <2>1. active.st = "active" /\ active.turn = x.turns + 1 /\ DOMAIN active = AgFields
    BY AgNames DEF AgFields
  <2>2. z.ag = active
    BY <1>0, FieldNames
  <2> HIDE DEF active
  <2>3. /\ DOMAIN z = Fields
        /\ Same(x, z, {"turns", "ag", "turn", "suppressed", "complete", "followAllowed",
                       "followListening", "turnId", "pcm", "streamId", "streamAudio", "text",
                       "gated", "quiet", "unheard", "refused"})
        /\ z.turns = x.turns + 1 /\ z.turn /\ ~z.suppressed /\ ~z.complete /\ ~z.followListening
        /\ ~z.streamAudio /\ z.gated /\ ~z.quiet /\ ~z.unheard /\ ~z.refused
    BY <1>0, FieldNames DEF Same
  <2> HIDE DEF z
  <2>4. /\ z.agent = x.agent /\ z.agentGen = x.agentGen
        /\ z.voice = x.voice /\ z.voiceGen = x.voiceGen /\ z.voiceReady = x.voiceReady
        /\ z.core = x.core /\ z.speech = x.speech /\ z.nextId = x.nextId
        /\ z.ann = x.ann /\ z.receipt = x.receipt /\ z.annHeard = x.annHeard
        /\ z.paused = x.paused /\ z.ptt = x.ptt
        /\ z.agentTries = x.agentTries /\ z.agentRestart = x.agentRestart
        /\ z.voiceRestart = x.voiceRestart /\ z.voiceTries = x.voiceTries
        /\ z.queue = x.queue /\ z.overflow = x.overflow
    BY <2>3, FieldNames DEF Same
  <2>5. /\ EndComes(z) <=> EndComes(x)
        /\ OutputComes(z) <=> OutputComes(x)
        /\ EndIsLast(z) <=> EndIsLast(x)
        /\ AgentGens(z) <=> AgentGens(x)
    BY <2>4 DEF EndComes, OutputComes, EndIsLast, AgentGens, Ends, Over, Outputs, OfAgent, At
  <2>6. TurnInv(z) /\ EndInv(z)
    BY <1>0, <1>3, <2>1, <2>2, <2>3, <2>4, <2>5 DEF TurnInv, EndInv
  <2>7. VoiceInv(z)
    BY <1>0, <2>4 DEF VoiceInv, VoiceGens, At
  <2>8. QueueOK(z) /\ Extends(x, z, {})
    BY <1>0, <2>4, NoneExtends DEF QueueOK
  <2>9. SpeechInv(z) /\ TrackInv(z)
    BY <1>0, <2>4, <2>8, SpeechKept DEF SameSpeech, AppInv
  <2>10. x.receipt = 0
    BY <1>0 DEF AnnInv, Tracks
  <2>11. AnnInv(z)
    BY <1>0, <2>4, <2>8, <2>10, AnnKept
  <2>12. GateInv(z) /\ AnswerInv(z) /\ PttFits(z) /\ PttTried(z)
    BY <1>0, <2>3, <2>4 DEF GateInv, AnswerInv, PttFits, PttTried
  <2>13. StartsIdle(z)
    <3>1. StartsIdle(x)
      BY DEF AppInv
    <3>2. \A i \in At(x) : i \in At(z) /\ (IdleFirst(x, i) => IdleFirst(z, i))
      BY <2>4 DEF IdleFirst, OfVoice, At
    <3> QED
      BY <2>4, <3>1, <3>2 DEF StartsIdle, OfVoice
  <2>14. /\ CountersOK(z) /\ AgOK(z) /\ CoreOK(z) /\ AnnOK(z) /\ SpeechOK(z)
    BY <1>0, <2>1, <2>2, <2>3, <2>4 DEF CountersOK, AgOK, CoreOK, AnnOK, SpeechOK
  <2>15. Base(z)
    BY <2>3, <2>6, <2>7, <2>8, <2>9, <2>11, <2>12, <2>14 DEF Base, AppOK
  <2>16. Keeps(z, s) /\ Same(z, s, {"core"}) /\ MicInv(s)
    BY <2>15, SetVoicePausedIs
  <2> HIDE DEF s
  <2>17. /\ s.ptt = z.ptt /\ s.complete = z.complete /\ s.turn = z.turn /\ s.voice = x.voice
         /\ s.suppressed = z.suppressed /\ s.overflow = z.overflow /\ s.speech = x.speech
         /\ s.followListening = z.followListening
    BY <2>4, <2>16, FieldNames DEF Same
  <2>18. PttFits(s)
    BY <2>12, <2>17 DEF PttFits
  <2>19. AppInv(s)
    BY <2>6, <2>9, <2>12, <2>13, <2>16, <2>18 DEF AppInv, Keeps
  <2> QED
    BY <2>3, <2>17, <2>19
<1>4. CASE x.agent /\ x.ag.st = "ready" /\ y = s
  BY <1>3, <1>4, NothingNew DEF Sound
<1>5. CASE x.agent /\ x.ag.st = "ready" /\ y = FromVoice(s, "ERROR", 0, FALSE)
  <2>0. AppInv(s) /\ ~s.followListening /\ s.speech = x.speech /\ s.voice
    BY <1>3, <1>5
  <2> HIDE DEF s
  <2>1. "ERROR" \in VoiceTypes \ {"SPEECH_COMPLETE"} /\ 0 \in Nat /\ FALSE \in BOOLEAN
    BY DEF VoiceTypes
  <2>2. /\ Keeps(s, y) /\ Same(s, y, {"queue", "overflow"})
        /\ (MicInv(s) => MicInv(y)) /\ (PttFits(s) => PttFits(y))
    BY <1>5, <2>0, <2>1, FromVoiceKeeps DEF AppInv
  <2>3. y.speech = s.speech /\ y.followListening = s.followListening
    BY <2>2, FieldNames DEF Same
  <2>4. AppInv(y)
    BY <2>0, <2>2, KeepsApp DEF AppInv
  <2> QED
    BY <2>0, <2>3, <2>4, NothingNew DEF Sound
<1> HIDE DEF s, z, active
<1> QED
  BY <1>1, <1>2, <1>4, <1>5 DEF Submit, s, z

\* One element goes, the others stay in their order.
LEMMA CutOutIs ==
  ASSUME NEW S, NEW s \in Seq(S), NEW k \in 1..Len(s)
  PROVE  LET t == SubSeq(s, 1, k - 1) \o SubSeq(s, k + 1, Len(s))
         IN /\ t \in Seq(S) /\ Len(t) = Len(s) - 1
            /\ \A i \in 1..Len(t) : IF i < k THEN i \in 1..Len(s) /\ t[i] = s[i]
                                             ELSE i + 1 \in 1..Len(s) /\ t[i] = s[i + 1]
<1> DEFINE t == SubSeq(s, 1, k - 1) \o SubSeq(s, k + 1, Len(s))
           a == SubSeq(s, 1, k - 1)
           b == SubSeq(s, k + 1, Len(s))
<1>1. Len(s) \in Nat /\ k \in Nat
  OBVIOUS
<1>2. a \in Seq(S) /\ Len(a) = k - 1 /\ \A i \in 1..(k - 1) : a[i] = s[i]
  BY <1>1
<1>3. b \in Seq(S) /\ Len(b) = Len(s) - k /\ \A i \in 1..(Len(s) - k) : b[i] = s[k + i]
  BY <1>1
<1>4. t = a \o b
  OBVIOUS
<1> HIDE DEF a, b, t
<1>5. /\ t \in Seq(S) /\ Len(t) = Len(a) + Len(b)
      /\ \A i \in 1 .. Len(a) + Len(b) : t[i] = IF i <= Len(a) THEN a[i] ELSE b[i - Len(a)]
  <2>1. a \in Seq(S) /\ b \in Seq(S)
    BY <1>2, <1>3
  <2>2. /\ a \o b \in Seq(S) /\ Len(a \o b) = Len(a) + Len(b)
        /\ \A i \in 1 .. Len(a) + Len(b) : (a \o b)[i] = IF i <= Len(a) THEN a[i] ELSE b[i - Len(a)]
    BY <2>1, ConcatProperties, Zenon
  <2> QED
    BY <1>4, <2>2, Zenon
<1>6. ASSUME NEW i \in 1..Len(t), i < k PROVE i \in 1..Len(s) /\ t[i] = s[i]
  <2>1. i \in 1..(k - 1) /\ i <= Len(a) /\ i \in 1..Len(s)
    BY <1>1, <1>2, <1>6
  <2>2. t[i] = a[i] /\ a[i] = s[i]
    BY <1>2, <1>5, <2>1
  <2> QED
    BY <2>1, <2>2
<1>7. ASSUME NEW i \in 1..Len(t), ~(i < k) PROVE i + 1 \in 1..Len(s) /\ t[i] = s[i + 1]
  <2>1. /\ i - Len(a) \in 1..(Len(s) - k) /\ k + (i - Len(a)) = i + 1 /\ i + 1 \in 1..Len(s)
        /\ ~(i <= Len(a))
    BY <1>1, <1>2, <1>3, <1>5, <1>7
  <2>2. b[i - Len(a)] = s[k + (i - Len(a))]
    BY <1>3, <2>1
  <2>3. t[i] = b[i - Len(a)]
    BY <1>5, <2>1
  <2> QED
    BY <2>1, <2>2, <2>3
<1>8. Len(t) = Len(s) - 1
  BY <1>1, <1>2, <1>3, <1>5
<1> QED
  BY <1>5, <1>6, <1>7, <1>8 DEF t

\* dio_app_untrack_speech takes one utterance out of the table.
LEMMA UntrackedIs ==
  ASSUME NEW s \in Seq(Utterances), NEW id, NEW k \in 1..Len(s), s[k].id = id,
         \A i, j \in 1..Len(s) : s[i].id = s[j].id => i = j,
         NEW t, t = Untracked(s, id)
  PROVE  /\ t \in Seq(Utterances) /\ Len(t) = Len(s) - 1
         /\ \A i \in 1..Len(t) : IF i < k THEN i \in 1..Len(s) /\ t[i] = s[i]
                                          ELSE i + 1 \in 1..Len(s) /\ t[i] = s[i + 1]
<1>1. (CHOOSE n \in 1..Len(s) : s[n].id = id) = k
  OBVIOUS
<1>2. t = SubSeq(s, 1, k - 1) \o SubSeq(s, k + 1, Len(s))
  BY <1>1 DEF Untracked
<1> QED
  <2> DEFINE u == SubSeq(s, 1, k - 1) \o SubSeq(s, k + 1, Len(s))
  <2>1. /\ u \in Seq(Utterances) /\ Len(u) = Len(s) - 1
        /\ \A i \in 1..Len(u) : IF i < k THEN i \in 1..Len(s) /\ u[i] = s[i]
                                         ELSE i + 1 \in 1..Len(s) /\ u[i] = s[i + 1]
    BY CutOutIs, Zenon
  <2> HIDE DEF u
  <2>2. t = u
    BY <1>2, Zenon DEF u
  <2> QED
    BY <2>1, <2>2, Zenon

LEMMA UntrackedTracks ==
  ASSUME NEW x, NEW z, SpeechOK(x), SpeechInv(x), NEW id, Tracks(x, id),
         z.speech = Untracked(x.speech, id), z.nextId = x.nextId
  PROVE  /\ SpeechOK(z) /\ Len(z.speech) < Len(x.speech)
         /\ \A n : Tracks(z, n) <=> Tracks(x, n) /\ n # id
         /\ \A i \in 1..Len(z.speech) : \E j \in 1..Len(x.speech) : z.speech[i] = x.speech[j]
         /\ \A i, j \in 1..Len(z.speech) : z.speech[i].id = z.speech[j].id => i = j
<1> DEFINE s == x.speech
           t == z.speech
<1>1. PICK k \in 1..Len(s) : s[k].id = id
  BY DEF Tracks
<1>2. s \in Seq(Utterances) /\ Len(s) <= SpeechCap /\ Len(s) \in Nat /\ k \in Nat /\ SpeechCap \in Nat
  BY ControllerAssumption DEF SpeechOK
<1>3. \A i, j \in 1..Len(s) : s[i].id = s[j].id => i = j
  BY DEF SpeechInv
<1>4. t = Untracked(s, id)
  OBVIOUS
<1> HIDE DEF s, t
<1>5. /\ t \in Seq(Utterances) /\ Len(t) = Len(s) - 1
      /\ \A i \in 1..Len(t) : IF i < k THEN i \in 1..Len(s) /\ t[i] = s[i]
                                       ELSE i + 1 \in 1..Len(s) /\ t[i] = s[i + 1]
  <2>1. t = Untracked(s, id) /\ k \in 1..Len(s) /\ s[k].id = id /\ s \in Seq(Utterances)
    BY <1>1, <1>2, <1>4
  <2> HIDE DEF Untracked
  <2> QED
    BY <1>3, <2>1, UntrackedIs
<1>6. SpeechOK(z) /\ Len(t) < Len(s)
  BY <1>2, <1>5 DEF SpeechOK, s, t
<1>7. \A i \in 1..Len(t) : \E j \in 1..Len(s) : t[i] = s[j]
  BY <1>5
<1>8. ASSUME NEW i \in 1..Len(t), NEW j \in 1..Len(t), t[i].id = t[j].id PROVE i = j
  <2>1. CASE i < k /\ j < k
    BY <1>3, <1>5, <1>8, <2>1
  <2>2. CASE i < k /\ ~(j < k)
    <3>1. i = j + 1
      BY <1>3, <1>5, <1>8, <2>2
    <3> QED
      BY <1>2, <2>2, <3>1
  <2>3. CASE ~(i < k) /\ j < k
    <3>1. i + 1 = j
      BY <1>3, <1>5, <1>8, <2>3
    <3> QED
      BY <1>2, <2>3, <3>1
  <2>4. CASE ~(i < k) /\ ~(j < k)
    <3>1. i + 1 = j + 1
      BY <1>3, <1>5, <1>8, <2>4
    <3> QED
      BY <3>1
  <2> QED
    BY <2>1, <2>2, <2>3, <2>4
<1>9. ASSUME NEW i \in 1..Len(t) PROVE t[i].id # id
  <2>1. CASE i < k
    BY <1>1, <1>2, <1>3, <1>5, <2>1
  <2>2. CASE ~(i < k)
    <3>1. i + 1 # k
      BY <1>2, <2>2
    <3> QED
      BY <1>1, <1>3, <1>5, <2>2, <3>1
  <2> QED
    BY <2>1, <2>2
<1>10. ASSUME NEW j \in 1..Len(s), s[j].id # id PROVE \E i \in 1..Len(t) : t[i] = s[j]
  <2>1. CASE j < k
    <3>1. j \in 1..Len(t)
      BY <1>2, <1>5, <2>1
    <3> QED
      BY <1>5, <2>1, <3>1
  <2>2. CASE ~(j < k)
    <3>1. j > k
      BY <1>1, <1>2, <1>10, <2>2
    <3>2. j - 1 \in 1..Len(t) /\ ~(j - 1 < k) /\ (j - 1) + 1 = j
      BY <1>2, <1>5, <3>1
    <3>3. t[j - 1] = s[(j - 1) + 1]
      BY <1>5, <3>2
    <3> QED
      BY <3>2, <3>3
  <2> QED
    BY <2>1, <2>2
<1>11. \A n : Tracks(z, n) <=> Tracks(x, n) /\ n # id
  <2>1. \A n : Tracks(z, n) <=> \E i \in 1..Len(t) : t[i].id = n
    BY DEF Tracks, t
  <2>2. \A n : Tracks(x, n) <=> \E i \in 1..Len(s) : s[i].id = n
    BY DEF Tracks, s
  <2> QED
    BY <1>7, <1>9, <1>10, <2>1, <2>2
<1> QED
  BY <1>6, <1>7, <1>8, <1>11 DEF s, t

\* dio_app_handle_speech_complete: the utterance goes, and with the last one of an answer the follow-up may open.
LEMMA SpeechCompleteHandled ==
  ASSUME NEW x, Base(x), AnswerInv(x), MicInv(x), PttFits(x), EndInv(x), PttTried(x), StartsIdle(x),
         NEW e \in Events, Completes(x, e), VoiceEvent(x, e), NEW fails,
         NEW y, y = OnSpeechComplete(x, e, fails)
  PROVE  AppInv(y) /\ Sound(x, y)
<1>0. /\ DOMAIN x = Fields /\ QueueOK(x) /\ SpeechOK(x) /\ CountersOK(x) /\ AgOK(x) /\ CoreOK(x)
      /\ AnnOK(x) /\ TurnInv(x) /\ VoiceInv(x) /\ SpeechInv(x) /\ AnnInv(x) /\ GateInv(x)
  BY SomeFields
<1>1. \A n : n \in Tracked(x) <=> Tracks(x, n)
  BY DEF Tracked, Tracks
<1>2. /\ x.voice /\ ~Carries(x.core, e.id)
      /\ x.receipt # 0 /\ e.id = x.receipt /\ e.flag => x.annHeard
      /\ x.followAllowed /\ x.unheard =>
           \E id \in Nat : /\ Tracks(x, id) /\ ~Carries(x.core, id) /\ ~DoneWell(x, id)
                           /\ id = e.id => ~e.flag
      /\ x.overflow \/ \A id \in Nat :
           Tracks(x, id) => Carries(x.core, id) \/ Done(x, id) \/ id = e.id
  BY DEF VoiceEvent, Completes
<1>3. CASE e.id \notin Tracked(x)
  <2>1. y = x
    BY <1>3 DEF OnSpeechComplete
  <2>2. TrackInv(x)
    BY <1>1, <1>2, <1>3 DEF TrackInv
  <2> QED
    BY <2>1, <2>2, NothingNew DEF AppInv, Sound
<1>4. CASE e.id \in Tracked(x)
  <2> DEFINE stream == e.id = x.streamId
             x1 == [x EXCEPT !.speech = Untracked(@, e.id)]
             x2 == IF e.id # x.receipt THEN x1
                   ELSE [x1 EXCEPT !.ann = IF e.flag THEN "spoken" ELSE "failed",
                                   !.receipt = 0]
             z == [x2 EXCEPT !.followAllowed = @ /\ e.flag,
                             !.streamId = IF stream THEN 0 ELSE @,
                             !.streamAudio = @ /\ ~stream]
             a == IF stream /\ ~e.flag /\ x.turn THEN AppCancel(z, fails) ELSE z
             m == MaybeFollowUp(a)
  <2>1. y = TryPtt(m)
    BY <1>4 DEF OnSpeechComplete
  <2>2. /\ DOMAIN z = Fields
        /\ Same(x, z, {"speech", "ann", "receipt", "followAllowed", "streamId", "streamAudio"})
        /\ z.speech = Untracked(x.speech, e.id)
        /\ z.followAllowed = (x.followAllowed /\ e.flag)
        /\ IF e.id # x.receipt THEN z.ann = x.ann /\ z.receipt = x.receipt
           ELSE z.ann = (IF e.flag THEN "spoken" ELSE "failed") /\ z.receipt = 0
    <3>1. /\ DOMAIN x1 = Fields /\ Same(x, x1, {"speech"}) /\ x1.speech = Untracked(x.speech, e.id)
      BY <1>0, FieldNames DEF Same
    <3> HIDE DEF x1
    <3>2. /\ DOMAIN x2 = Fields /\ Same(x1, x2, {"ann", "receipt"})
          /\ IF e.id # x.receipt THEN x2 = x1
             ELSE x2.ann = (IF e.flag THEN "spoken" ELSE "failed") /\ x2.receipt = 0
      BY <3>1, FieldNames DEF Same
    <3> HIDE DEF x2
    <3>3. /\ DOMAIN z = Fields /\ Same(x2, z, {"followAllowed", "streamId", "streamAudio"})
          /\ z.followAllowed = (x2.followAllowed /\ e.flag)
      BY <3>2, FieldNames DEF Same
    <3> HIDE DEF z
    <3> QED
      BY <3>1, <3>2, <3>3, FieldNames DEF Same
  <2> HIDE DEF z
  <2>3. /\ z.agent = x.agent /\ z.agentGen = x.agentGen /\ z.turn = x.turn /\ z.refused = x.refused
        /\ z.voice = x.voice /\ z.voiceReady = x.voiceReady /\ z.voiceGen = x.voiceGen
        /\ z.ag = x.ag /\ z.core = x.core /\ z.nextId = x.nextId /\ z.annHeard = x.annHeard
        /\ z.complete = x.complete /\ z.gated = x.gated /\ z.paused = x.paused /\ z.ptt = x.ptt
        /\ z.quiet = x.quiet /\ z.unheard = x.unheard /\ z.suppressed = x.suppressed
        /\ SameCounts(x, z) /\ z.queue = x.queue /\ z.overflow = x.overflow
        /\ z.followListening = x.followListening
    BY <2>2, FieldNames DEF Same, SameCounts
  <2>4. Tracks(x, e.id) /\ e.id \in Nat /\ e.flag \in BOOLEAN
    BY <1>1, <1>4, EventTypes
  <2>5. /\ SpeechOK(z)
        /\ \A n : Tracks(z, n) <=> Tracks(x, n) /\ n # e.id
        /\ \A i \in 1..Len(z.speech) : \E j \in 1..Len(x.speech) : z.speech[i] = x.speech[j]
        /\ \A i, j \in 1..Len(z.speech) : z.speech[i].id = z.speech[j].id => i = j
    BY <1>0, <2>2, <2>3, <2>4, UntrackedTracks
  <2>6. /\ EndComes(z) <=> EndComes(x)
        /\ OutputComes(z) <=> OutputComes(x)
        /\ OverComes(z) <=> OverComes(x)
        /\ EndIsLast(z) <=> EndIsLast(x)
        /\ AgentGens(z) <=> AgentGens(x)
    BY <2>3 DEF EndComes, OutputComes, OverComes, EndIsLast, AgentGens, Ends, Over, Outputs, OfAgent, At
  <2>7. TurnInv(z) /\ EndInv(z)
    BY <1>0, <2>3, <2>6 DEF TurnInv, EndInv
  <2>8. VoiceInv(z)
    BY <1>0, <1>2, <2>3 DEF VoiceInv, VoiceGens, At
  <2>9. \A id : (Done(z, id) <=> Done(x, id)) /\ (DoneWell(z, id) <=> DoneWell(x, id))
    BY <2>3 DEF Done, DoneWell, Completes, OfVoice, At
  <2>10. SpeechInv(z) /\ TrackInv(z)
    <3>1. \A id \in Nat : Carries(z.core, id) => Tracks(z, id) /\ ~Done(z, id)
      BY <1>0, <1>2, <2>3, <2>5, <2>9 DEF SpeechInv
    <3>2. \A id \in Nat : Tracks(z, id) \/ Done(z, id) => id <= z.nextId
      BY <1>0, <2>3, <2>5, <2>9 DEF SpeechInv
    <3>3. WaitingOK(z.core)
      BY <1>0, <2>3 DEF SpeechInv
    <3>4. TrackInv(z)
      BY <1>2, <2>3, <2>5, <2>9 DEF TrackInv
    <3> QED
      BY <2>5, <3>1, <3>2, <3>3, <3>4 DEF SpeechInv
  <2>11. AnnInv(z) /\ AnnOK(z)
    <3>1. CASE e.id # x.receipt
      <4>1. z.ann = x.ann /\ z.receipt = x.receipt
        BY <2>2, <3>1
      <4> QED
        BY <1>0, <2>3, <2>5, <2>9, <3>1, <4>1 DEF AnnInv, AnnOK
    <3>2. CASE e.id = x.receipt
      <4>1. z.ann = (IF e.flag THEN "spoken" ELSE "failed") /\ z.receipt = 0
        BY <2>2, <3>2
      <4>2. e.flag => z.annHeard
        <5>1. x.receipt # 0 => (e.flag => x.annHeard)
          BY <1>2, <3>2
        <5>2. x.receipt # 0
          <6>1. PICK j \in 1..Len(x.speech) : x.speech[j].id = e.id
            BY <2>4 DEF Tracks
          <6>2. x.speech[j] \in Utterances
            BY <1>0 DEF SpeechOK
          <6> QED
            BY <3>2, <6>1, <6>2 DEF Utterances
        <5> QED
          BY <2>3, <5>1, <5>2
      <4> QED
        BY <4>1, <4>2 DEF AnnInv, AnnOK
    <3> QED
      BY <3>1, <3>2
  <2>12. GateInv(z) /\ PttFits(z) /\ MicInv(z)
    BY <1>0, <2>3 DEF GateInv, PttFits, MicInv
  <2>13. AnswerInv(z)
    <3>1. z.quiet => ~z.followAllowed /\ (z.turn => z.suppressed)
      BY <2>2, <2>3 DEF AnswerInv
    <3>2. ASSUME z.followAllowed, z.unheard
          PROVE  \E id \in Nat : Tracks(z, id) /\ ~Carries(z.core, id) /\ ~DoneWell(z, id)
      <4>1. x.followAllowed /\ e.flag /\ x.unheard
        BY <2>2, <2>3, <3>2
      <4>2. PICK id \in Nat : /\ Tracks(x, id) /\ ~Carries(x.core, id) /\ ~DoneWell(x, id)
                              /\ id = e.id => ~e.flag
        BY <1>2, <4>1
      <4> QED
        BY <2>3, <2>5, <2>9, <4>1, <4>2
    <3> QED
      BY <3>1, <3>2 DEF AnswerInv
  <2>14. StartsIdle(z)
    <3>1. \A i \in At(x) : i \in At(z) /\ (IdleFirst(x, i) => IdleFirst(z, i))
      BY <2>3 DEF IdleFirst, OfVoice, At
    <3> QED
      BY <2>3, <3>1 DEF StartsIdle, OfVoice
  <2>15. Base(z)
    <3>1. QueueOK(z) /\ CountersOK(z) /\ AgOK(z) /\ CoreOK(z)
      BY <1>0, <2>3, SameCountsOK DEF QueueOK, AgOK, CoreOK
    <3> QED
      BY <2>2, <2>5, <2>7, <2>8, <2>10, <2>11, <2>12, <3>1 DEF Base, AppOK
  <2>16. /\ Keeps(z, a) /\ MicInv(a) /\ PttFits(a) /\ a.speech = z.speech
         /\ a.followListening => x.followListening
    <3>1. CASE stream /\ ~e.flag /\ x.turn
      <4>1. a = AppCancel(z, fails)
        BY <3>1
      <4>2. /\ Keeps(z, a) /\ Same(z, a, Cancels) /\ PttFits(a) /\ MicInv(a)
            /\ ~a.followListening
        BY <2>12, <2>15, <4>1, AppCancelIs
      <4> QED
        BY <4>2, FieldNames DEF Same, Cancels
    <3>2. CASE ~(stream /\ ~e.flag /\ x.turn)
      <4>1. a = z
        BY <3>2
      <4> QED
        BY <2>3, <2>12, <2>15, <4>1, KeepsSelf
    <3> QED
      BY <3>1, <3>2
  <2> HIDE DEF a
  <2>17. /\ Keeps(a, m) /\ Same(a, m, Follows) /\ MicInv(m) /\ PttFits(m)
         /\ m.followListening => a.followListening \/ (~m.unheard /\ ~m.quiet /\ ~m.paused)
    BY <2>13, <2>16, MaybeFollowUpIs, FollowUpSound DEF Keeps
  <2> HIDE DEF m
  <2>18. /\ Keeps(m, y) /\ Same(m, y, {"ptt", "followListening", "listening", "core"})
         /\ MicInv(y) /\ PttFits(y) /\ PttTried(y)
         /\ (y.followListening => m.followListening)
    BY <2>1, <2>17, TryPttIs DEF Keeps
  <2>19. AppInv(y)
    BY <2>7, <2>10, <2>13, <2>14, <2>16, <2>17, <2>18 DEF AppInv, Keeps
  <2>20. /\ y.speech = z.speech /\ y.unheard = m.unheard /\ y.quiet = m.quiet
         /\ y.paused = m.paused
    BY <2>16, <2>17, <2>18, FieldNames DEF Same, Follows
  <2>21. NoNew(x, y)
    BY <2>5, <2>20 DEF NoNew
  <2> QED
    BY <2>16, <2>17, <2>18, <2>19, <2>20, <2>21 DEF Sound
<1> QED
  BY <1>3, <1>4

\* All of dio_app_handle_voice.
LEMMA VoiceHandled ==
  ASSUME NEW v, NEW x, NEW e, AppInv(v), Taken(v, x, e), e.from = "voice", NEW fails,
         NEW y, y = OnVoice(x, e, fails)
  PROVE  AppInv(y) /\ Sound(x, y)
<1>1. /\ Base(x) /\ AnswerInv(x) /\ MicInv(x) /\ PttFits(x) /\ e \in Events
      /\ AgentEvent(x, e) /\ VoiceEvent(x, e) /\ PttEvent(x, e)
  BY TakenIs
<1>2. ~Over(x, e) /\ EndInv(x) /\ DOMAIN x = Fields
  BY <1>1, SomeFields DEF Over, OfAgent, AgentEvent
<1>3. ASSUME e.gen # x.voiceGen \/ e.type \notin {"READY", "IDLE", "SPEECH_COMPLETE"}
      PROVE  AppInv(x)
  BY <1>2, <1>3, TakenApp DEF Completes, OfVoice
<1>4. CASE e.gen # x.voiceGen \/ Ignored(x, e.type)
  <2>1. y = x
    BY <1>4 DEF OnVoice
  <2>2. AppInv(x)
    BY <1>3, <1>4 DEF Ignored
  <2> QED
    BY <2>1, <2>2, NothingNew DEF Sound
<1>5. CASE e.gen = x.voiceGen /\ ~Ignored(x, e.type)
  <2>1. OfVoice(x, e) /\ x.voice
    BY <1>1, <1>5 DEF OfVoice, VoiceEvent
  <2>2. e.type \in VoiceTypes
    BY <1>1, EventTypes
  <2>3. e.type # "SPEECH_COMPLETE" => TrackInv(x)
    BY <1>1 DEF VoiceEvent, Completes
  <2>4. ASSUME DOMAIN y = Fields,
               Same(x, y, {"turnId", "pcm", "text", "voiceTries", "followListening", "listening"}),
               y.voiceTries = x.voiceTries \/ y.voiceTries = 0,
               y.followListening => x.followListening, AppInv(x)
        PROVE  AppInv(y) /\ Sound(x, y)
    BY <2>4, MinorHandled
  <2>5. CASE e.type = "READY"
    <3>1. y = SetVoicePaused([x EXCEPT !.voiceReady = TRUE])
      BY <1>5, <2>5 DEF OnVoice
    <3> QED
      BY <1>1, <1>2, <2>1, <2>3, <2>5, <3>1, VoiceReadyHandled DEF PttEvent
  <2>6. CASE e.type = "WAKE"
    <3>1. y = [x EXCEPT !.voiceTries = 0, !.followListening = FALSE, !.listening = TRUE]
      BY <1>5, <2>6 DEF OnVoice
    <3>2. /\ DOMAIN y = Fields /\ y.voiceTries = 0 /\ ~y.followListening
          /\ Same(x, y, {"turnId", "pcm", "text", "voiceTries", "followListening", "listening"})
      BY <1>2, <3>1, FieldNames DEF Same
    <3> QED
      BY <1>3, <2>4, <2>6, <3>2
  <2>7. CASE e.type = "LISTENING"
    <3>1. y = [x EXCEPT !.listening = TRUE]
      BY <1>5, <2>7 DEF OnVoice
    <3>2. /\ DOMAIN y = Fields /\ y.voiceTries = x.voiceTries
          /\ y.followListening = x.followListening
          /\ Same(x, y, {"turnId", "pcm", "text", "voiceTries", "followListening", "listening"})
      BY <1>2, <3>1, FieldNames DEF Same
    <3> QED
      BY <1>3, <2>4, <2>7, <3>2
  <2>8. CASE e.type = "TRANSCRIPT"
    <3> DEFINE z == [x EXCEPT !.listening = FALSE]
    <3>1. y = Submit(z, fails)
      BY <1>5, <2>8 DEF OnVoice
    <3>2. DOMAIN z = Fields /\ Same(x, z, {"listening"})
      BY <1>2, FieldNames DEF Same
    <3> HIDE DEF z
    <3>3. /\ Same(x, z, {"turnId", "pcm", "text", "voiceTries", "followListening", "listening"})
          /\ z.voiceTries = x.voiceTries /\ z.followListening = x.followListening
          /\ z.turn = x.turn /\ z.complete = x.complete /\ z.speech = x.speech
          /\ z.overflow = x.overflow /\ z.ptt = x.ptt /\ z.voice = x.voice /\ z.quiet = x.quiet
      BY <3>2, FieldNames DEF Same
    <3>4. AppInv(z)
      BY <1>3, <2>8, <3>2, <3>3, MinorHandled
    <3>5. ~z.turn /\ ~z.complete /\ z.speech = <<>> /\ z.voice
      BY <1>5, <2>1, <2>8, <3>3 DEF Ignored
    <3>6. z.overflow \/ ~z.ptt
      BY <1>1, <2>1, <2>8, <3>3, <3>5 DEF PttEvent
    <3>7. AppInv(y) /\ Sound(z, y)
      BY <3>1, <3>4, <3>5, <3>6, SubmitHandled
    <3> QED
      BY <3>3, <3>7 DEF Sound, NoNew
  <2>9. CASE e.type = "SPEAKING"
    <3>1. y = x \/ y = [x EXCEPT !.listening = FALSE]
      BY <1>5, <2>9 DEF OnVoice
    <3>2. /\ DOMAIN y = Fields /\ y.voiceTries = x.voiceTries
          /\ y.followListening = x.followListening
          /\ Same(x, y, {"turnId", "pcm", "text", "voiceTries", "followListening", "listening"})
      BY <1>2, <3>1, FieldNames DEF Same
    <3> QED
      BY <1>3, <2>4, <2>9, <3>2
  <2>10. CASE e.type = "SPEECH_COMPLETE"
    <3>1. y = OnSpeechComplete(x, e, fails) /\ Completes(x, e)
      BY <1>5, <2>1, <2>10 DEF OnVoice, Completes
    <3>2. PttTried(x) /\ StartsIdle(x)
      BY <1>1, <2>10 DEF PttEvent
    <3> QED
      BY <1>1, <1>2, <3>1, <3>2, SpeechCompleteHandled
  <2>11. CASE e.type = "IDLE"
    <3>1. y = TryPtt([x EXCEPT !.followListening = FALSE, !.listening = FALSE])
      BY <1>5, <2>11 DEF OnVoice
    <3>2. StartsIdle(x)
      BY <1>1, <2>11 DEF PttEvent
    <3> QED
      BY <1>1, <1>2, <2>3, <2>11, <3>1, <3>2, VoiceIdleHandled
  <2>12. CASE e.type = "ERROR"
    <3>1. y = ScheduleVoice(CloseVoice(AppCancel([x EXCEPT !.listening = FALSE], fails)))
      BY <1>5, <2>12 DEF OnVoice
    <3> QED
      BY <1>3, <2>12, <3>1, VoiceErrorHandled
  <2> QED
    BY <2>2, <2>5, <2>6, <2>7, <2>8, <2>9, <2>10, <2>11, <2>12 DEF VoiceTypes
<1> QED
  BY <1>4, <1>5

--------------------------------------------------------------------------------
(* The worker                                                               *)

\* All of dio_app_handle_ui.
LEMMA UiHandled ==
  ASSUME NEW v, NEW x, NEW e, AppInv(v), Taken(v, x, e), e.from = "ui", e.type # "EXIT",
         NEW fails, NEW y, y = OnUi(x, e, fails)
  PROVE  AppInv(y) /\ Sound(x, y)
<1>1. AppInv(x)
  BY TakenApp DEF Over, Completes, OfAgent, OfVoice
<1>2. e \in Events
  BY TakenIs
<1>3. e.type \in {"SET_PAUSED", "PUSH_TO_TALK", "CANCEL", "SETTINGS"}
  BY <1>2, EventTypes DEF UiTypes
<1>4. CASE e.type = "SET_PAUSED"
  <2>1. y = SetVoicePaused([x EXCEPT !.paused = e.flag, !.ptt = FALSE])
    BY <1>4 DEF OnUi
  <2> QED
    BY <1>1, <1>2, <2>1, PauseHandled
<1>5. CASE e.type = "PUSH_TO_TALK"
  <2>1. y = TryPtt(AppCancel([x EXCEPT !.paused = FALSE, !.ptt = TRUE], fails))
    BY <1>5 DEF OnUi
  <2> QED
    BY <1>1, <2>1, PushToTalkHandled
<1>6. CASE e.type = "CANCEL"
  <2>1. y = AppCancel([x EXCEPT !.ptt = FALSE], fails)
    BY <1>6 DEF OnUi
  <2> QED
    BY <1>1, <2>1, CancelHandled
<1>7. CASE e.type = "SETTINGS"
  <2>1. y = ChangeSettings(x, fails)
    BY <1>7 DEF OnUi
  <2> QED
    BY <1>1, <2>1, SettingsHandled
<1> QED
  BY <1>3, <1>4, <1>5, <1>6, <1>7

\* dio_app_handle_event
LEMMA EventHandled ==
  ASSUME NEW v, NEW x, NEW e, AppInv(v), Taken(v, x, e), e.type # "EXIT",
         NEW fails, NEW y, y = Handle(x, e, fails)
  PROVE  AppInv(y) /\ Sound(v, y)
<1>1. e \in Events /\ Same(v, x, {"queue"})
  BY TakenIs
<1>2. AppInv(y) /\ Sound(x, y)
  <2>1. CASE e.from = "ui"
    <3>1. y = OnUi(x, e, fails)
      BY <2>1 DEF Handle
    <3> QED
      BY <2>1, <3>1, UiHandled
  <2>2. CASE e.from = "agent"
    <3>1. y = OnAgent(x, e, fails)
      BY <2>2 DEF Handle
    <3> QED
      BY <2>2, <3>1, AgentHandled
  <2>3. CASE e.from = "voice"
    <3>1. y = OnVoice(x, e, fails)
      BY <2>3 DEF Handle
    <3> QED
      BY <2>3, <3>1, VoiceHandled
  <2> QED
    BY <1>1, <2>1, <2>2, <2>3, EventTypes
<1>3. x.quiet = v.quiet /\ x.speech = v.speech /\ x.followListening = v.followListening
  BY <1>1, FieldNames DEF Same
<1> QED
  BY <1>2, <1>3 DEF Sound, NoNew

\* A step that says nothing of an answer, and opens no follow-up.
Silent(x, y) == NoNew(x, y) /\ (y.followListening => x.followListening)

LEMMA SilentIs ==
  /\ \A x : Silent(x, x)
  /\ \A x, y : Silent(x, y) => Sound(x, y)
  /\ \A x, y, z : Silent(x, y) /\ Silent(y, z) => Silent(x, z)
<1>1. \A x : Silent(x, x)
  BY NothingNew DEF Silent
<1>2. \A x, y : Silent(x, y) => Sound(x, y)
  BY DEF Silent, Sound
<1>3. ASSUME NEW x, NEW y, NEW z, Silent(x, y), Silent(y, z) PROVE Silent(x, z)
  <2>1. NoNew(x, z)
    <3> SUFFICES ASSUME NEW i \in 1..Len(z.speech), z.speech[i].kind = "agent"
                 PROVE  \E j \in 1..Len(x.speech) : x.speech[j] = z.speech[i]
      BY DEF NoNew
    <3>1. PICK k \in 1..Len(y.speech) : y.speech[k] = z.speech[i]
      BY <1>3 DEF Silent, NoNew
    <3>2. PICK j \in 1..Len(x.speech) : x.speech[j] = y.speech[k]
      BY <1>3, <3>1 DEF Silent, NoNew
    <3> QED
      BY <3>1, <3>2
  <2> QED
    BY <1>3, <2>1 DEF Silent
<1> QED
  BY <1>1, <1>2, <1>3

\* A step that keeps the microphone and all the flags of a turn.
Plain(x, y) ==
  /\ Keeps(x, y) /\ SameMic(x, y) /\ y.complete = x.complete /\ y.turn = x.turn
  /\ y.suppressed = x.suppressed /\ y.followListening = x.followListening
  /\ y.speech = x.speech /\ y.voiceGen = x.voiceGen

LEMMA PlainIs ==
  /\ \A x, y : AppInv(x) /\ Plain(x, y) => AppInv(y) /\ Silent(x, y)
  /\ \A x, y, z : Plain(x, y) /\ Plain(y, z) => Plain(x, z)
<1>1. ASSUME NEW x, NEW y, AppInv(x), Plain(x, y) PROVE AppInv(y) /\ Silent(x, y)
  BY <1>1, PlainApp, NothingNew DEF Plain, Silent
<1>2. ASSUME NEW x, NEW y, NEW z, Plain(x, y), Plain(y, z) PROVE Plain(x, z)
  BY <1>2, KeepsTwice DEF Plain, SameMic
<1> QED
  BY <1>1, <1>2

\* A failure is counted: no more.
LEMMA IncidentIs ==
  ASSUME NEW x, Base(x), NEW y \in Incident(x)
  PROVE  Plain(x, y) /\ Same(x, y, {"incidents"})
<1>0. DOMAIN x = Fields /\ CountersOK(x) /\ AgOK(x) /\ CoreOK(x)
  BY SomeFields
<1>1. y = [x EXCEPT !.incidents = @ + 1]
  BY DEF Incident
<1>2. DOMAIN y = Fields /\ Same(x, y, {"incidents"})
  BY <1>0, <1>1, FieldNames DEF Same
<1>3. /\ Same(x, y, Idle \ {"queue", "overflow"}) /\ SameCounts(x, y)
      /\ y.agent = x.agent /\ y.ag = x.ag /\ y.core = x.core /\ y.speech = x.speech
      /\ y.complete = x.complete /\ y.turn = x.turn /\ y.suppressed = x.suppressed
      /\ y.followListening = x.followListening /\ y.overflow = x.overflow
      /\ y.voice = x.voice /\ y.voiceReady = x.voiceReady /\ y.paused = x.paused
      /\ y.gated = x.gated /\ y.ptt = x.ptt
  BY <1>2, FieldNames DEF Same, SameCounts, Idle
<1>4. AgOK(y) /\ CoreOK(y) /\ CountersOK(y) /\ SameSpeech(x, y)
  BY <1>0, <1>3, SameCountsOK DEF AgOK, CoreOK, SameSpeech, SameCounts
<1>5. Keeps(x, y)
  BY <1>2, <1>3, <1>4, QuietKeeps DEF SameCounts
<1> QED
  BY <1>2, <1>3, <1>5 DEF Plain, SameMic, SameCounts

\* What fails in a step is counted or not.
LEMMA OutcomeIs ==
  ASSUME NEW x, NEW z, AppInv(z), Sound(x, z), NEW y, y = z \/ y \in Incident(z)
  PROVE  AppInv(y) /\ Sound(x, y)
<1>1. CASE y = z
  BY <1>1
<1>2. CASE y \in Incident(z)
  <2>1. Plain(z, y) /\ Same(z, y, {"incidents"})
    BY <1>2, IncidentIs DEF AppInv
  <2>2. /\ y.speech = z.speech /\ y.followListening = z.followListening
        /\ y.unheard = z.unheard /\ y.quiet = z.quiet /\ y.paused = z.paused
    BY <2>1, FieldNames DEF Same
  <2>3. AppInv(y)
    BY <2>1, PlainIs
  <2> QED
    BY <2>2, <2>3 DEF Sound, NoNew
<1> QED
  BY <1>1, <1>2

LEMMA DequeueKeeps ==
  ASSUME AppInv(w), Dequeue
  PROVE  AppInv(w') /\ Sound(w, w')
<1> DEFINE x == [w EXCEPT !.queue = Tail(@)]
           e == Head(w.queue)
           Handled(f) == Handle(x, e, f)
<1>1. Taken(w, x, e) /\ e.type # "EXIT"
  BY DEF Taken, Dequeue
<1>2. w' \in Outcomes(Handled)
  BY DEF Dequeue
<1>3. PICK f : w' = Handled(f) \/ w' \in Incident(Handled(f))
  BY <1>2 DEF Outcomes
<1> DEFINE z == Handled(f)
<1>4. z = Handle(x, e, f)
  OBVIOUS
<1>5. w' = z \/ w' \in Incident(z)
  BY <1>3
<1> HIDE DEF z, Handled, x, e
<1>6. AppInv(z) /\ Sound(w, z)
  BY <1>1, <1>4, EventHandled
<1> QED
  BY <1>5, <1>6, OutcomeIs

\* The flag of an overflow says nothing of what holds inside a handler.
LEMMA OverflowIs ==
  ASSUME NEW x, Base(x), NEW o, o = [x EXCEPT !.overflow = FALSE]
  PROVE  Base(o) /\ Same(x, o, {"overflow"})
<1>0. /\ DOMAIN x = Fields /\ QueueOK(x) /\ SpeechOK(x) /\ CountersOK(x) /\ AgOK(x) /\ CoreOK(x)
      /\ AnnOK(x) /\ TurnInv(x) /\ VoiceInv(x) /\ SpeechInv(x) /\ AnnInv(x) /\ GateInv(x)
  BY SomeFields
<1>1. DOMAIN o = Fields /\ Same(x, o, {"overflow"})
  BY <1>0, FieldNames DEF Same
<1>2. /\ o.agent = x.agent /\ o.agentGen = x.agentGen /\ o.turn = x.turn /\ o.refused = x.refused
      /\ o.voice = x.voice /\ o.voiceReady = x.voiceReady /\ o.voiceGen = x.voiceGen
      /\ o.ag = x.ag /\ o.core = x.core /\ o.speech = x.speech /\ o.nextId = x.nextId
      /\ o.ann = x.ann /\ o.receipt = x.receipt /\ o.annHeard = x.annHeard
      /\ o.complete = x.complete /\ o.gated = x.gated /\ o.paused = x.paused /\ o.ptt = x.ptt
      /\ o.streamAudio = x.streamAudio /\ SameCounts(x, o) /\ o.queue = x.queue
  BY <1>1, FieldNames DEF Same, SameCounts
<1>3. /\ EndComes(o) <=> EndComes(x)
      /\ OutputComes(o) <=> OutputComes(x)
      /\ EndIsLast(o) <=> EndIsLast(x)
      /\ AgentGens(o) <=> AgentGens(x)
  BY <1>2 DEF EndComes, OutputComes, EndIsLast, AgentGens, Ends, Over, Outputs, OfAgent, At
<1>4. TurnInv(o)
  BY <1>0, <1>2, <1>3 DEF TurnInv
<1>5. VoiceInv(o)
  BY <1>0, <1>2 DEF VoiceInv, VoiceGens, At
<1>6. \A id : /\ Done(o, id) <=> Done(x, id)
              /\ DoneWell(o, id) <=> DoneWell(x, id)
              /\ Tracks(o, id) <=> Tracks(x, id)
  BY <1>2 DEF Done, DoneWell, Tracks, Completes, OfVoice, At
<1>7. SpeechInv(o)
  <2>1. \A id \in Nat : Carries(o.core, id) => Tracks(o, id) /\ ~Done(o, id)
    BY <1>0, <1>2, <1>6 DEF SpeechInv
  <2>2. \A id \in Nat : Tracks(o, id) \/ Done(o, id) => id <= o.nextId
    BY <1>0, <1>2, <1>6 DEF SpeechInv
  <2>3. /\ WaitingOK(o.core)
        /\ \A i, j \in 1..Len(o.speech) : o.speech[i].id = o.speech[j].id => i = j
    BY <1>0, <1>2 DEF SpeechInv
  <2> QED
    BY <2>1, <2>2, <2>3 DEF SpeechInv
<1>8. AnnInv(o) /\ GateInv(o)
  BY <1>0, <1>2, <1>6 DEF AnnInv, GateInv
<1>9. CountersOK(o) /\ AgOK(o) /\ CoreOK(o) /\ AnnOK(o) /\ SpeechOK(o) /\ QueueOK(o)
  BY <1>0, <1>2, SameCountsOK DEF AgOK, CoreOK, AnnOK, SpeechOK, QueueOK
<1> QED
  BY <1>1, <1>4, <1>5, <1>7, <1>8, <1>9 DEF Base, AppOK

\* After an overflow nothing of agent and voice is left, and what is in the queue
\* is of generations that have passed.
LEMMA RecoverIs ==
  ASSUME NEW x, AppInv(x), NEW y, y = Recover(x)
  PROVE  AppInv(y) /\ Sound(x, y)
<1> DEFINE o == [x EXCEPT !.overflow = FALSE]
           a == AppCancel(o, "none")
           c == CloseAgent(CloseVoice(a))
           q == [c EXCEPT !.queue = x.queue, !.overflow = FALSE]
<1>0. DOMAIN x = Fields /\ Base(x) /\ QueueOK(x) /\ TurnInv(x) /\ VoiceInv(x)
      /\ x.agentGen \in Nat /\ x.voiceGen \in Nat
  BY SomeFields DEF AppInv
<1>1. Base(o) /\ Same(x, o, {"overflow"})
  BY <1>0, OverflowIs
<1>2. y = ScheduleAgent(q)
  BY DEF Recover
<1> HIDE DEF o
<1>3. Base(a) /\ Same(o, a, Cancels)
  BY <1>1, AppCancelIs DEF Keeps
<1> HIDE DEF a
<1>4. /\ AppInv(c) /\ ~c.voice /\ ~c.agent /\ ~c.complete /\ c.speech = <<>>
      /\ ~c.followListening
      /\ c.agentGen = a.agentGen + 1 /\ c.voiceGen = a.voiceGen + 1
  BY <1>3, CloseBothIs
<1> HIDE DEF c
<1>5. a.agentGen = x.agentGen /\ a.voiceGen = x.voiceGen
  BY <1>1, <1>3, FieldNames DEF Same, Cancels
<1>6. /\ DOMAIN q = Fields /\ Same(c, q, {"queue", "overflow"}) /\ q.queue = x.queue
  BY <1>4, SomeFields, FieldNames DEF AppInv, Same
<1> HIDE DEF q
<1>7. AppInv(q)
  <2>1. \A i \in At(x) : x.queue[i] \in Events /\ x.queue[i].gen \in Nat
    BY <1>0, EventTypes DEF QueueOK, At
  <2>0. At(q) = At(x) /\ c.agentGen = x.agentGen + 1 /\ c.voiceGen = x.voiceGen + 1
    BY <1>4, <1>5, <1>6 DEF At
  <2>2. ASSUME NEW i \in At(q), q.queue[i].from = "agent" PROVE q.queue[i].gen < c.agentGen
    <3>1. i \in At(x) /\ q.queue[i] = x.queue[i] /\ x.queue[i].gen \in Nat
      BY <1>6, <2>0, <2>1
    <3>2. x.queue[i].gen <= x.agentGen
      BY <1>0, <2>2, <3>1 DEF TurnInv, AgentGens
    <3> QED
      BY <1>0, <2>0, <3>1, <3>2
  <2>3. ASSUME NEW i \in At(q), q.queue[i].from = "voice" PROVE q.queue[i].gen < c.voiceGen
    <3>1. i \in At(x) /\ q.queue[i] = x.queue[i] /\ x.queue[i].gen \in Nat
      BY <1>6, <2>0, <2>1
    <3>2. x.queue[i].gen <= x.voiceGen
      BY <1>0, <2>3, <3>1 DEF VoiceInv, VoiceGens
    <3> QED
      BY <1>0, <2>0, <3>1, <3>2
  <2>4. QueueOK(q)
    BY <1>0, <1>6 DEF QueueOK
  <2> QED
    BY <1>4, <1>6, <2>2, <2>3, <2>4, RequeueIs
<1>8. Keeps(q, y) /\ Same(q, y, {"agentRestart"})
  BY <1>2, <1>7, ScheduleAgentIs DEF AppInv
<1>9. Plain(q, y)
  BY <1>8, FieldNames DEF Plain, Same, SameMic, Keeps
<1>10. y.speech = <<>> /\ ~y.followListening
  BY <1>4, <1>6, <1>8, FieldNames DEF Same
<1> QED
  BY <1>7, <1>9, <1>10, PlainIs, NothingNew DEF Sound

\* The end of the worker closes agent and voice.
LEMMA StopKeeps ==
  ASSUME AppInv(w), Stop
  PROVE  AppInv(w') /\ Sound(w, w')
<1> DEFINE a == CloseAgent(w)
           c == CloseVoice(a)
           q == [c EXCEPT !.queue = <<>>]
<1>0. Base(w)
  BY DEF AppInv
<1>1. /\ Base(a) /\ AnswerInv(a) /\ EndInv(a) /\ PttFits(a) /\ ~a.agent /\ ~a.complete
      /\ ~a.followAllowed
  BY <1>0, CloseAgentIs
<1> HIDE DEF a
<1>2. /\ Base(c) /\ (a.overflow => c.overflow) /\ EndInv(c) /\ TrackInv(c) /\ AnswerInv(c)
      /\ ~c.voice /\ c.speech = <<>> /\ ~c.followListening /\ Same(a, c, OfItsVoice)
  BY <1>1, CloseVoiceIs
<1>3. w' = q
  BY DEF Stop, a
<1> HIDE DEF c
<1>4. /\ c.ptt = a.ptt /\ c.complete = a.complete /\ c.turn = a.turn
      /\ c.suppressed = a.suppressed /\ c.agent = a.agent
  BY <1>2, FieldNames DEF Same, OfItsVoice
<1>5. AppInv(c)
  BY <1>1, <1>2, <1>4, AwayIs DEF AppInv, PttFits
<1>6. /\ DOMAIN q = Fields /\ Same(c, q, {"queue"}) /\ q.queue = <<>>
  BY <1>2, SomeFields, FieldNames DEF Same
<1> HIDE DEF q
<1>7. AppInv(q)
  <2>1. QueueOK(q)
    <3>1. <<>> \in Seq(Events) /\ Len(<<>>) = 0 /\ 0 <= QueueCap
      BY ControllerAssumption
    <3> QED
      BY <1>6, <3>1 DEF QueueOK
  <2>2. At(q) = {} /\ Same(c, q, {"queue", "overflow"})
    BY <1>6 DEF At, Same
  <2> QED
    BY <1>1, <1>2, <1>4, <1>5, <1>6, <2>1, <2>2, RequeueIs
<1>8. q.speech = <<>> /\ ~q.followListening
  BY <1>2, <1>6, FieldNames DEF Same
<1> QED
  BY <1>3, <1>7, <1>8, NothingNew DEF Sound

--------------------------------------------------------------------------------
(* The end of a round                                                       *)

\* The timers at the end of a round.
LEMMA TimeoutAgentIs ==
  ASSUME NEW x, AppInv(x), NEW f, NEW y, y = TimeoutAgent(x, f)
  PROVE  AppInv(y) /\ Silent(x, y)
<1>1. CASE y = x
  BY <1>1, SilentIs
<1>2. CASE y = ScheduleAgent(CloseAgent(CloseVoice(x)))
  <2>1. AppInv(y) /\ y.speech = <<>> /\ ~y.followListening
    BY <1>2, TransportEndHandled DEF AppInv
  <2> QED
    BY <2>1, NothingNew DEF Silent
<1> QED
  BY <1>1, <1>2 DEF TimeoutAgent

\* An attempt at a restart is counted: the invariant holds.
LEMMA RetryIs ==
  ASSUME NEW x, AppInv(x), NEW z, DOMAIN z = Fields,
         Same(x, z, {"agentRestart", "agentTries", "voiceRestart", "voiceTries"}), CountersOK(z)
  PROVE  AppInv(z) /\ Silent(x, z)
<1>1. /\ Same(x, z, Minor \ {"core", "streamAudio"}) /\ z.followAllowed = x.followAllowed
      /\ z.followListening = x.followListening
  BY FieldNames DEF Same, Minor
<1>2. /\ Keeps(x, z) /\ (MicInv(x) => MicInv(z)) /\ (PttFits(x) => PttFits(z))
      /\ z.speech = x.speech
  BY <1>1, MinorApp DEF AppInv
<1>3. AppInv(z)
  BY <1>2, KeepsApp DEF AppInv
<1> QED
  BY <1>1, <1>2, <1>3, NothingNew DEF Silent

LEMMA RestartAgentIs ==
  ASSUME NEW x, AppInv(x), NEW due, NEW f, NEW y, y = RestartAgent(x, due, f)
  PROVE  AppInv(y) /\ Silent(x, y)
<1> DEFINE z == [x EXCEPT !.agentRestart = FALSE, !.agentTries = @ + 1]
<1>0. DOMAIN x = Fields /\ CountersOK(x)
  BY SomeFields DEF AppInv
<1>1. CASE y = x
  BY <1>1, SilentIs
<1>2. CASE x.agentRestart /\ y = OpenAgent(z, f)
  <2>1. /\ DOMAIN z = Fields /\ Same(x, z, {"agentRestart", "agentTries"})
        /\ ~z.agentRestart /\ z.agentTries = x.agentTries + 1
    BY <1>0, FieldNames DEF Same
  <2> HIDE DEF z
  <2>2. /\ z.agentGen = x.agentGen /\ z.voiceGen = x.voiceGen /\ z.turns = x.turns
        /\ z.voiceTries = x.voiceTries /\ z.voiceRestart = x.voiceRestart
        /\ Same(x, z, {"agentRestart", "agentTries", "voiceRestart", "voiceTries"})
    BY <2>1, FieldNames DEF Same
  <2>3. CountersOK(z)
    BY <1>0, <1>2, <2>1, <2>2, ControllerAssumption DEF CountersOK
  <2>4. AppInv(z) /\ Silent(x, z)
    BY <2>1, <2>2, <2>3, RetryIs
  <2>5. Keeps(z, y) /\ Same(z, y, {"agent", "starting", "agentGen", "ag", "agentRestart"})
    BY <1>2, <2>4, OpenAgentIs DEF AppInv
  <2>6. Plain(z, y)
    BY <2>5, FieldNames DEF Plain, Same, SameMic, Keeps
  <2> QED
    BY <2>4, <2>6, PlainIs, SilentIs
<1> QED
  BY <1>1, <1>2 DEF RestartAgent

LEMMA RestartVoiceIs ==
  ASSUME NEW x, AppInv(x), NEW due, NEW f, NEW y, y = RestartVoice(x, due, f)
  PROVE  AppInv(y) /\ Silent(x, y)
<1> DEFINE z == [x EXCEPT !.voiceRestart = FALSE, !.voiceTries = @ + 1]
<1>0. DOMAIN x = Fields /\ CountersOK(x)
  BY SomeFields DEF AppInv
<1>1. CASE y = x
  BY <1>1, SilentIs
<1>2. CASE x.voiceRestart /\ y = OpenVoice(z, f)
  <2>1. /\ DOMAIN z = Fields /\ Same(x, z, {"voiceRestart", "voiceTries"})
        /\ ~z.voiceRestart /\ z.voiceTries = x.voiceTries + 1
    BY <1>0, FieldNames DEF Same
  <2> HIDE DEF z
  <2>2. /\ z.agentGen = x.agentGen /\ z.voiceGen = x.voiceGen /\ z.turns = x.turns
        /\ z.agentTries = x.agentTries /\ z.agentRestart = x.agentRestart
        /\ Same(x, z, {"agentRestart", "agentTries", "voiceRestart", "voiceTries"})
    BY <2>1, FieldNames DEF Same
  <2>3. CountersOK(z)
    BY <1>0, <1>2, <2>1, <2>2, ControllerAssumption DEF CountersOK
  <2>4. AppInv(z) /\ Silent(x, z)
    BY <2>1, <2>2, <2>3, RetryIs
  <2>5. /\ Keeps(z, y) /\ Same(z, y, OfItsVoice \union {"voiceRestart"}) /\ MicInv(y)
        /\ y.speech = z.speech \/ y.speech = <<>>
        /\ (y.followListening => z.followListening)
    BY <1>2, <2>4, OpenVoiceIs DEF AppInv
  <2>6. /\ y.ptt = z.ptt /\ y.complete = z.complete /\ y.turn = z.turn
        /\ y.suppressed = z.suppressed
    BY <2>5, FieldNames DEF Same, OfItsVoice
  <2>7. PttFits(y)
    BY <2>4, <2>5, <2>6 DEF PttFits, Keeps, AppInv
  <2>8. AppInv(y) /\ Silent(z, y)
    BY <2>4, <2>5, <2>7, KeepsApp, NothingNew DEF Silent
  <2> QED
    BY <2>4, <2>8, SilentIs
<1> QED
  BY <1>1, <1>2 DEF RestartVoice

\* The announcement's own fields.
LEMMA AnnouncementSet ==
  ASSUME NEW x, Base(x), NEW y, DOMAIN y = Fields, Same(x, y, {"ann", "receipt"}),
         AnnInv(y), AnnOK(y)
  PROVE  Plain(x, y)
<1>0. /\ DOMAIN x = Fields /\ QueueOK(x) /\ SpeechOK(x) /\ CountersOK(x) /\ AgOK(x) /\ CoreOK(x)
      /\ TurnInv(x) /\ VoiceInv(x) /\ SpeechInv(x) /\ GateInv(x)
      /\ x.agentGen \in Nat /\ x.voiceGen \in Nat
  BY SomeFields
<1>1. /\ y.agent = x.agent /\ y.agentGen = x.agentGen /\ y.turn = x.turn /\ y.refused = x.refused
      /\ y.voice = x.voice /\ y.voiceReady = x.voiceReady /\ y.voiceGen = x.voiceGen
      /\ y.ag = x.ag /\ y.core = x.core /\ y.speech = x.speech /\ y.nextId = x.nextId
      /\ y.complete = x.complete /\ y.gated = x.gated /\ y.paused = x.paused /\ y.ptt = x.ptt
      /\ y.quiet = x.quiet /\ y.followAllowed = x.followAllowed /\ y.unheard = x.unheard
      /\ y.suppressed = x.suppressed /\ y.streamAudio = x.streamAudio /\ SameCounts(x, y)
      /\ y.queue = x.queue /\ y.overflow = x.overflow /\ y.followListening = x.followListening
  BY FieldNames DEF Same, SameCounts
<1>2. QueueOK(y) /\ Extends(x, y, {}) /\ Harmless(x, {})
  BY <1>0, <1>1, NoneExtends DEF QueueOK, Harmless
<1>3. TurnInv(y) /\ (EndInv(x) => EndInv(y))
  BY <1>0, <1>1, <1>2, TurnKept
<1>4. VoiceInv(y)
  BY <1>0, <1>1, <1>2, VoiceKept
<1>5. SpeechInv(y) /\ (TrackInv(x) => TrackInv(y))
  BY <1>0, <1>1, <1>2, SpeechKept DEF SameSpeech
<1>6. ASSUME AnswerInv(x) PROVE AnswerInv(y)
  <2>1. y.quiet => ~y.followAllowed /\ (y.turn => y.suppressed)
    BY <1>1, <1>6 DEF AnswerInv
  <2> QED
    BY <1>0, <1>1, <1>2, <1>6, <2>1, AnswerKept
<1>7. (PttTried(x) => PttTried(y)) /\ (StartsIdle(x) => StartsIdle(y))
  BY <1>0, <1>1, <1>2, TriedKept
<1>8. GateInv(y) /\ CountersOK(y) /\ AgOK(y) /\ CoreOK(y) /\ SpeechOK(y)
  BY <1>0, <1>1, SameCountsOK DEF GateInv, AgOK, CoreOK, SpeechOK
<1>9. Keeps(x, y)
  BY <1>1, <1>2, <1>3, <1>4, <1>5, <1>6, <1>7, <1>8 DEF Keeps, Base, AppOK
<1> QED
  BY <1>1, <1>9 DEF Plain, SameMic

\* dio_app_poll_announcement hands the announcement to an idle core, or gives it up.
LEMMA PollAnnouncementIs ==
  ASSUME NEW x, AppInv(x), NEW f, NEW y, y = PollAnnouncement(x, f)
  PROVE  AppInv(y) /\ Silent(x, y)
<1>0. /\ DOMAIN x = Fields /\ Base(x) /\ AnnInv(x) /\ AnnOK(x) /\ SpeechOK(x) /\ MicInv(x)
      /\ PttFits(x) /\ x.nextId \in Nat
  BY SomeFields DEF AppInv
<1>1. CASE y = x
  BY <1>1, SilentIs
<1>2. CASE MayAnnounce(x) /\ y = [x EXCEPT !.ann = "failed"]
  <2>1. DOMAIN y = Fields /\ Same(x, y, {"ann"}) /\ y.ann = "failed"
    BY <1>0, <1>2, FieldNames DEF Same
  <2>2. y.receipt = 0 /\ Same(x, y, {"ann", "receipt"})
    BY <1>2, <2>1, FieldNames DEF Same, MayAnnounce
  <2>3. AnnInv(y) /\ AnnOK(y)
    BY <1>0, <2>1, <2>2 DEF AnnInv, AnnOK
  <2> QED
    BY <1>0, <2>1, <2>2, <2>3, AnnouncementSet, PlainIs
<1>3. CASE /\ MayAnnounce(x) /\ CanSpeak(x, f)
           /\ y = [Speak(x, "announcement") EXCEPT !.receipt = x.nextId + 1, !.ann = "held"]
  <2> DEFINE s == Speak(x, "announcement")
             n == x.nextId + 1
  <2>1. /\ Keeps(x, s) /\ Same(x, s, {"nextId", "speech", "core"}) /\ SameMic(x, s)
        /\ s.speech = Append(x.speech, [id |-> n, kind |-> "announcement"])
        /\ Tracks(s, n) /\ ~Done(s, n) /\ ~DoneWell(s, n)
    BY <1>0, <1>3, SpeakIs DEF CanSpeak
  <2>2. y = [s EXCEPT !.receipt = n, !.ann = "held"]
    BY <1>3
  <2> HIDE DEF s
  <2>3. Base(s) /\ DOMAIN s = Fields
    BY <2>1, SomeFields DEF Keeps
  <2>4. /\ DOMAIN y = Fields /\ Same(s, y, {"ann", "receipt"}) /\ y.receipt = n
        /\ y.ann = "held"
    BY <2>2, <2>3, FieldNames DEF Same
  <2>5. n \in Nat /\ n # 0
    BY <1>0
  <2> HIDE DEF n
  <2>6. /\ y.speech = s.speech /\ y.queue = s.queue /\ y.voiceGen = s.voiceGen
        /\ ~y.turn /\ ~y.complete
    BY <1>3, <2>1, <2>4, FieldNames DEF Same, MayAnnounce
  <2>7. AnnInv(y) /\ AnnOK(y)
    <3>1. Tracks(y, n) /\ ~DoneWell(y, n)
      BY <2>1, <2>6 DEF Tracks, DoneWell, Completes, OfVoice, At
    <3> QED
      BY <2>4, <2>5, <2>6, <3>1 DEF AnnInv, AnnOK
  <2>8. Plain(s, y)
    BY <2>3, <2>4, <2>7, AnnouncementSet
  <2>9. MicInv(s) /\ PttFits(s)
    <3>1. /\ s.ptt = x.ptt /\ s.complete = x.complete /\ s.turn = x.turn
          /\ s.suppressed = x.suppressed /\ s.overflow = x.overflow
      BY <2>1, FieldNames DEF Same
    <3> QED
      BY <1>0, <2>1, <3>1, MicKept DEF PttFits
  <2>10. AppInv(s)
    BY <2>1, <2>9, KeepsApp
  <2>11. Silent(x, s)
    <3>1. ASSUME NEW i \in 1..Len(s.speech), s.speech[i].kind = "agent"
          PROVE  \E j \in 1..Len(x.speech) : x.speech[j] = s.speech[i]
      <4>1. x.speech \in Seq(Utterances) /\ Len(x.speech) \in Nat
        BY <1>0 DEF SpeechOK
      <4> DEFINE u == [id |-> n, kind |-> "announcement"]
      <4>2. u.kind = "announcement" /\ s.speech = Append(x.speech, u)
        BY <2>1
      <4> HIDE DEF u
      <4>3. i = Len(x.speech) + 1 => s.speech[i] = u
        BY <4>1, <4>2
      <4>4. i \in 1..Len(x.speech)
        BY <3>1, <4>1, <4>2, <4>3
      <4>5. s.speech[i] = x.speech[i]
        BY <4>1, <4>2, <4>4
      <4> QED
        BY <4>4, <4>5
    <3>2. s.followListening = x.followListening
      BY <2>1, FieldNames DEF Same
    <3> QED
      BY <3>1, <3>2 DEF Silent, NoNew
  <2> QED
    BY <2>8, <2>10, <2>11, PlainIs, SilentIs
<1> QED
  BY <1>1, <1>2, <1>3 DEF PollAnnouncement

LEMMA EndRoundKeeps ==
  ASSUME AppInv(w), EndRound
  PROVE  AppInv(w') /\ Sound(w, w')
<1>1. PICK due \in BOOLEAN :
        LET Tailed(f) ==
              LET timers == RestartVoice(RestartAgent(TimeoutAgent(w, f), due, f), due, f)
              IN PollAnnouncement(timers, f)
        IN w' \in Outcomes(Tailed)
  BY DEF EndRound
<1> DEFINE Tailed(f) == PollAnnouncement(RestartVoice(RestartAgent(TimeoutAgent(w, f), due, f), due, f), f)
<1>2. PICK f : w' = Tailed(f) \/ w' \in Incident(Tailed(f))
  BY <1>1 DEF Outcomes
<1> DEFINE t == TimeoutAgent(w, f)
           a == RestartAgent(t, due, f)
           v == RestartVoice(a, due, f)
           z == PollAnnouncement(v, f)
<1>3. w' = z \/ w' \in Incident(z)
  BY <1>2
<1>4. AppInv(t) /\ Silent(w, t)
  BY TimeoutAgentIs
<1> HIDE DEF t, Tailed
<1>5. AppInv(a) /\ Silent(t, a)
  BY <1>4, RestartAgentIs
<1> HIDE DEF a
<1>6. AppInv(v) /\ Silent(a, v)
  BY <1>5, RestartVoiceIs
<1> HIDE DEF v
<1>7. AppInv(z) /\ Silent(v, z)
  BY <1>6, PollAnnouncementIs
<1> HIDE DEF z
<1>8. Sound(w, z)
  BY <1>4, <1>5, <1>6, <1>7, SilentIs
<1> QED
  BY <1>3, <1>7, <1>8, OutcomeIs

--------------------------------------------------------------------------------
(* The user and the agent client                                            *)

\* A command of the user is one event of the UI.
LEMMA CommandKeeps ==
  ASSUME AppInv(w), Command
  PROVE  AppInv(w') /\ Sound(w, w')
<1>1. PICK x \in Incident(w) : \E t \in UiTypes, b \in BOOLEAN :
        w' = PushAll(x, <<Event("ui", 0, t, 0, b)>>)
  <2> USE DEF UiTypes
  <2>1. PICK x \in Incident(w),
             c \in {<<"SET_PAUSED", TRUE>>, <<"SET_PAUSED", FALSE>>,
                    <<"PUSH_TO_TALK", FALSE>>, <<"CANCEL", FALSE>>,
                    <<"SETTINGS", FALSE>>, <<"EXIT", FALSE>>} :
          w' = PushAll(x, <<Event("ui", 0, c[1], 0, c[2])>>)
    BY DEF Command
  <2>2. \A t \in UiTypes : \A b \in BOOLEAN :
          c = <<t, b>> => c[1] \in UiTypes /\ c[2] \in BOOLEAN
    <3> HIDE DEF UiTypes
    <3> QED
      OBVIOUS
  <2>3. c[1] \in UiTypes /\ c[2] \in BOOLEAN
    <3>1. \/ c = <<"SET_PAUSED", TRUE>> \/ c = <<"SET_PAUSED", FALSE>>
          \/ c = <<"PUSH_TO_TALK", FALSE>> \/ c = <<"CANCEL", FALSE>>
          \/ c = <<"SETTINGS", FALSE>> \/ c = <<"EXIT", FALSE>>
      OBVIOUS
    <3> QED
      BY <2>2, <3>1
  <2> QED
    BY <2>1, <2>3
<1>2. PICK t \in UiTypes, b \in BOOLEAN : w' = PushAll(x, <<Event("ui", 0, t, 0, b)>>)
  BY <1>1
<1> DEFINE e == Event("ui", 0, t, 0, b)
           y == w'
<1>3. e \in Events /\ e.from = "ui"
  BY EventIn, EventFields
<1>4. Plain(w, x) /\ Base(x)
  BY IncidentIs DEF AppInv, Plain, Keeps
<1>5. /\ DOMAIN x = Fields /\ QueueOK(x) /\ CountersOK(x) /\ AgOK(x) /\ CoreOK(x)
  BY <1>4, SomeFields
<1>6. y = PushAll(x, <<e>>)
  BY <1>2
<1> HIDE DEF e, y
<1>7. /\ DOMAIN y = Fields /\ Same(x, y, {"queue", "overflow"}) /\ QueueOK(y)
      /\ Extends(x, y, {e})
  BY <1>3, <1>5, <1>6, PushOneIs, OneExtends
<1>8. /\ Same(x, y, Idle) /\ SameCounts(x, y) /\ y.agent = x.agent /\ y.ag = x.ag
      /\ y.core = x.core /\ y.speech = x.speech
      /\ y.complete = x.complete /\ y.turn = x.turn /\ y.suppressed = x.suppressed
      /\ y.followListening = x.followListening
      /\ y.voice = x.voice /\ y.voiceReady = x.voiceReady /\ y.paused = x.paused
      /\ y.gated = x.gated /\ y.ptt = x.ptt
  BY <1>7, FieldNames DEF Same, SameCounts, Idle
<1>9. Still(x, y)
  BY <1>5, <1>7, <1>8, SameCountsOK DEF Still, AgOK, CoreOK, SameSpeech, SameCounts
<1>10. Harmless(x, {e}) /\ Reports(x, {e})
  BY <1>3 DEF Harmless, Reports
<1>11. Keeps(x, y)
  BY <1>4, <1>7, <1>8, <1>9, <1>10, StillKeeps DEF SameCounts
<1>12. Plain(x, y)
  BY <1>7, <1>8, <1>11 DEF Plain, SameMic, SameCounts, Extends
<1>13. AppInv(y) /\ Silent(w, y)
  BY <1>4, <1>12, PlainIs
<1> QED
  BY <1>13, SilentIs DEF y

\* A step of the agent client that pushes one event.
AgentSays(x, y, e) ==
  /\ DOMAIN y = Fields /\ Same(x, y, {"ag", "queue", "overflow"}) /\ QueueOK(y) /\ AgOK(y)
  /\ Extends(x, y, {e}) /\ Len(y.queue) <= Len(x.queue) + 1
  /\ e.from = "agent" /\ e.gen = x.agentGen /\ x.agent

\* An event of the agent that neither is output nor ends a turn.
LEMMA AgentSaysIs ==
  ASSUME NEW x, AppInv(x), NEW y, NEW e, AgentSays(x, y, e), TurnInv(y), EndInv(y)
  PROVE  AppInv(y) /\ Sound(x, y)
<1>0. /\ DOMAIN x = Fields /\ QueueOK(x) /\ CountersOK(x) /\ AgOK(x) /\ CoreOK(x) /\ Base(x)
  BY SomeFields DEF AppInv
<1>1. /\ DOMAIN y = Fields /\ Same(x, y, {"ag", "queue", "overflow"}) /\ QueueOK(y) /\ AgOK(y)
      /\ Extends(x, y, {e})
  BY DEF AgentSays
<1>2. /\ Same(x, y, Idle) /\ SameCounts(x, y) /\ y.agent = x.agent
      /\ y.core = x.core /\ y.speech = x.speech
      /\ y.complete = x.complete /\ y.turn = x.turn /\ y.suppressed = x.suppressed
      /\ y.followListening = x.followListening
      /\ y.voice = x.voice /\ y.voiceReady = x.voiceReady /\ y.paused = x.paused
      /\ y.gated = x.gated /\ y.ptt = x.ptt
  BY <1>1, FieldNames DEF Same, SameCounts, Idle
<1>3. Still(x, y)
  BY <1>0, <1>1, <1>2, SameCountsOK DEF Still, CoreOK, SameSpeech, SameCounts
<1>4. Reports(x, {e})
  BY DEF Reports, AgentSays
<1>5. Keeps(x, y)
  BY <1>0, <1>1, <1>3, <1>4, StillButTurn
<1>6. Plain(x, y)
  BY <1>1, <1>2, <1>5 DEF Plain, SameMic, SameCounts, Extends
<1> QED
  BY <1>6, PlainIs, SilentIs

\* It changes the state of the agent, and pushes an event.
LEMMA AgentSaysFrom ==
  ASSUME NEW x, AppInv(x), x.ag.st # "none", NEW z, DOMAIN z = Fields, Same(x, z, {"ag"}),
         AgOK(z), NEW type \in AgentTypes, NEW flag \in BOOLEAN,
         NEW y, y = FromAgent(z, type, flag)
  PROVE  LET e == Event("agent", x.agentGen, type, z.ag.turn, flag)
         IN AgentSays(x, y, e) /\ y.ag = z.ag /\ e.type = type /\ e.flag = flag
<1> DEFINE e == Event("agent", x.agentGen, type, z.ag.turn, flag)
<1>0. QueueOK(x) /\ x.agentGen \in Nat /\ TurnInv(x)
  BY SomeFields DEF AppInv
<1>1. z.queue = x.queue /\ z.overflow = x.overflow /\ z.agentGen = x.agentGen
  BY FieldNames DEF Same
<1>2. e.from = "agent" /\ e.gen = x.agentGen /\ e.type = type /\ e.flag = flag
  BY EventFields
<1>3. e = Event("agent", z.agentGen, type, z.ag.turn, flag)
  BY <1>1
<1> HIDE DEF e
<1>4. QueueOK(z)
  BY <1>0, <1>1 DEF QueueOK
<1>5. /\ DOMAIN y = Fields /\ Same(z, y, {"queue", "overflow"}) /\ QueueOK(y)
      /\ Extends(z, y, {e}) /\ Len(y.queue) <= Len(z.queue) + 1
  BY <1>0, <1>1, <1>3, <1>4, FromAgentIs
<1>6. Same(x, y, {"ag", "queue", "overflow"}) /\ y.ag = z.ag
  BY <1>5, FieldNames DEF Same
<1>7. Extends(x, y, {e}) /\ Len(y.queue) <= Len(x.queue) + 1
  BY <1>1, <1>5 DEF Extends, At
<1>8. AgOK(y)
  BY <1>6 DEF AgOK
<1>9. x.agent
  BY <1>0 DEF TurnInv
<1>10. AgentSays(x, y, e)
  BY <1>2, <1>5, <1>6, <1>7, <1>8, <1>9 DEF AgentSays
<1> QED
  BY <1>2, <1>6, <1>10 DEF e

\* What it says before a turn, and the news of its acceptance.
LEMMA AgentReports ==
  ASSUME NEW x, AppInv(x), NEW y, NEW e, AgentSays(x, y, e),
         e.type \in {"READY", "ACCEPTED"}, y.ag.st # "none",
         y.ag.st = "active" <=> x.ag.st = "active"
  PROVE  AppInv(y) /\ Sound(x, y)
<1>0. QueueOK(x) /\ x.agentGen \in Nat /\ TurnInv(x) /\ EndInv(x)
  BY SomeFields DEF AppInv
<1>1. /\ y.agentGen = x.agentGen /\ y.agent = x.agent /\ y.turn = x.turn
      /\ y.refused = x.refused
  BY FieldNames DEF AgentSays, Same
<1>2. Harmless(x, {e})
  BY DEF Harmless, AgentSays, OfAgent, Ends, Outputs, Over
<1>3. /\ EndComes(y) <=> EndComes(x)
      /\ OutputComes(y) <=> OutputComes(x)
      /\ OverComes(x) => OverComes(y)
      /\ EndIsLast(y) /\ AgentGens(y) /\ (x.overflow => y.overflow)
  BY <1>0, <1>1, <1>2, TurnPush DEF AgentSays, Extends
<1>4. x.agent /\ x.ag.st # "none"
  BY <1>0 DEF AgentSays, TurnInv
<1>5. TurnInv(y) /\ EndInv(y)
  BY <1>0, <1>1, <1>3, <1>4 DEF TurnInv, EndInv
<1> QED
  BY <1>5, AgentSaysIs

\* What is known of the queue of an active agent when it says something more.
LEMMA AgentQueue ==
  ASSUME NEW x, AppInv(x), x.ag.st = "active", NEW y, NEW e, AgentSays(x, y, e)
  PROVE  /\ x.turn /\ ~EndComes(x) /\ ~x.refused /\ y.turn /\ y.agent /\ y.agentGen = x.agentGen
         /\ y.refused = x.refused /\ AgentGens(y)
         /\ \A i \in At(y) : Ends(y, y.queue[i]) => i = Len(x.queue) + 1 /\ y.queue[i] = e
         /\ \A i \in At(y) : i <= Len(x.queue) + 1
         /\ y.overflow \/ \E i \in At(y) : y.queue[i] = e
<1>0. QueueOK(x) /\ x.agentGen \in Nat /\ TurnInv(x)
  BY SomeFields DEF AppInv
<1>1. /\ y.agentGen = x.agentGen /\ y.agent = x.agent /\ y.turn = x.turn /\ x.agent
      /\ y.refused = x.refused
  BY FieldNames DEF AgentSays, Same
<1>2. x.turn /\ ~EndComes(x) /\ ~x.refused
  BY <1>0 DEF TurnInv
<1>3. /\ Len(y.queue) \in Nat /\ Len(x.queue) \in Nat
      /\ Len(y.queue) <= Len(x.queue) + 1
      /\ \A i \in At(x) : y.queue[i] = x.queue[i]
      /\ \A i \in At(y) : i \in At(x) \/ (i > Len(x.queue) /\ y.queue[i] = e)
      /\ y.overflow \/ \E i \in At(y) : i > Len(x.queue) /\ y.queue[i] = e
  BY <1>0 DEF AgentSays, Extends, QueueOK
<1>4. \A i \in At(y) : i <= Len(x.queue) + 1
  BY <1>3 DEF At
<1>5. ASSUME NEW i \in At(y), Ends(y, y.queue[i])
      PROVE  i = Len(x.queue) + 1 /\ y.queue[i] = e
  <2>1. i \notin At(x)
    BY <1>1, <1>2, <1>3, <1>5 DEF EndComes, Ends, Over, OfAgent
  <2>2. i > Len(x.queue) /\ y.queue[i] = e
    BY <1>3, <2>1
  <2> QED
    BY <1>3, <1>4, <2>2 DEF At
<1>6. AgentGens(y)
  BY <1>0, <1>1, <1>3 DEF AgentGens, TurnInv, AgentSays
<1> QED
  BY <1>1, <1>2, <1>3, <1>4, <1>5, <1>6

LEMMA AgentReadyKeeps ==
  ASSUME AppInv(w), AgentReady
  PROVE  AppInv(w') /\ Sound(w, w')
<1> DEFINE z == [w EXCEPT !.ag.st = "ready"]
<1>0. DOMAIN w = Fields /\ AgOK(w)
  BY SomeFields DEF AppInv
<1>1. PICK configured \in BOOLEAN : w' = FromAgent(z, "READY", configured)
  BY DEF AgentReady
<1>2. w.ag.st = "starting"
  BY DEF AgentReady
<1>3. /\ DOMAIN z = Fields /\ Same(w, z, {"ag"}) /\ z.ag.st = "ready" /\ z.ag.turn = w.ag.turn
      /\ DOMAIN z.ag = AgFields
  BY <1>0, FieldNames, AgNames DEF Same, AgOK
<1> HIDE DEF z
<1>4. AgOK(z)
  BY <1>0, <1>3 DEF AgOK
<1> DEFINE e == Event("agent", w.agentGen, "READY", z.ag.turn, configured)
<1>5. "READY" \in AgentTypes
  BY DEF AgentTypes
<1>6. AgentSays(w, w', e) /\ w'.ag = z.ag /\ e.type = "READY"
  BY <1>1, <1>2, <1>3, <1>4, <1>5, AgentSaysFrom
<1> HIDE DEF e
<1> QED
  BY <1>2, <1>3, <1>6, AgentReports

LEMMA AgentAcceptsKeeps ==
  ASSUME AppInv(w), AgentAccepts
  PROVE  AppInv(w') /\ Sound(w, w')
<1>0. DOMAIN w = Fields /\ AgOK(w)
  BY SomeFields DEF AppInv
<1>1. PICK pcm \in BOOLEAN :
        w' = FromAgent([w EXCEPT !.ag.accepted = TRUE, !.ag.pcm = pcm], "ACCEPTED", pcm)
  BY DEF AgentAccepts
<1> DEFINE z == [w EXCEPT !.ag.accepted = TRUE, !.ag.pcm = pcm]
           c == [[w.ag EXCEPT !.accepted = TRUE] EXCEPT !.pcm = pcm]
<1>2. w.ag.st = "active"
  BY DEF AgentAccepts
<1>3. DOMAIN z = Fields /\ Same(w, z, {"ag"}) /\ z.ag = c
  BY <1>0, FieldNames DEF Same
<1>4. c.st = w.ag.st /\ c.turn = w.ag.turn /\ DOMAIN c = AgFields
  BY <1>0, AgNames DEF AgOK
<1>4a. w' = FromAgent(z, "ACCEPTED", pcm)
  BY <1>1
<1> HIDE DEF z, c
<1>5. AgOK(z)
  BY <1>0, <1>3, <1>4 DEF AgOK
<1> DEFINE e == Event("agent", w.agentGen, "ACCEPTED", z.ag.turn, pcm)
<1>6. "ACCEPTED" \in AgentTypes
  BY DEF AgentTypes
<1>7. AgentSays(w, w', e) /\ w'.ag = z.ag /\ e.type = "ACCEPTED"
  BY <1>2, <1>3, <1>4a, <1>5, <1>6, AgentSaysFrom
<1> HIDE DEF e
<1> QED
  BY <1>2, <1>3, <1>4, <1>7, AgentReports

LEMMA AgentOutputKeeps ==
  ASSUME AppInv(w), AgentOutput
  PROVE  AppInv(w') /\ Sound(w, w')
<1> DEFINE z == [w EXCEPT !.ag.said = @ + 1]
<1>0. DOMAIN w = Fields /\ AgOK(w) /\ QueueOK(w)
  BY SomeFields DEF AppInv
<1>1. PICK type \in {"DELTA", "PCM"}, flag \in BOOLEAN : w' = FromAgent(z, type, flag)
  <2>1. PICK o \in {<<"DELTA", TRUE>>, <<"DELTA", FALSE>>}
                \union IF w.ag.pcm THEN {<<"PCM", FALSE>>} ELSE {} :
          w' = FromAgent(z, o[1], o[2])
    BY DEF AgentOutput
  <2> HIDE DEF z
  <2>2. o[1] \in {"DELTA", "PCM"} /\ o[2] \in BOOLEAN
    <3>1. \A t \in {"DELTA", "PCM"} : \A b \in BOOLEAN :
            o = <<t, b>> => o[1] \in {"DELTA", "PCM"} /\ o[2] \in BOOLEAN
      OBVIOUS
    <3>2. o = <<"DELTA", TRUE>> \/ o = <<"DELTA", FALSE>> \/ o = <<"PCM", FALSE>>
      OBVIOUS
    <3> QED
      BY <3>1, <3>2
  <2> QED
    BY <2>1, <2>2
<1>2. w.ag.st = "active"
  BY DEF AgentOutput
<1>3. /\ DOMAIN z = Fields /\ Same(w, z, {"ag"}) /\ z.ag.st = w.ag.st /\ z.ag.turn = w.ag.turn
      /\ DOMAIN z.ag = AgFields
  BY <1>0, FieldNames, AgNames DEF Same, AgOK
<1> HIDE DEF z
<1>4. AgOK(z) /\ type \in AgentTypes
  BY <1>0, <1>3 DEF AgOK, AgentTypes
<1> DEFINE e == Event("agent", w.agentGen, type, z.ag.turn, flag)
           y == w'
<1>6. AgentSays(w, y, e) /\ y.ag = z.ag /\ e.type = type
  BY <1>1, <1>2, <1>3, <1>4, AgentSaysFrom
<1> HIDE DEF e, y
<1>7. /\ w.turn /\ ~w.refused /\ y.turn /\ y.agent /\ y.agentGen = w.agentGen
      /\ y.refused = w.refused /\ AgentGens(y)
      /\ \A i \in At(y) : Ends(y, y.queue[i]) => y.queue[i] = e
  BY <1>2, <1>6, AgentQueue
<1>8. \A i \in At(y) : ~Ends(y, y.queue[i])
  BY <1>6, <1>7 DEF Ends, Over
<1>9. ~EndComes(y) /\ EndIsLast(y)
  BY <1>8 DEF EndComes, EndIsLast
<1>10. TurnInv(y) /\ EndInv(y)
  BY <1>2, <1>3, <1>6, <1>7, <1>9 DEF TurnInv, EndInv
<1> QED
  BY <1>6, <1>10, AgentSaysIs DEF y

\* The end of a turn is the last that is said of it.
LEMMA AgentEndsKeeps ==
  ASSUME AppInv(w), AgentEnds
  PROVE  AppInv(w') /\ Sound(w, w')
<1>0. DOMAIN w = Fields /\ AgOK(w) /\ QueueOK(w)
  BY SomeFields DEF AppInv
<1>1. PICK type \in {"COMPLETE", "ERROR"} :
        w' = [FromAgent(w, type, type = "COMPLETE" /\ w.ag.cancel)
                EXCEPT !.ag = [NoAgent EXCEPT !.st = "ready"]]
  BY DEF AgentEnds
<1> DEFINE flag == type = "COMPLETE" /\ w.ag.cancel
           p == FromAgent(w, type, flag)
           r == [NoAgent EXCEPT !.st = "ready"]
           e == Event("agent", w.agentGen, type, w.ag.turn, flag)
           y == w'
<1>2. w.ag.st = "active"
  BY DEF AgentEnds
<1>3. Same(w, w, {"ag"}) /\ type \in AgentTypes /\ flag \in BOOLEAN
  BY DEF Same, AgentTypes
<1>4. type = "ERROR" => ~flag
  OBVIOUS
<1>5. y = [p EXCEPT !.ag = r]
  BY <1>1
<1>6. r.st = "ready" /\ r.turn = 0 /\ DOMAIN r = AgFields
  BY AgNames DEF AgFields, NoAgent
<1> HIDE DEF r, y, flag
<1>7. AgentSays(w, p, e) /\ e.type = type /\ e.flag = flag
  BY <1>0, <1>2, <1>3, AgentSaysFrom
<1> HIDE DEF p, e
<1>8. DOMAIN y = Fields /\ Same(p, y, {"ag"}) /\ y.ag = r
  BY <1>5, <1>7, FieldNames DEF AgentSays, Same
<1>9. /\ Same(w, y, {"ag", "queue", "overflow"}) /\ y.queue = p.queue /\ y.overflow = p.overflow
      /\ y.agentGen = p.agentGen /\ y.agent = p.agent /\ y.turn = p.turn
      /\ y.refused = p.refused
  BY <1>7, <1>8, FieldNames DEF AgentSays, Same
<1>10. AgentSays(w, y, e)
  <2>1. QueueOK(y) /\ AgOK(y)
    BY <1>6, <1>7, <1>8, <1>9 DEF AgentSays, QueueOK, AgOK
  <2>2. Extends(w, y, {e}) /\ Len(y.queue) <= Len(w.queue) + 1
    BY <1>7, <1>9 DEF AgentSays, Extends, At
  <2> QED
    BY <1>7, <1>8, <1>9, <2>1, <2>2 DEF AgentSays
<1>11. /\ w.turn /\ ~w.refused /\ y.turn /\ y.agent /\ y.agentGen = w.agentGen
       /\ y.refused = w.refused /\ AgentGens(y)
       /\ \A i \in At(y) : Ends(y, y.queue[i]) => i = Len(w.queue) + 1 /\ y.queue[i] = e
       /\ \A i \in At(y) : i <= Len(w.queue) + 1
       /\ y.overflow \/ \E i \in At(y) : y.queue[i] = e
  BY <1>2, <1>10, AgentQueue
<1>12. EndIsLast(y)
  <2>1. Len(w.queue) \in Nat /\ \A i \in At(y) : i \in Nat
    BY <1>0 DEF QueueOK, At
  <2>2. ASSUME NEW i \in At(y), NEW j \in At(y), i < j, Ends(y, y.queue[i]) PROVE FALSE
    BY <1>11, <2>1, <2>2
  <2> QED
    BY <2>2 DEF EndIsLast
<1>13. EndInv(y)
  <2>1. Over(y, e)
    BY <1>1, <1>7, <1>10, <1>11 DEF Over, OfAgent, AgentSays
  <2> QED
    BY <1>11, <2>1 DEF EndInv, OverComes
<1>14. TurnInv(y)
  BY <1>6, <1>8, <1>11, <1>12 DEF TurnInv
<1> QED
  BY <1>10, <1>13, <1>14, AgentSaysIs DEF y

LEMMA AgentFailsKeeps ==
  ASSUME AppInv(w), AgentFails
  PROVE  AppInv(w') /\ Sound(w, w')
<1>1. PICK x \in Incident(w) : w' = TransportFails(x)
  BY DEF AgentFails
<1>2. Plain(w, x) /\ Same(w, x, {"incidents"}) /\ Base(x)
  BY IncidentIs DEF AppInv, Plain, Keeps
<1> DEFINE y == w'
<1>3. y = TransportFails(x)
  BY <1>1
<1> HIDE DEF y
<1>4. x.ag.st # "none"
  BY <1>2, FieldNames DEF Same, AgentFails
<1>5. Keeps(x, y) /\ Same(x, y, {"ag", "queue", "overflow"})
  BY <1>2, <1>3, <1>4, TransportFailsIs
<1>6. Plain(x, y)
  BY <1>5, FieldNames DEF Plain, Same, SameMic, Keeps
<1>7. AppInv(y) /\ Silent(w, y)
  BY <1>2, <1>6, PlainIs
<1> QED
  BY <1>7, SilentIs DEF y

--------------------------------------------------------------------------------
(* The voice core                                                           *)

\* A step of the core that leaves its speech, its pause and its failure alone.
LEMMA CoreStepIs ==
  ASSUME NEW x, Base(x), x.voice, NEW c, NEW y, y = [x EXCEPT !.core = c],
         DOMAIN c = CoreFields, c.mode \in {"wake", "listening", "follow", "paused"},
         c.active = x.core.active, c.waiting = x.core.waiting, c.paused = x.core.paused,
         x.core.failed => c.failed
  PROVE  Plain(x, y) /\ Base(y) /\ y.voice
<1>0. DOMAIN x = Fields /\ CountersOK(x) /\ AgOK(x) /\ CoreOK(x)
  BY SomeFields
<1>1. DOMAIN y = Fields /\ Same(x, y, {"core"}) /\ y.core = c
  BY <1>0, FieldNames DEF Same
<1>2. /\ Same(x, y, Idle \ {"queue", "overflow"}) /\ SameCounts(x, y)
      /\ y.agent = x.agent /\ y.ag = x.ag /\ y.speech = x.speech
      /\ y.complete = x.complete /\ y.turn = x.turn /\ y.suppressed = x.suppressed
      /\ y.followListening = x.followListening /\ y.overflow = x.overflow
      /\ y.voice = x.voice /\ y.voiceReady = x.voiceReady /\ y.paused = x.paused
      /\ y.gated = x.gated /\ y.ptt = x.ptt
  BY <1>1, FieldNames DEF Same, SameCounts, Idle
<1>3. AgOK(y) /\ CoreOK(y) /\ CountersOK(y) /\ SameSpeech(x, y)
  BY <1>0, <1>1, <1>2, SameCountsOK DEF AgOK, CoreOK, SameSpeech, SameCounts
<1>4. Keeps(x, y)
  BY <1>1, <1>2, <1>3, QuietKeeps DEF SameCounts
<1> QED
  BY <1>1, <1>2, <1>4 DEF Plain, SameMic, SameCounts, Keeps

\* An event of the core between two looks at its requests.
LEMMA SaidIs ==
  ASSUME NEW x, Base(x), x.voice, NEW type \in VoiceTypes \ {"SPEECH_COMPLETE"},
         NEW y, y = Said(x, type)
  PROVE  Plain(x, y) /\ Base(y) /\ y.voice
<1>1. y = FromVoice(x, type, 0, FALSE)
  BY DEF Said
<1>2. Keeps(x, y) /\ Same(x, y, {"queue", "overflow"})
  BY <1>1, FromVoiceKeeps
<1> QED
  BY <1>2, FieldNames DEF Plain, Same, SameMic, Keeps

LEMMA PlainStep ==
  ASSUME AppInv(w), NEW y, Plain(w, y)
  PROVE  AppInv(y) /\ Sound(w, y)
BY PlainIs, SilentIs

\* Each step of the voice core.
LEMMA CoreControlKeeps ==
  ASSUME AppInv(w), CoreControl
  PROVE  AppInv(w') /\ Sound(w, w')
<1> DEFINE c == w.core
           home == IF c.paused THEN "paused" ELSE "wake"
           quiet == [c EXCEPT !.cancel = FALSE, !.mode = home]
           listens == [c EXCEPT !.ptt = FALSE, !.mode = "listening"]
           follows == [c EXCEPT !.follow = FALSE, !.mode = "follow"]
<1>0. DOMAIN w = Fields /\ CoreOK(w) /\ Base(w) /\ w.voice
  BY SomeFields DEF AppInv, CoreControl
<1>1. \/ w' = Said(Core(quiet), "IDLE")
      \/ w' = Core(quiet)
      \/ w' = Said(Core(listens), "LISTENING")
      \/ w' = Said(Core(follows), "LISTENING")
  BY DEF CoreControl
<1>2. /\ DOMAIN quiet = CoreFields /\ quiet.mode = home /\ quiet.active = c.active
      /\ quiet.waiting = c.waiting /\ quiet.paused = c.paused /\ quiet.failed = c.failed
  BY <1>0, CoreNames DEF CoreOK
<1>3. /\ DOMAIN listens = CoreFields /\ listens.mode = "listening" /\ listens.active = c.active
      /\ listens.waiting = c.waiting /\ listens.paused = c.paused
      /\ listens.failed = c.failed
  BY <1>0, CoreNames DEF CoreOK
<1>4. /\ DOMAIN follows = CoreFields /\ follows.mode = "follow" /\ follows.active = c.active
      /\ follows.waiting = c.waiting /\ follows.paused = c.paused
      /\ follows.failed = c.failed
  BY <1>0, CoreNames DEF CoreOK
<1>5. home \in {"wake", "paused"}
  OBVIOUS
<1> HIDE DEF quiet, listens, follows, home
<1>6. ASSUME NEW d, d = quiet \/ d = listens \/ d = follows
      PROVE  Plain(w, Core(d)) /\ Base(Core(d)) /\ Core(d).voice
  <2>1. Core(d) = [w EXCEPT !.core = d]
    BY DEF Core
  <2>2. /\ DOMAIN d = CoreFields /\ d.mode \in {"wake", "listening", "follow", "paused"}
        /\ d.active = w.core.active /\ d.waiting = w.core.waiting /\ d.paused = w.core.paused
        /\ d.failed = w.core.failed
    BY <1>2, <1>3, <1>4, <1>5, <1>6
  <2> QED
    BY <1>0, <2>1, <2>2, CoreStepIs
<1>7. "IDLE" \in VoiceTypes \ {"SPEECH_COMPLETE"} /\ "LISTENING" \in VoiceTypes \ {"SPEECH_COMPLETE"}
  BY DEF VoiceTypes
<1>8. Plain(w, w')
  <2>1. CASE w' = Said(Core(quiet), "IDLE")
    <3>1. Plain(w, Core(quiet)) /\ Base(Core(quiet)) /\ Core(quiet).voice
      BY <1>6
    <3>2. Plain(Core(quiet), w')
      BY <1>7, <2>1, <3>1, SaidIs
    <3> QED
      BY <3>1, <3>2, PlainIs
  <2>2. CASE w' = Core(quiet)
    BY <1>6, <2>2
  <2>3. CASE w' = Said(Core(listens), "LISTENING")
    <3>1. Plain(w, Core(listens)) /\ Base(Core(listens)) /\ Core(listens).voice
      BY <1>6
    <3>2. Plain(Core(listens), w')
      BY <1>7, <2>3, <3>1, SaidIs
    <3> QED
      BY <3>1, <3>2, PlainIs
  <2>4. CASE w' = Said(Core(follows), "LISTENING")
    <3>1. Plain(w, Core(follows)) /\ Base(Core(follows)) /\ Core(follows).voice
      BY <1>6
    <3>2. Plain(Core(follows), w')
      BY <1>7, <2>4, <3>1, SaidIs
    <3> QED
      BY <3>1, <3>2, PlainIs
  <2> QED
    BY <1>1, <2>1, <2>2, <2>3, <2>4
<1> QED
  BY <1>8, PlainStep

LEMMA CoreHearsKeeps ==
  ASSUME AppInv(w), CoreHears
  PROVE  AppInv(w') /\ Sound(w, w')
<1> DEFINE at(mode) == Core([w.core EXCEPT !.mode = mode])
<1>0. DOMAIN w = Fields /\ CoreOK(w) /\ Base(w) /\ w.voice
  BY SomeFields DEF AppInv, CoreHears
<1>1. \/ \E e \in {at("listening")} \union Incident(Said(at("listening"), "ERROR")) :
           w' = Said(Said(e, "WAKE"), "LISTENING")
      \/ w' = Said(at("listening"), "LISTENING")
      \/ w' = Said(at("wake"), "IDLE")
      \/ w' = Said(Said(at("wake"), "TRANSCRIPT"), "IDLE")
  BY DEF CoreHears
<1>2. ASSUME NEW mode \in {"wake", "listening"}
      PROVE  Plain(w, at(mode)) /\ Base(at(mode)) /\ at(mode).voice
  <2> DEFINE d == [w.core EXCEPT !.mode = mode]
  <2>1. at(mode) = [w EXCEPT !.core = d]
    BY DEF Core
  <2>2. /\ DOMAIN d = CoreFields /\ d.mode = mode
        /\ d.active = w.core.active /\ d.waiting = w.core.waiting /\ d.paused = w.core.paused
        /\ d.failed = w.core.failed
    BY <1>0, CoreNames DEF CoreOK
  <2> HIDE DEF d
  <2> QED
    BY <1>0, <2>1, <2>2, CoreStepIs
<1> DEFINE l == at("listening")
           k == at("wake")
<1>3. Plain(w, l) /\ Base(l) /\ l.voice /\ Plain(w, k) /\ Base(k) /\ k.voice
  BY <1>2
<1>4. \/ \E e \in {l} \union Incident(Said(l, "ERROR")) : w' = Said(Said(e, "WAKE"), "LISTENING")
      \/ w' = Said(l, "LISTENING")
      \/ w' = Said(k, "IDLE")
      \/ w' = Said(Said(k, "TRANSCRIPT"), "IDLE")
  BY <1>1
<1> HIDE DEF l, k, at
<1>5. {"IDLE", "LISTENING", "WAKE", "ERROR", "TRANSCRIPT"} \subseteq VoiceTypes \ {"SPEECH_COMPLETE"}
  BY DEF VoiceTypes
<1>6. ASSUME NEW x, Base(x), x.voice, Plain(w, x),
             NEW type \in {"IDLE", "LISTENING", "WAKE", "ERROR", "TRANSCRIPT"}
      PROVE  Plain(w, Said(x, type)) /\ Base(Said(x, type)) /\ Said(x, type).voice
  <2> DEFINE y == Said(x, type)
  <2>1. Plain(x, y) /\ Base(y) /\ y.voice
    BY <1>5, <1>6, SaidIs
  <2> HIDE DEF y
  <2>2. Plain(w, y)
    BY <1>6, <2>1, PlainIs
  <2> QED
    BY <2>1, <2>2 DEF y
<1>7. CASE \E e \in {l} \union Incident(Said(l, "ERROR")) : w' = Said(Said(e, "WAKE"), "LISTENING")
  <2>1. PICK e \in {l} \union Incident(Said(l, "ERROR")) : w' = Said(Said(e, "WAKE"), "LISTENING")
    BY <1>7
  <2>2. Plain(w, e) /\ Base(e) /\ e.voice
    <3>1. CASE e = l
      BY <1>3, <3>1
    <3>2. CASE e \in Incident(Said(l, "ERROR"))
      <4> DEFINE m == Said(l, "ERROR")
      <4>1. Plain(w, m) /\ Base(m) /\ m.voice
        BY <1>3, <1>6
      <4> HIDE DEF m
      <4>2. Plain(m, e)
        BY <3>2, <4>1, IncidentIs DEF m
      <4>3. Plain(w, e)
        BY <4>1, <4>2, PlainIs
      <4> QED
        BY <4>1, <4>2, <4>3 DEF Plain, Keeps, SameMic
    <3> QED
      BY <2>1, <3>1, <3>2
  <2>3. /\ Plain(w, Said(e, "WAKE")) /\ Base(Said(e, "WAKE")) /\ Said(e, "WAKE").voice
    BY <1>6, <2>2
  <2>4. Plain(w, w')
    BY <1>6, <2>1, <2>3
  <2> QED
    BY <2>4, PlainStep
<1>8. CASE w' = Said(l, "LISTENING")
  <2>1. Plain(w, w')
    BY <1>3, <1>6, <1>8
  <2> QED
    BY <2>1, PlainStep
<1>9. CASE w' = Said(k, "IDLE")
  <2>1. Plain(w, w')
    BY <1>3, <1>6, <1>9
  <2> QED
    BY <2>1, PlainStep
<1>10. CASE w' = Said(Said(k, "TRANSCRIPT"), "IDLE")
  <2>1. /\ Plain(w, Said(k, "TRANSCRIPT")) /\ Base(Said(k, "TRANSCRIPT"))
        /\ Said(k, "TRANSCRIPT").voice
    BY <1>3, <1>6
  <2>2. Plain(w, w')
    BY <1>6, <1>10, <2>1
  <2> QED
    BY <2>2, PlainStep
<1> QED
  BY <1>4, <1>7, <1>8, <1>9, <1>10

LEMMA CoreFailsKeeps ==
  ASSUME AppInv(w), CoreFails
  PROVE  AppInv(w') /\ Sound(w, w')
<1>1. PICK x \in Incident(w) : w' = Said([x EXCEPT !.core.failed = TRUE], "ERROR")
  BY DEF CoreFails
<1>2. Plain(w, x) /\ Same(w, x, {"incidents"}) /\ Base(x) /\ x.voice
  <2>1. Plain(w, x) /\ Same(w, x, {"incidents"})
    BY IncidentIs DEF AppInv
  <2>2. w.voice
    BY DEF CoreFails
  <2> QED
    BY <2>1, <2>2 DEF Plain, Keeps, SameMic
<1>3. DOMAIN x = Fields /\ CoreOK(x)
  BY <1>2, SomeFields
<1> DEFINE d == [x.core EXCEPT !.failed = TRUE]
           z == [x EXCEPT !.core.failed = TRUE]
           u == [x EXCEPT !.core = d]
           y == w'
<1>4. /\ DOMAIN d = CoreFields /\ d.mode = x.core.mode /\ d.failed
      /\ d.active = x.core.active /\ d.waiting = x.core.waiting /\ d.paused = x.core.paused
  BY <1>3, CoreNames DEF CoreOK
<1>5. z = u /\ y = Said(z, "ERROR")
  BY <1>1
<1> HIDE DEF z, y, d
<1>6. Plain(x, u) /\ Base(u) /\ u.voice
  <2>1. d.mode \in {"wake", "listening", "follow", "paused"}
    BY <1>3, <1>4 DEF CoreOK
  <2> QED
    BY <1>2, <1>4, <2>1, CoreStepIs
<1> HIDE DEF u
<1>7. "ERROR" \in VoiceTypes \ {"SPEECH_COMPLETE"}
  BY DEF VoiceTypes
<1>8. Plain(u, y)
  BY <1>5, <1>6, <1>7, SaidIs
<1>9. Plain(w, y)
  BY <1>2, <1>6, <1>8, PlainIs
<1> QED
  BY <1>9, PlainStep DEF y

\* What is pushed in two steps.
LEMMA ExtendsTwice ==
  ASSUME NEW x, NEW y, NEW z, NEW m, NEW n, QueueOK(x), QueueOK(y), QueueOK(z),
         Extends(x, y, m), Extends(y, z, n)
  PROVE  Extends(x, z, m \union n)
<1>1. Len(x.queue) \in Nat /\ Len(y.queue) \in Nat /\ Len(z.queue) \in Nat
  BY DEF QueueOK
<1>2. /\ Len(x.queue) <= Len(z.queue) /\ At(x) \subseteq At(y) /\ At(y) \subseteq At(z)
      /\ (x.overflow => z.overflow) /\ (y.overflow => z.overflow)
  BY <1>1 DEF Extends, At
<1>3. \A i \in At(x) : z.queue[i] = x.queue[i]
  BY <1>2 DEF Extends
<1>4. ASSUME NEW i \in At(z) PROVE i \in At(x) \/ (i > Len(x.queue) /\ z.queue[i] \in m \union n)
  <2>1. CASE i \in At(y)
    BY <2>1 DEF Extends
  <2>2. CASE i > Len(y.queue) /\ z.queue[i] \in n
    BY <1>1, <2>2 DEF Extends, At
  <2> QED
    BY <2>1, <2>2 DEF Extends
<1>5. ASSUME ~z.overflow, NEW e \in m \union n
      PROVE  \E i \in At(z) : i > Len(x.queue) /\ z.queue[i] = e
  <2>1. CASE e \in m
    <3>1. PICK i \in At(y) : i > Len(x.queue) /\ y.queue[i] = e
      BY <1>2, <1>5, <2>1 DEF Extends
    <3>2. i \in At(z) /\ z.queue[i] = e
      BY <1>2, <3>1 DEF Extends
    <3> QED
      BY <3>1, <3>2
  <2>2. CASE e \in n
    <3>1. PICK i \in At(z) : i > Len(y.queue) /\ z.queue[i] = e
      BY <1>5, <2>2 DEF Extends
    <3>2. i > Len(x.queue)
      BY <1>1, <3>1 DEF Extends, At
    <3> QED
      BY <3>1, <3>2
  <2> QED
    BY <2>1, <2>2
<1> QED
  BY <1>2, <1>3, <1>4, <1>5 DEF Extends

\* The core's speech goes on: a, if there is one, is no longer in the core, and its
\* completion is reported.
LEMMA SpeechStep ==
  ASSUME NEW x, AppInv(x), x.voice, NEW y, NEW new, NEW a \in Nat, NEW ok \in BOOLEAN,
         DOMAIN y = Fields, Same(x, y, {"core", "unheard", "annHeard", "queue", "overflow"}),
         QueueOK(y), CoreOK(y), WaitingOK(y.core),
         y.core.paused = x.core.paused, y.core.failed = x.core.failed,
         \A id \in Nat : Carries(y.core, id) <=> Carries(x.core, id) /\ id # a,
         a # 0 => Carries(x.core, a),
         y.unheard <=> x.unheard \/ (a # 0 /\ a # x.receipt /\ ~ok),
         y.annHeard <=> x.annHeard \/ (a # 0 /\ a = x.receipt /\ ok),
         Extends(x, y, new),
         \A e \in new : /\ e.from = "voice" /\ e.gen = x.voiceGen
                        /\ e.type = "SPEECH_COMPLETE" => a # 0 /\ e.id = a /\ (e.flag => ok),
         a # 0 => \E e \in new : e.type = "SPEECH_COMPLETE" /\ e.id = a
  PROVE  AppInv(y) /\ Sound(x, y)
<1>0. /\ DOMAIN x = Fields /\ QueueOK(x) /\ SpeechOK(x) /\ CountersOK(x) /\ AgOK(x) /\ CoreOK(x)
      /\ AnnOK(x) /\ TurnInv(x) /\ VoiceInv(x) /\ SpeechInv(x) /\ AnnInv(x) /\ GateInv(x)
      /\ x.agentGen \in Nat /\ x.voiceGen \in Nat /\ EndInv(x) /\ TrackInv(x) /\ MicInv(x)
      /\ PttFits(x) /\ PttTried(x) /\ StartsIdle(x) /\ AnswerInv(x)
  BY SomeFields DEF AppInv
<1>1. /\ y.agent = x.agent /\ y.agentGen = x.agentGen /\ y.turn = x.turn /\ y.refused = x.refused
      /\ y.voice = x.voice /\ y.voiceReady = x.voiceReady /\ y.voiceGen = x.voiceGen
      /\ y.ag = x.ag /\ y.speech = x.speech /\ y.nextId = x.nextId
      /\ y.ann = x.ann /\ y.receipt = x.receipt
      /\ y.complete = x.complete /\ y.gated = x.gated /\ y.paused = x.paused /\ y.ptt = x.ptt
      /\ y.quiet = x.quiet /\ y.followAllowed = x.followAllowed
      /\ y.suppressed = x.suppressed /\ y.streamAudio = x.streamAudio /\ SameCounts(x, y)
      /\ y.followListening = x.followListening
  BY FieldNames DEF Same, SameCounts
<1>2. Harmless(x, new) /\ (x.overflow => y.overflow)
  BY DEF Harmless, Extends
<1>3. TurnInv(y) /\ EndInv(y)
  BY <1>0, <1>1, <1>2, TurnKept
<1>4. VoiceInv(y)
  BY <1>0, <1>1, VoiceKept
<1>5. PttTried(y) /\ StartsIdle(y)
  BY <1>0, <1>1, TriedKept
<1>6. ASSUME NEW e \in new, Completes(x, e) PROVE a # 0 /\ e.id = a /\ (e.flag => ok)
  BY <1>6 DEF Completes
<1>7. \A id : /\ Done(x, id) => Done(y, id)
              /\ Done(y, id) => Done(x, id) \/ (id = a /\ a # 0)
              /\ DoneWell(y, id) => DoneWell(x, id) \/ (id = a /\ a # 0 /\ ok)
  BY <1>0, <1>1, <1>6, DonePush
<1>8. a # 0 /\ ~y.overflow => Done(y, a)
  <2>1. ASSUME a # 0, ~y.overflow PROVE Done(y, a)
    <3>1. PICK e \in new : e.type = "SPEECH_COMPLETE" /\ e.id = a
      BY <2>1
    <3>2. Completes(x, e)
      BY <3>1 DEF Completes, OfVoice
    <3> QED
      BY <1>0, <1>1, <2>1, <3>1, <3>2, DonePush
  <2> QED
    BY <2>1
<1>9. \A id : Tracks(y, id) <=> Tracks(x, id)
  BY <1>1 DEF Tracks
<1>10. a # 0 => Tracks(x, a) /\ ~Done(x, a)
  BY <1>0 DEF SpeechInv
<1>11. SpeechInv(y)
  <2>1. \A id \in Nat : Carries(y.core, id) => Tracks(y, id) /\ ~Done(y, id)
    BY <1>0, <1>7, <1>9 DEF SpeechInv
  <2>2. \A id \in Nat : Tracks(y, id) \/ Done(y, id) => id <= y.nextId
    BY <1>0, <1>1, <1>7, <1>9, <1>10 DEF SpeechInv
  <2>3. \A i, j \in 1..Len(y.speech) : y.speech[i].id = y.speech[j].id => i = j
    BY <1>0, <1>1 DEF SpeechInv
  <2> QED
    BY <2>1, <2>2, <2>3 DEF SpeechInv
<1>12. TrackInv(y)
  <2>1. ASSUME ~y.overflow, NEW id \in Nat, Tracks(y, id)
        PROVE  Carries(y.core, id) \/ Done(y, id)
    <3>1. Carries(x.core, id) \/ Done(x, id)
      BY <1>0, <1>2, <1>9, <2>1 DEF TrackInv
    <3>2. Carries(x.core, id) => id # 0
      BY DEF Carries
    <3> QED
      BY <1>7, <1>8, <2>1, <3>1, <3>2
  <2> QED
    BY <2>1 DEF TrackInv
<1>13. AnnInv(y)
  <2>1. x.receipt # 0 /\ DoneWell(y, x.receipt) => y.annHeard
    BY <1>0, <1>7 DEF AnnInv
  <2> QED
    BY <1>0, <1>1, <1>9, <2>1 DEF AnnInv
<1>14. AnswerInv(y)
  <2>1. ASSUME y.followAllowed, y.unheard
        PROVE  \E id \in Nat : Tracks(y, id) /\ ~Carries(y.core, id) /\ ~DoneWell(y, id)
    <3>1. CASE x.unheard
      <4>1. PICK id \in Nat : Tracks(x, id) /\ ~Carries(x.core, id) /\ ~DoneWell(x, id)
        BY <1>0, <1>1, <2>1, <3>1 DEF AnswerInv
      <4>2. ~Carries(y.core, id) /\ ~DoneWell(y, id)
        BY <1>7, <4>1
      <4> QED
        BY <1>9, <4>1, <4>2
    <3>2. CASE a # 0 /\ a # x.receipt /\ ~ok
      <4>1. Tracks(y, a) /\ ~Carries(y.core, a) /\ ~Done(x, a)
        BY <1>9, <1>10, <3>2
      <4>2. ~DoneWell(x, a)
        BY <4>1 DEF Done, DoneWell
      <4>3. ~DoneWell(y, a)
        BY <1>7, <3>2, <4>2
      <4> QED
        BY <4>1, <4>3
    <3> QED
      BY <2>1, <3>1, <3>2
  <2> QED
    BY <1>0, <1>1, <2>1 DEF AnswerInv
<1>15. GateInv(y) /\ MicInv(y) /\ PttFits(y)
  BY <1>0, <1>1, <1>2 DEF GateInv, MicInv, PttFits
<1>16. CountersOK(y) /\ AgOK(y) /\ AnnOK(y) /\ SpeechOK(y)
  BY <1>0, <1>1, SameCountsOK DEF AgOK, AnnOK, SpeechOK
<1>17. AppInv(y)
  BY <1>3, <1>4, <1>5, <1>11, <1>12, <1>13, <1>14, <1>15, <1>16 DEF AppInv, Base, AppOK
<1> QED
  BY <1>1, <1>17, NothingNew DEF Sound

Waits(c, id) == id # 0 /\ \E i \in 1..Len(c.waiting) : c.waiting[i] = id

\* The next utterance that waits is active, if there is one.
LEMMA GoesOnIs ==
  ASSUME NEW z, DOMAIN z = Fields, CoreOK(z), QueueOK(z), z.voiceGen \in Nat,
         WaitingOK(z.core), NEW x \in SpeechGoesOn(z)
  PROVE  /\ DOMAIN x = Fields /\ Same(z, x, {"core", "queue", "overflow"})
         /\ CoreOK(x) /\ QueueOK(x) /\ WaitingOK(x.core)
         /\ x.core.paused = z.core.paused /\ x.core.failed = z.core.failed
         /\ \A id \in Nat : Carries(x.core, id) <=> Waits(z.core, id)
         /\ \E new : /\ Extends(z, x, new)
                     /\ \A e \in new : /\ e.from = "voice" /\ e.gen = z.voiceGen
                                       /\ e.type # "SPEECH_COMPLETE"
<1> DEFINE c == z.core
           id == Head(c.waiting)
           begun(b) == [z EXCEPT !.core.active = id, !.core.waiting = Tail(c.waiting),
                                 !.core.begun = b,
                                 !.core.mode = IF @ = "paused" THEN @ ELSE "wake"]
<1>1. CASE c.waiting = <<>>
  <2> DEFINE d == [[c EXCEPT !.active = 0] EXCEPT !.begun = FALSE]
  <2>1. x = [z EXCEPT !.core.active = 0, !.core.begun = FALSE]
    BY <1>1 DEF SpeechGoesOn
  <2>2. DOMAIN x = Fields /\ Same(z, x, {"core"}) /\ x.core = d
    BY <2>1, FieldNames DEF Same
  <2>3. /\ DOMAIN d = CoreFields /\ d.active = 0 /\ d.waiting = <<>> /\ d.mode = c.mode
        /\ d.paused = c.paused /\ d.failed = c.failed
    BY <1>1, CoreNames DEF CoreOK
  <2> HIDE DEF d
  <2>4. CoreOK(x) /\ WaitingOK(x.core)
    BY <1>1, <2>2, <2>3 DEF CoreOK, WaitingOK
  <2>5. \A n \in Nat : Carries(x.core, n) <=> Waits(c, n)
    BY <1>1, <2>2, <2>3 DEF Carries, Waits
  <2>6. x.queue = z.queue /\ x.overflow = z.overflow /\ Same(z, x, {"core", "queue", "overflow"})
    BY <2>2, FieldNames DEF Same
  <2>7. QueueOK(x) /\ Extends(z, x, {})
    BY <2>6, NoneExtends DEF QueueOK
  <2> QED
    BY <2>2, <2>3, <2>4, <2>5, <2>6, <2>7
<1>2. ASSUME c.waiting # <<>>, NEW b, NEW g, g = begun(b)
      PROVE  /\ DOMAIN g = Fields /\ Same(z, g, {"core"})
             /\ CoreOK(g) /\ WaitingOK(g.core)
             /\ g.core.paused = c.paused /\ g.core.failed = c.failed
             /\ \A n \in Nat : Carries(g.core, n) <=> Waits(c, n)
  <2> DEFINE d == [[[[c EXCEPT !.active = id] EXCEPT !.waiting = Tail(c.waiting)]
                     EXCEPT !.begun = b]
                     EXCEPT !.mode = IF c.mode = "paused" THEN c.mode ELSE "wake"]
  <2>1. DOMAIN g = Fields /\ Same(z, g, {"core"}) /\ g.core = d
    BY <1>2, FieldNames, CoreNames DEF Same, CoreOK
  <2>2. /\ DOMAIN d = CoreFields /\ d.active = id /\ d.waiting = Tail(c.waiting)
        /\ d.mode = (IF c.mode = "paused" THEN c.mode ELSE "wake")
        /\ d.paused = c.paused /\ d.failed = c.failed
    BY CoreNames DEF CoreOK
  <2> HIDE DEF d, begun
  <2>3. c.waiting \in Seq(Nat) /\ Len(c.waiting) \in Nat /\ Len(c.waiting) # 0
    BY <1>2 DEF CoreOK
  <2>4. /\ id = c.waiting[1] /\ id \in Nat /\ 1 \in 1..Len(c.waiting)
        /\ Tail(c.waiting) \in Seq(Nat) /\ Len(Tail(c.waiting)) = Len(c.waiting) - 1
        /\ \A i \in 1..Len(Tail(c.waiting)) : /\ i + 1 \in 1..Len(c.waiting)
                                              /\ Tail(c.waiting)[i] = c.waiting[i + 1]
    BY <1>2, <2>3
  <2> HIDE DEF id
  <2> DEFINE t == Tail(c.waiting)
  <2>5. \A i \in 1..Len(t) : i + 1 \in 1..Len(c.waiting) /\ t[i] = c.waiting[i + 1] /\ i + 1 # 1
    BY <2>3, <2>4
  <2>6. CoreOK(g)
    BY <2>1, <2>2, <2>4 DEF CoreOK
  <2>7. t \in Seq(Nat) /\ Len(t) = Len(c.waiting) - 1
    BY <2>4
  <2>7a. g.core.waiting = t /\ g.core.active = id
    BY <2>1, <2>2
  <2> HIDE DEF t
  <2>8. WaitingOK(g.core)
    <3>0. /\ \A k \in 1..Len(c.waiting) : c.waiting[k] # 0
          /\ \A k, l \in 1..Len(c.waiting) : c.waiting[k] = c.waiting[l] => k = l
      BY DEF WaitingOK
    <3> HIDE DEF c
    <3>1. ASSUME NEW i \in 1..Len(t) PROVE t[i] # 0 /\ t[i] # id
      <4>1. i + 1 \in 1..Len(c.waiting) /\ t[i] = c.waiting[i + 1] /\ i + 1 # 1
        BY <2>5
      <4>2. id = c.waiting[1] /\ 1 \in 1..Len(c.waiting)
        BY <2>4
      <4> QED
        BY <3>0, <4>1, <4>2
    <3>2. ASSUME NEW i \in 1..Len(t), NEW j \in 1..Len(t), t[i] = t[j] PROVE i = j
      <4>1. i + 1 = j + 1
        BY <2>5, <3>0, <3>2
      <4> QED
        BY <4>1
    <3> QED
      BY <2>7a, <3>1, <3>2 DEF WaitingOK
  <2>9. ASSUME NEW n \in Nat PROVE Carries(g.core, n) <=> Waits(c, n)
    <3>1. ASSUME Carries(g.core, n) PROVE Waits(c, n)
      BY <2>4, <2>5, <2>7a, <3>1 DEF Carries, Waits
    <3>2. ASSUME Waits(c, n) PROVE Carries(g.core, n)
      <4>1. PICK i \in 1..Len(c.waiting) : c.waiting[i] = n
        BY <3>2 DEF Waits
      <4>2. CASE i = 1
        BY <2>4, <2>7a, <3>2, <4>1, <4>2 DEF Carries, Waits
      <4>3. CASE i # 1
        <5>1. i - 1 \in 1..Len(t) /\ (i - 1) + 1 = i
          BY <2>3, <2>7, <4>3
        <5>2. t[i - 1] = n
          BY <2>5, <4>1, <5>1
        <5> QED
          BY <2>7a, <3>2, <5>1, <5>2 DEF Carries, Waits
      <4> QED
        BY <4>2, <4>3
    <3> QED
      BY <3>1, <3>2
  <2> QED
    BY <2>1, <2>2, <2>6, <2>8, <2>9
<1>3. CASE c.waiting # <<>> /\ x = begun(FALSE)
  <2> HIDE DEF begun, id
  <2>1. /\ DOMAIN x = Fields /\ Same(z, x, {"core"})
        /\ CoreOK(x) /\ WaitingOK(x.core)
        /\ x.core.paused = c.paused /\ x.core.failed = c.failed
        /\ \A n \in Nat : Carries(x.core, n) <=> Waits(c, n)
    BY <1>2, <1>3
  <2>2. x.queue = z.queue /\ x.overflow = z.overflow /\ Same(z, x, {"core", "queue", "overflow"})
    BY <2>1, FieldNames DEF Same
  <2>3. QueueOK(x) /\ Extends(z, x, {})
    BY <2>2, NoneExtends DEF QueueOK
  <2> QED
    BY <2>1, <2>2, <2>3
<1>4. CASE c.waiting # <<>> /\ x = FromVoice(begun(TRUE), "SPEAKING", id, FALSE)
  <2> DEFINE g == begun(TRUE)
             e == Event("voice", g.voiceGen, "SPEAKING", id, FALSE)
  <2>0. id \in Nat
    BY <1>4 DEF CoreOK
  <2> HIDE DEF begun, id
  <2>1. /\ DOMAIN g = Fields /\ Same(z, g, {"core"})
        /\ CoreOK(g) /\ WaitingOK(g.core)
        /\ g.core.paused = c.paused /\ g.core.failed = c.failed
        /\ \A n \in Nat : Carries(g.core, n) <=> Waits(c, n)
    BY <1>2, <1>4
  <2>2. x = FromVoice(g, "SPEAKING", id, FALSE)
    BY <1>4
  <2> HIDE DEF g
  <2>3. /\ g.queue = z.queue /\ g.overflow = z.overflow /\ g.voiceGen = z.voiceGen
        /\ QueueOK(g)
    BY <2>1, FieldNames DEF Same, QueueOK
  <2>4. e.from = "voice" /\ e.gen = z.voiceGen /\ e.type = "SPEAKING"
    <3>1. e.from = "voice" /\ e.gen = g.voiceGen /\ e.type = "SPEAKING"
      BY DEF Event
    <3> QED
      BY <2>3, <3>1
  <2>5. "SPEAKING" \in VoiceTypes /\ FALSE \in BOOLEAN
    BY DEF VoiceTypes
  <2>6. /\ DOMAIN x = Fields /\ Same(g, x, {"queue", "overflow"}) /\ QueueOK(x)
        /\ Extends(g, x, {e})
    BY <2>0, <2>1, <2>2, <2>3, <2>5, FromVoiceIs
  <2> HIDE DEF e
  <2>7. Same(z, x, {"core", "queue", "overflow"}) /\ x.core = g.core
    BY <2>1, <2>6, FieldNames DEF Same
  <2>8. Extends(z, x, {e})
    BY <2>3, <2>6 DEF Extends, At
  <2>9. CoreOK(x)
    BY <2>1, <2>7 DEF CoreOK
  <2> QED
    BY <2>1, <2>4, <2>6, <2>7, <2>8, <2>9
<1>5. c.waiting # <<>> => x \in {begun(FALSE), FromVoice(begun(TRUE), "SPEAKING", id, FALSE)}
  BY DEF SpeechGoesOn
<1> HIDE DEF begun, id, c
<1> QED
  BY <1>1, <1>3, <1>4, <1>5

\* The speech worker takes up what waits.
LEMMA SpeechBeginsKeeps ==
  ASSUME AppInv(w), SpeechBegins
  PROVE  AppInv(w') /\ Sound(w, w')
<1> DEFINE y == w'
<1>0. /\ DOMAIN w = Fields /\ CoreOK(w) /\ QueueOK(w) /\ w.voiceGen \in Nat /\ VoiceInv(w)
      /\ WaitingOK(w.core)
  BY SomeFields DEF AppInv, Base, SpeechInv
<1>1. w.core.active = 0 /\ w.core.waiting # <<>> /\ y \in SpeechGoesOn(w)
  BY DEF SpeechBegins
<1>2. w.voice
  BY <1>0, <1>1 DEF VoiceInv, NoCore
<1> HIDE DEF y
<1>3. /\ DOMAIN y = Fields /\ Same(w, y, {"core", "queue", "overflow"})
      /\ CoreOK(y) /\ QueueOK(y) /\ WaitingOK(y.core)
      /\ y.core.paused = w.core.paused /\ y.core.failed = w.core.failed
      /\ \A id \in Nat : Carries(y.core, id) <=> Waits(w.core, id)
  BY <1>0, <1>1, GoesOnIs
<1>4. PICK new : /\ Extends(w, y, new)
                 /\ \A e \in new : /\ e.from = "voice" /\ e.gen = w.voiceGen
                                   /\ e.type # "SPEECH_COMPLETE"
  BY <1>0, <1>1, GoesOnIs
<1>5. \A id \in Nat : Carries(y.core, id) <=> Carries(w.core, id) /\ id # 0
  BY <1>1, <1>3 DEF Carries, Waits
<1>6. y.unheard = w.unheard /\ y.annHeard = w.annHeard
  BY <1>3, FieldNames DEF Same
<1>7. Same(w, y, {"core", "unheard", "annHeard", "queue", "overflow"})
  BY <1>3 DEF Same
<1> DEFINE a == 0
           ok == FALSE
<1>8. /\ a \in Nat /\ ok \in BOOLEAN
      /\ \A id \in Nat : Carries(y.core, id) <=> Carries(w.core, id) /\ id # a
      /\ a # 0 => Carries(w.core, a)
      /\ y.unheard <=> w.unheard \/ (a # 0 /\ a # w.receipt /\ ~ok)
      /\ y.annHeard <=> w.annHeard \/ (a # 0 /\ a = w.receipt /\ ok)
      /\ \A e \in new : /\ e.from = "voice" /\ e.gen = w.voiceGen
                        /\ e.type = "SPEECH_COMPLETE" => a # 0 /\ e.id = a /\ (e.flag => ok)
      /\ a # 0 => \E e \in new : e.type = "SPEECH_COMPLETE" /\ e.id = a
  BY <1>4, <1>5, <1>6
<1> HIDE DEF a, ok
<1>9. AppInv(y) /\ Sound(w, y)
  BY <1>2, <1>3, <1>4, <1>7, <1>8, SpeechStep
<1> QED
  BY <1>9 DEF y

\* An utterance ends: it is heard, or given up, and reported.
LEMMA SpeechEndsKeeps ==
  ASSUME AppInv(w), SpeechEnds
  PROVE  AppInv(w') /\ Sound(w, w')
<1> DEFINE y == w'
           c == w.core
           a == c.active
           stream == a = c.stream
           answer == a # w.receipt
           ended(ok) == [w EXCEPT !.core.stream = IF stream THEN 0 ELSE @,
                                  !.unheard = @ \/ (answer /\ ~ok),
                                  !.annHeard = @ \/ (~answer /\ ok)]
<1>0. /\ DOMAIN w = Fields /\ CoreOK(w) /\ QueueOK(w) /\ w.voiceGen \in Nat /\ VoiceInv(w)
      /\ WaitingOK(w.core)
  BY SomeFields DEF AppInv, Base, SpeechInv
<1>1. a # 0
  BY DEF SpeechEnds
<1>2. PICK ok \in BOOLEAN :
        \E x \in SpeechGoesOn(ended(ok)) : y = FromVoice(x, "SPEECH_COMPLETE", a, ok)
  BY DEF SpeechEnds
<1>3. w.voice /\ a \in Nat
  BY <1>0, <1>1 DEF VoiceInv, NoCore, CoreOK
<1> DEFINE z == ended(ok)
<1>4. PICK x \in SpeechGoesOn(z) : y = FromVoice(x, "SPEECH_COMPLETE", a, ok)
  BY <1>2
<1>5. /\ DOMAIN z = Fields /\ Same(w, z, {"core", "unheard", "annHeard"})
      /\ z.unheard <=> w.unheard \/ (answer /\ ~ok)
      /\ z.annHeard <=> w.annHeard \/ (~answer /\ ok)
  BY <1>0, FieldNames DEF Same
<1> DEFINE d == [c EXCEPT !.stream = IF stream THEN 0 ELSE c.stream]
<1>6. z.core = d
  BY <1>0, FieldNames, CoreNames DEF CoreOK
<1>7. /\ DOMAIN d = CoreFields /\ d.mode = c.mode /\ d.active = a /\ d.waiting = c.waiting
      /\ d.paused = c.paused /\ d.failed = c.failed
  BY <1>0, CoreNames DEF CoreOK
<1> HIDE DEF z, d, ended, y
<1>8. CoreOK(z) /\ WaitingOK(z.core)
  BY <1>0, <1>6, <1>7 DEF CoreOK, WaitingOK
<1>9. z.queue = w.queue /\ z.overflow = w.overflow /\ z.voiceGen = w.voiceGen /\ QueueOK(z)
  BY <1>0, <1>5, FieldNames DEF Same, QueueOK
<1>10. /\ DOMAIN x = Fields /\ Same(z, x, {"core", "queue", "overflow"})
       /\ CoreOK(x) /\ QueueOK(x) /\ WaitingOK(x.core)
       /\ x.core.paused = z.core.paused /\ x.core.failed = z.core.failed
       /\ \A id \in Nat : Carries(x.core, id) <=> Waits(z.core, id)
  BY <1>0, <1>5, <1>8, <1>9, GoesOnIs
<1>11. PICK new : /\ Extends(z, x, new)
                  /\ \A e \in new : /\ e.from = "voice" /\ e.gen = z.voiceGen
                                    /\ e.type # "SPEECH_COMPLETE"
  BY <1>0, <1>5, <1>8, <1>9, GoesOnIs
<1>12. x.voiceGen = w.voiceGen /\ x.unheard = z.unheard /\ x.annHeard = z.annHeard
  BY <1>9, <1>10, FieldNames DEF Same
<1> DEFINE f == Event("voice", x.voiceGen, "SPEECH_COMPLETE", a, ok)
<1>13. f.from = "voice" /\ f.gen = x.voiceGen /\ f.type = "SPEECH_COMPLETE" /\ f.id = a /\ f.flag = ok
  BY DEF Event
<1>14. "SPEECH_COMPLETE" \in VoiceTypes
  BY DEF VoiceTypes
<1> HIDE DEF a
<1>15. /\ DOMAIN y = Fields /\ Same(x, y, {"queue", "overflow"}) /\ QueueOK(y)
       /\ Extends(x, y, {f})
  BY <1>0, <1>3, <1>4, <1>10, <1>12, <1>14, FromVoiceIs
<1> HIDE DEF f
<1>16. Extends(w, x, new)
  BY <1>9, <1>11 DEF Extends, At
<1> DEFINE all == new \union {f}
<1>17. Extends(w, y, all)
  BY <1>0, <1>10, <1>15, <1>16, ExtendsTwice
<1>18. \A e \in all : /\ e.from = "voice" /\ e.gen = w.voiceGen
                      /\ e.type = "SPEECH_COMPLETE" => a # 0 /\ e.id = a /\ (e.flag => ok)
  BY <1>1, <1>9, <1>11, <1>12, <1>13
<1>19. a # 0 => \E e \in all : e.type = "SPEECH_COMPLETE" /\ e.id = a
  BY <1>13
<1> HIDE DEF all
<1>20. y.core = x.core /\ y.unheard = x.unheard /\ y.annHeard = x.annHeard
  BY <1>15, FieldNames DEF Same
<1>21. CoreOK(y) /\ WaitingOK(y.core)
  BY <1>10, <1>20 DEF CoreOK
<1>22. Same(w, y, {"core", "unheard", "annHeard", "queue", "overflow"})
  BY <1>5, <1>10, <1>15 DEF Same
<1>23. y.core.paused = w.core.paused /\ y.core.failed = w.core.failed
  BY <1>6, <1>7, <1>10, <1>20
<1>24. ASSUME NEW id \in Nat PROVE Carries(y.core, id) <=> Carries(w.core, id) /\ id # a
  <2>1. Carries(y.core, id) <=> id # 0 /\ \E i \in 1..Len(c.waiting) : c.waiting[i] = id
    BY <1>6, <1>7, <1>10, <1>20 DEF Waits
  <2>2. \A i \in 1..Len(c.waiting) : c.waiting[i] # a
    BY <1>0 DEF WaitingOK, a
  <2>3. Carries(w.core, id) <=> id # 0 /\ (id = a \/ \E i \in 1..Len(c.waiting) : c.waiting[i] = id)
    BY DEF Carries, a
  <2> QED
    BY <2>1, <2>2, <2>3
<1>25. Carries(w.core, a)
  BY <1>1 DEF Carries, a
<1>26. /\ y.unheard <=> w.unheard \/ (a # 0 /\ a # w.receipt /\ ~ok)
       /\ y.annHeard <=> w.annHeard \/ (a # 0 /\ a = w.receipt /\ ok)
  BY <1>1, <1>5, <1>12, <1>20
<1>27. AppInv(y) /\ Sound(w, y)
  BY <1>2, <1>3, <1>15, <1>17, <1>18, <1>19, <1>21, <1>22, <1>23, <1>24, <1>25, <1>26, SpeechStep
<1> QED
  BY <1>27 DEF y

--------------------------------------------------------------------------------
(* The specification                                                        *)

LEMMA SoundSelf == \A x : Sound(x, x)
BY NothingNew DEF Sound

\* The invariant holds when the agent is opened for the first time.
LEMMA AppStarts ==
  ASSUME AppInit
  PROVE  AppInv(w)
<1> DEFINE Opened(f) == OpenAgent(Blank, f)
<1>1. w \in Outcomes(Opened)
  BY DEF AppInit
<1>2. PICK f : w = Opened(f) \/ w \in Incident(Opened(f))
  BY <1>1 DEF Outcomes
<1> DEFINE z == Opened(f)
<1>3. z = OpenAgent(Blank, f) /\ (w = z \/ w \in Incident(z))
  BY <1>2
<1> HIDE DEF z, Opened
<1>4. AppInv(Blank)
  <2> DEFINE b == Blank
  <2>1. DOMAIN b = Fields
    BY DEF Fields
  <2>2. /\ b.agent = FALSE /\ b.agentGen = 0 /\ b.turn = FALSE /\ b.refused = FALSE
        /\ b.voice = FALSE /\ b.voiceReady = FALSE /\ b.voiceGen = 0
        /\ b.ag = NoAgent /\ b.core = NoCore /\ b.speech = <<>> /\ b.queue = <<>>
        /\ b.nextId = 0 /\ b.ann = "due" /\ b.receipt = 0
    BY DEF Blank
  <2>3. /\ b.complete = FALSE /\ b.gated = FALSE /\ b.paused = FALSE /\ b.ptt = FALSE
        /\ b.quiet = FALSE /\ b.followAllowed = FALSE /\ b.overflow = FALSE
        /\ b.suppressed = FALSE /\ b.streamAudio = FALSE /\ b.agentRestart = FALSE
        /\ b.voiceRestart = FALSE /\ b.agentTries = 0 /\ b.voiceTries = 0 /\ b.turns = 0
        /\ b.annHeard = FALSE /\ b.followListening = FALSE
    BY DEF Blank
  <2>4. /\ NoAgent.turn = 0 /\ NoAgent.st = "none" /\ DOMAIN NoAgent = AgFields
        /\ DOMAIN NoCore = CoreFields /\ NoCore.mode = "wake" /\ NoCore.active = 0
        /\ NoCore.waiting = <<>>
    BY DEF NoAgent, NoCore, AgFields, CoreFields
  <2> HIDE DEF b
  <2>5. /\ Len(b.queue) = 0 /\ Len(b.speech) = 0 /\ Len(NoCore.waiting) = 0
        /\ At(b) = {} /\ 1..0 = {}
    BY <2>2, <2>4 DEF At
  <2>6. QueueOK(b) /\ SpeechOK(b) /\ CountersOK(b)
    BY <2>2, <2>3, ControllerAssumption DEF QueueOK, SpeechOK, CountersOK
  <2>7. AgOK(b) /\ CoreOK(b) /\ AnnOK(b)
    BY <2>2, <2>4 DEF AgOK, CoreOK, AnnOK
  <2>8. TurnInv(b) /\ EndInv(b)
    BY <2>2, <2>4, <2>5 DEF TurnInv, EndInv, EndComes, OutputComes, EndIsLast, AgentGens
  <2>9. VoiceInv(b) /\ MicInv(b) /\ PttTried(b) /\ StartsIdle(b)
    BY <2>2, <2>3, <2>5 DEF VoiceInv, VoiceGens, MicInv, PttTried, StartsIdle
  <2>10. (\A id : ~Tracks(b, id) /\ ~Done(b, id)) /\ (\A id : ~Carries(b.core, id))
    BY <2>2, <2>4, <2>5 DEF Tracks, Done, Carries
  <2>11. WaitingOK(b.core)
    BY <2>2, <2>4, <2>5 DEF WaitingOK
  <2>12. SpeechInv(b) /\ TrackInv(b)
    BY <2>5, <2>10, <2>11 DEF SpeechInv, TrackInv
  <2>13. AnnInv(b) /\ GateInv(b) /\ AnswerInv(b) /\ PttFits(b)
    BY <2>2, <2>3 DEF AnnInv, GateInv, AnswerInv, PttFits
  <2> QED
    BY <2>1, <2>6, <2>7, <2>8, <2>9, <2>12, <2>13 DEF AppInv, Base, AppOK, b
<1>5. AppInv(z)
  <2>0. Base(Blank)
    BY <1>4 DEF AppInv
  <2>1. Keeps(Blank, z) /\ Same(Blank, z, {"agent", "starting", "agentGen", "ag", "agentRestart"})
    BY <1>3, <2>0, OpenAgentIs
  <2> DEFINE b == Blank
  <2>2. /\ z.voice = b.voice /\ z.ptt = b.ptt
    BY <2>1, FieldNames DEF Same
  <2>3. b.voice = FALSE /\ b.ptt = FALSE
    BY DEF Blank
  <2>4. MicInv(z) /\ PttFits(z)
    BY <2>2, <2>3 DEF MicInv, PttFits
  <2> QED
    BY <1>4, <2>1, <2>4, KeepsApp
<1> QED
  BY <1>3, <1>5, SoundSelf, OutcomeIs

\* Every step keeps the invariant, and is sound for the answer.
LEMMA AppStep ==
  ASSUME AppInv(w), [AppNext]_appVars
  PROVE  AppInv(w') /\ Sound(w, w')
<1>1. CASE UNCHANGED appVars
  BY <1>1, SoundSelf DEF appVars
<1>2. CASE Wake
  <2>1. w' = Recover(w) \/ w' = w
    BY <1>2 DEF Wake
  <2> QED
    BY <2>1, RecoverIs, SoundSelf
<1>3. CASE Drained
  BY <1>3, SoundSelf DEF Drained
<1>4. CASE Dequeue \/ EndRound \/ Stop
  BY <1>4, DequeueKeeps, EndRoundKeeps, StopKeeps
<1>5. CASE Command
  BY <1>5, CommandKeeps
<1>6. CASE Agent
  BY <1>6, AgentReadyKeeps, AgentAcceptsKeeps, AgentOutputKeeps, AgentEndsKeeps,
     AgentFailsKeeps DEF Agent
<1>7. CASE Voice
  BY <1>7, CoreControlKeeps, CoreHearsKeeps, CoreFailsKeeps, SpeechBeginsKeeps,
     SpeechEndsKeeps DEF Voice
<1> QED
  BY <1>1, <1>2, <1>3, <1>4, <1>5, <1>6, <1>7 DEF AppNext, Worker

Loops == {"wait", "drain", "tail", "stopped"}

LEMMA LoopStep ==
  ASSUME loop \in Loops, [AppNext]_appVars
  PROVE  loop' \in Loops
BY DEF Loops, AppNext, appVars, Worker, Wake, Dequeue, Drained, EndRound, Stop, Command, Outside,
   Agent, AgentReady, AgentAccepts, AgentOutput, AgentEnds, AgentFails,
   Voice, CoreControl, CoreHears, CoreFails, SpeechBegins, SpeechEnds

\* The invariant and the positions of the loop, always.
LEMMA AppAlways == AppSpec => [](AppInv(w) /\ loop \in Loops)
<1>1. AppInit => AppInv(w) /\ loop \in Loops
  BY AppStarts DEF AppInit, Loops
<1>2. AppInv(w) /\ loop \in Loops /\ [AppNext]_appVars => AppInv(w)' /\ (loop \in Loops)'
  BY AppStep, LoopStep
<1> QED
  BY <1>1, <1>2, PTL DEF AppSpec

\* The worker's state keeps its types: in particular the event queue and the speech table
\* (DIO_APP_QUEUE_CAP, DIO_APP_SPEECH_CAP) are never exceeded and no restart is tried more
\* often than allowed.
THEOREM AppTypes == AppSpec => []AppTypeOK
<1>1. AppInv(w) /\ loop \in Loops => AppTypeOK
  <2> SUFFICES ASSUME AppInv(w), loop \in Loops PROVE AppTypeOK
    OBVIOUS
  <2>1. /\ DOMAIN w = Fields /\ QueueOK(w) /\ SpeechOK(w) /\ CountersOK(w) /\ AgOK(w) /\ CoreOK(w)
        /\ AnnOK(w)
    BY DEF AppInv, Base, AppOK
  <2>2. \A i \in 1..Len(w.queue) : w.queue[i].type \in Types
    <3> TAKE i \in 1..Len(w.queue)
    <3>1. w.queue[i] \in Events
      BY <2>1 DEF QueueOK
    <3> QED
      BY <3>1, EventTypes
  <2>3. w.agentTries <= MaxRestarts /\ w.voiceTries <= MaxRestarts
    BY <2>1, ControllerAssumption DEF CountersOK
  <2> QED
    BY <2>1, <2>2, <2>3 DEF AppTypeOK, Loops, Fields, QueueOK, SpeechOK, AgOK, CoreOK, AnnOK
<1> QED
  BY <1>1, AppAlways, PTL

\* The invariant says what the runs check.
LEMMA TrackedIs ==
  ASSUME NEW id
  PROVE  id \in Tracked(w) <=> Tracks(w, id)
BY DEF Tracked, Tracks

LEMMA SpeechIsTracked == ASSUME AppInv(w) PROVE SpeechTracked
<1> DEFINE carried == {w.core.active} \union {w.core.waiting[i] : i \in 1..Len(w.core.waiting)}
           done == {w.queue[i].id : i \in {j \in 1..Len(w.queue) :
                      w.queue[j].type = "SPEECH_COMPLETE" /\ w.queue[j].gen = w.voiceGen}}
<1>1. CoreOK(w) /\ SpeechOK(w) /\ TrackInv(w) /\ SpeechInv(w)
  BY SomeFields DEF AppInv, Base
<1>2. ASSUME NEW id, ~w.overflow, id \in Tracked(w) PROVE id \in carried \union done
  <2>1. Tracks(w, id)
    BY <1>2, TrackedIs
  <2>2. id \in Nat
    <3>1. PICK i \in 1..Len(w.speech) : w.speech[i].id = id
      BY <2>1 DEF Tracks
    <3>2. w.speech[i] \in Utterances
      BY <1>1 DEF SpeechOK
    <3> QED
      BY <3>1, <3>2 DEF Utterances
  <2>3. Carries(w.core, id) \/ Done(w, id)
    BY <1>1, <1>2, <2>1, <2>2 DEF TrackInv
  <2>4. CASE Carries(w.core, id)
    BY <2>4 DEF Carries
  <2>5. CASE Done(w, id)
    BY <2>5 DEF Done, Completes, OfVoice, At
  <2> QED
    BY <2>3, <2>4, <2>5
<1>3. ASSUME NEW id \in carried, id # 0 PROVE id \in Tracked(w)
  <2>1. id \in Nat /\ Carries(w.core, id)
    BY <1>1, <1>3 DEF CoreOK, Carries
  <2> QED
    BY <1>1, <2>1, TrackedIs DEF SpeechInv
<1> HIDE DEF carried, done
<1>4. (w.overflow \/ Tracked(w) \subseteq carried \union done) /\ carried \ {0} \subseteq Tracked(w)
  BY <1>2, <1>3
<1> QED
  BY <1>4 DEF SpeechTracked, carried, done

\* Every utterance that dio_app_track_speech entered is in the voice core or its completion
\* is on the way, unless an overflow lost it; and the core speaks nothing that is not tracked.
THEOREM SpeechIsAccounted == AppSpec => []SpeechTracked
<1>1. AppInv(w) => SpeechTracked
  BY SpeechIsTracked
<1> QED
  BY <1>1, AppAlways, PTL

\* An announcement is held exactly while its utterance is tracked, never in a turn, and it
\* leaves the inbox for good (dio_announcement_finish) only when it was heard.
THEOREM AnnouncementIsKept == AppSpec => []AnnouncementKept
<1>1. AppInv(w) => AnnouncementKept
  <2> SUFFICES ASSUME AppInv(w) PROVE AnnouncementKept
    OBVIOUS
  <2>1. AnnInv(w)
    BY SomeFields DEF AppInv
  <2>2. w.receipt \in Tracked(w) <=> Tracks(w, w.receipt)
    BY TrackedIs
  <2> QED
    BY <2>1, <2>2 DEF AnnInv, AnnouncementKept
<1> QED
  BY <1>1, AppAlways, PTL

\* A turn of the worker has an agent that works on it or its end on the way, but for an
\* error taken for a rejected cancel; the gate is closed exactly from the submission of a
\* turn until its answer was spoken; and the core is paused to match.
THEOREM TurnIsAgreed == AppSpec => []TurnAgrees
<1>1. AppInv(w) => TurnAgrees
  <2> SUFFICES ASSUME AppInv(w) PROVE TurnAgrees
    OBVIOUS
  <2>1. TurnInv(w) /\ EndInv(w) /\ GateInv(w) /\ MicInv(w)
    BY SomeFields DEF AppInv
  <2>2. OverComes(w) => Pending("agent", {"COMPLETE", "ERROR"})
    BY DEF OverComes, Over, OfAgent, Pending, At
  <2>3. w.refused \/ TurnEndComes
    BY <2>1, <2>2 DEF TurnInv, EndInv, TurnEndComes
  <2>4. MicMatches
    BY <2>1 DEF MicInv, MicMatches
  <2> QED
    BY <2>1, <2>3, <2>4 DEF TurnAgrees, GateInv
<1> QED
  BY <1>1, AppAlways, PTL

\* After a cancel nothing of the answer is handed to the voice core until the next turn,
\* and a follow-up opens only when all of an answer was heard, nothing was cancelled and
\* the microphone is not muted.
THEOREM AnswersAreSound == AppSpec => AnswerSound
<1> DEFINE Stops == \A i \in 1..Len(w'.speech) :
                      w'.speech[i].kind = "agent" => w'.speech[i].id \in Tracked(w)
<1>1. AppInv(w) /\ [AppNext]_appVars =>
        /\ [w.quiet /\ w'.quiet => Stops]_appVars
        /\ [~w.followListening /\ w'.followListening =>
              ~w'.unheard /\ ~w'.quiet /\ ~w'.paused]_appVars
  <2> SUFFICES ASSUME AppInv(w), [AppNext]_appVars
               PROVE  /\ w.quiet /\ w'.quiet => Stops
                      /\ ~w.followListening /\ w'.followListening =>
                           ~w'.unheard /\ ~w'.quiet /\ ~w'.paused
    OBVIOUS
  <2>1. Sound(w, w')
    BY AppStep
  <2>2. ASSUME NoNew(w, w') PROVE Stops
    BY <2>2 DEF NoNew, Tracked
  <2> QED
    BY <2>1, <2>2 DEF Sound
<1> QED
  BY <1>1, AppAlways, PTL DEF AppSpec, AnswerSound, AnswerStops, FollowUpHeard
================================================================================
