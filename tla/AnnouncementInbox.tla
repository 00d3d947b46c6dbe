--------------------------- MODULE AnnouncementInbox ---------------------------
(***************************************************************************)
(* The announcement inbox (src/src/app/announcement.c): files of one       *)
(* directory whose extension says how far a message is.  A message comes   *)
(* from a second process that schedules a reminder, or from any program    *)
(* that drops a .txt file; the application polls, speaks and finishes.     *)
(* Every step is one rename or deletion, and the program may end between   *)
(* any two.  A file name without its extensions is a number: the numbers   *)
(* sort as the names do, and the name of a reminder is its due time.       *)
(***************************************************************************)
EXTENDS Integers, FiniteSets

CONSTANTS
  Reminders,   \* the messages that are scheduled, each with a name of its own
  Drops,       \* the messages that other programs drop as .txt files
  NameOf,      \* the name of each message; that of a reminder is its due time
  MaxFaults    \* crashes, failed calls and new settings of a behaviour

Messages == Reminders \cup Drops

ASSUME NamesAssumption ==
  /\ 0 \notin Messages /\ Reminders \cap Drops = {}
  /\ NameOf \in [Messages -> Nat]
  /\ \A r \in Reminders, m \in Messages : NameOf[r] = NameOf[m] => r = m

ASSUME FaultsAssumption == MaxFaults \in Nat

VARIABLES
  dir,       \* the directory: the message each file holds, or None
  now,       \* the clock
  pc,        \* where the application is: down, closed, idle, next, read, speaking, spoken
  held,      \* announcement_receipt: the message being spoken, or None
  sent,      \* the messages that were accepted (a history variable)
  heard,     \* how often each message was heard to its end
  faults     \* faults that may still happen

vars == <<dir, now, pc, held, sent, heard, faults>>

None == 0
Names == {NameOf[m] : m \in Messages}
Dues == {NameOf[r] : r \in Reminders}
Kinds == {"tmp", "timer", "txt", "processing", "failed"}
Files(kind) == {n \in Names : dir[n][kind] # None}

Fault == faults > 0 /\ faults' = faults - 1
NoFault == UNCHANGED faults

\* MoveFileEx of the file n.from to n.to: without MOVEFILE_REPLACE_EXISTING it
\* fails when there is a file of that name.
CanMove(n, to) == dir[n][to] = None
Moved(d, n, from, to) == [d EXCEPT ![n][to] = d[n][from], ![n][from] = None]

First(n, S) == n \in S /\ \A x \in S : n <= x

Init ==
  /\ dir = [n \in Names |-> [k \in Kinds |-> None]]
  /\ now = 0 /\ pc = "down" /\ held = None
  /\ sent = {} /\ heard = [m \in Messages |-> 0]
  /\ faults = MaxFaults

--------------------------------------------------------------------------------
(* Where messages come from *)

\* dio_announcement_schedule writes a file of its own name ...
Write(r) ==
  /\ r \notin sent /\ dir[NameOf[r]]["tmp"] = None
  /\ now <= NameOf[r]
  /\ dir' = [dir EXCEPT ![NameOf[r]]["tmp"] = r]
  /\ UNCHANGED <<now, pc, held, sent, heard, faults>>

\* ... and renames it; a failure deletes it, unless the process ends first.
Schedule(r) ==
  /\ dir[NameOf[r]]["tmp"] = r
  /\ UNCHANGED <<now, pc, held, heard>>
  /\ \/ /\ dir' = Moved(dir, NameOf[r], "tmp", "timer")
        /\ sent' = sent \cup {r} /\ NoFault
     \/ /\ dir' = [dir EXCEPT ![NameOf[r]]["tmp"] = None]
        /\ UNCHANGED sent /\ Fault

\* Another program puts a whole .txt file into the directory, once.
Drop(m) ==
  /\ m \notin sent /\ dir[NameOf[m]]["txt"] = None
  /\ dir' = [dir EXCEPT ![NameOf[m]]["txt"] = m]
  /\ sent' = sent \cup {m}
  /\ UNCHANGED <<now, pc, held, heard, faults>>

Tick ==
  /\ \E d \in Dues : d > now
  /\ now' = now + 1
  /\ UNCHANGED <<dir, pc, held, sent, heard, faults>>

--------------------------------------------------------------------------------
(* The application *)

\* Mutant: what was in work stays in work.
RecoveredNot(S) == dir

\* dio_recover_processing renames the files in order and stops at the first
\* that cannot be renamed; dio_announcement_inbox_open then fails.
Recovered(S) ==
  [n \in Names |-> IF n \in S THEN Moved(dir, n, "processing", "txt")[n] ELSE dir[n]]

Open ==
  LET all == Files("processing")
      stuck == {n \in all : ~CanMove(n, "txt")}
      before(x) == {n \in all : n < x}
  IN /\ pc = "down"
     /\ UNCHANGED <<now, held, sent, heard>>
     /\ \/ stuck = {} /\ dir' = Recovered(all) /\ pc' = "idle" /\ NoFault
        \/ \E x \in stuck : First(x, stuck) /\ dir' = Recovered(before(x))
           /\ pc' = "closed" /\ NoFault
        \/ \E x \in all : (\A y \in stuck : x < y) /\ dir' = Recovered(before(x))
           /\ pc' = "closed" /\ Fault

\* dio_release_due: the earliest timer that is due becomes a message.
DueTimers == {n \in Files("timer") : n <= now}

ReleaseDue ==
  /\ pc = "idle"
  /\ UNCHANGED <<now, held, sent, heard>>
  /\ \/ DueTimers = {} /\ pc' = "next" /\ UNCHANGED <<dir, faults>>
     \/ \E n \in DueTimers :
          /\ First(n, DueTimers) /\ CanMove(n, "txt")
          /\ dir' = Moved(dir, n, "timer", "txt")
          /\ pc' = "next" /\ NoFault
     \/ DueTimers # {} /\ Fault /\ UNCHANGED <<dir, pc>>

\* dio_announcement_take: the first .txt file becomes the message in work.
Take ==
  /\ pc = "next"
  /\ UNCHANGED <<now, sent, heard>>
  /\ \/ Files("txt") = {} /\ pc' = "idle" /\ UNCHANGED <<dir, held, faults>>
     \/ \E n \in Files("txt") :
          /\ First(n, Files("txt"))
          /\ \/ /\ CanMove(n, "processing")
                /\ dir' = Moved(dir, n, "txt", "processing")
                /\ held' = dir[n]["txt"] /\ pc' = "read" /\ NoFault
             \/ ~CanMove(n, "processing") /\ pc' = "idle" /\ UNCHANGED <<dir, held, faults>>
             \/ pc' = "idle" /\ Fault /\ UNCHANGED <<dir, held>>

\* Mutants: a message that could not be spoken is deleted too; a spoken one stays.
FinishDeletes(spoken) ==
  /\ held' = None
  /\ dir' = [dir EXCEPT ![NameOf[held]]["processing"] = None]
  /\ NoFault

FinishKeeps(spoken) ==
  /\ held' = None
  /\ dir' = IF spoken THEN dir ELSE Moved(dir, NameOf[held], "processing", "failed")
  /\ NoFault

\* dio_announcement_finish and what its callers do with the receipt: a spoken
\* message is deleted, another set aside, and a failed call is ignored.
Finish(spoken) ==
  LET n == NameOf[held] IN
  /\ held' = None
  /\ \/ /\ dir' = IF spoken THEN [dir EXCEPT ![n]["processing"] = None]
                  ELSE Moved(dir, n, "processing", "failed")
        /\ NoFault
     \/ UNCHANGED dir /\ Fault

\* The file is read and handed to the voice core, or cannot be.
Read ==
  /\ pc = "read"
  /\ UNCHANGED <<now, sent, heard>>
  /\ \/ pc' = "speaking" /\ UNCHANGED <<dir, held, faults>>
     \/ pc' = "idle" /\ Finish(FALSE)

\* The end of the utterance is heard before the application learns of it.
Heard ==
  /\ pc = "speaking"
  /\ pc' = "spoken"
  /\ heard' = [heard EXCEPT ![held] = @ + 1]
  /\ UNCHANGED <<dir, now, held, sent, faults>>

\* dio_app_handle_speech_complete; a cancelled or failed utterance, or a voice
\* core that is closed under it, ends the message.
Complete ==
  /\ UNCHANGED <<now, sent, heard>>
  /\ \/ pc = "spoken" /\ Finish(TRUE)
     \/ pc \in {"speaking", "spoken"} /\ Finish(FALSE)
  /\ pc' = "idle"

\* New settings: the message in work ends with the voice core, and the inbox is
\* opened again.
Settings ==
  /\ pc \in {"idle", "speaking"} /\ Fault
  /\ pc' = "down" /\ held' = None
  /\ dir' = IF held = None THEN dir ELSE Moved(dir, NameOf[held], "processing", "failed")
  /\ UNCHANGED <<now, sent, heard>>

\* The program ends anywhere.
Crash ==
  /\ pc # "down" /\ Fault
  /\ pc' = "down" /\ held' = None
  /\ UNCHANGED <<dir, now, sent, heard>>

\* The user starts the program anew: an inbox that could not be opened, or a
\* file that could not be finished, waits for that.
Restart ==
  /\ \/ pc = "closed"
     \/ pc = "idle" /\ Files("processing") # {}
  /\ pc' = "down"
  /\ UNCHANGED <<dir, now, held, sent, heard, faults>>

App == Open \/ ReleaseDue \/ Take \/ Read \/ Heard \/ Complete

Next ==
  \/ \E r \in Reminders : Write(r) \/ Schedule(r)
  \/ \E m \in Drops : Drop(m)
  \/ Tick \/ App \/ Settings \/ Crash \/ Restart

\* The worker polls every 200 ms, the voice core ends every utterance, and the
\* program is not left running for ever in a state only a restart repairs.
Spec == Init /\ [][Next]_vars /\ WF_vars(App) /\ SF_vars(Restart) /\ WF_vars(Tick)

--------------------------------------------------------------------------------
(* Properties *)

TypeOK ==
  /\ dir \in [Names -> [Kinds -> Messages \cup {None}]]
  /\ now \in Nat
  /\ pc \in {"down", "closed", "idle", "next", "read", "speaking", "spoken"}
  /\ held \in Messages \cup {None}
  /\ heard \in [Messages -> Nat]
  /\ faults \in 0 .. MaxFaults

\* The state of a message, read off the directory.
Where(m, kind) == dir[NameOf[m]][kind] = m
MailOf(m) ==
  IF m \notin sent THEN "new"
  ELSE IF Where(m, "timer") \/ Where(m, "txt") \/ Where(m, "processing") THEN "pending"
  ELSE IF Where(m, "failed") THEN "failed"
  ELSE "over"

Mail == INSTANCE MailContract WITH mail <- [m \in Messages |-> MailOf(m)],
                                   heard <- {m \in Messages : heard[m] > 0}

\* The renames, deletions and recoveries implement the contract: an accepted
\* message is pending until it was heard or until speaking it failed, through
\* crashes and failed calls at every step, and is never handed out afterwards.
ImplementsMail == Mail!Spec

\* Each further hearing of a message has cost a crash, a failed call or new settings
\* of its own: the program ended, or the file could not be deleted, between the end
\* of the utterance and the deletion.
HeardOnce == \A m \in Messages : heard[m] <= 1 + (MaxFaults - faults)

\* Two files of one name cannot both be in work: the inbox does not open while
\* the rename that recovers one is blocked by the other.
Collision == \E n \in Names : n \in Files("txt") /\ n \in Files("processing")

\* Every accepted message is heard or set aside in the end, also one that was
\* in work when the program ended, unless two files of one name collide.
EventuallyTried ==
  \A m \in Messages : m \in sent ~> MailOf(m) \in {"failed", "over"} \/ Collision

================================================================================
