-------------------------- MODULE UserInterfaceProof --------------------------
(***************************************************************************)
(* Proofs about the two halves of src/app/ui.c.                            *)
(*                                                                         *)
(* The secret vault and the settings dialog, for any servers, passwords    *)
(* and number of failures: types, and which password opens the vault's     *)
(* file.                                                                   *)
(*                                                                         *)
(* The overlay, for any capacity of the queue and any number of turns,     *)
(* pieces of replies, tools and commands: types; every tool that asks is   *)
(* answered exactly once; what is shown at rest agrees with what was told; *)
(* the transcript is the one that was posted.                              *)
(***************************************************************************)
EXTENDS Vault, Overlay, SequenceTheorems, FiniteSetTheorems, TLAPS

-----------------------------------------------------------------------------
(* The vault                                                                *)

PcOK == pc \in {"down", "idle", "dialog", "tokens", "settings"}
FileOK == file \in [key : Passwords \cup {Zero, Absent}, has : Stored]
VaultOK == vault \in [open : BOOLEAN, key : Passwords \cup {Zero}, has : Stored]
ProfilesOK == settings \in Profile /\ profile \in Profile /\ draft \in Profile
FormOK ==
  form \in [key : Values \cup {Absent, Hollow}, dirty : BOOLEAN, detached : BOOLEAN,
            button : BOOLEAN, token : [Servers -> {"clean", "typed", "cleared"}]]
GhostOK ==
  ghost \in [master : Passwords \cup {Absent}, spoilt : BOOLEAN,
             dropped : SUBSET Names, lost : SUBSET Names, torn : BOOLEAN]
RestOK == changed \in BOOLEAN /\ fresh \in SUBSET Ids
FaultsOK == faults \in 0 .. MaxFaults

TypeInv == PcOK /\ FileOK /\ VaultOK /\ ProfilesOK /\ FormOK /\ GhostOK /\ RestOK /\ FaultsOK

\* What the operators on entries return.
LEMMA StoredTypes ==
  /\ Empty \in Stored
  /\ \A has \in Stored :
       /\ \A v \in Values \cup {Absent, Hollow} : \A n : Set(has, n, v) \in Stored
       /\ \A n : HalfSet(has, n) \in Stored
       /\ \A S : Without(has, S) \in Stored
       /\ KeyText(has) \in Values \cup {Absent, Hollow}
BY DEF Stored, Empty, Set, HalfSet, Without, KeyText, Names

LEMMA FileStep == FileOK /\ VaultOK /\ FormOK /\ [Next]_vars => FileOK'
<1> SUFFICES ASSUME FileOK, VaultOK, FormOK, [Next]_vars PROVE FileOK'
  OBVIOUS
<1>1. \A key \in Passwords \cup {Zero}, has \in Stored :
        Sealed(key, has) \in [key : Passwords \cup {Zero, Absent}, has : Stored]
  BY DEF Sealed
<1>2. NoFile \in [key : Passwords \cup {Zero, Absent}, has : Stored]
  BY StoredTypes DEF NoFile
<1>3. vault.key \in Passwords \cup {Zero} /\ vault.has \in Stored
  BY DEF VaultOK
<1>4. form.key \in Values \cup {Absent, Hollow}
  BY DEF FormOK
<1>5. CASE UNCHANGED file
  BY <1>5 DEF FileOK
<1>6. ASSUME NEW p \in Passwords, Create(p) \/ Unlock(p) \/ ChangePassword(p) PROVE FileOK'
  <2>1. CASE Unlock(p)
    BY <1>5, <2>1 DEF Unlock, disk
  <2>2. CASE Create(p)
    BY <1>1, <1>5, <2>2, StoredTypes DEF Create, FileOK
  <2>3. CASE ChangePassword(p)
    BY <1>1, <1>3, <1>5, <2>3 DEF ChangePassword, SaveFails, FileOK
  <2> QED
    BY <1>6, <2>1, <2>2, <2>3
<1>7. CASE Reset
  BY <1>2, <1>7 DEF Reset, FileOK
<1>8. ASSUME NEW has \in Stored, Saves(has) PROVE FileOK'
  BY <1>1, <1>3, <1>8 DEF Saves, FileOK
<1>9. CASE SaveKey
  BY <1>3, <1>4, <1>5, <1>8, <1>9, StoredTypes DEF SaveKey, SaveFails
<1>10. CASE SaveTokens
  BY <1>3, <1>5, <1>8, <1>10, StoredTypes DEF SaveTokens, FailTokens
<1> QED
  BY <1>5, <1>6, <1>7, <1>9, <1>10 DEF Next, Load, OpenDialog, CancelDialog, EditEndpoint, EditKey,
     Upsert, RemoveServer, SaveToken, TokenDone, FailTokens, KeyUntouched, SaveSettings, Exit,
     vars, disk

LEMMA VaultStep == FileOK /\ VaultOK /\ ProfilesOK /\ FormOK /\ [Next]_vars => VaultOK'
<1> SUFFICES ASSUME FileOK, VaultOK, ProfilesOK, FormOK, [Next]_vars PROVE VaultOK'
  OBVIOUS
<1>1. Locked \in [open : BOOLEAN, key : Passwords \cup {Zero}, has : Stored]
  BY StoredTypes DEF Locked
<1>2. \A has \in Stored :
        [vault EXCEPT !.has = has] \in [open : BOOLEAN, key : Passwords \cup {Zero}, has : Stored]
  BY DEF VaultOK
<1>3. /\ vault.has \in Stored /\ Parsed(TRUE) \in Stored /\ Parsed(FALSE) \in Stored
      /\ form.key \in Values \cup {Absent, Hollow}
  BY StoredTypes DEF VaultOK, FileOK, FormOK, Parsed
<1>4. CASE UNCHANGED vault
  BY <1>4 DEF VaultOK
<1>5. ASSUME NEW p \in Passwords, Create(p) \/ Unlock(p) \/ ChangePassword(p) PROVE VaultOK'
  <2>1. \A has \in Stored : [open |-> TRUE, key |-> p, has |-> has]
                             \in [open : BOOLEAN, key : Passwords \cup {Zero}, has : Stored]
    OBVIOUS
  <2>2. \A key \in Passwords \cup {Zero} :
          [vault EXCEPT !.key = key] \in [open : BOOLEAN, key : Passwords \cup {Zero}, has : Stored]
    BY DEF VaultOK
  <2>3. CASE Create(p)
    BY <1>1, <2>1, <2>3, StoredTypes DEF Create, VaultOK
  <2>4. CASE Unlock(p)
    <3>1. [vault EXCEPT !.key = Zero, !.has = Parsed(FALSE)]
            \in [open : BOOLEAN, key : Passwords \cup {Zero}, has : Stored]
      BY <1>3 DEF VaultOK
    <3> QED
      BY <1>3, <1>4, <2>1, <2>2, <2>4, <3>1 DEF Unlock, VaultOK
  <2>5. CASE ChangePassword(p)
    BY <1>4, <2>2, <2>5 DEF ChangePassword, VaultOK
  <2> QED
    BY <1>5, <2>3, <2>4, <2>5
<1>6. CASE Reset \/ Exit
  BY <1>1, <1>6 DEF Reset, Exit, VaultOK
<1>7. CASE SaveKey
  BY <1>2, <1>3, <1>7, StoredTypes DEF SaveKey, VaultOK
<1>8. ASSUME NEW s \in Servers, SaveToken(s) PROVE VaultOK'
  BY <1>2, <1>3, <1>8, StoredTypes DEF SaveToken, TokenDone, FailTokens, VaultOK, Values
<1>9. CASE SaveTokens
  BY <1>2, <1>3, <1>9, StoredTypes DEF SaveTokens, FailTokens, VaultOK
<1> QED
  BY <1>4, <1>5, <1>6, <1>7, <1>8, <1>9 DEF Next, Load, OpenDialog, CancelDialog, EditEndpoint, EditKey,
     Upsert, RemoveServer, KeyUntouched, SaveSettings, vars

LEMMA ProfilesStep == ProfilesOK /\ RestOK /\ [Next]_vars => ProfilesOK'
<1> SUFFICES ASSUME ProfilesOK, RestOK, [Next]_vars PROVE ProfilesOK'
  OBVIOUS
<1>1. \A mcp \in [Servers -> Ids \cup {Absent, Bare}] : [draft EXCEPT !.mcp = mcp] \in Profile
  BY DEF ProfilesOK, Profile
<1>2. \A s \in Servers, id \in Ids \cup {Absent, Bare} : [draft EXCEPT !.mcp[s] = id] \in Profile
  BY DEF ProfilesOK, Profile
<1>3. \A b \in BOOLEAN : [draft EXCEPT !.api = b] \in Profile
  BY DEF ProfilesOK, Profile
<1>4. CASE UNCHANGED draft
  BY <1>4 DEF ProfilesOK, Next, Create, Unlock, ChangePassword, Dialog, disk, Reset, Load,
     OpenDialog, CancelDialog, EditEndpoint, EditKey, Upsert, RemoveServer, SaveKey, KeyUntouched,
     SaveToken, SaveTokens, FailTokens, SaveSettings, SettingsWritten, SettingsKept, Exit, vars
<1>5. CASE UNCHANGED <<settings, profile>> /\ draft' \in Profile
  BY <1>5 DEF ProfilesOK
<1>6. CASE Load \/ OpenDialog \/ CancelDialog \/ Exit
  BY <1>6 DEF ProfilesOK, Load, OpenDialog, CancelDialog, Exit, disk
<1>7. CASE Reset
  <2>1. [draft EXCEPT !.api = FALSE, !.mcp = [s \in Servers |-> IF @[s] = Absent THEN Absent ELSE Bare]]
          \in Profile
    BY DEF ProfilesOK, Profile
  <2> QED
    BY <1>5, <1>7, <2>1 DEF Reset, Dialog
<1>8. ASSUME NEW e \in Endpoints, EditEndpoint(e) PROVE ProfilesOK'
  <2>1. [draft EXCEPT !.endpoint = e, !.api = FALSE] \in Profile
    BY DEF ProfilesOK, Profile
  <2> QED
    BY <1>5, <1>8, <2>1 DEF EditEndpoint, Dialog, disk
<1>9. ASSUME NEW s \in Servers, NEW edit \in {"clean", "typed", "cleared"}, Upsert(s, edit)
      PROVE  ProfilesOK'
  <2>1. draft.mcp[s] \in Ids \cup {Absent, Bare}
    BY DEF ProfilesOK, Profile
  <2>2. draft' \in Profile
    BY <1>2, <1>9, <2>1 DEF Upsert, RestOK
  <2> QED
    BY <1>5, <1>9, <2>2 DEF Upsert, Dialog, disk
<1>10. ASSUME NEW s \in Servers, RemoveServer(s) \/ SaveToken(s) PROVE ProfilesOK'
  <2>1. draft' \in Profile
    BY <1>2, <1>4, <1>10 DEF RemoveServer, SaveToken, ProfilesOK
  <2> QED
    BY <1>5, <1>10, <2>1 DEF RemoveServer, SaveToken, Dialog, disk
<1>11. CASE SaveKey
  <2>1. (form.key # Absent) \in BOOLEAN
    OBVIOUS
  <2>2. draft' \in Profile
    BY <1>3, <1>4, <1>11, <2>1 DEF SaveKey
  <2> QED
    BY <1>5, <1>11, <2>2 DEF SaveKey
<1> QED
  BY <1>4, <1>6, <1>7, <1>8, <1>9, <1>10, <1>11 DEF Next, Create, Unlock, ChangePassword,
     EditKey, KeyUntouched, SaveTokens, SaveSettings, vars

LEMMA FormStep == FileOK /\ VaultOK /\ ProfilesOK /\ FormOK /\ [Next]_vars => FormOK'
<1> SUFFICES ASSUME FileOK, VaultOK, ProfilesOK, FormOK, [Next]_vars PROVE FormOK'
  OBVIOUS
<1>1. NoForm \in [key : Values \cup {Absent, Hollow}, dirty : BOOLEAN, detached : BOOLEAN,
                  button : BOOLEAN, token : [Servers -> {"clean", "typed", "cleared"}]]
  BY DEF NoForm, Untouched
<1>2. /\ form.detached \in BOOLEAN /\ draft.api \in BOOLEAN /\ vault.has \in Stored
      /\ Parsed(TRUE) \in Stored /\ draft.endpoint \in Values
  BY DEF FormOK, ProfilesOK, Profile, VaultOK, FileOK, Parsed, Values
<1>3. CASE UNCHANGED form \/ form' = NoForm
  BY <1>1, <1>3 DEF FormOK
<1>4. \A p \in Passwords : Create(p) \/ ChangePassword(p) => FormOK'
  BY <1>2, <1>3 DEF Create, ChangePassword, FormOK
<1>5. ASSUME NEW p \in Passwords, Unlock(p) PROVE FormOK'
  <2>1. KeyText(Parsed(TRUE)) \in Values \cup {Absent, Hollow}
    BY <1>2, StoredTypes
  <2> QED
    BY <1>2, <1>3, <1>5, <2>1 DEF Unlock, FormOK
<1>6. CASE Reset
  BY <1>1, <1>2, <1>6 DEF Reset, FormOK, NoForm
<1>7. CASE OpenDialog
  <2>1. KeyText(vault.has) \in Values \cup {Absent, Hollow}
    BY <1>2, StoredTypes
  <2> QED
    BY <1>1, <1>7, <2>1 DEF OpenDialog, FormOK, NoForm
<1>8. ASSUME NEW e \in Endpoints, EditEndpoint(e) PROVE FormOK'
  BY <1>2, <1>8 DEF EditEndpoint, FormOK
<1>9. ASSUME NEW k \in {draft.endpoint, Absent}, EditKey(k) PROVE FormOK'
  BY <1>2, <1>9 DEF EditKey, FormOK
<1>10. ASSUME NEW s \in Servers, NEW edit \in {"clean", "typed", "cleared"},
              Upsert(s, edit) \/ RemoveServer(s) \/ SaveToken(s)
       PROVE  FormOK'
  BY <1>3, <1>10 DEF Upsert, RemoveServer, SaveToken, TokenDone, FormOK
<1>11. CASE SaveKey
  BY <1>3, <1>11 DEF SaveKey, FormOK
<1> QED
  BY <1>3, <1>4, <1>5, <1>6, <1>7, <1>8, <1>9, <1>10, <1>11 DEF Next, Load, CancelDialog,
     KeyUntouched, SaveTokens, SaveSettings, Exit, vars

\* The history that the steps of a save write.
LEMMA GhostTypes ==
  ASSUME GhostOK, ProfilesOK
  PROVE  /\ \A has : Written(has) \in [master : Passwords \cup {Absent}, spoilt : BOOLEAN,
                       dropped : SUBSET Names, lost : SUBSET Names, torn : BOOLEAN]
         /\ Torn \in [master : Passwords \cup {Absent}, spoilt : BOOLEAN,
                       dropped : SUBSET Names, lost : SUBSET Names, torn : BOOLEAN]
         /\ Given \subseteq Names
         /\ \A has : Written(has).master = ghost.master /\ Written(has).spoilt = ghost.spoilt
         /\ Torn.master = ghost.master /\ Torn.spoilt = ghost.spoilt
<1>1. Given \subseteq Names
  BY DEF Given, Refs, Names
<1>2. /\ ghost.dropped \cup Given \in SUBSET Names
      /\ \A S : (ghost.dropped \ S) \cup Given \in SUBSET Names /\ ghost.lost \ S \in SUBSET Names
      /\ ghost.lost \cup {ApiKey} \in SUBSET Names /\ ghost.lost \in SUBSET Names
  BY <1>1 DEF GhostOK, Names
<1>3. \A d, l \in SUBSET Names :
        /\ [ghost EXCEPT !.dropped = d, !.lost = l]
             \in [master : Passwords \cup {Absent}, spoilt : BOOLEAN,
                  dropped : SUBSET Names, lost : SUBSET Names, torn : BOOLEAN]
        /\ [ghost EXCEPT !.dropped = d, !.torn = TRUE, !.lost = l]
             \in [master : Passwords \cup {Absent}, spoilt : BOOLEAN,
                  dropped : SUBSET Names, lost : SUBSET Names, torn : BOOLEAN]
  BY DEF GhostOK
<1> QED
  BY <1>1, <1>2, <1>3 DEF Written, Torn, GhostOK

LEMMA GhostStep == GhostOK /\ ProfilesOK /\ VaultOK /\ [Next]_vars => GhostOK'
<1> SUFFICES ASSUME GhostOK, ProfilesOK, VaultOK, [Next]_vars PROVE GhostOK'
  OBVIOUS
<1>1. CASE UNCHANGED ghost
  BY <1>1 DEF GhostOK
<1>2. ASSUME NEW p \in Passwords, Create(p) \/ Unlock(p) \/ ChangePassword(p) PROVE GhostOK'
  <2>1. (ghost.spoilt \/ vault.open) \in BOOLEAN
    OBVIOUS
  <2>2. \A has : ghost.lost \ Held(has) \in SUBSET Names /\ ghost.lost \cup Held(has) \in SUBSET Names
    BY DEF GhostOK, Held
  <2> QED
    BY <1>1, <1>2, <2>1, <2>2 DEF Create, Unlock, ChangePassword, GhostOK
<1>3. CASE Reset
  BY <1>3 DEF Reset, GhostOK
<1>4. ASSUME NEW s \in Servers, NEW edit \in {"clean", "typed", "cleared"}, Upsert(s, edit)
      PROVE  GhostOK'
  BY <1>4 DEF Upsert, GhostOK, Names
<1>5. CASE SaveKey
  BY <1>1, <1>5, GhostTypes DEF SaveKey, GhostOK
<1>10. CASE SaveTokens
  <2>1. \A S \in SUBSET Ids : ghost.lost \cup S \in SUBSET Names
    BY DEF GhostOK, Names
  <2>2. \A S \in SUBSET Names :
          [ghost EXCEPT !.torn = TRUE, !.lost = S]
            \in [master : Passwords \cup {Absent}, spoilt : BOOLEAN,
                 dropped : SUBSET Names, lost : SUBSET Names, torn : BOOLEAN]
    BY DEF GhostOK
  <2>3. ASSUME NEW has, FailTokens(has) PROVE GhostOK'
    <3> DEFINE S == {n \in Ids : has[n] # Absent /\ file.has[n] = Absent}
    <3>1. ghost' = [ghost EXCEPT !.torn = TRUE, !.lost = ghost.lost \cup S]
      BY <2>3 DEF FailTokens, GhostOK
    <3>2. ghost.lost \cup S \in SUBSET Names
      BY <2>1
    <3> HIDE DEF S
    <3> QED
      BY <2>2, <3>1, <3>2 DEF GhostOK
  <2> QED
    BY <1>1, <1>10, <2>3, GhostTypes DEF SaveTokens, GhostOK
<1>6. CASE KeyUntouched
  BY <1>6, GhostTypes DEF KeyUntouched, GhostOK
<1>7. ASSUME NEW s \in Servers, SaveToken(s) PROVE GhostOK'
  BY <1>1, <1>7 DEF SaveToken, TokenDone, FailTokens, GhostOK, Names
<1>8. CASE SaveSettings
  BY <1>1, <1>8 DEF SaveSettings, GhostOK
<1>9. CASE Exit
  <2>1. (ghost.torn \/ pc \in {"tokens", "settings"}) \in BOOLEAN
    OBVIOUS
  <2> QED
    BY <1>9, <2>1 DEF Exit, GhostOK
<1> QED
  BY <1>1, <1>2, <1>3, <1>4, <1>5, <1>6, <1>7, <1>8, <1>9, <1>10 DEF Next, Load, OpenDialog,
     CancelDialog, EditEndpoint, EditKey, RemoveServer, vars

LEMMA RestStep == PcOK /\ RestOK /\ [Next]_vars => PcOK' /\ RestOK'
<1> SUFFICES ASSUME PcOK, RestOK, [Next]_vars PROVE PcOK' /\ RestOK'
  OBVIOUS
<1> USE DEF Next, Create, Unlock, ChangePassword, Dialog, Reset, Load, OpenDialog, CancelDialog,
      EditEndpoint, EditKey, Upsert, RemoveServer, SaveKey, KeyUntouched, SaveToken, TokenDone,
      FailTokens, SaveTokens, SaveSettings, Exit, vars
<1>1. PcOK'
  BY DEF PcOK
<1>2. RestOK'
  BY DEF RestOK
<1> QED
  BY <1>1, <1>2

LEMMA FaultsStep == FaultsOK /\ [Next]_vars => FaultsOK'
<1> SUFFICES ASSUME FaultsOK, [Next]_vars PROVE FaultsOK'
  OBVIOUS
<1>1. Fault \/ NoFault
  BY DEF NoFault, Next, Create, Unlock, ChangePassword, Reset, Load, OpenDialog, CancelDialog,
     EditEndpoint, EditKey, Upsert, RemoveServer, SaveKey, KeyUntouched, SaveToken, TokenDone,
     FailTokens, SaveTokens, Saves, SaveFails, SaveSettings, Exit, vars
<1> QED
  BY <1>1, BoundsAssumption DEF FaultsOK, Fault, NoFault

LEMMA TypeInit == Init => TypeInv
<1> SUFFICES ASSUME Init PROVE TypeInv
  OBVIOUS
<1>1. PcOK /\ RestOK
  BY DEF Init, PcOK, RestOK
<1>2. FileOK /\ VaultOK
  BY StoredTypes DEF Init, FileOK, VaultOK, NoFile, Locked
<1>3. ProfilesOK
  BY DEF Init, ProfilesOK, Profile
<1>4. FormOK
  BY DEF Init, FormOK, NoForm, Untouched
<1>5. GhostOK
  BY DEF Init, GhostOK
<1>6. FaultsOK
  BY BoundsAssumption DEF Init, FaultsOK
<1> QED
  BY <1>1, <1>2, <1>3, <1>4, <1>5, <1>6 DEF TypeInv

\* Vault: the types are inductive.
THEOREM TypeInvariant == Spec => []TypeInv
<1>1. TypeInv /\ [Next]_vars => TypeInv'
  BY FileStep, VaultStep, ProfilesStep, FormStep, GhostStep, RestStep, FaultsStep DEF TypeInv
<1> QED
  BY TypeInit, <1>1, PTL DEF Spec

\* Every variable keeps its type.
THEOREM TypeCorrect == Spec => []TypeOK
<1>1. ProfilesOK => {settings, profile, draft} \subseteq Profile
  BY DEF ProfilesOK
<1>2. TypeInv => TypeOK
  BY <1>1 DEF TypeInv, PcOK, FileOK, VaultOK, FormOK, GhostOK, RestOK, FaultsOK, TypeOK
<1> QED
  BY <1>2, TypeInvariant, PTL

-----------------------------------------------------------------------------
(* The password of the vault's file *)

\* The file and the key in memory go with the master password, as long as no
\* unlock of an open vault failed; and entries are only changed in an open one.
KeyInv ==
  /\ file # NoFile /\ ~ghost.spoilt => file.key = ghost.master
  /\ vault.open /\ ~ghost.spoilt => vault.key = ghost.master
  /\ changed => pc = "tokens" /\ vault.open

\* A step that leaves the master password, the file and the key as they are.
LEMMA KeyFrame ==
  ASSUME KeyInv, UNCHANGED file, vault'.key = vault.key, vault'.open = vault.open,
         ghost'.master = ghost.master, ghost'.spoilt = ghost.spoilt,
         changed' => pc' = "tokens" /\ vault.open
  PROVE  KeyInv'
BY DEF KeyInv, NoFile, Empty, Names

\* A step that writes the file with the key in memory.
LEMMA KeyWrite ==
  ASSUME KeyInv, vault.open, file'.key = vault.key, vault'.key = vault.key, vault'.open = vault.open,
         ghost'.master = ghost.master, ghost'.spoilt = ghost.spoilt,
         changed' => pc' = "tokens" /\ vault.open
  PROVE  KeyInv'
BY DEF KeyInv

LEMMA KeyStep == TypeInv /\ KeyInv /\ [Next]_vars => KeyInv'
<1> SUFFICES ASSUME TypeInv, KeyInv, [Next]_vars PROVE KeyInv'
  OBVIOUS
<1>0. /\ VaultOK /\ GhostOK /\ ProfilesOK
      /\ changed => pc = "tokens" /\ vault.open
  BY DEF TypeInv, KeyInv
<1>1. ASSUME NEW p \in Passwords, Create(p) PROVE KeyInv'
  <2>1. changed' => FALSE
    BY <1>0, <1>1 DEF Create, Dialog
  <2>2. CASE vault' = Locked /\ UNCHANGED <<file, ghost>>
    BY <2>1, <2>2 DEF KeyInv, Locked
  <2>3. CASE /\ file' = Sealed(p, Empty) /\ vault' = [open |-> TRUE, key |-> p, has |-> Empty]
             /\ ghost' = [ghost EXCEPT !.master = p, !.spoilt = FALSE]
    BY <1>0, <2>1, <2>3 DEF KeyInv, Sealed, GhostOK
  <2> QED
    BY <1>1, <2>2, <2>3 DEF Create
<1>2. ASSUME NEW p \in Passwords, Unlock(p) PROVE KeyInv'
  <2>1. changed' => FALSE
    BY <1>0, <1>2 DEF Unlock, Dialog
  <2>2. UNCHANGED file
    BY <1>2 DEF Unlock, disk
  <2>3. CASE /\ Opens(p) /\ vault' = [open |-> TRUE, key |-> p, has |-> Parsed(TRUE)]
             /\ ghost' = [ghost EXCEPT !.lost = @ \ Held(Parsed(TRUE))]
    <3>1. vault'.open /\ vault'.key = p /\ ghost'.master = ghost.master /\ ghost'.spoilt = ghost.spoilt
      BY <1>0, <2>3 DEF GhostOK
    <3> QED
      BY <1>2, <2>1, <2>2, <2>3, <3>1 DEF KeyInv, Opens, Unlock
  <2>4. CASE /\ vault' \in {[vault EXCEPT !.key = Zero],
                            [vault EXCEPT !.key = Zero, !.has = Parsed(FALSE)]}
             /\ ghost' \in {[ghost EXCEPT !.spoilt = @ \/ vault.open],
                            [ghost EXCEPT !.spoilt = @ \/ vault.open, !.lost = @ \cup Held(vault.has)]}
    <3>1. vault'.open = vault.open /\ ghost'.master = ghost.master
          /\ (vault.open => ghost'.spoilt) /\ (ghost.spoilt => ghost'.spoilt)
      BY <1>0, <2>4 DEF VaultOK, GhostOK
    <3> QED
      BY <2>1, <2>2, <3>1 DEF KeyInv, NoFile, Empty, Names
  <2>5. CASE UNCHANGED <<vault, ghost>>
    BY <2>1, <2>2, <2>5 DEF KeyInv
  <2> QED
    BY <1>2, <2>3, <2>4, <2>5 DEF Unlock
<1>3. ASSUME NEW p \in Passwords, ChangePassword(p) PROVE KeyInv'
  <2>1. changed' => FALSE
    BY <1>0, <1>3 DEF ChangePassword, Dialog
  <2>2. CASE SaveFails(vault.has) /\ UNCHANGED <<vault, ghost>>
    BY <2>1, <2>2, KeyFrame DEF SaveFails
  <2>3. CASE /\ vault' = [vault EXCEPT !.key = p] /\ file' = Sealed(p, vault.has)
             /\ ghost' = [ghost EXCEPT !.master = p, !.spoilt = FALSE]
    BY <1>0, <2>1, <2>3 DEF KeyInv, Sealed, VaultOK, GhostOK
  <2> QED
    BY <1>3, <2>2, <2>3 DEF ChangePassword
<1>4. CASE Reset
  BY <1>0, <1>4 DEF Reset, Dialog, KeyInv, Locked
<1>5. CASE Exit
  BY <1>0, <1>5 DEF Exit, KeyInv, Locked, disk, GhostOK, NoFile, Empty, Names
<1>6. CASE SaveKey
  <2>1. /\ vault.open /\ (changed' => FALSE) /\ vault'.key = vault.key /\ vault'.open = vault.open
    BY <1>0, <1>6 DEF SaveKey, VaultOK
  <2>2. ghost'.master = ghost.master /\ ghost'.spoilt = ghost.spoilt
    BY <1>0, <1>6, GhostTypes DEF SaveKey
  <2>3. UNCHANGED file \/ file'.key = vault.key
    BY <1>6 DEF SaveKey, Saves, SaveFails, Sealed
  <2> QED
    BY <2>1, <2>2, <2>3, KeyFrame, KeyWrite
<1>7. ASSUME NEW s \in Servers, SaveToken(s) PROVE KeyInv'
  <2>1. /\ vault'.key = vault.key /\ vault'.open = vault.open
        /\ ghost'.master = ghost.master /\ ghost'.spoilt = ghost.spoilt
    BY <1>0, <1>7 DEF SaveToken, TokenDone, FailTokens, VaultOK, GhostOK
  <2>2. UNCHANGED file /\ (changed' => pc' = "tokens" /\ vault.open)
    BY <1>0, <1>7 DEF SaveToken, TokenDone, FailTokens
  <2> QED
    BY <2>1, <2>2, KeyFrame
<1>8. CASE SaveTokens
  <2>1. /\ vault'.key = vault.key /\ vault'.open = vault.open
        /\ ghost'.master = ghost.master /\ ghost'.spoilt = ghost.spoilt
    BY <1>0, <1>8, GhostTypes DEF SaveTokens, FailTokens, VaultOK, GhostOK
  <2>2. changed' => FALSE
    BY <1>0, <1>8 DEF SaveTokens, FailTokens
  <2>3. UNCHANGED file \/ (vault.open /\ file'.key = vault.key)
    BY <1>0, <1>8 DEF SaveTokens, FailTokens, Saves, SaveFails, Sealed
  <2> QED
    BY <2>1, <2>2, <2>3, KeyFrame, KeyWrite
<1>9. CASE UNCHANGED <<file, vault>> /\ ghost'.master = ghost.master
           /\ ghost'.spoilt = ghost.spoilt /\ (changed' => pc' = "tokens" /\ vault.open)
  BY <1>9, KeyFrame
<1>10. CASE Load \/ OpenDialog \/ CancelDialog \/ UNCHANGED vars
  BY <1>0, <1>9, <1>10 DEF Load, OpenDialog, CancelDialog, disk, vars
<1>11. ASSUME NEW s \in Servers, NEW edit, Upsert(s, edit) \/ RemoveServer(s)
       PROVE  KeyInv'
  BY <1>0, <1>9, <1>11 DEF Upsert, RemoveServer, Dialog, disk, GhostOK
<1>12. CASE KeyUntouched \/ SaveSettings
  BY <1>0, <1>9, <1>12 DEF KeyUntouched, SaveSettings, disk, GhostOK
<1>13. ASSUME NEW e \in Endpoints, EditEndpoint(e) PROVE KeyInv'
  BY <1>0, <1>9, <1>13 DEF EditEndpoint, Dialog, disk
<1>14. ASSUME NEW k, EditKey(k) PROVE KeyInv'
  BY <1>0, <1>9, <1>14 DEF EditKey, Dialog, disk
<1> QED
  BY <1>1, <1>2, <1>3, <1>4, <1>5, <1>6, <1>7, <1>8, <1>10, <1>11, <1>12, <1>13, <1>14 DEF Next

\* The master password that was set last opens the vault's file, through changes
\* of password that fail, until a wrong password is given for an open vault
\* (dio_vault_change_password, dio_vault_unlock).
THEOREM KeyIsKept == Spec => []KeyKept
<1>1. Init => KeyInv
  BY DEF Init, KeyInv, Locked
<1>2. KeyInv => KeyKept
  BY DEF KeyInv, KeyKept, PasswordOpens
<1> QED
  BY <1>1, <1>2, KeyStep, TypeInvariant, PTL DEF Spec

-----------------------------------------------------------------------------
(* The secrets that the two files agree about *)

\* A name that the user gave up, or whose value is lost; and one that is not
\* missing from the file.
Excused == ghost.dropped \cup ghost.lost
Kept(n) == file.has[n] # Absent \/ n \in Excused

\* The token of a server is still to be put into the vault, or the save at work has
\* put it into memory and will write the file.
Pending(s) ==
  form.token[s] # "clean" \/ (pc = "tokens" /\ changed /\ vault.has[draft.mcp[s]] # Absent)

\* Every name that settings, session or draft refer to.
RefsInv ==
  /\ \A n \in Refs(settings) \cup Refs(profile) : Kept(n)
  /\ draft.api => Kept(ApiKey)
  /\ \A s \in Servers : draft.mcp[s] \in Ids => Kept(draft.mcp[s]) \/ Pending(s)

\* An open vault has lost nothing that the file holds, except on purpose.
MemoryInv ==
  vault.open => \A n \in Names : file.has[n] # Absent => vault.has[n] # Absent \/ n \in Excused

\* Past the key, what the save takes away is known; past the tokens, none is left.
SaveInv ==
  /\ pc = "tokens" => Given \subseteq ghost.dropped
  /\ pc = "settings" => form.token = Untouched

SecretInv == RefsInv /\ MemoryInv /\ SaveInv

LEMMA NamesFacts ==
  /\ ApiKey \in Names /\ ApiKey \notin Ids /\ Ids \subseteq Names
  /\ Absent \notin Ids /\ Bare \notin Ids
  /\ \A p : Refs(p) \subseteq Names
BY NamesAssumption DEF Names, Refs

\* A step that keeps or enlarges what the file and the memory hold and what is
\* excused, while settings and session change places only.
LEMMA SecretsFrame ==
  ASSUME SecretInv,
         {settings', profile'} \subseteq {settings, profile}, draft' \in {draft, settings, profile},
         \A n \in Names : Kept(n) => Kept(n)',
         vault'.open => MemoryInv',
         pc' \notin {"tokens", "settings"},
         draft' = draft => \A s \in Servers : draft.mcp[s] \in Ids /\ Pending(s) => Kept(draft.mcp[s])' \/ Pending(s)'
  PROVE  SecretInv'
<1>1. \A n \in Refs(settings') \cup Refs(profile') : Kept(n)'
  BY NamesFacts DEF SecretInv, RefsInv
<1>2. CASE draft' = draft
  BY <1>1, <1>2, NamesFacts DEF SecretInv, RefsInv, MemoryInv, SaveInv
<1>3. CASE draft' \in {settings, profile}
  <2>1. \A s \in Servers : draft'.mcp[s] \in Ids => draft'.mcp[s] \in Refs(draft')
    BY DEF Refs
  <2>2. draft'.api => ApiKey \in Refs(draft')
    BY DEF Refs
  <2> QED
    BY <1>1, <1>3, <2>1, <2>2, NamesFacts DEF SecretInv, RefsInv, MemoryInv, SaveInv
<1> QED
  BY <1>2, <1>3

LEMMA SecretDialog ==
  ASSUME TypeInv, KeyInv, SecretInv, Next, pc = "dialog",
         ~SaveKey, ~KeyUntouched, ~Exit
  PROVE  SecretInv'
<1>0. /\ pc # "tokens" /\ pc # "settings" /\ changed = FALSE
      /\ VaultOK /\ GhostOK /\ ProfilesOK /\ FormOK /\ FileOK
  BY DEF TypeInv, KeyInv, RestOK
<1>1. ASSUME NEW p \in Passwords, Create(p) PROVE SecretInv'
  <2>1. \A n \in Names : file.has[n] = Absent
    BY <1>1 DEF Create, NoFile, Empty
  <2>2. UNCHANGED <<settings, profile, draft>> /\ pc' = "dialog" /\ ghost'.dropped = ghost.dropped /\ ghost'.lost = ghost.lost
    BY <1>0, <1>1 DEF Create, Dialog, GhostOK
  <2>3. vault'.open => MemoryInv'
    BY <1>1 DEF Create, MemoryInv, Sealed, Empty, Locked
  <2>4. \A n \in Names : Kept(n) => Kept(n)'
    BY <2>1, <2>2 DEF Kept, Excused
  <2>5. form'.token = form.token
    BY <1>0, <1>1 DEF Create, FormOK
  <2> QED
    BY <1>0, <2>2, <2>3, <2>4, <2>5, SecretsFrame DEF Pending
<1>2. ASSUME NEW p \in Passwords, Unlock(p) PROVE SecretInv'
  <2>1. UNCHANGED <<file, settings, profile, draft>> /\ pc' = "dialog"
    BY <1>0, <1>2 DEF Unlock, Dialog, disk
  <2>2. form'.token = form.token
    BY <1>0, <1>2 DEF Unlock, FormOK
  <2>3. /\ vault'.open => MemoryInv'
        /\ \A n \in Names : Kept(n) => Kept(n)'
    <3>1. CASE UNCHANGED <<vault, ghost>>
      BY <2>1, <3>1 DEF SecretInv, MemoryInv, Kept, Excused
    <3>2. CASE vault'.has = file.has /\ ghost' = [ghost EXCEPT !.lost = @ \ Held(file.has)]
      BY <1>0, <2>1, <3>2 DEF MemoryInv, Kept, Excused, GhostOK, Held
    <3>3. CASE vault' = [vault EXCEPT !.key = Zero] /\ ghost' = [ghost EXCEPT !.spoilt = @ \/ vault.open]
      BY <1>0, <2>1, <3>3 DEF SecretInv, MemoryInv, Kept, Excused, VaultOK, GhostOK
    <3>4. CASE /\ vault' = [vault EXCEPT !.key = Zero, !.has = Parsed(FALSE)]
               /\ ghost' = [ghost EXCEPT !.spoilt = @ \/ vault.open, !.lost = @ \cup Held(vault.has)]
      <4>1. /\ vault'.open = vault.open /\ ghost'.dropped = ghost.dropped
            /\ ghost'.lost = ghost.lost \cup Held(vault.has)
        BY <1>0, <3>4 DEF VaultOK, GhostOK
      <4> QED
        BY <2>1, <4>1 DEF SecretInv, MemoryInv, Kept, Excused, Held
    <3> QED
      BY <1>2, <3>1, <3>2, <3>3, <3>4 DEF Unlock, Parsed
  <2> QED
    BY <1>0, <2>1, <2>2, <2>3, SecretsFrame DEF Pending
<1>3. ASSUME NEW p \in Passwords, ChangePassword(p) PROVE SecretInv'
  <2>1. /\ UNCHANGED <<settings, profile, draft, form>> /\ pc' = "dialog" /\ vault.open
        /\ ghost'.dropped = ghost.dropped /\ ghost'.lost = ghost.lost
        /\ vault'.has = vault.has
    BY <1>0, <1>3 DEF ChangePassword, Dialog, GhostOK, VaultOK
  <2>2. UNCHANGED file \/ file'.has = vault.has
    BY <1>3 DEF ChangePassword, SaveFails, Sealed
  <2>3. MemoryInv' /\ \A n \in Names : Kept(n) => Kept(n)'
    BY <2>1, <2>2 DEF SecretInv, MemoryInv, Kept, Excused
  <2> QED
    BY <1>0, <2>1, <2>3, SecretsFrame DEF Pending
<1>4. CASE Reset
  <2>1. /\ ghost'.dropped = Names /\ ~vault'.open /\ pc' = "dialog"
    BY <1>0, <1>4 DEF Reset, Dialog, Locked, GhostOK
  <2> QED
    BY <2>1, NamesFacts DEF SecretInv, RefsInv, MemoryInv, SaveInv, Kept, Excused
<1>5. CASE CancelDialog
  <2>1. /\ UNCHANGED <<file, settings, profile, vault, ghost>> /\ pc' = "idle"
        /\ draft' = profile /\ form'.token = Untouched
    BY <1>5 DEF CancelDialog, disk, NoForm
  <2>2. MemoryInv' /\ \A n \in Names : Kept(n) => Kept(n)'
    BY <2>1 DEF SecretInv, MemoryInv, Kept, Excused
  <2>3. draft' = draft => \A s \in Servers : draft.mcp[s] \in Ids => draft.mcp[s] \in Refs(profile)
    BY <2>1 DEF Refs
  <2>4. draft' = draft => \A s \in Servers : draft.mcp[s] \in Ids => Kept(draft.mcp[s])'
    BY <2>1, <2>3 DEF SecretInv, RefsInv, Kept, Excused
  <2> QED
    BY <2>1, <2>2, <2>4, SecretsFrame
<1>6. ASSUME NEW e \in Endpoints, EditEndpoint(e) PROVE SecretInv'
  <2>1. /\ UNCHANGED <<file, vault, settings, profile, ghost>> /\ pc' = "dialog"
        /\ draft'.mcp = draft.mcp /\ ~draft'.api /\ form'.token = form.token
    BY <1>0, <1>6 DEF EditEndpoint, Dialog, disk, ProfilesOK, Profile, FormOK
  <2> QED
    BY <1>0, <2>1 DEF SecretInv, RefsInv, MemoryInv, SaveInv, Kept, Excused, Pending
<1>7. ASSUME NEW k, EditKey(k) PROVE SecretInv'
  <2>1. /\ UNCHANGED <<file, vault, settings, profile, draft, ghost>> /\ pc' = "dialog"
        /\ form'.token = form.token
    BY <1>0, <1>7 DEF EditKey, Dialog, disk, FormOK
  <2> QED
    BY <1>0, <2>1 DEF SecretInv, RefsInv, MemoryInv, SaveInv, Kept, Excused, Pending
<1>8. ASSUME NEW s \in Servers, NEW edit \in {"clean", "typed", "cleared"}, Upsert(s, edit)
      PROVE  SecretInv'
  <2>1. /\ UNCHANGED <<file, vault, settings, profile, changed>> /\ pc' = "dialog"
        /\ draft'.api = draft.api /\ form'.token = [form.token EXCEPT ![s] = edit]
        /\ ghost'.dropped = ghost.dropped /\ ghost.lost \subseteq ghost'.lost
    BY <1>0, <1>8 DEF Upsert, Dialog, disk, GhostOK, FormOK, ProfilesOK, Profile
  <2>2. /\ \A t \in Servers \ {s} : draft'.mcp[t] = draft.mcp[t]
        /\ edit = "typed" \/ draft'.mcp[s] = draft.mcp[s] \/ draft'.mcp[s] = Bare
    BY <1>0, <1>8 DEF Upsert, ProfilesOK, Profile
  <2>3. draft.mcp[s] \in Ids /\ edit = "clean" /\ form.token[s] # "clean" => draft.mcp[s] \in ghost'.lost
    BY <1>0, <1>8 DEF Upsert, GhostOK
  <2>4. \A n : Kept(n) => Kept(n)'
    BY <2>1 DEF Kept, Excused
  <2>5. \A t \in Servers : (draft.mcp[t] \in Ids => Kept(draft.mcp[t]) \/ Pending(t))'
    <3> TAKE t \in Servers
    <3>1. CASE t # s
      BY <1>0, <2>1, <2>2, <2>4, <3>1 DEF SecretInv, RefsInv, Pending, FormOK
    <3>2. CASE t = s /\ edit # "clean"
      BY <1>0, <2>1, <3>2 DEF Pending, FormOK
    <3>3. CASE t = s /\ edit = "clean"
      BY <1>0, <2>1, <2>2, <2>3, <2>4, <3>3, NamesFacts DEF SecretInv, RefsInv, Pending, Kept, Excused
    <3> QED
      BY <3>1, <3>2, <3>3
  <2> QED
    BY <1>0, <2>1, <2>4, <2>5 DEF SecretInv, RefsInv, MemoryInv, SaveInv, Excused
<1>9. ASSUME NEW s \in Servers, RemoveServer(s) PROVE SecretInv'
  <2>1. /\ UNCHANGED <<file, vault, settings, profile, changed, ghost>> /\ pc' = "dialog"
        /\ draft'.api = draft.api /\ draft'.mcp = [draft.mcp EXCEPT ![s] = Absent]
        /\ form'.token = [form.token EXCEPT ![s] = "clean"]
    BY <1>0, <1>9 DEF RemoveServer, Dialog, disk, FormOK, ProfilesOK, Profile
  <2>2. \A t \in Servers : draft'.mcp[t] \in Ids
            => t # s /\ draft'.mcp[t] = draft.mcp[t] /\ form'.token[t] = form.token[t]
    BY <1>0, <2>1, NamesFacts DEF FormOK, ProfilesOK, Profile
  <2> QED
    BY <1>0, <2>1, <2>2 DEF SecretInv, RefsInv, MemoryInv, SaveInv, Kept, Excused, Pending
<1> QED
  BY <1>0, <1>1, <1>2, <1>3, <1>4, <1>5, <1>6, <1>7, <1>8, <1>9 DEF Next, Load, OpenDialog,
     SaveToken, SaveTokens, SaveSettings

\* The file is written with what the memory holds: what was kept is kept, if only
\* names that were given up are missing.
LEMMA WriteKeeps ==
  ASSUME GhostOK, NEW has \in Stored, file'.has = has, vault'.has = has, ghost' = Written(has),
         \A n \in Names : file.has[n] # Absent => has[n] # Absent \/ n \in Excused \cup Given
  PROVE  /\ \A n \in Names : Kept(n) => Kept(n)'
         /\ MemoryInv' /\ Given \subseteq ghost'.dropped
         /\ \A n \in Names : has[n] # Absent => Kept(n)'
<1>1. /\ ghost'.dropped = (ghost.dropped \ {n \in Names : has[n] # Absent}) \cup Given
      /\ ghost'.lost = ghost.lost \ {n \in Names : has[n] # Absent}
  BY DEF Written, Held, GhostOK
<1> QED
  BY <1>1 DEF Kept, Excused, MemoryInv

\* What a save takes away, the server's key aside.
LEMMA GivenFacts ==
  /\ \A s \in Servers : form.token[s] = "cleared" /\ draft.mcp[s] \in Ids => draft.mcp[s] \in Given
  /\ (Refs(profile) \ {ApiKey}) \ Refs(draft) \subseteq Given
  /\ form.dirty /\ form.key = Absent => ApiKey \in Given
BY DEF Given

LEMMA SecretKey == TypeInv /\ KeyInv /\ SecretInv /\ (SaveKey \/ KeyUntouched) => SecretInv'
<1> SUFFICES ASSUME TypeInv, KeyInv, SecretInv, SaveKey \/ KeyUntouched PROVE SecretInv'
  OBVIOUS
<1>0. /\ pc = "dialog" /\ changed = FALSE
      /\ VaultOK /\ GhostOK /\ ProfilesOK /\ FormOK /\ FileOK
  BY DEF TypeInv, KeyInv, RestOK, SaveKey, KeyUntouched
<1>1. CASE KeyUntouched
  <2>1. /\ UNCHANGED <<file, settings, profile, vault, draft, form>> /\ pc' = "tokens"
        /\ ghost'.lost = ghost.lost /\ ghost'.dropped = ghost.dropped \cup Given /\ Given' = Given
    BY <1>0, <1>1 DEF KeyUntouched, disk, GhostOK, Given
  <2> QED
    BY <1>0, <2>1 DEF SecretInv, RefsInv, MemoryInv, SaveInv, Kept, Excused, Pending
<1>2. CASE SaveKey
  <2> DEFINE api == form.key # Absent
             has == IF api THEN Set(vault.has, ApiKey, form.key)
                    ELSE Without(vault.has, IF draft.api \/ form.detached THEN {ApiKey} ELSE {})
  <2>1. /\ UNCHANGED <<settings, profile, changed>> /\ vault.open /\ form.dirty
        /\ draft'.api = api /\ draft'.mcp = draft.mcp /\ form'.token = form.token
        /\ form'.key = form.key /\ form'.dirty = form.dirty
    BY <1>0, <1>2 DEF SaveKey, ProfilesOK, Profile, FormOK
  <2>2. has \in Stored
    BY <1>0, StoredTypes DEF VaultOK, FormOK
  <2>3. \A n \in Names : vault.has[n] # Absent => has[n] # Absent \/ (n = ApiKey /\ ~api)
    BY <1>0, NamesFacts DEF Set, Without, VaultOK, Stored
  <2>4. \A n \in Names : file.has[n] # Absent => has[n] # Absent \/ n \in Excused \cup Given
    BY <2>1, <2>3, GivenFacts DEF SecretInv, MemoryInv
  <2>5. api => has[ApiKey] # Absent
    BY <1>0, NamesFacts DEF Set, VaultOK, Stored
  <2>6. CASE vault' = [vault EXCEPT !.has = has] /\ Saves(has) /\ pc' = "tokens" /\ ghost' = Written(has)
    <3>1. file'.has = has /\ vault'.has = has
      BY <1>0, <2>6 DEF Saves, Sealed, VaultOK
    <3>2. /\ \A n \in Names : Kept(n) => Kept(n)'
          /\ MemoryInv' /\ Given \subseteq ghost'.dropped
          /\ api => Kept(ApiKey)'
      BY <1>0, <2>2, <2>4, <2>5, <2>6, <3>1, WriteKeeps, NamesFacts
    <3>3. Given' \subseteq Given
      <4>1. Refs(draft) \subseteq Refs(draft') \cup Given
        BY <2>1, GivenFacts DEF Refs
      <4>2. Refs(settings') = Refs(settings) /\ Refs(profile') = Refs(profile)
        BY <2>1
      <4>3. {draft'.mcp[s] : s \in {t \in Servers : form'.token[t] = "cleared"}}
              = {draft.mcp[s] : s \in {t \in Servers : form.token[t] = "cleared"}}
        BY <2>1
      <4> QED
        BY <2>1, <4>1, <4>2, <4>3 DEF Given
    <3> QED
      BY <1>0, <2>1, <2>6, <3>2, <3>3, NamesFacts DEF SecretInv, RefsInv, SaveInv, Pending
  <2>7. CASE UNCHANGED <<pc, file>> /\ ghost' = Torn
             /\ \A n \in Names : vault.has[n] # Absent => vault'.has[n] # Absent \/ (n = ApiKey /\ ~api)
    <3>1. /\ ghost'.dropped = ghost.dropped \cup Given /\ ghost.lost \subseteq ghost'.lost
          /\ api => ApiKey \in ghost'.lost
      BY <1>0, <2>7 DEF Torn, GhostOK
    <3> HIDE DEF has
    <3>2. \A n \in Names : Kept(n) => Kept(n)'
      BY <2>7, <3>1 DEF Kept, Excused
    <3>3. MemoryInv'
      BY <2>1, <2>7, <3>1, GivenFacts DEF SecretInv, MemoryInv, Excused
    <3>4. api => Kept(ApiKey)'
      BY <3>1 DEF Kept, Excused
    <3> QED
      BY <1>0, <2>1, <2>7, <3>2, <3>3, <3>4, NamesFacts DEF SecretInv, RefsInv, SaveInv, Pending
  <2>8. \/ vault' = [vault EXCEPT !.has = has] /\ Saves(has) /\ pc' = "tokens" /\ ghost' = Written(has)
        \/ vault' = [vault EXCEPT !.has = has] /\ UNCHANGED <<pc, file>> /\ ghost' = Torn
        \/ UNCHANGED <<pc, file, vault>> /\ ghost' = Torn
        \/ UNCHANGED <<pc, file>> /\ vault' = [vault EXCEPT !.has = HalfSet(vault.has, ApiKey)] /\ ghost' = Torn
    BY <1>2 DEF SaveKey, SaveFails
  <2>9. \A n \in Names : vault.has[n] # Absent => HalfSet(vault.has, ApiKey)[n] # Absent
    BY <1>0, NamesFacts DEF HalfSet, VaultOK, Stored
  <2> HIDE DEF has
  <2>10. UNCHANGED <<pc, file>> /\ ghost' = Torn /\ vault' = [vault EXCEPT !.has = has] => SecretInv'
    <3>1. vault' = [vault EXCEPT !.has = has] => vault'.has = has
      BY <1>0 DEF VaultOK
    <3> QED
      BY <2>3, <2>7, <3>1
  <2>11. UNCHANGED <<pc, file>> /\ ghost' = Torn /\ vault' = [vault EXCEPT !.has = HalfSet(vault.has, ApiKey)]
           => SecretInv'
    <3>1. vault' = [vault EXCEPT !.has = HalfSet(vault.has, ApiKey)] => vault'.has = HalfSet(vault.has, ApiKey)
      BY <1>0 DEF VaultOK
    <3> QED
      BY <2>7, <2>9, <3>1
  <2> QED
    BY <2>6, <2>7, <2>8, <2>10, <2>11
<1> QED
  BY <1>1, <1>2

\* A save that stops at the tokens has lost those that only the memory held.
LEMMA FailKeeps ==
  ASSUME TypeInv, SecretInv, pc = "tokens", NEW has \in Stored, FailTokens(has),
         UNCHANGED <<settings, profile, draft, form>>,
         \A n \in Names : vault.has[n] # Absent =>
           has[n] # Absent \/ n \in (Refs(profile) \ {ApiKey}) \ Refs(draft)
  PROVE  SecretInv'
<1>0. VaultOK /\ GhostOK /\ ProfilesOK
  BY DEF TypeInv
<1>1. /\ pc' = "dialog" /\ UNCHANGED file /\ vault'.has = has /\ vault'.open = vault.open
      /\ ghost'.dropped = ghost.dropped
      /\ ghost'.lost = ghost.lost \cup {n \in Ids : has[n] # Absent /\ file.has[n] = Absent}
  BY <1>0 DEF FailTokens, VaultOK, GhostOK
<1>2. \A n \in Names : Kept(n) => Kept(n)'
  BY <1>1 DEF Kept, Excused
<1>3. \A n \in Names : vault.has[n] # Absent => has[n] # Absent \/ n \in ghost.dropped
  BY GivenFacts DEF SecretInv, SaveInv
<1>4. MemoryInv'
  BY <1>1, <1>3 DEF SecretInv, MemoryInv, Excused
<1>5. \A s \in Servers : (draft.mcp[s] \in Ids => Kept(draft.mcp[s]) \/ Pending(s))'
  <2> SUFFICES ASSUME NEW s \in Servers, draft.mcp[s] \in Ids PROVE (Kept(draft.mcp[s]) \/ Pending(s))'
    OBVIOUS
  <2>1. draft.mcp[s] \in Refs(draft) /\ draft.mcp[s] \in Names
    BY NamesFacts DEF Refs
  <2>2. CASE Kept(draft.mcp[s])
    BY <1>2, <2>1, <2>2
  <2>3. CASE form.token[s] # "clean"
    BY <2>3 DEF Pending
  <2>4. CASE vault.has[draft.mcp[s]] # Absent
    BY <1>1, <2>1, <2>4 DEF Kept, Excused
  <2> QED
    BY <2>2, <2>3, <2>4 DEF SecretInv, RefsInv, Pending
<1> QED
  BY <1>1, <1>2, <1>4, <1>5, NamesFacts DEF SecretInv, RefsInv, SaveInv

LEMMA SecretToken ==
  ASSUME TypeInv, KeyInv, SecretInv, NEW s \in Servers, SaveToken(s)
  PROVE  SecretInv'
<1>0. /\ pc = "tokens" /\ form.token[s] # "clean" /\ UNCHANGED <<settings, profile>>
      /\ VaultOK /\ GhostOK /\ ProfilesOK /\ FormOK /\ vault.has \in Stored
  BY DEF TypeInv, SaveToken, VaultOK
<1>1. draft.mcp[s] \in Ids \cup {Absent, Bare} /\ draft.mcp[s] # ApiKey
  BY <1>0, NamesAssumption DEF ProfilesOK, Profile, ApiKey, Absent, Bare
<1>2. \A v \in {Token} : Set(vault.has, draft.mcp[s], v) \in Stored
  BY <1>0, StoredTypes DEF Values
<1>3. \A n \in Names : vault.has[n] # Absent =>
        /\ Set(vault.has, draft.mcp[s], Token)[n] # Absent
        /\ HalfSet(vault.has, draft.mcp[s])[n] # Absent
  BY <1>0, NamesAssumption DEF Set, HalfSet, Stored, Values, Absent, Token, Hollow
<1>4. CASE TokenDone(s, Set(vault.has, draft.mcp[s], Token)) /\ UNCHANGED draft
  <2>1. /\ UNCHANGED <<pc, file, ghost>> /\ changed' = TRUE
        /\ form'.token = [form.token EXCEPT ![s] = "clean"]
        /\ form'.key = form.key /\ form'.dirty = form.dirty
        /\ vault'.has = Set(vault.has, draft.mcp[s], Token) /\ vault'.open = vault.open
    BY <1>0, <1>4 DEF TokenDone, FormOK, VaultOK
  <2>2. MemoryInv' /\ \A n : Kept(n) => Kept(n)'
    BY <1>3, <2>1 DEF SecretInv, MemoryInv, Kept, Excused
  <2>3. draft.mcp[s] \in Ids => vault'.has[draft.mcp[s]] # Absent
    BY <1>0, <2>1, NamesFacts, NamesAssumption DEF Set, Stored, Values, Token, Absent
  <2>4. \A t \in Servers : (draft.mcp[t] \in Ids => Kept(draft.mcp[t]) \/ Pending(t))'
    <3> SUFFICES ASSUME NEW t \in Servers, draft.mcp[t] \in Ids PROVE (Kept(draft.mcp[t]) \/ Pending(t))'
      BY <1>4
    <3>1. CASE t = s
      BY <1>0, <1>4, <2>1, <2>3, <3>1 DEF Pending
    <3>2. CASE t # s
      <4>1. form'.token[t] = form.token[t]
        BY <1>0, <2>1, <3>2 DEF FormOK
      <4>2. vault.has[draft.mcp[t]] # Absent => vault'.has[draft.mcp[t]] # Absent
        BY <1>3, <2>1, NamesFacts
      <4> QED
        BY <1>0, <1>4, <2>1, <2>2, <4>1, <4>2 DEF SecretInv, RefsInv, Pending
    <3> QED
      BY <3>1, <3>2
  <2>5. Given' \subseteq Given
    <3>1. {draft'.mcp[t] : t \in {u \in Servers : form'.token[u] = "cleared"}}
            \subseteq {draft.mcp[t] : t \in {u \in Servers : form.token[u] = "cleared"}}
      <4>1. \A u \in Servers : form'.token[u] = "cleared" => form.token[u] = "cleared"
        BY <1>0, <2>1 DEF FormOK
      <4> QED
        BY <1>4, <4>1
    <3> QED
      BY <1>0, <1>4, <2>1, <3>1 DEF Given, Refs
  <2> QED
    BY <1>0, <1>4, <2>1, <2>2, <2>4, <2>5 DEF SecretInv, RefsInv, SaveInv
<1>5. CASE /\ form.token[s] = "cleared" /\ TokenDone(s, Without(vault.has, {draft.mcp[s]} \cap Ids))
           /\ draft' = [draft EXCEPT !.mcp[s] = Bare]
  <2>1. /\ UNCHANGED <<pc, file, ghost>> /\ changed' = TRUE
        /\ form'.token = [form.token EXCEPT ![s] = "clean"]
        /\ form'.key = form.key /\ form'.dirty = form.dirty
        /\ vault'.has = Without(vault.has, {draft.mcp[s]} \cap Ids) /\ vault'.open = vault.open
        /\ draft'.api = draft.api /\ draft'.mcp = [draft.mcp EXCEPT ![s] = Bare]
    BY <1>0, <1>5 DEF TokenDone, FormOK, VaultOK, ProfilesOK, Profile
  <2>2. draft.mcp[s] \in Ids => draft.mcp[s] \in Given /\ draft.mcp[s] \in ghost.dropped
    BY <1>0, <1>5, GivenFacts DEF SecretInv, SaveInv
  <2>3. \A n \in Names : vault.has[n] # Absent =>
          vault'.has[n] # Absent \/ n \in ghost.dropped
    BY <2>1, <2>2 DEF Without
  <2>4. MemoryInv' /\ \A n : Kept(n) => Kept(n)'
    BY <2>1, <2>3 DEF SecretInv, MemoryInv, Kept, Excused
  <2>5. /\ draft'.mcp[s] = Bare
        /\ \A t \in Servers \ {s} : draft'.mcp[t] = draft.mcp[t] /\ form'.token[t] = form.token[t]
    BY <1>0, <2>1 DEF FormOK, ProfilesOK, Profile
  <2>6. \A t \in Servers : (draft.mcp[t] \in Ids => Kept(draft.mcp[t]) \/ Pending(t))'
    <3> SUFFICES ASSUME NEW t \in Servers, draft'.mcp[t] \in Ids PROVE (Kept(draft.mcp[t]) \/ Pending(t))'
      OBVIOUS
    <3>1. t # s /\ draft'.mcp[t] = draft.mcp[t] /\ form'.token[t] = form.token[t]
      BY <2>5, NamesFacts
    <3>2. vault.has[draft.mcp[t]] # Absent => vault'.has[draft.mcp[t]] # Absent \/ draft.mcp[t] \in ghost'.dropped
      BY <2>1, <2>3, <3>1, NamesFacts
    <3> QED
      BY <1>0, <2>1, <2>4, <3>1, <3>2 DEF SecretInv, RefsInv, Pending, Kept, Excused
  <2>7. Given' \subseteq ghost'.dropped
    <3>1. {draft'.mcp[t] : t \in {u \in Servers : form'.token[u] = "cleared"}}
            \subseteq {draft.mcp[t] : t \in {u \in Servers : form.token[u] = "cleared"}}
      <4>1. \A u \in Servers : form'.token[u] = "cleared" => u # s /\ form.token[u] = "cleared"
        BY <1>0, <2>1 DEF FormOK
      <4> QED
        BY <2>5, <4>1
    <3>2. Refs(draft) \subseteq Refs(draft') \cup ({draft.mcp[s]} \cap Ids)
      BY <2>1, <2>5 DEF Refs
    <3>3. Given' \subseteq Given \cup ({draft.mcp[s]} \cap Ids)
      BY <1>0, <2>1, <3>1, <3>2 DEF Given
    <3> QED
      BY <1>0, <2>1, <2>2, <3>3 DEF SecretInv, SaveInv
  <2> QED
    BY <1>0, <2>1, <2>4, <2>6, <2>7 DEF SecretInv, RefsInv, SaveInv
<1>6. CASE FailTokens(vault.has) /\ UNCHANGED <<draft, form>>
  BY <1>0, <1>6, FailKeeps
<1>7. CASE FailTokens(HalfSet(vault.has, draft.mcp[s])) /\ UNCHANGED <<draft, form>>
  BY <1>0, <1>3, <1>7, FailKeeps, StoredTypes
<1> QED
  BY <1>4, <1>5, <1>6, <1>7 DEF SaveToken

LEMMA SecretTokens == TypeInv /\ KeyInv /\ SecretInv /\ SaveTokens => SecretInv'
<1> SUFFICES ASSUME TypeInv, KeyInv, SecretInv, SaveTokens PROVE SecretInv'
  OBVIOUS
<1> DEFINE gone == IF vault.open THEN (Refs(profile) \ {ApiKey}) \ Refs(draft) ELSE {}
           has == Without(vault.has, gone)
<1>0. /\ pc = "tokens" /\ form.token = Untouched /\ UNCHANGED <<settings, profile, draft, form>>
      /\ VaultOK /\ GhostOK /\ ProfilesOK /\ FormOK /\ has \in Stored
      /\ changed \/ gone # {} => vault.open
  BY StoredTypes DEF TypeInv, SaveTokens, VaultOK, KeyInv
<1>1. \A n \in Names : vault.has[n] # Absent =>
        has[n] # Absent \/ n \in (Refs(profile) \ {ApiKey}) \ Refs(draft)
  BY DEF Without
<1>2. \/ ~changed /\ pc' = "settings" /\ UNCHANGED <<file, vault, changed, ghost>>
      \/ /\ changed \/ gone # {}
         /\ vault' = [vault EXCEPT !.has = has] /\ Saves(has)
         /\ pc' = "settings" /\ changed' = FALSE /\ ghost' = Written(has)
      \/ FailTokens(has)
  BY DEF SaveTokens
<1>3. \A s \in Servers : form.token[s] = "clean"
  BY <1>0 DEF Untouched
<1>4. \A s \in Servers : draft.mcp[s] \in Ids /\ vault.has[draft.mcp[s]] # Absent => has[draft.mcp[s]] # Absent
  <2>1. \A s \in Servers : draft.mcp[s] \in Ids => draft.mcp[s] \in Refs(draft)
    BY DEF Refs
  <2> QED
    BY <1>1, <2>1, NamesFacts
<1> HIDE DEF gone, has
<1>5. CASE ~changed /\ pc' = "settings" /\ UNCHANGED <<file, vault, changed, ghost>>
  BY <1>0, <1>3, <1>5 DEF SecretInv, RefsInv, MemoryInv, SaveInv, Kept, Excused, Pending
<1>6. CASE /\ vault.open /\ vault' = [vault EXCEPT !.has = has] /\ Saves(has)
           /\ pc' = "settings" /\ ghost' = Written(has)
  <2>1. file'.has = has /\ vault'.has = has
    BY <1>0, <1>6 DEF Saves, Sealed, VaultOK
  <2>2. \A n \in Names : file.has[n] # Absent => has[n] # Absent \/ n \in Excused \cup Given
    BY <1>1, <1>6, GivenFacts DEF SecretInv, MemoryInv
  <2>3. /\ \A n \in Names : Kept(n) => Kept(n)'
        /\ MemoryInv' /\ \A n \in Names : has[n] # Absent => Kept(n)'
    BY <1>0, <1>6, <2>1, <2>2, WriteKeeps
  <2>4. \A s \in Servers : (draft.mcp[s] \in Ids => Kept(draft.mcp[s]))'
    <3> SUFFICES ASSUME NEW s \in Servers, draft.mcp[s] \in Ids PROVE Kept(draft.mcp[s])'
      BY <1>0
    <3>1. Kept(draft.mcp[s]) \/ vault.has[draft.mcp[s]] # Absent
      BY <1>3 DEF SecretInv, RefsInv, Pending
    <3>2. \A n \in Names : n = draft.mcp[s] => Kept(n) \/ has[n] # Absent
      BY <1>4, <3>1
    <3>3. \A n \in Names : n = draft.mcp[s] => Kept(n)'
      BY <2>3, <3>2
    <3> QED
      BY <1>0, <3>3, NamesFacts DEF Kept
  <2> QED
    BY <1>0, <1>6, <2>3, <2>4, NamesFacts DEF SecretInv, RefsInv, SaveInv
<1>7. CASE FailTokens(has)
  BY <1>0, <1>1, <1>7, FailKeeps
<1> QED
  BY <1>0, <1>2, <1>5, <1>6, <1>7

LEMMA SecretOuter ==
  ASSUME TypeInv, SecretInv, Load \/ OpenDialog \/ SaveSettings \/ Exit \/ UNCHANGED vars
  PROVE  SecretInv'
<1>0. GhostOK
  BY DEF TypeInv
<1>1. CASE UNCHANGED vars
  BY <1>1 DEF vars, SecretInv, RefsInv, MemoryInv, SaveInv, Kept, Excused, Pending, Given
<1>2. CASE SaveSettings
  <2>1. /\ UNCHANGED <<file, vault, draft>> /\ ghost'.dropped = ghost.dropped /\ ghost'.lost = ghost.lost
        /\ pc' \in {"idle", "dialog"} /\ form.token = Untouched /\ form'.token = Untouched
        /\ settings' \in {settings, draft} /\ profile' \in {profile, draft}
    BY <1>0, <1>2 DEF SaveSettings, SettingsWritten, SettingsKept, GhostOK, NoForm, SecretInv, SaveInv
  <2>2. \A n \in Refs(draft) : Kept(n)
    <3>1. pc = "settings" /\ \A s \in Servers : form.token[s] = "clean"
      BY <1>2, <2>1 DEF SaveSettings, Untouched
    <3> QED
      BY <3>1 DEF SecretInv, RefsInv, Refs, Pending
  <2>3. MemoryInv' /\ \A n : Kept(n) => Kept(n)'
    BY <2>1 DEF SecretInv, MemoryInv, Kept, Excused
  <2>4. /\ draft.api => ApiKey \in Refs(draft)
        /\ \A s \in Servers : draft.mcp[s] \in Ids => draft.mcp[s] \in Refs(draft)
    BY DEF Refs
  <2>5. /\ (draft.api => Kept(ApiKey))'
        /\ \A s \in Servers : (draft.mcp[s] \in Ids => Kept(draft.mcp[s]))'
    BY <2>1, <2>2, <2>4 DEF Kept, Excused
  <2>6. \A n \in Refs(settings') \cup Refs(profile') : Kept(n)'
    BY <2>1, <2>2, <2>3 DEF SecretInv, RefsInv
  <2> QED
    BY <2>1, <2>3, <2>5, <2>6 DEF SecretInv, RefsInv, SaveInv
<1>3. CASE Load \/ OpenDialog \/ Exit
  <2>1. /\ UNCHANGED <<file, settings>> /\ profile' \in {profile, settings}
        /\ draft' \in {settings, profile} /\ pc' \notin {"tokens", "settings"}
        /\ ghost'.dropped = ghost.dropped /\ ghost'.lost = ghost.lost
        /\ UNCHANGED vault \/ ~vault'.open
    BY <1>0, <1>3 DEF Load, OpenDialog, Exit, disk, GhostOK, Locked
  <2>2. \A n \in Refs(draft') : Kept(n)
    BY <2>1 DEF SecretInv, RefsInv
  <2> QED
    BY <2>1, <2>2 DEF SecretInv, RefsInv, MemoryInv, SaveInv, Kept, Excused, Pending, Refs
<1> QED
  BY <1>1, <1>2, <1>3

LEMMA SecretStep == TypeInv /\ KeyInv /\ SecretInv /\ [Next]_vars => SecretInv'
<1> SUFFICES ASSUME TypeInv, KeyInv, SecretInv, [Next]_vars PROVE SecretInv'
  OBVIOUS
<1>1. CASE \E s \in Servers : SaveToken(s)
  BY <1>1, SecretToken
<1>2. CASE SaveKey \/ KeyUntouched \/ SaveTokens
  BY <1>2, SecretKey, SecretTokens
<1>3. CASE Load \/ OpenDialog \/ SaveSettings \/ Exit \/ UNCHANGED vars
  BY <1>3, SecretOuter
<1>4. CASE Next /\ ~(SaveKey \/ KeyUntouched \/ Exit) /\ pc = "dialog"
  BY <1>4, SecretDialog
<1> QED
  BY <1>1, <1>2, <1>3, <1>4 DEF Next, Create, Unlock, ChangePassword, Reset, Dialog, CancelDialog,
     EditEndpoint, EditKey, Upsert, RemoveServer

\* Whatever step a save stops at, no reference of settings.json is left without a
\* secret in the vault's file, except those the user gave up and those lost in a way
\* the history records (dio_save_settings_dialog, dio_save_mcp_secrets).
THEOREM RefsAreBacked == Spec => []RefsBacked
<1>1. Init => SecretInv
  <2> SUFFICES ASSUME Init PROVE SecretInv
    OBVIOUS
  <2>1. /\ profile = settings /\ draft = settings /\ ~settings.api /\ pc = "down" /\ ~vault.open
        /\ \A s \in Servers : settings.mcp[s] = Absent
    BY DEF Init, Locked
  <2>2. Refs(settings) = {}
    BY <2>1, NamesFacts DEF Refs
  <2> QED
    BY <2>1, <2>2, NamesFacts DEF SecretInv, RefsInv, MemoryInv, SaveInv
<1>2. TypeInv /\ KeyInv /\ SecretInv => RefsBacked
  BY DEF SecretInv, RefsInv, Kept, Excused, RefsBacked
<1>3. Init => KeyInv
  BY DEF Init, KeyInv, Locked
<1> QED
  BY <1>1, <1>2, <1>3, KeyStep, SecretStep, TypeInvariant, PTL DEF Spec

\* The key in memory and in the file is of the endpoint that a profile has.
Fits(p) ==
  p.api => /\ vault.has[ApiKey] \in Endpoints => vault.has[ApiKey] = p.endpoint
           /\ file.has[ApiKey] \in Endpoints => file.has[ApiKey] = p.endpoint

\* As long as no save stopped half way: outside of a save the key fits the session,
\* in one it fits the draft, and what the dialog shows is of the draft's endpoint.
FitInv == ~ghost.torn =>
  /\ settings = profile
  /\ pc \in {"down", "idle", "dialog"} => Fits(profile)
  /\ pc \in {"tokens", "settings"} => Fits(draft)
  /\ pc = "dialog" => /\ draft.api => profile.api /\ draft.endpoint = profile.endpoint
                      /\ form.key \in Endpoints => form.key = draft.endpoint

\* No step of the tokens touches the API key.
LEMMA KeyUntold ==
  ASSUME TypeInv, NEW s \in Servers
  PROVE  /\ \A v : Set(vault.has, draft.mcp[s], v)[ApiKey] = vault.has[ApiKey]
         /\ HalfSet(vault.has, draft.mcp[s])[ApiKey] = vault.has[ApiKey]
         /\ Without(vault.has, {draft.mcp[s]} \cap Ids)[ApiKey] = vault.has[ApiKey]
         /\ \A S : ApiKey \notin S => Without(vault.has, S)[ApiKey] = vault.has[ApiKey]
<1>1. draft.mcp[s] # ApiKey /\ vault.has \in Stored
  BY NamesAssumption DEF TypeInv, VaultOK, ProfilesOK, Profile, ApiKey, Absent, Bare
<1> QED
  BY <1>1, NamesFacts DEF Set, HalfSet, Without, Stored

LEMMA FitStep == TypeInv /\ FitInv /\ [Next]_vars => FitInv'
<1> SUFFICES ASSUME TypeInv, FitInv, [Next]_vars, ~ghost'.torn PROVE FitInv'
  BY DEF FitInv
<1>0. /\ VaultOK /\ GhostOK /\ ProfilesOK /\ FormOK /\ FileOK /\ PcOK
      /\ Absent \notin Endpoints /\ Hollow \notin Endpoints /\ ApiKey \in Names
  BY NamesAssumption, NamesFacts DEF TypeInv, Values
<1>1. ASSUME NEW p \in Passwords, Create(p) \/ Unlock(p) \/ ChangePassword(p) PROVE FitInv'
  <2>1. UNCHANGED <<pc, profile, settings, draft>> /\ pc = "dialog" /\ ghost'.torn = ghost.torn
    BY <1>0, <1>1 DEF Create, Unlock, ChangePassword, Dialog, GhostOK, disk
  <2>2. CASE Create(p)
    <3>1. Empty[ApiKey] = Absent
      BY <1>0 DEF Empty
    <3>2. file.has[ApiKey] = Absent
      BY <2>2, <3>1 DEF Create, NoFile
    <3>3. vault'.has[ApiKey] = Absent /\ file'.has[ApiKey] = Absent
      BY <2>2, <3>1, <3>2 DEF Create, Sealed, Locked
    <3>4. form'.key = form.key \/ form'.key = Absent
      BY <1>0, <2>2 DEF Create, FormOK
    <3> QED
      BY <1>0, <2>1, <3>3, <3>4 DEF FitInv, Fits
  <2>3. CASE Unlock(p)
    <3>1. UNCHANGED file /\ vault'.has \in {vault.has, file.has, Empty}
      <4>1. /\ [vault EXCEPT !.key = Zero].has = vault.has
            /\ [vault EXCEPT !.key = Zero, !.has = Parsed(FALSE)].has = Empty
            /\ Parsed(TRUE) = file.has
        BY <1>0 DEF VaultOK, Parsed
      <4>2. \/ UNCHANGED vault \/ vault' = [vault EXCEPT !.key = Zero]
            \/ vault' = [vault EXCEPT !.key = Zero, !.has = Parsed(FALSE)]
            \/ vault' = [open |-> TRUE, key |-> p, has |-> Parsed(TRUE)]
        BY <2>3, Zenon DEF Unlock
      <4>3. UNCHANGED file
        BY <2>3 DEF Unlock, disk
      <4>4. [open |-> TRUE, key |-> p, has |-> Parsed(TRUE)].has = file.has
        BY <4>1
      <4> QED
        BY <4>1, <4>2, <4>3, <4>4, Zenon
    <3>2. form'.key = form.key \/ form'.key = IF draft.api THEN KeyText(file.has) ELSE Absent
      BY <1>0, <2>3 DEF Unlock, Parsed, FormOK
    <3>3. Empty[ApiKey] = Absent
      BY <1>0 DEF Empty
    <3>4. Fits(profile) => Fits(profile)'
      BY <1>0, <2>1, <3>1, <3>3 DEF Fits
    <3>5. ~ghost.torn /\ Fits(profile) /\ (draft.api => profile.api /\ draft.endpoint = profile.endpoint)
      BY <2>1 DEF FitInv
    <3>6. form'.key \in Endpoints => form'.key = draft.endpoint
      BY <1>0, <2>1, <3>2, <3>5 DEF FitInv, Fits, KeyText
    <3> QED
      BY <1>0, <2>1, <3>4, <3>5, <3>6 DEF FitInv
  <2>4. CASE ChangePassword(p)
    <3>1. vault'.has = vault.has /\ UNCHANGED form
      BY <1>0, <2>4 DEF ChangePassword, VaultOK
    <3>2. UNCHANGED file \/ file'.has = vault.has
      BY <2>4 DEF ChangePassword, SaveFails, Sealed
    <3> QED
      BY <1>0, <2>1, <3>1, <3>2 DEF FitInv, Fits
  <2> QED
    BY <1>1, <2>2, <2>3, <2>4
<1>2. CASE Reset
  <2>1. /\ UNCHANGED <<pc, profile, settings>> /\ pc = "dialog" /\ ghost'.torn = ghost.torn
        /\ ~draft'.api /\ form'.key = Absent
        /\ vault'.has[ApiKey] = Absent /\ file'.has[ApiKey] = Absent
    BY <1>0, <1>2 DEF Reset, Dialog, GhostOK, ProfilesOK, Profile, NoForm, NoFile, Locked, Empty
  <2> QED
    BY <1>0, <2>1 DEF FitInv, Fits
<1>3. CASE Load \/ OpenDialog \/ CancelDialog
  <2>1. /\ UNCHANGED <<settings, file, vault>> /\ ghost'.torn = ghost.torn
        /\ profile' \in {profile, settings} /\ draft' = profile'
        /\ pc \in {"down", "idle", "dialog"} /\ pc' \in {"idle", "dialog"}
        /\ pc' = "dialog" => form'.key = IF profile.api THEN KeyText(vault.has) ELSE Absent
    BY <1>0, <1>3 DEF Load, OpenDialog, CancelDialog, disk, NoForm
  <2> QED
    BY <1>0, <2>1 DEF FitInv, Fits, KeyText
<1>4. ASSUME NEW e \in Endpoints, EditEndpoint(e) PROVE FitInv'
  <2>1. /\ UNCHANGED <<pc, settings, profile, file, vault, ghost>> /\ pc = "dialog"
        /\ ~draft'.api /\ form'.key = Absent
    BY <1>0, <1>4 DEF EditEndpoint, Dialog, disk, ProfilesOK, Profile, FormOK
  <2> QED
    BY <1>0, <2>1 DEF FitInv, Fits
<1>5. ASSUME NEW k \in {draft.endpoint, Absent}, EditKey(k) PROVE FitInv'
  <2>1. UNCHANGED <<pc, settings, profile, draft, file, vault, ghost>> /\ form'.key = k
    BY <1>0, <1>5 DEF EditKey, Dialog, disk, FormOK
  <2> QED
    BY <1>0, <2>1 DEF FitInv, Fits
<1>6. ASSUME NEW s \in Servers, NEW edit \in {"clean", "typed", "cleared"},
             Upsert(s, edit) \/ RemoveServer(s)
      PROVE  FitInv'
  <2>1. /\ UNCHANGED <<pc, settings, profile, file, vault>> /\ ghost'.torn = ghost.torn
        /\ form'.key = form.key /\ draft'.api = draft.api /\ draft'.endpoint = draft.endpoint
    BY <1>0, <1>6 DEF Upsert, RemoveServer, Dialog, disk, FormOK, ProfilesOK, Profile, GhostOK
  <2> QED
    BY <1>0, <2>1 DEF FitInv, Fits
<1>7. CASE SaveKey
  <2> DEFINE api == form.key # Absent
             has == IF api THEN Set(vault.has, ApiKey, form.key)
                    ELSE Without(vault.has, IF draft.api \/ form.detached THEN {ApiKey} ELSE {})
  <2>1. Torn.torn
    BY <1>0 DEF Torn, GhostOK
  <2>2. /\ pc = "dialog" /\ pc' = "tokens" /\ UNCHANGED <<settings, profile>>
        /\ vault' = [vault EXCEPT !.has = has] /\ Saves(has)
        /\ draft' = [draft EXCEPT !.api = api] /\ ghost' = Written(has)
    BY <1>7, <2>1 DEF SaveKey
  <2>3. ghost'.torn = ghost.torn
    BY <1>0, <2>2 DEF Written, GhostOK
  <2>4. vault'.has = has /\ file'.has = has /\ draft'.api = api /\ draft'.endpoint = draft.endpoint
    BY <1>0, <2>2 DEF Saves, Sealed, VaultOK, ProfilesOK, Profile
  <2>5. api => has[ApiKey] = form.key
    BY <1>0 DEF Set, VaultOK, Stored
  <2> HIDE DEF has
  <2> QED
    BY <2>2, <2>3, <2>4, <2>5 DEF FitInv, Fits
<1>8. CASE KeyUntouched
  <2>1. /\ pc = "dialog" /\ pc' = "tokens" /\ UNCHANGED <<settings, profile, draft, file, vault>>
        /\ ghost'.torn = ghost.torn
    BY <1>0, <1>8 DEF KeyUntouched, disk, GhostOK
  <2> QED
    BY <2>1 DEF FitInv, Fits
<1>9. ASSUME NEW has, FailTokens(has) PROVE FALSE
  BY <1>0, <1>9 DEF FailTokens, GhostOK
<1>10. ASSUME NEW s \in Servers, SaveToken(s) PROVE FitInv'
  <2>1. /\ pc = "tokens" /\ UNCHANGED <<pc, settings, profile, file, ghost>>
        /\ draft'.api = draft.api /\ draft'.endpoint = draft.endpoint
    BY <1>0, <1>9, <1>10 DEF SaveToken, TokenDone, ProfilesOK, Profile
  <2>2. \/ vault' = [vault EXCEPT !.has = Set(vault.has, draft.mcp[s], Token)]
        \/ vault' = [vault EXCEPT !.has = Without(vault.has, {draft.mcp[s]} \cap Ids)]
    BY <1>9, <1>10 DEF SaveToken, TokenDone
  <2>3. vault'.has[ApiKey] = vault.has[ApiKey]
    BY <1>0, <2>2, KeyUntold DEF VaultOK
  <2> QED
    BY <2>1, <2>3 DEF FitInv, Fits
<1>11. CASE SaveTokens
  <2> DEFINE gone == IF vault.open THEN (Refs(profile) \ {ApiKey}) \ Refs(draft) ELSE {}
             has == Without(vault.has, gone)
  <2>1. has[ApiKey] = vault.has[ApiKey]
    BY <1>0 DEF Without
  <2>2. /\ pc = "tokens" /\ pc' = "settings" /\ UNCHANGED <<settings, profile, draft>>
        /\ \/ UNCHANGED <<file, vault, ghost>>
           \/ vault' = [vault EXCEPT !.has = has] /\ Saves(has) /\ ghost' = Written(has)
    BY <1>9, <1>11 DEF SaveTokens
  <2> HIDE DEF has
  <2>3. ghost'.torn = ghost.torn
    BY <1>0, <2>2 DEF Written, GhostOK
  <2>4. UNCHANGED <<file, vault>> \/ (vault'.has = has /\ file'.has = has)
    BY <1>0, <2>2 DEF Saves, Sealed, VaultOK
  <2> QED
    BY <2>1, <2>2, <2>3, <2>4 DEF FitInv, Fits
<1>12. CASE SaveSettings
  <2>1. /\ pc = "settings" /\ pc' = "idle" /\ UNCHANGED <<file, vault, draft, ghost>>
        /\ settings' = draft /\ profile' = draft
    BY <1>0, <1>12 DEF SaveSettings, SettingsWritten, GhostOK
  <2> QED
    BY <2>1 DEF FitInv, Fits
<1>13. CASE Exit
  <2>1. /\ pc \notin {"tokens", "settings"} /\ ~ghost.torn /\ pc' = "down"
        /\ UNCHANGED <<file, settings>> /\ profile' = settings
        /\ vault'.has[ApiKey] = Absent
    BY <1>0, <1>13 DEF Exit, disk, Locked, Empty, GhostOK
  <2> QED
    BY <1>0, <2>1 DEF FitInv, Fits, PcOK
<1>14. CASE UNCHANGED vars
  BY <1>14 DEF vars, FitInv, Fits
<1> QED
  BY <1>1, <1>2, <1>3, <1>4, <1>5, <1>6, <1>7, <1>8, <1>10, <1>11, <1>12, <1>13, <1>14 DEF Next

\* The two files agree about the secrets: RefsAreBacked, and as long as no save
\* stopped half way an API key is only used with the endpoint it was typed for
\* (dio_save_settings_dialog, dio_detach_provider_key).
THEOREM FilesAgree == Spec => []SecretsAgree
<1>1. Init => FitInv
  BY DEF Init, FitInv, Fits
<1>2. FitInv => KeyFitsEndpoint
  BY DEF FitInv, Fits, KeyFitsEndpoint
<1>3. Spec => []KeyFitsEndpoint
  BY <1>1, <1>2, FitStep, TypeInvariant, PTL DEF Spec
<1> QED
  BY <1>3, RefsAreBacked, PTL DEF SecretsAgree


-----------------------------------------------------------------------------
(* The overlay: sequences                                                   *)

\* A set of naturals up to n has a largest element.
LEMMA LargestOf ==
  ASSUME NEW n \in Nat, NEW S \in SUBSET (0..n), S # {}
  PROVE  \E i \in S : \A j \in S : j <= i
<1> DEFINE Above(x) == {y \in 0..n : y > x}
           T == {Above(x) : x \in S}
<1>1. IsFiniteSet(0..n)
  BY FS_Interval
<1>2. IsWellFoundedOn(StrictSubsetOrdering(0..n), SUBSET (0..n))
  BY <1>1, FS_StrictSubsetOrderingWellFounded, FS_FiniteSubsetsOfFinite
<1>3. T \subseteq SUBSET (0..n) /\ T # {}
  OBVIOUS
<1>4. PICK A \in T : \A B \in T : <<B, A>> \notin StrictSubsetOrdering(0..n)
  <2> HIDE DEF T
  <2> QED BY <1>2, <1>3, WFMin
<1>5. PICK i \in S : A = Above(i)
  OBVIOUS
<1>6. ASSUME NEW j \in S, i < j PROVE FALSE
  <2>1. Above(j) \in T /\ Above(j) \subseteq A /\ j \in A /\ j \notin Above(j)
    BY <1>5, <1>6
  <2>2. <<Above(j), A>> \in StrictSubsetOrdering(0..n)
    BY <2>1, <1>3, <1>5 DEF StrictSubsetOrdering
  <2> QED
    BY <1>4, <2>1, <2>2
<1> QED
  BY <1>6

LEMMA LastFront ==
  ASSUME NEW S, NEW s \in Seq(S), s # <<>>
  PROVE  /\ Last(s) = s[Len(s)] /\ Last(s) \in S
         /\ Front(s) \in Seq(S) /\ Len(Front(s)) = Len(s) - 1
         /\ \A i \in 1..(Len(s) - 1) : Front(s)[i] = s[i]
         /\ Len(s) \in 1..Len(s)
<1>1. Len(s) \in Nat /\ Len(s) \in 1..Len(s)
  BY EmptySeq, LenProperties
<1>2. Last(s) = s[Len(s)] /\ Last(s) \in S
  BY <1>1, ElementOfSeq DEF Last
<1>3. Front(s) = SubSeq(s, 1, Len(s) - 1)
  BY DEF Front
<1>4. Len(s) - 1 \in Int /\ \A i \in 1..(Len(s) - 1) : s[i] \in S
  BY <1>1, ElementOfSeq
<1>5. /\ Front(s) \in Seq(S) /\ Len(Front(s)) = Len(s) - 1
      /\ \A i \in 1..(Len(s) - 1) : Front(s)[i] = s[i]
  <2> DEFINE n == Len(s) - 1
  <2>1. n \in Nat /\ 1 \in Int /\ n \in Int
    BY <1>1
  <2>2. /\ SubSeq(s, 1, n) \in Seq(S)
        /\ Len(SubSeq(s, 1, n)) = IF 1 <= n THEN n - 1 + 1 ELSE 0
        /\ \A i \in 1..(n - 1 + 1) : SubSeq(s, 1, n)[i] = s[1 + i - 1]
    <3> HIDE DEF n
    <3>1. \A i \in 1..n : s[i] \in S
      BY <1>4 DEF n
    <3> QED
      BY <2>1, <3>1, SubSeqProperties
  <2>3. n - 1 + 1 = n /\ \A i \in 1..n : 1 + i - 1 = i
    BY <2>1
  <2> QED
    BY <1>3, <2>1, <2>2, <2>3
<1> QED
  BY <1>1, <1>2, <1>5

-----------------------------------------------------------------------------
(* Types                                                                    *)

Pieces == Seq(Nat \X Nat)
Events ==
  [kind : {"STATE"}, what : States] \union [kind : {"USER"}, what : Nat]
    \union [kind : {"DELTA"}, what : Pieces] \union [kind : {"APPROVAL"}, what : Requests]
    \union [kind : {"ERROR"}, what : Texts]
    \union [kind : {"CLEAR", "ACK", "ANNOUNCEMENT"}, what : {0}]
Messages ==
  [kind : {"USER"}, text : Nat] \union [kind : {"ASSISTANT"}, text : Pieces]
    \union [kind : {"ERROR"}, text : Texts] \union [kind : {"ANNOUNCEMENT"}, text : {0}]
Commands ==
  ({"paused"} \X BOOLEAN) \union {<<"ptt">>, <<"cancel">>, <<"settings">>}
    \union ({"answer"} \X Requests \X Decisions)
Views ==
  [state : States, paused : BOOLEAN, open : BOOLEAN, error : Texts \union {"none"},
   required : BOOLEAN]

QueueOK == queue \in Seq(Events) /\ Len(queue) <= Cap
PostingOK == posting \in Seq(Events)
MessagesOK == messages \in Seq(Messages)
UiOK == ui \in Views
DialogsOK == dialogs \in Seq(Requests)
AlwaysOK == always \subseteq Requests /\ (staged = Closed \/ staged \subseteq Requests)
CommandsOK == commands \in Seq(Commands)
Worked(x) ==
  /\ x \in [phase : Phases, turn : Nat, pieces : Nat, paused : BOOLEAN, ptt : BOOLEAN,
            asked : Nat, incidents : Nat, lacks : Lacks]
  /\ x.asked <= x.incidents /\ x.incidents <= MaxIncidents
AppOK == Worked(app)
Histories ==
  [said : States, refused : BOOLEAN, lost : BOOLEAN, overtook : BOOLEAN, mixed : BOOLEAN,
   crossed : BOOLEAN, undone : SUBSET Requests, answers : [Requests -> Seq(Decisions)]]
HistOK == hist \in Histories

OverlayInv == /\ QueueOK /\ PostingOK /\ MessagesOK /\ UiOK /\ DialogsOK /\ AlwaysOK
           /\ CommandsOK /\ AppOK /\ HistOK

LEMMA EventFacts ==
  /\ \A s \in States : State(s) \in Events /\ State(s).kind = "STATE" /\ State(s).what = s
  /\ \A n \in Nat : Event("USER", n) \in Events
  /\ \A p \in Pieces : Event("DELTA", p) \in Events
  /\ \A r \in Requests : Event("APPROVAL", r) \in Events
  /\ \A x \in Texts : Error(x) \in Events /\ Error(x).kind = "ERROR" /\ Error(x).what = x
  /\ \A k \in {"CLEAR", "ACK", "ANNOUNCEMENT"} : Event(k, 0) \in Events
  /\ \A x : x.paused \in BOOLEAN => Rest(x) \in States
  /\ \A k, v : Event(k, v).kind = k /\ Event(k, v).what = v
BY DEF Event, State, Error, Events, Rest, States

\* What the kind of an event says about it.
LEMMA KindOf ==
  ASSUME NEW e \in Events
  PROVE  /\ e = [kind |-> e.kind, what |-> e.what]
         /\ e.kind = "STATE" => e.what \in States
         /\ e.kind = "USER" => e.what \in Nat
         /\ e.kind = "DELTA" => e.what \in Pieces
         /\ e.kind = "APPROVAL" => e.what \in Requests
         /\ e.kind = "ERROR" => e.what \in Texts
         /\ e.kind \in {"STATE", "USER", "DELTA", "APPROVAL", "CLEAR", "ACK", "ERROR", "ANNOUNCEMENT"}
BY DEF Events

\* Two events of a kind merge to one of it.
LEMMA MergedType ==
  ASSUME NEW old \in Events, NEW e \in Events, old.kind = e.kind
  PROVE  /\ Merged(old, e) \in Events /\ Merged(old, e).kind = e.kind
         /\ e.kind # "DELTA" => Merged(old, e) = e
         /\ e.kind = "DELTA" => Merged(old, e).what = old.what \o e.what
<1>1. CASE e.kind = "DELTA"
  <2>1. e.what \in Pieces /\ old.what \in Pieces
    BY <1>1, KindOf
  <2>2. old.what \o e.what \in Pieces
    BY <2>1, ConcatProperties DEF Pieces
  <2>3. \A w : [e EXCEPT !.what = w] = [kind |-> "DELTA", what |-> w]
    BY <1>1 DEF Events
  <2>4. Merged(old, e) = [e EXCEPT !.what = old.what \o e.what]
    BY <1>1 DEF Merged
  <2>5. Merged(old, e) = [kind |-> "DELTA", what |-> old.what \o e.what]
    BY <2>3, <2>4
  <2>6. \A p \in Pieces : [kind |-> "DELTA", what |-> p] \in Events
    BY DEF Events
  <2>7. Merged(old, e) \in Events
    BY <2>2, <2>5, <2>6
  <2>8. Merged(old, e).kind = "DELTA" /\ Merged(old, e).what = old.what \o e.what
    <3>1. \A w : [kind |-> "DELTA", what |-> w].kind = "DELTA" /\ [kind |-> "DELTA", what |-> w].what = w
      OBVIOUS
    <3> QED
      BY <2>5, <3>1
  <2> QED
    BY <1>1, <2>7, <2>8
<1>2. CASE e.kind # "DELTA"
  BY <1>2 DEF Merged
<1> QED
  BY <1>1, <1>2

\* The slots of an event are of its kind, and the one taken is the last of them.
LEMMA SlotFacts ==
  ASSUME NEW q \in Seq(Events), NEW e \in Events
  PROVE  /\ Slots(q, e) \subseteq 1..Len(q)
         /\ \A i \in Slots(q, e) : q[i].kind = e.kind /\ e.kind \in {"STATE", "USER", "ACK", "DELTA"}
         /\ \A i \in Slots(q, e) : e.kind = "DELTA" => i = Len(q)
         /\ \A i \in Slots(q, e) : e.kind \in {"USER", "ACK"} => \A j \in i..Len(q) : q[j].kind # "CLEAR"
         /\ \A i \in Slots(q, e) : \A j \in i..Len(q) :
              q[j].kind = e.kind /\ e.kind # "DELTA" => j \in Slots(q, e)
         /\ e.kind = "STATE" => \A i \in 1..Len(q) : q[i].kind = "STATE" => i \in Slots(q, e)
<1> DEFINE Same == {i \in 1..Len(q) : q[i].kind = e.kind}
<1>1. Len(q) \in Nat
  BY LenProperties
<1>2. CASE e.kind = "STATE"
  <2>1. Slots(q, e) = Same
    BY <1>2 DEF Slots
  <2> QED
    BY <1>1, <1>2, <2>1
<1>3. CASE e.kind \in {"USER", "ACK"}
  <2>1. Slots(q, e) = {i \in Same : \A j \in i..Len(q) : q[j].kind # "CLEAR"}
    BY <1>3 DEF Slots
  <2> QED
    BY <1>1, <1>3, <2>1
<1>4. CASE e.kind = "DELTA"
  <2>1. Slots(q, e) = {i \in Same : i = Len(q) /\ Len(q[i].what) + Len(e.what) <= TextCap}
    BY <1>4 DEF Slots
  <2> QED
    BY <1>1, <1>4, <2>1
<1>5. CASE e.kind \notin {"STATE", "USER", "ACK", "DELTA"}
  <2>1. Slots(q, e) = {}
    BY <1>5 DEF Slots
  <2> QED
    BY <1>5, <2>1
<1> QED
  BY <1>2, <1>3, <1>4, <1>5

\* The three ways an event takes.
LEMMA QueuedCases ==
  ASSUME NEW q \in Seq(Events), NEW e \in Events
  PROVE  \/ \E i \in Slots(q, e) :
              /\ \A j \in Slots(q, e) : j <= i
              /\ \A j \in (i + 1)..Len(q) : q[j].kind # e.kind
              /\ Queued(q, e) = [q EXCEPT ![i] = Merged(q[i], e)]
              /\ ~Refused(q, e)
         \/ Slots(q, e) = {} /\ Len(q) < Cap /\ Queued(q, e) = Append(q, e) /\ ~Refused(q, e)
         \/ Slots(q, e) = {} /\ Queued(q, e) = q /\ Refused(q, e)
<1>1. CASE Slots(q, e) = {}
  BY <1>1, OverlayAssumption, LenProperties DEF Queued, Refused
<1>2. CASE Slots(q, e) # {}
  <2>1. \E i \in Slots(q, e) : \A j \in Slots(q, e) : j <= i
    <3>1. Len(q) \in Nat /\ Slots(q, e) \subseteq 0..Len(q)
      BY SlotFacts, LenProperties
    <3> QED
      BY <1>2, <3>1, LargestOf
  <2>2. PICK i \in Slots(q, e) : \A j \in Slots(q, e) : j <= i
    BY <2>1
  <2>3. i = CHOOSE k \in Slots(q, e) : \A j \in Slots(q, e) : j <= k
    <3>1. Slots(q, e) \subseteq Nat
      BY SlotFacts, LenProperties
    <3> QED
      BY <2>2, <3>1
  <2>4. Queued(q, e) = [q EXCEPT ![i] = Merged(q[i], e)]
    BY <1>2, <2>3 DEF Queued
  <2>5. \A j \in (i + 1)..Len(q) : q[j].kind # e.kind
    <3>1. ASSUME NEW j \in (i + 1)..Len(q), q[j].kind = e.kind PROVE FALSE
      <4>1. i \in 1..Len(q) /\ Len(q) \in Nat
        BY SlotFacts, LenProperties
      <4>2. j \in i..Len(q) /\ j > i
        BY <4>1
      <4>3. e.kind # "DELTA"
        BY <4>1, <4>2, SlotFacts
      <4>4. j \in Slots(q, e)
        BY <3>1, <4>2, <4>3, SlotFacts
      <4> QED
        BY <2>2, <4>1, <4>2, <4>4
    <3> QED
      BY <3>1
  <2>6. ~Refused(q, e)
    BY <1>2 DEF Refused
  <2> QED
    BY <2>2, <2>4, <2>5, <2>6
<1> QED
  BY <1>1, <1>2

LEMMA QueuedType ==
  ASSUME NEW q \in Seq(Events), NEW e \in Events, Len(q) <= Cap
  PROVE  Queued(q, e) \in Seq(Events) /\ Len(Queued(q, e)) <= Cap
<1>1. Len(q) \in Nat /\ Cap \in Nat
  BY OverlayAssumption, LenProperties
<1>2. CASE Slots(q, e) = {} /\ Len(q) < Cap /\ Queued(q, e) = Append(q, e)
  BY <1>1, <1>2, AppendProperties
<1>3. CASE Slots(q, e) = {} /\ Queued(q, e) = q
  BY <1>3
<1>4. ASSUME NEW i \in Slots(q, e), Queued(q, e) = [q EXCEPT ![i] = Merged(q[i], e)]
      PROVE  Queued(q, e) \in Seq(Events) /\ Len(Queued(q, e)) <= Cap
  <2>1. i \in 1..Len(q) /\ q[i].kind = e.kind /\ q[i] \in Events
    BY SlotFacts, ElementOfSeq
  <2>2. Merged(q[i], e) \in Events
    BY <2>1, MergedType
  <2> QED
    BY <1>4, <2>1, <2>2, ExceptSeq
<1> QED
  BY <1>2, <1>3, <1>4, QueuedCases

LEMMA NotedType ==
  ASSUME NEW q \in Seq(Events), NEW e \in Events, HistOK
  PROVE  /\ Noted(q, e) \in Histories
         /\ Noted(q, e).answers = hist.answers /\ Noted(q, e).undone = hist.undone
         /\ Noted(q, e).crossed = hist.crossed
<1> DEFINE h == Noted(q, e)
<1>1. "error" \in States /\ "announcement" \in States
  BY DEF States
<1>2. hist \in Histories
  BY DEF HistOK
<1>3. h.said \in States
  BY <1>1, <1>2, KindOf DEF Histories, Noted
<1>4. h.refused \in BOOLEAN /\ h.lost \in BOOLEAN /\ h.overtook \in BOOLEAN /\ h.mixed \in BOOLEAN
  BY <1>2 DEF Histories, Noted, Refused
<1>5. h.answers = hist.answers /\ h.undone = hist.undone /\ h.crossed = hist.crossed
  BY <1>2 DEF Histories, Noted
<1>6. h = [hist EXCEPT !.said = h.said, !.refused = h.refused, !.lost = h.lost,
                       !.overtook = h.overtook, !.mixed = h.mixed]
  BY <1>2 DEF Histories, Noted
<1> HIDE DEF h
<1>7. h \in Histories
  BY <1>2, <1>3, <1>4, <1>6 DEF Histories
<1> QED
  BY <1>5, <1>7 DEF h

\* What a drained event leaves in the transcript and in the state shown.
LEMMA AddedType ==
  ASSUME NEW ms \in Seq(Messages), NEW n \in Nat, NEW update \in BOOLEAN
  PROVE  Added(ms, "USER", n, update) \in Seq(Messages)
<1>1. Message("USER", n) \in Messages
  BY DEF Message, Messages
<1>2. CASE update /\ LastIs(ms, "USER")
  <2>1. Len(ms) \in 1..Len(ms) /\ ms[Len(ms)] \in Messages /\ ms[Len(ms)].kind = "USER"
    BY <1>2, EmptySeq, LenProperties, ElementOfSeq DEF LastIs
  <2>2. [ms[Len(ms)] EXCEPT !.text = n] \in Messages
    BY <2>1 DEF Messages
  <2>3. Added(ms, "USER", n, update) = [ms EXCEPT ![Len(ms)] = [ms[Len(ms)] EXCEPT !.text = n]]
    BY <1>2, <2>1 DEF Added
  <2> QED
    BY <2>1, <2>2, <2>3, ExceptSeq
<1>3. CASE ~(update /\ LastIs(ms, "USER"))
  BY <1>1, <1>3, AppendProperties DEF Added
<1> QED
  BY <1>2, <1>3

LEMMA AppendedType ==
  ASSUME NEW ms \in Seq(Messages), NEW p \in Pieces
  PROVE  Appended(ms, p) \in Seq(Messages)
<1>1. Message("ASSISTANT", p) \in Messages
  BY DEF Message, Messages
<1>2. CASE LastIs(ms, "ASSISTANT")
  <2>1. Len(ms) \in 1..Len(ms) /\ ms[Len(ms)] \in Messages /\ ms[Len(ms)].kind = "ASSISTANT"
    BY <1>2, EmptySeq, LenProperties, ElementOfSeq DEF LastIs
  <2>2. ms[Len(ms)].text \in Pieces
    BY <2>1 DEF Messages
  <2>3. ms[Len(ms)].text \o p \in Pieces
    BY <2>2, ConcatProperties DEF Pieces
  <2>4. \A t \in Pieces : [ms[Len(ms)] EXCEPT !.text = t] \in Messages
    BY <2>1 DEF Messages
  <2>5. Appended(ms, p)
          = [ms EXCEPT ![Len(ms)] = [ms[Len(ms)] EXCEPT !.text = ms[Len(ms)].text \o p]]
    BY <1>2, <2>1 DEF Appended
  <2>6. [ms[Len(ms)] EXCEPT !.text = ms[Len(ms)].text \o p] \in Messages
    BY <2>3, <2>4
  <2> QED
    BY <2>1, <2>5, <2>6, ExceptSeq
<1>3. CASE ~LastIs(ms, "ASSISTANT")
  BY <1>1, <1>3, AppendProperties DEF Appended
<1> QED
  BY <1>2, <1>3

LEMMA DrainedType ==
  ASSUME OverlayInv, NEW e \in Events
  PROVE  Transcribed(messages, e) \in Seq(Messages) /\ Applied(ui, e) \in Views
<1>1. Message("ANNOUNCEMENT", 0) \in Messages /\ \A x \in Texts : Message("ERROR", x) \in Messages
  BY DEF Message, Messages
<1>2. messages \in Seq(Messages) /\ ui.open \in BOOLEAN
  BY DEF OverlayInv, MessagesOK, UiOK, Views
<1>3. Transcribed(messages, e) \in Seq(Messages)
  <2>1. CASE e.kind = "USER"
    <3>1. Transcribed(messages, e) = Added(messages, "USER", e.what, ui.open)
      BY <2>1 DEF Transcribed
    <3> QED
      BY <1>2, <2>1, <3>1, AddedType, KindOf
  <2>2. CASE e.kind = "DELTA"
    <3>1. Transcribed(messages, e) = Appended(messages, e.what)
      BY <2>2 DEF Transcribed
    <3> QED
      BY <1>2, <2>2, <3>1, AppendedType, KindOf
  <2>3. CASE e.kind = "ERROR"
    <3>1. Message("ERROR", e.what) \in Messages
      BY <1>1, <2>3, KindOf
    <3>2. Transcribed(messages, e) \in {messages, Append(messages, Message("ERROR", e.what))}
      BY <2>3 DEF Transcribed
    <3> QED
      BY <1>2, <3>1, <3>2, AppendProperties
  <2>4. CASE e.kind = "ANNOUNCEMENT"
    BY <1>1, <1>2, <2>4, AppendProperties DEF Transcribed
  <2>5. CASE e.kind \notin {"USER", "DELTA", "ERROR", "ANNOUNCEMENT"}
    BY <1>2, <2>5, EmptySeq DEF Transcribed
  <2> QED
    BY <2>1, <2>2, <2>3, <2>4, <2>5
<1>4. Applied(ui, e) \in Views
  <2>1. "error" \in States /\ "announcement" \in States
    BY DEF States
  <2>2. ui \in Views
    BY DEF OverlayInv, UiOK
  <2>3. (e.kind = "STATE" => e.what \in States) /\ (e.kind = "ERROR" => e.what \in Texts)
    BY KindOf
  <2>4. LastIs(messages, "USER") \in BOOLEAN
    BY DEF LastIs
  <2> QED
    BY <2>1, <2>2, <2>3, <2>4 DEF Applied, Views
<1> QED
  BY <1>3, <1>4

\* The steps of the worker, of the interface and of the user.
LEMMA InitType == OverlayInit => OverlayInv
<1> SUFFICES ASSUME OverlayInit PROVE OverlayInv
  OBVIOUS
<1>1. QueueOK /\ PostingOK /\ MessagesOK /\ DialogsOK /\ AlwaysOK /\ CommandsOK
  BY OverlayAssumption, EmptySeq DEF OverlayInit, QueueOK, PostingOK, MessagesOK, DialogsOK, AlwaysOK,
    CommandsOK, Closed
<1>2. UiOK /\ AppOK
  BY OverlayAssumption DEF OverlayInit, UiOK, Views, AppOK, Worked, States, Phases, Lacks
<1>3. HistOK
  <2>1. [r \in Requests |-> <<>>] \in [Requests -> Seq(Decisions)]
    BY EmptySeq
  <2> QED
    BY <2>1 DEF OverlayInit, HistOK, Histories, States
<1> QED
  BY <1>1, <1>2, <1>3 DEF OverlayInv

LEMMA DenyType ==
  ASSUME NEW h, NEW r \in Requests,
         h \in Histories
  PROVE  /\ Deny(r, h) \in Histories
         /\ Deny(r, h).answers = [h.answers EXCEPT ![r] = Append(h.answers[r], "deny")]
         /\ Deny(r, h).undone = h.undone
<1>1. Append(h.answers[r], "deny") \in Seq(Decisions)
  BY AppendProperties DEF Decisions, Histories
<1>2. Deny(r, h) = [h EXCEPT !.answers = [h.answers EXCEPT ![r] = Append(h.answers[r], "deny")]]
  BY DEF Deny
<1> QED
  BY <1>1, <1>2 DEF Histories

LEMMA PostType == OverlayInv /\ Post => OverlayInv'
<1> SUFFICES ASSUME OverlayInv, Post PROVE OverlayInv'
  OBVIOUS
<1> DEFINE e == Head(posting)
<1>1. e \in Events /\ posting' \in Seq(Events)
  BY HeadTailProperties DEF OverlayInv, PostingOK, Post
<1>2. QueueOK'
  BY <1>1, QueuedType DEF OverlayInv, QueueOK, Post
<1>3. HistOK'
  <2>1. Noted(queue, e) \in Histories
    BY <1>1, NotedType DEF OverlayInv, QueueOK
  <2>2. e.kind = "APPROVAL" => e.what \in Requests
    BY <1>1, KindOf
  <2>3. hist' = IF e.kind = "APPROVAL" /\ Refused(queue, e)
                  THEN Deny(e.what, Noted(queue, e)) ELSE Noted(queue, e)
    BY DEF Post
  <2> QED
    BY <2>1, <2>2, <2>3, DenyType DEF HistOK, Histories
<1> QED
  BY <1>1, <1>2, <1>3 DEF OverlayInv, PostingOK, MessagesOK, UiOK, DialogsOK, AlwaysOK, CommandsOK, AppOK, Post

LEMMA DrainType == OverlayInv /\ Drain => OverlayInv'
<1> SUFFICES ASSUME OverlayInv, Drain PROVE OverlayInv'
  OBVIOUS
<1> DEFINE e == Head(queue)
<1>1. e \in Events /\ queue' \in Seq(Events) /\ Len(queue') = Len(queue) - 1 /\ Len(queue) \in Nat
  BY HeadTailProperties, LenProperties DEF OverlayInv, QueueOK, Drain
<1>2. QueueOK'
  BY <1>1, OverlayAssumption DEF OverlayInv, QueueOK
<1>3. MessagesOK' /\ UiOK'
  BY <1>1, DrainedType DEF MessagesOK, UiOK, Drain
<1>4. DialogsOK'
  BY <1>1, KindOf, AppendProperties DEF OverlayInv, DialogsOK, Drain
<1>5. HistOK'
  BY DEF OverlayInv, HistOK, Histories, Drain
<1> QED
  BY <1>2, <1>3, <1>4, <1>5 DEF OverlayInv, PostingOK, AlwaysOK, CommandsOK, AppOK, Drain

LEMMA OrderType ==
  ASSUME OverlayInv, NEW command \in Seq(Commands), Order(command)
  PROVE  AppOK' /\ CommandsOK'
<1>1. CommandsOK'
  BY ConcatProperties DEF OverlayInv, CommandsOK, Order
<1>2. AppOK'
  <2>1. app' = [app EXCEPT !.incidents = app.incidents + 1] /\ app.incidents < MaxIncidents
    BY DEF Order
  <2>2. Worked(app) /\ MaxIncidents \in Nat
    BY OverlayAssumption DEF OverlayInv, AppOK
  <2> QED
    BY <2>1, <2>2 DEF AppOK, Worked
<1> QED
  BY <1>1, <1>2

LEMMA UserType == OverlayInv /\ User => OverlayInv'
<1> SUFFICES ASSUME OverlayInv, User PROVE OverlayInv'
  OBVIOUS
<1> USE DEF OverlayInv
<1>1. CASE Pause
  <2>1. <<<<"paused", ~ui.paused>>>> \in Seq(Commands)
    <3>1. <<"paused", ~ui.paused>> \in Commands
      BY DEF UiOK, Views, Commands
    <3> QED
      BY <3>1
  <2>2. AppOK' /\ CommandsOK'
    BY <1>1, <2>1, OrderType DEF Pause
  <2>3. UiOK'
    BY <1>1 DEF Pause, UiOK, Views, States
  <2> QED
    BY <1>1, <2>2, <2>3 DEF Pause, QueueOK, PostingOK, MessagesOK, DialogsOK, AlwaysOK, HistOK
<1>2. CASE PushToTalk
  <2>1. (IF ui.paused THEN <<<<"paused", FALSE>>>> ELSE <<>>) \o <<<<"ptt">>>> \in Seq(Commands)
    <3>1. <<"paused", FALSE>> \in Commands /\ <<"ptt">> \in Commands
      BY DEF Commands
    <3>2. <<<<"paused", FALSE>>>> \in Seq(Commands) /\ <<>> \in Seq(Commands)
          /\ <<<<"ptt">>>> \in Seq(Commands)
      BY <3>1, EmptySeq
    <3> QED
      BY <3>2, ConcatProperties
  <2>2. AppOK' /\ CommandsOK'
    BY <1>2, <2>1, OrderType DEF PushToTalk
  <2>3. UiOK'
    BY <1>2 DEF PushToTalk, UiOK, Views, States
  <2> QED
    BY <1>2, <2>2, <2>3 DEF PushToTalk, QueueOK, PostingOK, MessagesOK, DialogsOK, AlwaysOK, HistOK
<1>3. CASE Stop
  <2>1. <<<<"cancel">>>> \in Seq(Commands)
    BY DEF Commands
  <2>2. AppOK' /\ CommandsOK'
    BY <1>3, <2>1, OrderType DEF Stop
  <2> QED
    BY <1>3, <2>2 DEF Stop, UiOK, QueueOK, PostingOK, MessagesOK, DialogsOK, AlwaysOK, HistOK
<1>4. CASE OpenSettings
  <2>1. <<>> \in Seq(Commands)
    BY EmptySeq
  <2>2. AppOK' /\ CommandsOK'
    BY <1>4, <2>1, OrderType DEF OpenSettings
  <2> QED
    BY <1>4, <2>2 DEF OpenSettings, UiOK, QueueOK, PostingOK, MessagesOK, DialogsOK, AlwaysOK, HistOK
<1>5. ASSUME NEW save \in BOOLEAN, CloseSettings(save) PROVE OverlayInv'
  <2>1. AlwaysOK' /\ HistOK'
    <3>1. 0 \notin Requests
      BY DEF Requests
    <3>2. staged = {0} \/ staged \subseteq Requests
      BY DEF AlwaysOK, Closed
    <3>3. always' \subseteq Requests
      BY <1>5, <3>2 DEF CloseSettings, AlwaysOK, Closed
    <3>4. hist' = [hist EXCEPT !.undone = IF save THEN hist.undone \union (always \ staged) ELSE hist.undone]
      BY <1>5 DEF CloseSettings
    <3>5. HistOK'
      BY <3>4 DEF HistOK, Histories, AlwaysOK
    <3> QED
      BY <1>5, <3>3, <3>5 DEF CloseSettings, AlwaysOK
  <2>2. CommandsOK'
    <3>1. <<"settings">> \in Commands
      BY DEF Commands
    <3> QED
      BY <1>5, <3>1, AppendProperties DEF CloseSettings, CommandsOK
  <2> QED
    BY <1>5, <2>1, <2>2 DEF CloseSettings, UiOK, QueueOK, PostingOK, MessagesOK, DialogsOK, AppOK
<1>6. ASSUME NEW b \in Decisions, NEW saved \in BOOLEAN, Answer(b, saved) PROVE OverlayInv'
  <2>1. Last(dialogs) \in Requests /\ dialogs' \in Seq(Requests)
    BY <1>6, LastFront DEF Answer, DialogsOK
  <2>2. Resolved(b, saved) \in Decisions
    BY DEF Resolved, Decisions
  <2>3. <<"answer", Last(dialogs), Resolved(b, saved)>> \in Commands
    BY <2>1, <2>2 DEF Commands
  <2>4. CommandsOK'
    BY <1>6, <2>3, AppendProperties DEF Answer, CommandsOK
  <2>5. AlwaysOK'
    BY <1>6, <2>1 DEF Answer, AlwaysOK
  <2> QED
    BY <1>6, <2>1, <2>4, <2>5 DEF Answer, UiOK, QueueOK, PostingOK, MessagesOK, DialogsOK, AppOK, HistOK
<1> QED
  BY <1>1, <1>2, <1>3, <1>4, <1>5, <1>6 DEF User

LEMMA NewTurnType ==
  ASSUME NEW x, Worked(x), x.incidents < MaxIncidents, NEW ph \in Phases
  PROVE  Worked(NewTurn(x, ph))
<1>1. NewTurn(x, ph) = [x EXCEPT !.phase = ph, !.turn = x.turn + 1,
                                 !.incidents = x.incidents + 1]
  BY DEF NewTurn
<1>2. MaxIncidents \in Nat
  BY OverlayAssumption
<1>3. x.turn + 1 \in Nat /\ x.incidents + 1 \in Nat /\ x.asked <= x.incidents + 1
      /\ x.incidents + 1 <= MaxIncidents
  BY <1>2 DEF Worked
<1> QED
  BY <1>1, <1>3 DEF Worked

\* What trying a push-to-talk leaves alone: it succeeds, or tells nothing.
LEMMA AttemptFacts ==
  ASSUME NEW x, Worked(x), NEW t \in Attempts(x)
  PROVE  /\ Worked(t.app) /\ t.app.asked = x.asked /\ t.app.pieces = x.pieces
         /\ t.app.paused = x.paused
         /\ \/ /\ t.told = <<>> /\ t.app.phase = x.phase /\ t.app.turn = x.turn
               /\ t.app.ptt => x.ptt
            \/ /\ t.told = <<State("listening")>> /\ t.app.phase = "listening"
               /\ t.app.turn = x.turn + 1 /\ ~t.app.ptt
<1> DEFINE heard == [NewTurn(x, "listening") EXCEPT !.ptt = FALSE]
           failed == [x EXCEPT !.ptt = FALSE, !.incidents = x.incidents + 1]
<1>1. \/ t = [app |-> x, told |-> <<>>]
      \/ x.incidents < MaxIncidents /\ t = [app |-> heard, told |-> <<State("listening")>>]
      \/ x.incidents < MaxIncidents /\ t = [app |-> failed, told |-> <<>>]
  BY DEF Attempts
<1>2. CASE t = [app |-> x, told |-> <<>>]
  BY <1>2
<1>3. CASE x.incidents < MaxIncidents /\ t = [app |-> heard, told |-> <<State("listening")>>]
  <2>1. Worked(NewTurn(x, "listening"))
    BY <1>3, NewTurnType DEF Phases
  <2>2. Worked(heard)
    BY <2>1 DEF Worked
  <2>3. /\ heard.asked = x.asked /\ heard.pieces = x.pieces /\ heard.paused = x.paused
        /\ heard.phase = "listening" /\ heard.turn = x.turn + 1 /\ ~heard.ptt
    BY DEF Worked, NewTurn
  <2> HIDE DEF heard
  <2> QED
    BY <1>3, <2>2, <2>3
<1>4. CASE x.incidents < MaxIncidents /\ t = [app |-> failed, told |-> <<>>]
  <2>1. x.incidents + 1 \in Nat /\ x.asked <= x.incidents + 1 /\ x.incidents + 1 <= MaxIncidents
    BY <1>4, OverlayAssumption DEF Worked
  <2>2. Worked(failed)
    BY <2>1 DEF Worked
  <2>3. /\ failed.asked = x.asked /\ failed.pieces = x.pieces /\ failed.paused = x.paused
        /\ failed.phase = x.phase /\ failed.turn = x.turn /\ ~failed.ptt
    BY DEF Worked
  <2> HIDE DEF failed
  <2> QED
    BY <1>4, <2>2, <2>3
<1> QED
  BY <1>1, <1>2, <1>3, <1>4

LEMMA CancelledType ==
  ASSUME NEW x, Worked(x)
  PROVE  Worked(Cancelled(x)) /\ Cancelled(x).incidents = x.incidents
<1>1. \A p \in Phases : Worked([x EXCEPT !.phase = p]) /\ [x EXCEPT !.phase = p].incidents = x.incidents
  BY DEF Worked
<1>2. "idle" \in Phases /\ "cancelled" \in Phases /\ x.phase \in Phases
  BY DEF Worked, Phases
<1> QED
  BY <1>1, <1>2 DEF Cancelled

LEMMA HandlesType ==
  ASSUME OverlayInv, NEW x, Worked(x), NEW events \in Seq(Events), Handles(x, events)
  PROVE  QueueOK' /\ PostingOK' /\ MessagesOK' /\ UiOK' /\ DialogsOK' /\ AlwaysOK' /\ AppOK'
BY DEF Handles, OverlayInv, QueueOK, PostingOK, MessagesOK, UiOK, DialogsOK, AlwaysOK, AppOK

LEMMA TellsType ==
  ASSUME OverlayInv, NEW x, Worked(x), NEW events \in Seq(Events), Tells(x, events)
  PROVE  OverlayInv'
<1>1. CommandsOK' /\ HistOK'
  BY DEF Tells, OverlayInv, CommandsOK, HistOK
<1> QED
  BY <1>1, HandlesType DEF Tells, OverlayInv

LEMMA StatesFacts ==
  /\ \A s \in {"idle", "muted", "listening", "follow_up", "thinking", "speaking", "loading"} :
       State(s) \in Events
  /\ \A x : Worked(x) => State(Rest(x)) \in Events
BY EventFacts DEF States, Worked

\* A handler that neither asks nor answers moves no request.
Unasking(events) == \A i \in DOMAIN events : events[i].kind # "APPROVAL"
Telling == {"STATE", "ERROR", "ANNOUNCEMENT"}
Tellings(events) == \E i \in 1..Len(events) : events[i].kind \in Telling
Plain(x, events) ==
  Worked(x) /\ x.asked = app.asked /\ events \in Seq(Events) /\ Unasking(events)

LEMMA PlainFacts ==
  /\ <<>> \in Seq(Events) /\ Unasking(<<>>)
  /\ \A s \in States : <<State(s)>> \in Seq(Events) /\ Unasking(<<State(s)>>)
  /\ \A x : Worked(x) => <<State(Rest(x))>> \in Seq(Events) /\ Unasking(<<State(Rest(x))>>)
  /\ \A s \in Texts : <<Error(s)>> \in Seq(Events) /\ Unasking(<<Error(s)>>)
  /\ \A s \in Seq(Events), t \in Seq(Events) :
       /\ Unasking(s) /\ Unasking(t) => s \o t \in Seq(Events) /\ Unasking(s \o t)
       /\ Tellings(s) \/ Tellings(t) => Tellings(s \o t)
<1>1. \A e \in Events : <<e>> \in Seq(Events) /\ (e.kind # "APPROVAL" => Unasking(<<e>>))
  BY DEF Unasking
<1>2. <<>> \in Seq(Events) /\ Unasking(<<>>)
  BY EmptySeq DEF Unasking
<1>3. \A s \in States : State(s) \in Events /\ State(s).kind # "APPROVAL"
  BY EventFacts
<1>4. \A s \in Texts : Error(s) \in Events /\ Error(s).kind # "APPROVAL"
  BY EventFacts
<1>5. \A x : Worked(x) => Rest(x) \in States
  BY EventFacts DEF Worked
<1>6. ASSUME NEW s \in Seq(Events), NEW t \in Seq(Events)
      PROVE  /\ Unasking(s) /\ Unasking(t) => s \o t \in Seq(Events) /\ Unasking(s \o t)
             /\ Tellings(s) \/ Tellings(t) => Tellings(s \o t)
  <2>1. /\ s \o t \in Seq(Events) /\ Len(s) \in Nat /\ Len(t) \in Nat
        /\ DOMAIN s = 1..Len(s) /\ DOMAIN t = 1..Len(t) /\ DOMAIN (s \o t) = 1..(Len(s) + Len(t))
        /\ \A i \in 1..(Len(s) + Len(t)) : (s \o t)[i] = IF i <= Len(s) THEN s[i] ELSE t[i - Len(s)]
    BY ConcatProperties, LenProperties
  <2>2. ASSUME Unasking(s), Unasking(t), NEW i \in 1..(Len(s) + Len(t)) PROVE (s \o t)[i].kind # "APPROVAL"
    <3>1. CASE i <= Len(s)
      BY <2>1, <2>2, <3>1 DEF Unasking
    <3>2. CASE ~(i <= Len(s))
      <4>1. i - Len(s) \in 1..Len(t)
        BY <2>1, <3>2
      <4> QED
        BY <2>1, <2>2, <3>2, <4>1 DEF Unasking
    <3> QED
      BY <3>1, <3>2
  <2>3. ASSUME NEW i \in 1..Len(s), s[i].kind \in Telling PROVE Tellings(s \o t)
    BY <2>1, <2>3 DEF Tellings
  <2>4. ASSUME NEW i \in 1..Len(t), t[i].kind \in Telling PROVE Tellings(s \o t)
    <3>1. Len(s) + i \in 1..(Len(s) + Len(t)) /\ ~(Len(s) + i <= Len(s)) /\ (Len(s) + i) - Len(s) = i
      BY <2>1
    <3>2. (s \o t)[Len(s) + i] = t[i] /\ Len(s \o t) = Len(s) + Len(t)
      BY <2>1, <3>1, ConcatProperties
    <3> QED
      BY <2>4, <3>1, <3>2 DEF Tellings
  <2> QED
    BY <2>1, <2>2, <2>3, <2>4 DEF Unasking, Tellings
<1> QED
  BY <1>1, <1>2, <1>3, <1>4, <1>5, <1>6

LEMMA TellingsFacts ==
  /\ \A v : Tellings(<<State(v)>>) /\ Tellings(<<Error(v)>>)
  /\ \A v : Tellings(<<Event("ANNOUNCEMENT", v)>>)
<1>1. \A e : e.kind \in Telling => Tellings(<<e>>)
  <2> SUFFICES ASSUME NEW e, e.kind \in Telling PROVE Tellings(<<e>>)
    OBVIOUS
  <2>1. 1 \in 1..Len(<<e>>) /\ (<<e>>)[1] = e
    OBVIOUS
  <2> QED
    BY <2>1 DEF Tellings
<1> QED
  BY <1>1 DEF State, Error, Event, Telling

\* What a push-to-talk that is tried leaves, and what it tells.
LEMMA AttemptPlain ==
  ASSUME NEW x, Worked(x), x.asked = app.asked, NEW t \in Attempts(x)
  PROVE  Plain(t.app, t.told)
<1>1. Worked(t.app) /\ t.app.asked = app.asked /\ t.told \in {<<>>, <<State("listening")>>}
  BY AttemptFacts
<1>2. "listening" \in States
  BY DEF States
<1> QED
  BY <1>1, <1>2, PlainFacts DEF Plain

\* dio_app_handle_ui: an answer is handed on; no other command moves a request.
LEMMA ObeyCases ==
  ASSUME OverlayInv, Obey, NEW c, c = Head(commands)
  PROVE  /\ commands # <<>> /\ c \in Commands /\ commands' = Tail(commands) /\ CommandsOK'
         /\ c[1] = "answer" => Decide(c[2], c[3]) /\ c[2] \in Requests /\ c[3] \in Decisions
         /\ c[1] # "answer" =>
              /\ \E x, events : Handles(x, events) /\ Plain(x, events)
              /\ hist' = hist \/ hist' = [hist EXCEPT !.refused = TRUE]
<1>1. commands # <<>> /\ c \in Commands /\ commands' = Tail(commands) /\ CommandsOK'
  BY HeadTailProperties DEF OverlayInv, CommandsOK, Obey
<1>2. Worked(app)
  BY DEF OverlayInv, AppOK
<1>3. \/ c[1] = "paused" /\ SetPaused(c[2])
      \/ c[1] = "ptt" /\ Talk
      \/ c[1] = "cancel" /\ Cancel
      \/ c[1] = "settings" /\ ChangeSettings
      \/ c[1] = "answer" /\ Decide(c[2], c[3])
  BY DEF Obey
<1> DEFINE Done == /\ \E x, events : Handles(x, events) /\ Plain(x, events)
                   /\ hist' = hist \/ hist' = [hist EXCEPT !.refused = TRUE]
<1>4. CASE c[1] = "paused" /\ SetPaused(c[2])
  <2> DEFINE x == [app EXCEPT !.paused = c[2], !.ptt = FALSE,
                              !.phase = IF c[2] /\ app.phase \in Hearing THEN "idle" ELSE app.phase]
  <2>1. c[2] \in BOOLEAN
    BY <1>1, <1>4 DEF Commands
  <2>2. Worked(x) /\ x.asked = app.asked
    BY <1>2, <2>1 DEF Worked, Phases
  <2>3. Handles(x, <<State(Rest(x))>>) /\ UNCHANGED hist
    BY <1>4 DEF SetPaused
  <2> HIDE DEF x
  <2>4. Plain(x, <<State(Rest(x))>>)
    BY <2>2, PlainFacts DEF Plain
  <2> QED
    BY <1>1, <1>4, <2>3, <2>4
<1>5. CASE c[1] = "ptt" /\ Talk
  <2>1. CASE Handles(app, <<Error("provider")>>) /\ UNCHANGED hist
    <3>1. Plain(app, <<Error("provider")>>)
      BY <1>2, PlainFacts DEF Plain, Texts
    <3> QED
      BY <1>1, <1>5, <2>1, <3>1
  <2>2. CASE Handles(app, <<>>) /\ hist' = [hist EXCEPT !.refused = TRUE]
    <3>1. Plain(app, <<>>)
      BY <1>2, PlainFacts DEF Plain
    <3> QED
      BY <1>1, <1>5, <2>2, <3>1
  <2>3. ASSUME NEW t \in Attempts(Cancelled([app EXCEPT !.paused = FALSE, !.ptt = TRUE])),
               Handles(t.app, t.told),
               hist' = [hist EXCEPT !.refused = hist.refused \/ (t.told = <<>> /\ ~t.app.ptt)]
        PROVE  Done
    <3> DEFINE y == [app EXCEPT !.paused = FALSE, !.ptt = TRUE]
               z == Cancelled(y)
    <3>1. Worked(y) /\ y.asked = app.asked
      BY <1>2 DEF Worked
    <3> HIDE DEF y
    <3>2. Worked(z) /\ z.asked = app.asked
      BY <3>1, CancelledType DEF Cancelled, Worked
    <3>3. t \in Attempts(z)
      BY <2>3 DEF y
    <3> HIDE DEF z
    <3>4. Plain(t.app, t.told)
      BY <3>2, <3>3, AttemptPlain
    <3>5. hist' = hist \/ hist' = [hist EXCEPT !.refused = TRUE]
      BY <2>3 DEF OverlayInv, HistOK, Histories
    <3> QED
      BY <2>3, <3>4, <3>5
  <2> QED
    BY <1>1, <1>5, <2>1, <2>2, <2>3 DEF Talk
<1>6. CASE c[1] = "cancel" /\ Cancel
  <2> DEFINE y == [app EXCEPT !.ptt = FALSE]
             x == Cancelled(y)
  <2>1. Worked(y) /\ y.asked = app.asked
    BY <1>2 DEF Worked
  <2>2. Handles(x, <<State(Rest(x))>>) /\ UNCHANGED hist
    BY <1>6 DEF Cancel
  <2> HIDE DEF y
  <2>3. Worked(x) /\ x.asked = app.asked
    BY <2>1, CancelledType DEF Cancelled, Worked
  <2> HIDE DEF x
  <2>4. Plain(x, <<State(Rest(x))>>)
    BY <2>3, PlainFacts DEF Plain
  <2> QED
    BY <1>1, <1>6, <2>2, <2>4
<1>7. CASE c[1] = "settings" /\ ChangeSettings
  <2>1. UNCHANGED hist
    BY <1>7 DEF ChangeSettings
  <2>2. CASE Handles(app, <<Error("settings")>>)
    <3>1. Plain(app, <<Error("settings")>>)
      BY <1>2, PlainFacts DEF Plain, Texts
    <3> QED
      BY <1>1, <1>7, <2>1, <2>2, <3>1
  <2>3. ASSUME NEW lacks \in Lacks, NEW events,
               Handles([app EXCEPT !.lacks = lacks,
                                   !.phase = IF lacks = "nothing" THEN "loading" ELSE "broken"], events),
               events = CASE lacks = "nothing" -> <<State("loading")>>
                          [] lacks = "secrets" -> <<State("loading"), Error("secrets")>>
                          [] lacks = "provider" -> <<Error("provider")>>
        PROVE  Done
    <3> DEFINE x == [app EXCEPT !.lacks = lacks,
                                !.phase = IF lacks = "nothing" THEN "loading" ELSE "broken"]
    <3>1. Worked(x) /\ x.asked = app.asked
      BY <1>2 DEF Worked, Phases
    <3>2. "loading" \in States /\ "secrets" \in Texts /\ "provider" \in Texts
      BY DEF States, Texts
    <3>3. <<State("loading"), Error("secrets")>> = <<State("loading")>> \o <<Error("secrets")>>
      OBVIOUS
    <3>4. events \in {<<State("loading")>>, <<State("loading")>> \o <<Error("secrets")>>, <<Error("provider")>>}
      BY <2>3, <3>3 DEF Lacks
    <3>5. events \in Seq(Events) /\ Unasking(events)
      BY <3>2, <3>4, PlainFacts
    <3> HIDE DEF x
    <3>6. Handles(x, events)
      BY <2>3 DEF x
    <3> QED
      BY <2>1, <3>1, <3>5, <3>6 DEF Plain
  <2> QED
    BY <1>1, <1>7, <2>2, <2>3 DEF ChangeSettings
<1>8. CASE c[1] = "answer" /\ Decide(c[2], c[3])
  <2>1. c[2] \in Requests /\ c[3] \in Decisions
    BY <1>1, <1>8 DEF Commands
  <2> QED
    BY <1>1, <1>8, <2>1
<1> QED
  BY <1>3, <1>4, <1>5, <1>6, <1>7, <1>8

LEMMA ObeyType == OverlayInv /\ Obey => OverlayInv'
<1> SUFFICES ASSUME OverlayInv, Obey PROVE OverlayInv'
  OBVIOUS
<1> DEFINE c == Head(commands)
<1>1. CommandsOK' /\ Worked(app) /\ HistOK
  BY ObeyCases DEF OverlayInv, AppOK
<1>2. CASE c[1] # "answer"
  <2>1. PICK x, events : Handles(x, events) /\ Plain(x, events)
    BY <1>2, ObeyCases
  <2>2. HistOK'
    <3>1. hist' = hist \/ hist' = [hist EXCEPT !.refused = TRUE]
      BY <1>2, ObeyCases
    <3> QED
      BY <1>1, <3>1 DEF HistOK, Histories
  <2> QED
    BY <1>1, <2>1, <2>2, HandlesType DEF OverlayInv, Plain
<1>3. CASE c[1] = "answer"
  <2>1. /\ c[2] \in Requests /\ c[3] \in Decisions /\ Handles(app, <<>>)
        /\ hist' = [hist EXCEPT !.answers = [hist.answers EXCEPT ![c[2]] = Append(hist.answers[c[2]], c[3])]]
    BY <1>3, ObeyCases DEF Decide
  <2>2. Append(hist.answers[c[2]], c[3]) \in Seq(Decisions)
    BY <1>1, <2>1, AppendProperties DEF HistOK, Histories
  <2>3. HistOK'
    BY <1>1, <2>1, <2>2 DEF HistOK, Histories
  <2> QED
    BY <1>1, <2>1, <2>3, EmptySeq, HandlesType DEF OverlayInv
<1> QED
  BY <1>2, <1>3

LEMMA Joined ==
  ASSUME NEW e, NEW s
  PROVE  <<e, s>> = <<e>> \o <<s>>
<1> DEFINE a == <<e>>
           b == <<s>>
<1>1. a \in Seq({e, s}) /\ b \in Seq({e, s}) /\ Len(a) = 1 /\ Len(b) = 1
      /\ a[1] = e /\ b[1] = s
  OBVIOUS
<1> HIDE DEF a, b
<1>2. /\ a \o b \in Seq({e, s}) /\ Len(a \o b) = 2
      /\ (a \o b)[1] = a[1] /\ (a \o b)[2] = b[1]
  BY <1>1, ConcatProperties
<1>3. \A c \in Seq({e, s}) : Len(c) = 2 /\ c[1] = e /\ c[2] = s => <<e, s>> = c
  OBVIOUS
<1>4. <<e, s>> = a \o b
  BY <1>1, <1>2, <1>3
<1> QED
  BY <1>4 DEF a, b

\* The worker's other handlers tell something; only Approval asks.
LEMMA TellsCases ==
  ASSUME OverlayInv, Worker, ~Post, ~Obey, ~Approval
  PROVE  \E x, events : /\ Tells(x, events) /\ Plain(x, events) /\ x.paused = app.paused
                        /\ Tellings(events) \/ x.ptt = app.ptt
<1>1. Worked(app) /\ MaxIncidents \in Nat /\ app.turn \in Nat /\ app.pieces \in Nat
  BY OverlayAssumption DEF OverlayInv, AppOK, Worked
<1> DEFINE Like(x) == Worked(x) /\ x.asked = app.asked /\ x.paused = app.paused
           Said(events) == events \in Seq(Events) /\ Unasking(events)
<1>2. \A p \in Phases : Like([app EXCEPT !.phase = p])
  BY <1>1 DEF Worked
<1>3. \A p \in Phases : app.incidents < MaxIncidents =>
        Like(NewTurn(app, p)) /\ Like([Troubled EXCEPT !.phase = p]) /\ Like(Troubled)
  <2> SUFFICES ASSUME NEW p \in Phases, app.incidents < MaxIncidents
               PROVE  Like(NewTurn(app, p)) /\ Like([Troubled EXCEPT !.phase = p]) /\ Like(Troubled)
    OBVIOUS
  <2>1. Like(NewTurn(app, p))
    BY <1>1, NewTurnType DEF NewTurn, Worked
  <2>2. Troubled = [app EXCEPT !.incidents = app.incidents + 1]
    BY DEF Troubled
  <2>3. app.incidents + 1 \in Nat /\ app.asked <= app.incidents + 1
        /\ app.incidents + 1 <= MaxIncidents
    BY <1>1 DEF Worked
  <2>4. Like(Troubled) /\ Like([Troubled EXCEPT !.phase = p])
    BY <1>1, <2>2, <2>3 DEF Worked
  <2> QED
    BY <2>1, <2>4
<1>4. /\ "idle" \in Phases /\ "listening" \in Phases /\ "follow_up" \in Phases /\ "thinking" \in Phases
      /\ "replying" \in Phases /\ "broken" \in Phases /\ "loading" \in Phases /\ "announcing" \in Phases
      /\ \A s \in {"listening", "follow_up", "thinking", "speaking", "loading"} : s \in States
  BY DEF Phases, States
<1>5. /\ Said(<<>>) /\ Said(<<State(Rest(app))>>)
      /\ \A s \in States : Said(<<State(s)>>) /\ \A s2 \in Texts : Said(<<Error(s2)>>)
      /\ \A s, t : Said(s) /\ Said(t) =>
           Said(s \o t) /\ (Tellings(s) \/ Tellings(t) => Tellings(s \o t))
  BY <1>1, PlainFacts
<1>6. \A k, v : k # "APPROVAL" /\ Event(k, v) \in Events => Said(<<Event(k, v)>>)
  BY EventFacts DEF Unasking
<1>7. \A e, s : <<e, s>> = <<e>> \o <<s>>
  BY Joined
<1>8. \A k, v : \A s \in States : k # "APPROVAL" /\ Event(k, v) \in Events =>
        Said(<<Event(k, v), State(s)>>) /\ Tellings(<<Event(k, v), State(s)>>)
  <2>1. \A s \in States : Tellings(<<State(s)>>)
    BY TellingsFacts
  <2> HIDE DEF Said
  <2> QED
    BY <1>5, <1>6, <1>7, <2>1
<1>9. /\ Event("CLEAR", 0) \in Events /\ Event("USER", app.turn) \in Events /\ Event("ACK", 0) \in Events
      /\ Event("ANNOUNCEMENT", 0) \in Events
      /\ Event("DELTA", <<<<app.turn, app.pieces + 1>>>>) \in Events
  <2>1. <<<<app.turn, app.pieces + 1>>>> \in Pieces
    BY <1>1 DEF Pieces
  <2> QED
    BY <1>1, <2>1, EventFacts
<1>10. \A x : Like(x) => \A t \in Attempts(x) : Like(t.app) /\ Said(t.told)
  BY AttemptPlain, AttemptFacts DEF Plain
<1>11. \A x, events : Like(x) /\ Said(events) => Plain(x, events) /\ x.paused = app.paused
  BY DEF Plain
<1>12. Like(app)
  BY <1>1
<1>13. Like([app EXCEPT !.pieces = app.pieces + 1]) /\ [app EXCEPT !.pieces = app.pieces + 1].ptt = app.ptt
  BY <1>1 DEF Worked
<1> DEFINE Goal == \E x, events : /\ Tells(x, events) /\ Plain(x, events) /\ x.paused = app.paused
                                  /\ Tellings(events) \/ x.ptt = app.ptt
<1>29. ASSUME NEW x, NEW events, Tells(x, events), Like(x), Said(events),
              Tellings(events) \/ x.ptt = app.ptt
       PROVE  Goal
  BY <1>11, <1>29
<1> SUFFICES Goal
  OBVIOUS
<1> HIDE DEF Like, Said, Goal
<1>14. CASE Wake
  BY <1>3, <1>4, <1>8, <1>9, <1>29, TellingsFacts, <1>14 DEF Wake
<1>15. CASE Listening
  BY <1>4, <1>5, <1>29, TellingsFacts, <1>12, <1>15 DEF Listening, Hearing
<1>16. CASE Accepted
  BY <1>2, <1>4, <1>8, <1>9, <1>29, TellingsFacts, <1>16 DEF Accepted
<1>17. CASE TextDelta
  BY <1>6, <1>9, <1>29, TellingsFacts, <1>13, <1>17 DEF TextDelta
<1>18. CASE Speaking
  BY <1>4, <1>5, <1>29, TellingsFacts, <1>12, <1>18 DEF Speaking
<1>19. CASE Complete
  <2>1. CASE Tells([app EXCEPT !.phase = "idle"], <<State(Rest(app))>>)
    BY <1>2, <1>4, <1>5, <1>29, TellingsFacts, <2>1
  <2>2. CASE app.incidents < MaxIncidents /\ Tells(NewTurn(app, "follow_up"), <<State("follow_up")>>)
    BY <1>3, <1>4, <1>5, <1>29, TellingsFacts, <2>2
  <2>3. ASSUME NEW t \in Attempts([app EXCEPT !.phase = "idle"]),
               Tells(t.app, <<State(Rest(app))>> \o t.told)
        PROVE  Goal
    BY <1>2, <1>4, <1>5, <1>10, <1>29, TellingsFacts, <2>3
  <2> QED
    BY <1>19, <2>1, <2>2, <2>3 DEF Complete
<1>20. CASE VoiceIdle
  <2>1. PICK t \in Attempts([app EXCEPT !.phase = "idle"]) :
          Tells(t.app, t.told \o IF t.app.ptt THEN <<>> ELSE <<State(Rest(app))>>)
    BY <1>20 DEF VoiceIdle
  <2>2. Said(IF t.app.ptt THEN <<>> ELSE <<State(Rest(app))>>)
    BY <1>5
  <2>3. Said(t.told \o IF t.app.ptt THEN <<>> ELSE <<State(Rest(app))>>) /\ Like(t.app)
    BY <1>2, <1>4, <1>5, <1>10, <2>1, <2>2
  <2>4. CASE t.told = <<>> /\ t.app.ptt
    <3>1. Worked([app EXCEPT !.phase = "idle"]) /\ [app EXCEPT !.phase = "idle"].ptt = app.ptt
      BY <1>1, <1>4 DEF Worked
    <3>2. app.ptt
      BY <2>4, <3>1, AttemptFacts
    <3>3. t.app.ptt \in BOOLEAN /\ app.ptt \in BOOLEAN
      BY <1>1, <2>3 DEF Like, Worked
    <3> QED
      BY <1>29, <2>1, <2>3, <2>4, <3>2, <3>3
  <2>5. CASE ~t.app.ptt
    <3>1. Tellings(t.told \o IF t.app.ptt THEN <<>> ELSE <<State(Rest(app))>>)
      BY <1>2, <1>4, <1>5, <1>10, <2>2, <2>5, TellingsFacts
    <3> QED
      BY <1>29, <2>1, <2>3, <3>1
  <2>6. t.told = <<>> \/ ~t.app.ptt
    BY <1>1, <1>4, AttemptFacts DEF Worked
  <2> QED
    BY <2>4, <2>5, <2>6
<1>21. CASE TurnFails
  <2>1. PICK t \in Attempts([Troubled EXCEPT !.phase = "idle"]) : Tells(t.app, t.told \o <<Error("turn")>>)
    BY <1>21 DEF TurnFails
  <2>2. Said(<<Error("turn")>>) /\ app.incidents < MaxIncidents
    BY <1>4, <1>5, <1>21 DEF Texts, TurnFails, Trouble
  <2> QED
    BY <1>3, <1>4, <1>5, <1>10, <1>29, TellingsFacts, <2>1, <2>2
<1>22. CASE CancelRejected
  <2>1. Said(<<Error("cancel")>>) /\ app.incidents < MaxIncidents
    BY <1>4, <1>5, <1>22 DEF Texts, CancelRejected, Trouble
  <2> QED
    BY <1>3, <1>4, <1>29, TellingsFacts, <1>22, <2>1 DEF CancelRejected
<1>23. CASE Breaks
  <2>1. Said(<<Error("engine")>>) /\ app.incidents < MaxIncidents
    BY <1>4, <1>5, <1>23 DEF Texts, Breaks, Trouble
  <2> QED
    BY <1>3, <1>4, <1>29, TellingsFacts, <1>23, <2>1 DEF Breaks
<1>24. CASE Restart
  BY <1>2, <1>4, <1>5, <1>29, TellingsFacts, <1>24 DEF Restart
<1>25. CASE Ready
  BY <1>2, <1>4, <1>5, <1>29, TellingsFacts, <1>25 DEF Ready
<1>26. CASE Announce
  <2>1. app.incidents < MaxIncidents
    BY <1>26 DEF Announce, Trouble
  <2> QED
    BY <1>3, <1>4, <1>6, <1>9, <1>29, TellingsFacts, <1>26, <2>1 DEF Announce
<1>27. CASE Announced
  <2>1. PICK t \in Attempts([app EXCEPT !.phase = "idle"]) :
          Tells(t.app, IF t.told = <<>> THEN <<State(Rest(app))>> ELSE t.told)
    BY <1>27 DEF Announced
  <2>2. Like(t.app) /\ Said(t.told)
    BY <1>2, <1>4, <1>10
  <2>3. CASE t.told = <<>>
    BY <1>5, <1>29, TellingsFacts, <2>1, <2>2, <2>3
  <2>4. CASE t.told # <<>>
    <3>1. t.told = <<State("listening")>>
      BY <1>1, <1>4, <2>4, AttemptFacts DEF Worked
    <3> QED
      BY <1>29, TellingsFacts, <2>1, <2>2, <2>4, <3>1
  <2> QED
    BY <2>3, <2>4
<1>28. ASSUME NEW final \in BOOLEAN, Transcript(final)
       PROVE  Goal
  BY <1>2, <1>4, <1>6, <1>8, <1>9, <1>29, TellingsFacts, <1>12, <1>28 DEF Transcript
<1> QED
  BY <1>14, <1>15, <1>16, <1>17, <1>18, <1>19, <1>20, <1>21, <1>22, <1>23, <1>24, <1>25, <1>26, <1>27,
    <1>28 DEF Worker

\* A request is numbered.
LEMMA ApprovalCase ==
  ASSUME OverlayInv, Approval
  PROVE  LET x == [Troubled EXCEPT !.asked = app.asked + 1]
             events == <<Event("APPROVAL", app.asked + 1)>>
         IN  /\ Tells(x, events) /\ Worked(x) /\ events \in Seq(Events)
             /\ x.asked = app.asked + 1 /\ app.asked + 1 \in Requests
             /\ x.paused = app.paused /\ x.ptt = app.ptt
<1>1. Worked(app) /\ MaxIncidents \in Nat /\ app.incidents < MaxIncidents
  BY OverlayAssumption DEF OverlayInv, AppOK, Approval, Trouble
<1>2. Tells([Troubled EXCEPT !.asked = app.asked + 1], <<Event("APPROVAL", app.asked + 1)>>)
  BY DEF Approval, Troubled
<1>3. app.incidents + 1 \in Nat /\ app.asked + 1 \in Nat /\ app.asked + 1 <= app.incidents + 1
      /\ app.incidents + 1 <= MaxIncidents /\ app.asked + 1 \in Requests
  BY <1>1 DEF Worked, Requests
<1>4. /\ Worked([Troubled EXCEPT !.asked = app.asked + 1])
      /\ [Troubled EXCEPT !.asked = app.asked + 1].asked = app.asked + 1
      /\ [Troubled EXCEPT !.asked = app.asked + 1].paused = app.paused
      /\ [Troubled EXCEPT !.asked = app.asked + 1].ptt = app.ptt
  BY <1>1, <1>3 DEF Worked, Troubled
<1> QED
  BY <1>2, <1>3, <1>4, EventFacts

LEMMA WorkerType == OverlayInv /\ Worker => OverlayInv'
<1> SUFFICES ASSUME OverlayInv, Worker PROVE OverlayInv'
  OBVIOUS
<1>1. CASE Post
  BY <1>1, PostType
<1>2. CASE Obey
  BY <1>2, ObeyType
<1>3. CASE Approval
  BY <1>3, ApprovalCase, TellsType
<1>4. CASE ~Post /\ ~Obey /\ ~Approval
  BY <1>4, TellsCases, TellsType DEF Plain
<1> QED
  BY <1>1, <1>2, <1>3, <1>4

LEMMA TypeStep == OverlayInv /\ [OverlayNext]_overlayVars => OverlayInv'
<1>1. OverlayInv /\ OverlayNext => OverlayInv'
  BY WorkerType, UserType, DrainType DEF OverlayNext
<1>2. OverlayInv /\ UNCHANGED overlayVars => OverlayInv'
  BY DEF overlayVars, OverlayInv, QueueOK, PostingOK, MessagesOK, UiOK, DialogsOK, AlwaysOK, CommandsOK, AppOK, HistOK
<1> QED
  BY <1>1, <1>2

LEMMA OverlayInvHolds == OverlaySpec => []OverlayInv
BY InitType, TypeStep, PTL DEF OverlaySpec

\* For any bounds: the queue never holds more than its capacity, and every variable
\* keeps its type (dio_ui_post, dio_drain_events).
THEOREM OverlayTypes == OverlaySpec => []OverlayTypeOK
<1>1. OverlayInv => OverlayTypeOK
  <2> SUFFICES ASSUME OverlayInv PROVE OverlayTypeOK
    OBVIOUS
  <2>1. \A i \in 1..Len(messages) : messages[i] \in Messages
    BY ElementOfSeq DEF OverlayInv, MessagesOK
  <2>2. \A m \in Messages : m.kind \in {"USER", "ASSISTANT", "ERROR", "ANNOUNCEMENT"}
    BY DEF Messages
  <2> QED
    BY <2>1, <2>2 DEF OverlayTypeOK, OverlayInv, QueueOK, UiOK, Views, DialogsOK, AlwaysOK, AppOK, Worked, Phases, HistOK, Histories
<1> QED
  BY <1>1, OverlayInvHolds, PTL

-----------------------------------------------------------------------------
(* Every request is in one place.                                           *)

Lone(S) == \E x : S = {x}

InPosting(r) == Where(posting, {Event("APPROVAL", r)})
InQueue(r) == Where(queue, {Event("APPROVAL", r)})
InDialogs(r) == Where(dialogs, {r})
Returning(r) == {"answer"} \X {r} \X Decisions
InCommands(r) == Where(commands, Returning(r))
InAnswers(r) == DOMAIN hist.answers[r]

\* Five sets of which one has a single element and the others none.
Sole(P, Q, D, C, A) ==
  \/ Lone(P) /\ Q = {} /\ D = {} /\ C = {} /\ A = {}
  \/ P = {} /\ Lone(Q) /\ D = {} /\ C = {} /\ A = {}
  \/ P = {} /\ Q = {} /\ Lone(D) /\ C = {} /\ A = {}
  \/ P = {} /\ Q = {} /\ D = {} /\ Lone(C) /\ A = {}
  \/ P = {} /\ Q = {} /\ D = {} /\ C = {} /\ Lone(A)
None(P, Q, D, C, A) == P = {} /\ Q = {} /\ D = {} /\ C = {} /\ A = {}

PlacedInv ==
  \A r \in Requests :
    /\ r <= app.asked => Sole(InPosting(r), InQueue(r), InDialogs(r), InCommands(r), InAnswers(r))
    /\ ~(r <= app.asked) => None(InPosting(r), InQueue(r), InDialogs(r), InCommands(r), InAnswers(r))

\* What is allowed for good, or on its way to be, has been saved.
SavedInv ==
  \A r \in Requests :
    /\ \A i \in DOMAIN commands : commands[i] = <<"answer", r, "always">> => r \in always \union hist.undone
    /\ \A i \in DOMAIN hist.answers[r] : hist.answers[r][i] = "always" => r \in always \union hist.undone

LEMMA WhereTail ==
  ASSUME NEW S, NEW s \in Seq(S), s # <<>>, NEW T
  PROVE  /\ Where(s, T) = {} => Head(s) \notin T /\ Where(Tail(s), T) = {}
         /\ Head(s) \notin T /\ Lone(Where(s, T)) => Lone(Where(Tail(s), T))
         /\ Head(s) \in T => Where(s, T) # {}
         /\ Head(s) \in T /\ Lone(Where(s, T)) => Where(Tail(s), T) = {}
<1>1. /\ Len(s) \in Nat /\ Len(s) # 0 /\ DOMAIN s = 1..Len(s)
      /\ Tail(s) \in Seq(S) /\ Len(Tail(s)) = Len(s) - 1 /\ DOMAIN Tail(s) = 1..(Len(s) - 1)
      /\ \A i \in 1..(Len(s) - 1) : Tail(s)[i] = s[i + 1]
      /\ Head(s) = s[1]
  BY HeadTailProperties, LenProperties, EmptySeq
<1>2. \A i : i \in Where(Tail(s), T) <=> i \in 1..(Len(s) - 1) /\ i + 1 \in Where(s, T)
  BY <1>1 DEF Where
<1>3. Head(s) \in T <=> 1 \in Where(s, T)
  BY <1>1 DEF Where
<1>4. Where(s, T) \subseteq 1..Len(s)
  BY <1>1 DEF Where
<1>5. Where(s, T) = {} => Head(s) \notin T /\ Where(Tail(s), T) = {}
  BY <1>2, <1>3
<1>6. ASSUME NEW x, Where(s, T) = {x}
      PROVE  /\ Head(s) \notin T => Where(Tail(s), T) = {x - 1}
             /\ Head(s) \in T => Where(Tail(s), T) = {}
  <2>1. x \in 1..Len(s)
    BY <1>4, <1>6
  <2>2. CASE x = 1
    <3>1. Where(Tail(s), T) = {}
      BY <1>1, <1>2, <1>6, <2>2
    <3> QED
      BY <1>3, <1>6, <2>2, <3>1
  <2>3. CASE x # 1
    <3>1. x - 1 \in 1..(Len(s) - 1) /\ (x - 1) + 1 = x
      BY <1>1, <2>1, <2>3
    <3>2. \A i \in 1..(Len(s) - 1) : i + 1 = x => i = x - 1
      BY <1>1, <2>1
    <3>3. Where(Tail(s), T) = {x - 1}
      BY <1>2, <1>6, <3>1, <3>2
    <3> QED
      BY <1>3, <1>6, <2>3, <3>3
  <2> QED
    BY <2>2, <2>3
<1> QED
  BY <1>3, <1>5, <1>6 DEF Lone

LEMMA WhereAppend ==
  ASSUME NEW S, NEW s \in Seq(S), NEW x \in S, NEW T
  PROVE  /\ x \notin T => Where(Append(s, x), T) = Where(s, T)
         /\ x \in T /\ Where(s, T) = {} => Lone(Where(Append(s, x), T))
<1>1. /\ Len(s) \in Nat /\ DOMAIN s = 1..Len(s)
      /\ DOMAIN Append(s, x) = 1..(Len(s) + 1)
      /\ \A i \in 1..Len(s) : Append(s, x)[i] = s[i]
      /\ Append(s, x)[Len(s) + 1] = x
  BY AppendProperties, LenProperties
<1>2. x \notin T => Where(Append(s, x), T) = Where(s, T)
  BY <1>1 DEF Where
<1>3. x \in T /\ Where(s, T) = {} => Where(Append(s, x), T) = {Len(s) + 1}
  BY <1>1 DEF Where
<1> QED
  BY <1>2, <1>3 DEF Lone

LEMMA WhereFront ==
  ASSUME NEW S, NEW s \in Seq(S), s # <<>>, NEW T
  PROVE  /\ Last(s) \notin T => Where(Front(s), T) = Where(s, T)
         /\ Last(s) \in T => Where(s, T) # {}
         /\ Last(s) \in T /\ Lone(Where(s, T)) => Where(Front(s), T) = {}
<1>1. /\ Len(s) \in Nat /\ Len(s) # 0 /\ DOMAIN s = 1..Len(s)
      /\ DOMAIN Front(s) = 1..(Len(s) - 1)
      /\ \A i \in 1..(Len(s) - 1) : Front(s)[i] = s[i]
      /\ Last(s) = s[Len(s)]
  BY LastFront, LenProperties, EmptySeq
<1>2. Where(Front(s), T) = Where(s, T) \ {Len(s)}
  BY <1>1 DEF Where
<1>3. Last(s) \in T <=> Len(s) \in Where(s, T)
  BY <1>1 DEF Where
<1> QED
  BY <1>2, <1>3 DEF Lone

LEMMA WhereConcat ==
  ASSUME NEW S, NEW s \in Seq(S), NEW t \in Seq(S), NEW T, \A i \in 1..Len(t) : t[i] \notin T
  PROVE  Where(s \o t, T) = Where(s, T)
<1>1. /\ Len(s) \in Nat /\ Len(t) \in Nat /\ DOMAIN s = 1..Len(s)
      /\ DOMAIN (s \o t) = 1..(Len(s) + Len(t))
      /\ \A i \in 1..(Len(s) + Len(t)) : (s \o t)[i] = IF i <= Len(s) THEN s[i] ELSE t[i - Len(s)]
  BY ConcatProperties, LenProperties
<1>2. ASSUME NEW i \in 1..(Len(s) + Len(t)) PROVE (s \o t)[i] \in T <=> i <= Len(s) /\ s[i] \in T
  BY <1>1
<1> QED
  BY <1>1, <1>2 DEF Where

LEMMA WhereEmpty == \A T : Where(<<>>, T) = {}
BY DEF Where

\* Queueing another event leaves the requests in the queue alone; a request is
\* appended or refused.
LEMMA QueuedRequests ==
  ASSUME NEW q \in Seq(Events), NEW e \in Events, NEW r \in Requests
  PROVE  /\ e # Event("APPROVAL", r) => Where(Queued(q, e), {Event("APPROVAL", r)}) = Where(q, {Event("APPROVAL", r)})
         /\ e = Event("APPROVAL", r) =>
              IF Refused(q, e) THEN Queued(q, e) = q ELSE Queued(q, e) = Append(q, e)
<1>1. CASE Queued(q, e) = Append(q, e) /\ ~Refused(q, e)
  BY <1>1, WhereAppend
<1>2. CASE Queued(q, e) = q /\ Refused(q, e)
  BY <1>2
<1>3. ASSUME NEW i \in Slots(q, e), Queued(q, e) = [q EXCEPT ![i] = Merged(q[i], e)]
      PROVE  /\ e # Event("APPROVAL", r)
             /\ Where(Queued(q, e), {Event("APPROVAL", r)}) = Where(q, {Event("APPROVAL", r)})
  <2>1. i \in 1..Len(q) /\ q[i].kind = e.kind /\ q[i] \in Events
        /\ e.kind \in {"STATE", "USER", "ACK", "DELTA"}
    BY SlotFacts, ElementOfSeq
  <2>2. Merged(q[i], e).kind = e.kind
    BY <2>1, MergedType
  <2>3. Event("APPROVAL", r).kind = "APPROVAL"
    BY EventFacts
  <2>4. q[i] # Event("APPROVAL", r) /\ Merged(q[i], e) # Event("APPROVAL", r) /\ e # Event("APPROVAL", r)
    BY <2>1, <2>2, <2>3
  <2>5. DOMAIN Queued(q, e) = DOMAIN q
    BY <1>3
  <2>6. \A j \in DOMAIN q : Queued(q, e)[j] = IF j = i THEN Merged(q[i], e) ELSE q[j]
    BY <1>3
  <2> QED
    BY <2>4, <2>5, <2>6 DEF Where
<1> QED
  BY <1>1, <1>2, <1>3, QueuedCases

LEMMA InitPlaced == OverlayInit => PlacedInv /\ SavedInv
<1> SUFFICES ASSUME OverlayInit PROVE PlacedInv /\ SavedInv
  OBVIOUS
<1>1. posting = <<>> /\ queue = <<>> /\ dialogs = <<>> /\ commands = <<>> /\ app.asked = 0
      /\ hist.answers = [r \in Requests |-> <<>>]
  BY DEF OverlayInit
<1>2. PlacedInv
  BY <1>1, WhereEmpty DEF PlacedInv, None, InPosting, InQueue, InDialogs, InCommands, InAnswers, Requests
<1>3. SavedInv
  BY <1>1 DEF SavedInv
<1> QED
  BY <1>2, <1>3

LEMMA PostAnswers ==
  ASSUME OverlayInv, Post, NEW e, e = Head(posting)
  PROVE  /\ ~(e.kind = "APPROVAL" /\ Refused(queue, e)) => hist.answers' = hist.answers
         /\ e.kind = "APPROVAL" /\ Refused(queue, e) =>
              hist.answers' = [hist.answers EXCEPT ![e.what] = Append(hist.answers[e.what], "deny")]
         /\ hist.undone' = hist.undone
<1> DEFINE n == Noted(queue, e)
<1>1. e \in Events /\ queue \in Seq(Events) /\ HistOK
  BY HeadTailProperties DEF OverlayInv, PostingOK, QueueOK, Post
<1>2. hist' = IF e.kind = "APPROVAL" /\ Refused(queue, e) THEN Deny(e.what, n) ELSE n
  BY DEF Post
<1>3. /\ n \in Histories
      /\ n.answers = hist.answers /\ n.undone = hist.undone
  BY <1>1, NotedType
<1> HIDE DEF n
<1>4. e.kind = "APPROVAL" => e.what \in Requests
  BY <1>1, KindOf
<1>5. CASE e.kind = "APPROVAL" /\ Refused(queue, e)
  <2>1. /\ Deny(e.what, n).answers = [n.answers EXCEPT ![e.what] = Append(n.answers[e.what], "deny")]
        /\ Deny(e.what, n).undone = n.undone
    BY <1>3, <1>4, <1>5, DenyType
  <2> QED
    BY <1>2, <1>3, <1>5, <2>1
<1>6. CASE ~(e.kind = "APPROVAL" /\ Refused(queue, e))
  BY <1>2, <1>3, <1>6
<1> QED
  BY <1>5, <1>6

LEMMA PostPlaced == OverlayInv /\ PlacedInv /\ Post => PlacedInv'
<1> SUFFICES ASSUME OverlayInv, PlacedInv, Post, NEW r \in Requests
             PROVE  (/\ r <= app.asked => Sole(InPosting(r), InQueue(r), InDialogs(r), InCommands(r), InAnswers(r))
                     /\ ~(r <= app.asked) => None(InPosting(r), InQueue(r), InDialogs(r), InCommands(r), InAnswers(r)))'
  BY DEF PlacedInv
<1> DEFINE e == Head(posting)
<1>1. /\ e \in Events /\ posting \in Seq(Events) /\ posting # <<>> /\ queue \in Seq(Events)
      /\ posting' = Tail(posting) /\ queue' = Queued(queue, e)
      /\ hist.answers \in [Requests -> Seq(Decisions)]
  BY HeadTailProperties DEF OverlayInv, PostingOK, QueueOK, HistOK, Histories, Post
<1>2. UNCHANGED <<app, InDialogs(r), InCommands(r)>>
  BY DEF Post, InDialogs, InCommands
<1>3. /\ ~(e.kind = "APPROVAL" /\ Refused(queue, e)) => hist.answers' = hist.answers
      /\ e.kind = "APPROVAL" /\ Refused(queue, e) =>
           hist.answers' = [hist.answers EXCEPT ![e.what] = Append(hist.answers[e.what], "deny")]
  BY PostAnswers
<1>5. e.kind = "APPROVAL" => e.what \in Requests /\ e = Event("APPROVAL", e.what)
  BY <1>1, KindOf DEF Event
<1>6. CASE e # Event("APPROVAL", r)
  <2>1. InQueue(r)' = InQueue(r)
    BY <1>1, <1>6, QueuedRequests DEF InQueue
  <2>2. hist.answers'[r] = hist.answers[r]
    <3>1. CASE e.kind = "APPROVAL" /\ Refused(queue, e)
      <4>1. e.what # r
        BY <1>5, <1>6, <3>1
      <4> QED
        BY <1>1, <1>3, <1>5, <3>1, <4>1
    <3>2. CASE ~(e.kind = "APPROVAL" /\ Refused(queue, e))
      BY <1>3, <3>2
    <3> QED
      BY <3>1, <3>2
  <2>3. InAnswers(r)' = InAnswers(r)
    BY <2>2 DEF InAnswers
  <2>4. /\ InPosting(r) = {} => InPosting(r)' = {}
        /\ Lone(InPosting(r)) => Lone(InPosting(r)')
    BY <1>1, <1>6, WhereTail DEF InPosting
  <2> QED
    BY <1>2, <2>1, <2>3, <2>4 DEF PlacedInv, Sole, None
<1>7. CASE e = Event("APPROVAL", r)
  <2>1. InPosting(r) # {} /\ (Lone(InPosting(r)) => InPosting(r)' = {})
    BY <1>1, <1>7, WhereTail DEF InPosting
  <2>2. /\ r <= app.asked /\ Lone(InPosting(r))
        /\ InQueue(r) = {} /\ InDialogs(r) = {} /\ InCommands(r) = {} /\ InAnswers(r) = {}
    BY <2>1 DEF PlacedInv, Sole, None
  <2>3. e.kind = "APPROVAL" /\ e.what = r
    BY <1>7, EventFacts
  <2>4. CASE Refused(queue, e)
    <3>1. InQueue(r)' = {}
      BY <1>1, <1>7, <2>2, <2>4, QueuedRequests DEF InQueue
    <3>2. hist.answers'[r] = Append(hist.answers[r], "deny")
      BY <1>1, <1>3, <2>3, <2>4
    <3>3. hist.answers[r] \in Seq(Decisions) /\ Len(hist.answers[r]) = 0
      <4>1. hist.answers[r] \in Seq(Decisions)
        BY <1>1
      <4>2. Len(hist.answers[r]) \in Nat /\ 1..Len(hist.answers[r]) = {}
        BY <2>2, <4>1, LenProperties DEF InAnswers
      <4> QED
        <5>1. \A n \in Nat : n # 0 => 1 \in 1..n
          OBVIOUS
        <5> QED
          BY <4>1, <4>2, <5>1
    <3>4. InAnswers(r)' = {1}
      BY <3>2, <3>3, AppendProperties DEF InAnswers, Decisions
    <3> QED
      BY <1>2, <2>1, <2>2, <3>1, <3>4 DEF Sole, Lone
  <2>5. CASE ~Refused(queue, e)
    <3>1. Lone(InQueue(r)')
      <4>1. queue' = Append(queue, e) /\ e \in {Event("APPROVAL", r)}
        BY <1>1, <1>7, <2>5, QueuedRequests
      <4>2. Where(queue, {Event("APPROVAL", r)}) = {}
        BY <2>2 DEF InQueue
      <4>3. Lone(Where(Append(queue, e), {Event("APPROVAL", r)}))
        BY <1>1, <4>1, <4>2, WhereAppend
      <4> QED
        BY <4>1, <4>3 DEF InQueue
    <3>2. InAnswers(r)' = InAnswers(r)
      BY <1>3, <2>5 DEF InAnswers
    <3> QED
      BY <1>2, <2>1, <2>2, <3>1, <3>2 DEF Sole
  <2> QED
    BY <2>4, <2>5
<1> QED
  BY <1>6, <1>7

LEMMA DrainPlaced == OverlayInv /\ PlacedInv /\ Drain => PlacedInv'
<1> SUFFICES ASSUME OverlayInv, PlacedInv, Drain, NEW r \in Requests
             PROVE  (/\ r <= app.asked => Sole(InPosting(r), InQueue(r), InDialogs(r), InCommands(r), InAnswers(r))
                     /\ ~(r <= app.asked) => None(InPosting(r), InQueue(r), InDialogs(r), InCommands(r), InAnswers(r)))'
  BY DEF PlacedInv
<1> DEFINE e == Head(queue)
<1>1. /\ e \in Events /\ queue \in Seq(Events) /\ queue # <<>> /\ queue' = Tail(queue)
      /\ dialogs \in Seq(Requests)
      /\ dialogs' = IF e.kind = "APPROVAL" THEN Append(dialogs, e.what) ELSE dialogs
  BY HeadTailProperties DEF OverlayInv, QueueOK, DialogsOK, Drain
<1>2. UNCHANGED <<app, InPosting(r), InCommands(r)>> /\ InAnswers(r)' = InAnswers(r)
  BY DEF Drain, InPosting, InCommands, InAnswers
<1>3. e.kind = "APPROVAL" => e.what \in Requests /\ e = Event("APPROVAL", e.what)
  BY <1>1, KindOf DEF Event
<1>4. CASE e # Event("APPROVAL", r)
  <2>1. /\ InQueue(r) = {} => InQueue(r)' = {}
        /\ Lone(InQueue(r)) => Lone(InQueue(r)')
    BY <1>1, <1>4, WhereTail DEF InQueue
  <2>2. InDialogs(r)' = InDialogs(r)
    BY <1>1, <1>3, <1>4, WhereAppend DEF InDialogs
  <2> QED
    BY <1>2, <2>1, <2>2 DEF PlacedInv, Sole, None
<1>5. CASE e = Event("APPROVAL", r)
  <2>1. InQueue(r) # {} /\ (Lone(InQueue(r)) => InQueue(r)' = {})
    BY <1>1, <1>5, WhereTail DEF InQueue
  <2>2. /\ r <= app.asked /\ Lone(InQueue(r))
        /\ InPosting(r) = {} /\ InDialogs(r) = {} /\ InCommands(r) = {} /\ InAnswers(r) = {}
    BY <2>1 DEF PlacedInv, Sole, None
  <2>3. e.kind = "APPROVAL" /\ e.what = r
    BY <1>5, EventFacts
  <2>4. Lone(InDialogs(r)')
    BY <1>1, <2>2, <2>3, WhereAppend DEF InDialogs
  <2> QED
    BY <1>2, <2>1, <2>2, <2>4 DEF Sole
<1> QED
  BY <1>4, <1>5

LEMMA PttCommand ==
  ASSUME NEW paused \in BOOLEAN
  PROVE  LET command == (IF paused THEN <<<<"paused", FALSE>>>> ELSE <<>>) \o <<<<"ptt">>>>
         IN  /\ command \in Seq(Commands) /\ \A i \in 1..Len(command) : command[i][1] # "answer"
             /\ Len(command) \in 1..Len(command) /\ command[Len(command)][1] = "ptt"
             /\ \A i \in 1..Len(command) : command[i][1] = "paused" => command[i][2] = FALSE
             /\ paused => command[1][1] = "paused"
<1>1. <<"paused", FALSE>> \in Commands /\ <<"ptt">> \in Commands
  BY DEF Commands
<1>2. <<<<"ptt">>>> \in Seq(Commands) /\ <<<<"paused", FALSE>>>> \in Seq(Commands)
  BY <1>1
<1> DEFINE command == (IF paused THEN <<<<"paused", FALSE>>>> ELSE <<>>) \o <<<<"ptt">>>>
<1>3. CASE paused
  <2>1. command = <<<<"paused", FALSE>>>> \o <<<<"ptt">>>>
    BY <1>3
  <2>2. /\ command \in Seq(Commands) /\ Len(command) = 2
        /\ command[1] = <<"paused", FALSE>> /\ command[2] = <<"ptt">>
    <3>1. Len(<<<<"paused", FALSE>>>>) = 1 /\ Len(<<<<"ptt">>>>) = 1
      OBVIOUS
    <3> DEFINE a == <<<<"paused", FALSE>>>>
               b == <<<<"ptt">>>>
    <3>2. a \in Seq(Commands) /\ b \in Seq(Commands) /\ Len(a) = 1 /\ Len(b) = 1
          /\ a[1] = <<"paused", FALSE>> /\ b[1] = <<"ptt">>
      BY <1>2
    <3>5. command = a \o b
      BY <2>1
    <3> HIDE DEF a, b
    <3>3. /\ a \o b \in Seq(Commands) /\ Len(a \o b) = Len(a) + Len(b)
          /\ \A i \in 1..(Len(a) + Len(b)) : (a \o b)[i] = IF i <= Len(a) THEN a[i] ELSE b[i - Len(a)]
      BY <3>2, ConcatProperties
    <3>4. Len(a \o b) = 2 /\ (a \o b)[1] = a[1] /\ (a \o b)[2] = b[1]
      <4>1. 1 \in 1..(Len(a) + Len(b)) /\ 2 \in 1..(Len(a) + Len(b)) /\ 1 <= Len(a) /\ ~(2 <= Len(a))
            /\ 2 - Len(a) = 1 /\ Len(a) + Len(b) = 2
        BY <3>2
      <4>2. (a \o b)[1] = a[1]
        BY <3>3, <4>1
      <4>3. (a \o b)[2] = b[2 - Len(a)]
        BY <3>3, <4>1
      <4> QED
        BY <3>3, <4>1, <4>2, <4>3
    <3> HIDE DEF command
    <3> QED
      BY <3>2, <3>3, <3>4, <3>5
  <2>3. \A i \in 1..2 : i = 1 \/ i = 2
    OBVIOUS
  <2>4. /\ command \in Seq(Commands) /\ \A i \in 1..Len(command) : command[i][1] # "answer"
        /\ Len(command) \in 1..Len(command) /\ command[Len(command)][1] = "ptt"
        /\ \A i \in 1..Len(command) : command[i][1] = "paused" => command[i][2] = FALSE
        /\ command[1][1] = "paused"
    <3> HIDE DEF command
    <3>1. command[1][1] = "paused" /\ command[1][2] = FALSE /\ command[2][1] = "ptt"
      BY <2>2
    <3>2. 1..Len(command) = 1..2
      BY <2>2
    <3>3. \A i \in 1..Len(command) : command[i][1] # "answer" /\ (command[i][1] = "paused" => command[i][2] = FALSE)
      BY <2>3, <3>1, <3>2
    <3>4. Len(command) \in 1..Len(command) /\ command[Len(command)][1] = "ptt"
      BY <2>2, <3>1
    <3> QED
      BY <2>2, <3>1, <3>3, <3>4
  <2> QED
    BY <2>4
<1>4. CASE ~paused
  <2>1. command = <<>> \o <<<<"ptt">>>>
    BY <1>4
  <2>2. command = <<<<"ptt">>>>
    BY <1>2, <2>1, ConcatEmptySeq
  <2> QED
    BY <1>1, <2>2
<1> QED
  BY <1>3, <1>4

LEMMA UserPlaced == OverlayInv /\ PlacedInv /\ User => PlacedInv'
<1> SUFFICES ASSUME OverlayInv, PlacedInv, User, NEW r \in Requests
             PROVE  (/\ r <= app.asked => Sole(InPosting(r), InQueue(r), InDialogs(r), InCommands(r), InAnswers(r))
                     /\ ~(r <= app.asked) => None(InPosting(r), InQueue(r), InDialogs(r), InCommands(r), InAnswers(r)))'
  BY DEF PlacedInv
<1>1. commands \in Seq(Commands) /\ dialogs \in Seq(Requests) /\ ui.paused \in BOOLEAN
  BY DEF OverlayInv, CommandsOK, DialogsOK, UiOK, Views
<1>2. ASSUME NEW command \in Seq(Commands), Order(command), \A i \in 1..Len(command) : command[i][1] # "answer"
      PROVE  InCommands(r)' = InCommands(r) /\ app'.asked = app.asked
  <2>1. \A i \in 1..Len(command) : command[i] \notin Returning(r)
    BY <1>2 DEF Returning
  <2>2. commands' = commands \o command /\ app' = [app EXCEPT !.incidents = app.incidents + 1]
    BY <1>2 DEF Order
  <2>3. app'.asked = app.asked
    BY <2>2 DEF OverlayInv, AppOK, Worked
  <2> QED
    BY <1>1, <1>2, <2>1, <2>2, <2>3, WhereConcat DEF InCommands
<1>3. CASE UNCHANGED <<posting, queue, dialogs, hist>> /\ InCommands(r)' = InCommands(r) /\ app'.asked = app.asked
  BY <1>3 DEF PlacedInv, InPosting, InQueue, InDialogs, InAnswers
<1>4. CASE Pause
  <2>1. <<"paused", ~ui.paused>> \in Commands
    BY <1>1 DEF Commands
  <2>2. <<<<"paused", ~ui.paused>>>> \in Seq(Commands)
    BY <2>1
  <2>3. \A i \in 1..1 : (<<<<"paused", ~ui.paused>>>>)[i][1] # "answer"
    OBVIOUS
  <2> QED
    BY <1>2, <1>3, <1>4, <2>2, <2>3 DEF Pause
<1>5. CASE PushToTalk
  <2> DEFINE command == (IF ui.paused THEN <<<<"paused", FALSE>>>> ELSE <<>>) \o <<<<"ptt">>>>
  <2>3. command \in Seq(Commands) /\ \A i \in 1..Len(command) : command[i][1] # "answer"
    BY <1>1, PttCommand
  <2>4. Order(command) /\ UNCHANGED <<posting, queue, dialogs, hist>>
    BY <1>5 DEF PushToTalk
  <2> HIDE DEF command
  <2> QED
    BY <1>2, <1>3, <2>3, <2>4
<1>6. CASE Stop
  <2>1. <<"cancel">> \in Commands
    BY DEF Commands
  <2>2. <<<<"cancel">>>> \in Seq(Commands) /\ \A i \in 1..1 : (<<<<"cancel">>>>)[i][1] # "answer"
    BY <2>1
  <2> QED
    BY <1>2, <1>3, <1>6, <2>2 DEF Stop
<1>7. CASE OpenSettings
  <2>1. <<>> \in Seq(Commands) /\ Len(<<>>) = 0
    BY EmptySeq
  <2>2. \A i \in 1..Len(<<>>) : (<<>>)[i][1] # "answer"
    BY <2>1
  <2>3. Order(<<>>) /\ UNCHANGED <<posting, queue, dialogs, hist>>
    BY <1>7 DEF OpenSettings
  <2> QED
    BY <1>2, <1>3, <2>1, <2>2, <2>3
<1>8. ASSUME NEW save \in BOOLEAN, CloseSettings(save)
      PROVE  (/\ r <= app.asked => Sole(InPosting(r), InQueue(r), InDialogs(r), InCommands(r), InAnswers(r))
              /\ ~(r <= app.asked) => None(InPosting(r), InQueue(r), InDialogs(r), InCommands(r), InAnswers(r)))'
  <2>1. UNCHANGED <<posting, queue, dialogs, app>> /\ hist'.answers = hist.answers
    BY <1>8 DEF CloseSettings, OverlayInv, HistOK, Histories
  <2>2. InCommands(r)' = InCommands(r)
    <3>1. <<"settings">> \in Commands /\ <<"settings">> \notin Returning(r)
      BY DEF Commands, Returning
    <3> QED
      BY <1>1, <1>8, <3>1, WhereAppend DEF CloseSettings, InCommands
  <2> QED
    BY <2>1, <2>2 DEF PlacedInv, InPosting, InQueue, InDialogs, InAnswers
<1>9. ASSUME NEW b \in Decisions, NEW saved \in BOOLEAN, Answer(b, saved)
      PROVE  (/\ r <= app.asked => Sole(InPosting(r), InQueue(r), InDialogs(r), InCommands(r), InAnswers(r))
              /\ ~(r <= app.asked) => None(InPosting(r), InQueue(r), InDialogs(r), InCommands(r), InAnswers(r)))'
  <2> DEFINE c == <<"answer", Last(dialogs), Resolved(b, saved)>>
  <2>1. dialogs # <<>> /\ dialogs' = Front(dialogs) /\ commands' = Append(commands, c)
        /\ UNCHANGED <<posting, queue, app, hist>>
    BY <1>9 DEF Answer
  <2>2. Last(dialogs) \in Requests /\ Resolved(b, saved) \in Decisions
    BY <1>1, <2>1, LastFront DEF Resolved, Decisions
  <2>3. c \in Commands
    BY <2>2 DEF Commands
  <2>4. c \in Returning(r) <=> Last(dialogs) = r
    BY <2>2 DEF Returning
  <2>5. UNCHANGED <<InPosting(r), InQueue(r), InAnswers(r)>>
    BY <2>1 DEF InPosting, InQueue, InAnswers
  <2> HIDE DEF c
  <2>6. CASE Last(dialogs) # r
    <3>1. InDialogs(r)' = InDialogs(r)
      BY <1>1, <2>1, <2>6, WhereFront DEF InDialogs
    <3>2. InCommands(r)' = InCommands(r)
      BY <1>1, <2>1, <2>3, <2>4, <2>6, WhereAppend DEF InCommands
    <3> QED
      BY <2>1, <2>5, <3>1, <3>2 DEF PlacedInv
  <2>7. CASE Last(dialogs) = r
    <3>1. InDialogs(r) # {} /\ (Lone(InDialogs(r)) => InDialogs(r)' = {})
      BY <1>1, <2>1, <2>7, WhereFront DEF InDialogs
    <3>2. /\ r <= app.asked /\ Lone(InDialogs(r))
          /\ InPosting(r) = {} /\ InQueue(r) = {} /\ InCommands(r) = {} /\ InAnswers(r) = {}
      BY <3>1 DEF PlacedInv, Sole, None
    <3>3. Lone(InCommands(r)')
      BY <1>1, <2>1, <2>3, <2>4, <2>7, <3>2, WhereAppend DEF InCommands
    <3> QED
      BY <2>1, <2>5, <3>1, <3>2, <3>3 DEF Sole
  <2> QED
    BY <2>6, <2>7
<1> QED
  BY <1>4, <1>5, <1>6, <1>7, <1>8, <1>9 DEF User

LEMMA HandlesPlaced ==
  ASSUME OverlayInv, PlacedInv, NEW x, x.asked = app.asked, NEW events,
         Unasking(events), Handles(x, events),
         hist'.answers = hist.answers, \A r \in Requests : InCommands(r)' = InCommands(r)
  PROVE  PlacedInv'
<1> SUFFICES ASSUME NEW r \in Requests
             PROVE  (/\ r <= app.asked => Sole(InPosting(r), InQueue(r), InDialogs(r), InCommands(r), InAnswers(r))
                     /\ ~(r <= app.asked) => None(InPosting(r), InQueue(r), InDialogs(r), InCommands(r), InAnswers(r)))'
  BY DEF PlacedInv
<1>1. InPosting(r) = {} /\ UNCHANGED <<InQueue(r), InDialogs(r), InCommands(r), InAnswers(r)>>
      /\ app'.asked = app.asked
  BY WhereEmpty DEF Handles, InPosting, InQueue, InDialogs, InAnswers
<1>2. Event("APPROVAL", r).kind = "APPROVAL"
  BY EventFacts
<1>3. InPosting(r)' = {}
  BY <1>2 DEF Handles, InPosting, Where, Unasking
<1> QED
  BY <1>1, <1>3 DEF PlacedInv

LEMMA TellsPlaced ==
  ASSUME OverlayInv, PlacedInv, NEW x, x.asked = app.asked, NEW events,
         Unasking(events), Tells(x, events)
  PROVE  PlacedInv'
<1>1. UNCHANGED hist /\ Handles(x, events) /\ \A r \in Requests : InCommands(r)' = InCommands(r)
  BY DEF Tells, InCommands
<1> QED
  BY <1>1, HandlesPlaced

LEMMA ObeyPlaced == OverlayInv /\ PlacedInv /\ Obey => PlacedInv'
<1> SUFFICES ASSUME OverlayInv, PlacedInv, Obey PROVE PlacedInv'
  OBVIOUS
<1> DEFINE c == Head(commands)
<1>1. c \in Commands /\ commands \in Seq(Commands) /\ commands # <<>> /\ commands' = Tail(commands)
  BY ObeyCases DEF OverlayInv, CommandsOK
<1>3. ASSUME c[1] # "answer", NEW r \in Requests PROVE c \notin Returning(r)
  BY <1>3 DEF Returning
<1>4. CASE c[1] # "answer"
  <2>1. /\ \E x, events : Handles(x, events) /\ Plain(x, events)
        /\ hist'.answers = hist.answers
    BY <1>4, ObeyCases DEF OverlayInv, HistOK, Histories
  <2> SUFFICES ASSUME NEW r \in Requests
               PROVE  (/\ r <= app.asked => Sole(InPosting(r), InQueue(r), InDialogs(r), InCommands(r), InAnswers(r))
                       /\ ~(r <= app.asked) => None(InPosting(r), InQueue(r), InDialogs(r), InCommands(r), InAnswers(r)))'
    BY DEF PlacedInv
  <2>2. PICK x, events : Handles(x, events) /\ Plain(x, events)
    BY <2>1
  <2>3. InPosting(r) = {} /\ UNCHANGED <<InQueue(r), InDialogs(r), InAnswers(r)>>
        /\ app'.asked = app.asked
    BY <2>1, <2>2, WhereEmpty DEF Handles, Plain, InPosting, InQueue, InDialogs, InAnswers
  <2>4. InPosting(r)' = {}
    <3>1. Event("APPROVAL", r).kind = "APPROVAL"
      BY EventFacts
    <3> QED
      BY <2>2, <3>1 DEF Handles, Plain, InPosting, Where, Unasking
  <2>5. /\ InCommands(r) = {} => InCommands(r)' = {}
        /\ Lone(InCommands(r)) => Lone(InCommands(r)')
    BY <1>1, <1>3, <1>4, WhereTail DEF InCommands
  <2> QED
    BY <2>3, <2>4, <2>5 DEF PlacedInv, Sole, None
<1>5. CASE c[1] = "answer"
  <2> SUFFICES ASSUME NEW r \in Requests
               PROVE  (/\ r <= app.asked => Sole(InPosting(r), InQueue(r), InDialogs(r), InCommands(r), InAnswers(r))
                       /\ ~(r <= app.asked) => None(InPosting(r), InQueue(r), InDialogs(r), InCommands(r), InAnswers(r)))'
    BY DEF PlacedInv
  <2>1. Handles(app, <<>>)
        /\ hist' = [hist EXCEPT !.answers = [hist.answers EXCEPT ![c[2]] = Append(hist.answers[c[2]], c[3])]]
    BY <1>5, ObeyCases DEF Decide
  <2>2. c[2] \in Requests /\ c[3] \in Decisions /\ c = <<"answer", c[2], c[3]>>
    BY <1>1, <1>5 DEF Commands
  <2>3. c \in Returning(r) <=> c[2] = r
    BY <2>2 DEF Returning
  <2>4. InPosting(r)' = {} /\ InPosting(r) = {} /\ UNCHANGED <<InQueue(r), InDialogs(r), app>>
    BY <2>1, WhereEmpty DEF Handles, InPosting, InQueue, InDialogs
  <2>5. /\ hist.answers \in [Requests -> Seq(Decisions)]
        /\ hist'.answers = [hist.answers EXCEPT ![c[2]] = Append(hist.answers[c[2]], c[3])]
    BY <2>1 DEF OverlayInv, HistOK, Histories
  <2>6. CASE c[2] # r
    <3>1. InAnswers(r)' = InAnswers(r)
      BY <2>2, <2>5, <2>6 DEF InAnswers
    <3>2. /\ InCommands(r) = {} => InCommands(r)' = {}
          /\ Lone(InCommands(r)) => Lone(InCommands(r)')
      BY <1>1, <2>3, <2>6, WhereTail DEF InCommands
    <3> QED
      BY <2>4, <3>1, <3>2 DEF PlacedInv, Sole, None
  <2>7. CASE c[2] = r
    <3>1. InCommands(r) # {} /\ (Lone(InCommands(r)) => InCommands(r)' = {})
      BY <1>1, <2>3, <2>7, WhereTail DEF InCommands
    <3>2. /\ r <= app.asked /\ Lone(InCommands(r))
          /\ InPosting(r) = {} /\ InQueue(r) = {} /\ InDialogs(r) = {} /\ InAnswers(r) = {}
      BY <3>1 DEF PlacedInv, Sole, None
    <3>3. hist'.answers[r] = Append(hist.answers[r], c[3]) /\ hist.answers[r] \in Seq(Decisions)
      BY <2>2, <2>5, <2>7
    <3>4. Len(hist.answers[r]) = 0
      <4>1. \A n \in Nat : n # 0 => 1 \in 1..n
        OBVIOUS
      <4> QED
        BY <3>2, <3>3, <4>1, LenProperties DEF InAnswers
    <3>5. InAnswers(r)' = {1}
      BY <2>2, <3>3, <3>4, AppendProperties DEF InAnswers
    <3> QED
      BY <2>4, <3>1, <3>2, <3>5 DEF Sole, Lone
  <2> QED
    BY <2>6, <2>7
<1> QED
  BY <1>4, <1>5

LEMMA WorkerPlaced == OverlayInv /\ PlacedInv /\ Worker => PlacedInv'
<1> SUFFICES ASSUME OverlayInv, PlacedInv, Worker PROVE PlacedInv'
  OBVIOUS
<1>1. Worked(app)
  BY DEF OverlayInv, AppOK
<1>2. CASE Post
  BY <1>2, PostPlaced
<1>3. CASE Obey
  BY <1>3, ObeyPlaced
<1>4. CASE Approval
  <2> SUFFICES ASSUME NEW r \in Requests
               PROVE  (/\ r <= app.asked => Sole(InPosting(r), InQueue(r), InDialogs(r), InCommands(r), InAnswers(r))
                       /\ ~(r <= app.asked) => None(InPosting(r), InQueue(r), InDialogs(r), InCommands(r), InAnswers(r)))'
    BY DEF PlacedInv
  <2>1. /\ posting = <<>> /\ posting' = <<Event("APPROVAL", app.asked + 1)>>
        /\ UNCHANGED <<queue, dialogs, commands, hist>>
        /\ app' = [Troubled EXCEPT !.asked = app.asked + 1]
    BY <1>4, ApprovalCase DEF Tells, Handles
  <2>2. app'.asked = app.asked + 1 /\ app.asked \in Nat /\ r \in Nat
    BY <1>1, <1>4, <2>1, ApprovalCase DEF Worked, Requests
  <2>3. InPosting(r) = {} /\ UNCHANGED <<InQueue(r), InDialogs(r), InCommands(r), InAnswers(r)>>
    BY <2>1, WhereEmpty DEF InPosting, InQueue, InDialogs, InCommands, InAnswers
  <2>4. Event("APPROVAL", r) = Event("APPROVAL", app.asked + 1) <=> r = app.asked + 1
    BY EventFacts
  <2>5. CASE r = app.asked + 1
    <3>1. InPosting(r)' = {1}
      BY <2>1, <2>5 DEF InPosting, Where
    <3>2. ~(r <= app.asked) /\ r <= app'.asked
      BY <2>2, <2>5
    <3> QED
      BY <2>3, <3>1, <3>2 DEF PlacedInv, None, Sole, Lone
  <2>6. CASE r # app.asked + 1
    <3>1. InPosting(r)' = {}
      BY <2>1, <2>4, <2>6 DEF InPosting, Where
    <3>2. r <= app'.asked <=> r <= app.asked
      BY <2>2, <2>6
    <3> QED
      BY <2>3, <3>1, <3>2 DEF PlacedInv
  <2> QED
    BY <2>5, <2>6
<1>5. CASE ~Post /\ ~Obey /\ ~Approval
  BY <1>5, TellsCases, TellsPlaced DEF Plain
<1> QED
  BY <1>2, <1>3, <1>4, <1>5

\* What is saved stays so, or the settings dialog undid it.
LEMMA SavedStep == OverlayInv /\ SavedInv /\ [OverlayNext]_overlayVars => SavedInv'
<1> SUFFICES ASSUME OverlayInv, SavedInv, [OverlayNext]_overlayVars PROVE SavedInv'
  OBVIOUS
<1> DEFINE NothingLost == always \union hist.undone \subseteq always' \union hist'.undone
<1>1. commands \in Seq(Commands) /\ hist.answers \in [Requests -> Seq(Decisions)]
  BY DEF OverlayInv, CommandsOK, HistOK, Histories
<1>2. CASE UNCHANGED <<commands, always>> /\ hist'.answers = hist.answers /\ hist'.undone = hist.undone
  BY <1>2 DEF SavedInv
<1>3. CASE Post
  <2>1. UNCHANGED <<commands, always>> /\ hist'.undone = hist.undone
    BY <1>3, PostAnswers DEF Post
  <2> SUFFICES ASSUME NEW r \in Requests, NEW i \in DOMAIN hist'.answers[r], hist'.answers[r][i] = "always"
               PROVE  i \in DOMAIN hist.answers[r] /\ hist.answers[r][i] = "always"
    BY <2>1 DEF SavedInv
  <2> DEFINE e == Head(posting)
  <2>2. CASE ~(e.kind = "APPROVAL" /\ Refused(queue, e))
    BY <1>3, <2>2, PostAnswers
  <2>3. CASE e.kind = "APPROVAL" /\ Refused(queue, e)
    <3>1. hist'.answers = [hist.answers EXCEPT ![e.what] = Append(hist.answers[e.what], "deny")]
      BY <1>3, <2>3, PostAnswers
    <3>2. CASE r # e.what
      BY <1>1, <3>1, <3>2
    <3>3. CASE r = e.what
      <4>1. hist'.answers[r] = Append(hist.answers[r], "deny") /\ hist.answers[r] \in Seq(Decisions)
        BY <1>1, <3>1, <3>3
      <4> QED
        BY <4>1, AppendProperties, LenProperties DEF Decisions
    <3> QED
      BY <3>2, <3>3
  <2> QED
    BY <2>2, <2>3
<1>4. CASE Obey
  <2> DEFINE c == Head(commands)
  <2>1. /\ commands # <<>> /\ commands' = Tail(commands) /\ c = commands[1] /\ 1 \in DOMAIN commands
        /\ \A i \in DOMAIN commands' : i + 1 \in DOMAIN commands /\ commands'[i] = commands[i + 1]
        /\ c \in Commands
    <3>1. commands # <<>> /\ commands' = Tail(commands)
      BY <1>4 DEF Obey
    <3>2. Len(commands) \in Nat /\ Len(commands) # 0 /\ DOMAIN commands = 1..Len(commands)
      BY <1>1, <3>1, EmptySeq, LenProperties
    <3>3. /\ Tail(commands) \in Seq(Commands) /\ Len(Tail(commands)) = Len(commands) - 1
          /\ \A i \in 1..(Len(commands) - 1) : Tail(commands)[i] = commands[i + 1]
          /\ c \in Commands /\ c = commands[1]
      BY <1>1, <3>1, HeadTailProperties, ElementOfSeq
    <3>4. DOMAIN Tail(commands) = 1..(Len(commands) - 1)
      BY <3>3, LenProperties
    <3> QED
      BY <3>1, <3>2, <3>3, <3>4
  <2>2. always' = always
    BY <1>4, ObeyCases DEF Decide, Handles
  <2>3. CASE c[1] # "answer"
    <3>1. hist'.answers = hist.answers /\ hist'.undone = hist.undone
      BY <1>4, <2>3, ObeyCases DEF OverlayInv, HistOK, Histories
    <3> QED
      BY <2>1, <2>2, <3>1 DEF SavedInv
  <2>4. CASE c[1] = "answer"
    <3>1. hist' = [hist EXCEPT !.answers = [hist.answers EXCEPT ![c[2]] = Append(hist.answers[c[2]], c[3])]]
      BY <1>4, <2>4, ObeyCases DEF Decide
    <3>2. hist'.answers = [hist.answers EXCEPT ![c[2]] = Append(hist.answers[c[2]], c[3])]
          /\ hist'.undone = hist.undone
      BY <3>1 DEF OverlayInv, HistOK, Histories
    <3>3. c[2] \in Requests /\ c[3] \in Decisions /\ c = <<"answer", c[2], c[3]>>
      BY <2>1, <2>4 DEF Commands
    <3>4. ASSUME NEW r \in Requests, NEW i \in DOMAIN hist'.answers[r], hist'.answers[r][i] = "always"
          PROVE  r \in always \union hist.undone
      <4>1. CASE i \in DOMAIN hist.answers[r] /\ hist.answers[r][i] = "always"
        BY <4>1 DEF SavedInv
      <4>2. CASE ~(i \in DOMAIN hist.answers[r] /\ hist.answers[r][i] = "always")
        <5>1. c[2] = r
          BY <1>1, <3>2, <3>4, <4>2
        <5>2. hist'.answers[r] = Append(hist.answers[r], c[3]) /\ hist.answers[r] \in Seq(Decisions)
          BY <1>1, <3>2, <5>1
        <5>3. /\ Len(hist.answers[r]) \in Nat /\ DOMAIN hist.answers[r] = 1..Len(hist.answers[r])
              /\ DOMAIN hist'.answers[r] = 1..(Len(hist.answers[r]) + 1)
              /\ \A j \in 1..Len(hist.answers[r]) : hist'.answers[r][j] = hist.answers[r][j]
              /\ hist'.answers[r][Len(hist.answers[r]) + 1] = c[3]
          BY <3>3, <5>2, AppendProperties, LenProperties
        <5>4. i = Len(hist.answers[r]) + 1
          BY <3>4, <4>2, <5>3
        <5>5. c = <<"answer", r, "always">>
          BY <3>3, <3>4, <5>1, <5>3, <5>4
        <5> QED
          BY <2>1, <5>5 DEF SavedInv
      <4> QED
        BY <4>1, <4>2
    <3> QED
      BY <2>1, <2>2, <3>2, <3>4 DEF SavedInv
  <2> QED
    BY <2>3, <2>4
<1>5. CASE Worker
  <2>1. CASE ~Post /\ ~Obey
    <3>1. UNCHANGED <<commands, always, hist>>
      BY <1>5, <2>1, TellsCases, ApprovalCase DEF Tells, Handles
    <3> QED
      BY <1>2, <3>1
  <2> QED
    BY <1>3, <1>4, <2>1
<1>6. CASE Drain
  BY <1>2, <1>6 DEF Drain, OverlayInv, HistOK, Histories
<1>7. CASE User
  <2>1. ASSUME NEW command \in Seq(Commands), Order(command), \A i \in 1..Len(command) : command[i][1] # "answer",
               UNCHANGED <<always, hist>>
        PROVE  SavedInv'
    <3>1. commands' = commands \o command
      BY <2>1 DEF Order
    <3>2. ASSUME NEW r \in Requests, NEW i \in DOMAIN commands', commands'[i] = <<"answer", r, "always">>
          PROVE  i \in DOMAIN commands /\ commands[i] = <<"answer", r, "always">>
      <4>1. /\ Len(commands) \in Nat /\ Len(command) \in Nat /\ DOMAIN commands = 1..Len(commands)
            /\ DOMAIN commands' = 1..(Len(commands) + Len(command))
            /\ commands'[i] = IF i <= Len(commands) THEN commands[i] ELSE command[i - Len(commands)]
        BY <1>1, <2>1, <3>1, ConcatProperties, LenProperties
      <4>2. <<"answer", r, "always">>[1] = "answer"
        OBVIOUS
      <4>3. i <= Len(commands)
        BY <2>1, <3>2, <4>1, <4>2
      <4> QED
        BY <3>2, <4>1, <4>3
    <3> QED
      BY <2>1, <3>2 DEF SavedInv
  <2>2. CASE Pause
    <3>1. <<"paused", ~ui.paused>> \in Commands
      BY DEF Commands, OverlayInv, UiOK, Views
    <3>2. <<<<"paused", ~ui.paused>>>> \in Seq(Commands)
          /\ \A i \in 1..1 : (<<<<"paused", ~ui.paused>>>>)[i][1] # "answer"
      BY <3>1
    <3> QED
      BY <2>1, <2>2, <3>2 DEF Pause
  <2>3. CASE PushToTalk
    BY <2>1, <2>3, PttCommand DEF PushToTalk, OverlayInv, UiOK, Views
  <2>4. CASE Stop
    <3>1. <<"cancel">> \in Commands
      BY DEF Commands
    <3>2. <<<<"cancel">>>> \in Seq(Commands) /\ \A i \in 1..1 : (<<<<"cancel">>>>)[i][1] # "answer"
      BY <3>1
    <3> QED
      BY <2>1, <2>4, <3>2 DEF Stop
  <2>5. CASE OpenSettings
    <3>1. <<>> \in Seq(Commands) /\ Len(<<>>) = 0
      BY EmptySeq
    <3>2. \A i \in 1..Len(<<>>) : (<<>>)[i][1] # "answer"
      BY <3>1
    <3>3. commands' = commands \o <<>> /\ hist' = hist /\ always' = always
      BY <2>5 DEF OpenSettings, Order
    <3> QED
      BY <1>1, <1>2, <3>3, ConcatEmptySeq
  <2>6. ASSUME NEW save \in BOOLEAN, CloseSettings(save) PROVE SavedInv'
    <3> DEFINE undone == IF save THEN hist.undone \union (always \ staged) ELSE hist.undone
    <3>1. /\ commands' = IF save THEN Append(commands, <<"settings">>) ELSE commands
          /\ hist' = [hist EXCEPT !.undone = undone]
          /\ always' = IF save THEN staged ELSE always
      <4>1. CASE save
        BY <2>6, <4>1 DEF CloseSettings
      <4>2. CASE ~save
        BY <2>6, <4>2 DEF CloseSettings
      <4> QED
        BY <4>1, <4>2
    <3>2. hist'.answers = hist.answers /\ hist'.undone = undone
      <4> HIDE DEF undone
      <4> QED
        BY <3>1 DEF OverlayInv, HistOK, Histories
    <3>3. NothingLost
      <4>1. CASE save
        BY <3>1, <3>2, <4>1
      <4>2. CASE ~save
        BY <3>1, <3>2, <4>2
      <4> QED
        BY <4>1, <4>2
    <3>4. ASSUME NEW r, NEW i \in DOMAIN commands', commands'[i] = <<"answer", r, "always">>
          PROVE  i \in DOMAIN commands /\ commands[i] = <<"answer", r, "always">>
      <4> DEFINE c == <<"settings">>
      <4>1. c \in Commands /\ c # <<"answer", r, "always">>
        BY DEF Commands
      <4> HIDE DEF c
      <4>2. commands' = commands \/ commands' = Append(commands, c)
        BY <3>1 DEF c
      <4>3. CASE commands' = Append(commands, c)
        <5>1. /\ Len(commands) \in Nat /\ DOMAIN commands = 1..Len(commands)
              /\ DOMAIN commands' = 1..(Len(commands) + 1)
              /\ \A j \in 1..Len(commands) : commands'[j] = commands[j]
              /\ commands'[Len(commands) + 1] = c
          BY <1>1, <4>1, <4>3, AppendProperties, LenProperties
        <5>2. i # Len(commands) + 1
          BY <3>4, <4>1, <5>1
        <5>3. i \in 1..Len(commands)
          BY <3>4, <5>1, <5>2
        <5> QED
          BY <3>4, <5>1, <5>3
      <4> QED
        BY <3>4, <4>2, <4>3
    <3> QED
      BY <3>2, <3>3, <3>4 DEF SavedInv
  <2>7. ASSUME NEW b \in Decisions, NEW saved \in BOOLEAN, Answer(b, saved) PROVE SavedInv'
    <3> DEFINE c == <<"answer", Last(dialogs), Resolved(b, saved)>>
    <3>1. /\ hist' = hist /\ commands' = Append(commands, c) /\ dialogs # <<>>
          /\ always' = IF saved THEN always \union {Last(dialogs)} ELSE always
      BY <2>7 DEF Answer
    <3>2. c \in Commands
      <4>1. Last(dialogs) \in Requests
        BY <3>1, LastFront DEF OverlayInv, DialogsOK
      <4>2. Resolved(b, saved) \in Decisions
        BY DEF Resolved, Decisions
      <4> QED
        BY <4>1, <4>2 DEF Commands
    <3>3. ASSUME NEW r, c = <<"answer", r, "always">> PROVE r \in always'
      <4>1. Resolved(b, saved) = "always" /\ r = Last(dialogs)
        BY <3>3
      <4>2. saved
        BY <4>1 DEF Resolved
      <4> QED
        BY <3>1, <4>1, <4>2
    <3>4. /\ Len(commands) \in Nat /\ DOMAIN commands = 1..Len(commands)
          /\ DOMAIN commands' = 1..(Len(commands) + 1)
          /\ \A i \in 1..Len(commands) : commands'[i] = commands[i]
          /\ commands'[Len(commands) + 1] = c
      <4> HIDE DEF c
      <4> QED
        BY <1>1, <3>1, <3>2, AppendProperties, LenProperties
    <3>5. ASSUME NEW r \in Requests, NEW i \in DOMAIN commands', commands'[i] = <<"answer", r, "always">>
          PROVE  r \in always' \union hist'.undone
      <4> HIDE DEF c
      <4>1. CASE i = Len(commands) + 1
        BY <3>3, <3>4, <3>5, <4>1
      <4>2. CASE i # Len(commands) + 1
        <5>1. i \in DOMAIN commands /\ commands[i] = <<"answer", r, "always">>
          BY <3>4, <3>5, <4>2
        <5>2. r \in always \union hist.undone
          BY <5>1 DEF SavedInv
        <5> QED
          BY <3>1, <5>2
      <4> QED
        BY <4>1, <4>2
    <3> QED
      BY <3>1, <3>5 DEF SavedInv
  <2> QED
    BY <1>7, <2>2, <2>3, <2>4, <2>5, <2>6, <2>7 DEF User
<1>8. CASE UNCHANGED overlayVars
  BY <1>2, <1>8 DEF overlayVars
<1> QED
  BY <1>5, <1>6, <1>7, <1>8 DEF OverlayNext

LEMMA PlacedInvariant == OverlaySpec => [](PlacedInv /\ SavedInv)
<1>1. OverlayInv /\ PlacedInv /\ UNCHANGED overlayVars => PlacedInv'
  BY DEF overlayVars, PlacedInv, InPosting, InQueue, InDialogs, InCommands, InAnswers
<1>2. OverlayInv /\ PlacedInv /\ [OverlayNext]_overlayVars => PlacedInv'
  BY <1>1, WorkerPlaced, UserPlaced, DrainPlaced DEF OverlayNext
<1> QED
  BY <1>2, InitPlaced, SavedStep, OverlayInvHolds, PTL DEF OverlaySpec

LEMMA SoleUnion ==
  ASSUME NEW P, NEW Q, NEW D, NEW C, NEW A, Sole(P, Q, D, C, A)
  PROVE  \E p : ({"posting"} \X P) \union ({"queue"} \X Q) \union ({"dialog"} \X D)
                  \union ({"command"} \X C) \union ({"answer"} \X A) = {p}
<1> DEFINE U == ({"posting"} \X P) \union ({"queue"} \X Q) \union ({"dialog"} \X D)
                 \union ({"command"} \X C) \union ({"answer"} \X A)
<1>1. CASE Lone(P) /\ Q = {} /\ D = {} /\ C = {} /\ A = {}
  <2>1. PICK x : P = {x}
    BY <1>1 DEF Lone
  <2>2. \A z : z \in U <=> z = <<"posting", x>>
    BY <1>1, <2>1
  <2>3. U = {<<"posting", x>>}
    <3> HIDE DEF U
    <3> QED
      BY <2>2
  <2> QED
    BY <2>3
<1>2. CASE P = {} /\ Lone(Q) /\ D = {} /\ C = {} /\ A = {}
  <2>1. PICK x : Q = {x}
    BY <1>2 DEF Lone
  <2>2. \A z : z \in U <=> z = <<"queue", x>>
    BY <1>2, <2>1
  <2>3. U = {<<"queue", x>>}
    <3> HIDE DEF U
    <3> QED
      BY <2>2
  <2> QED
    BY <2>3
<1>3. CASE P = {} /\ Q = {} /\ Lone(D) /\ C = {} /\ A = {}
  <2>1. PICK x : D = {x}
    BY <1>3 DEF Lone
  <2>2. \A z : z \in U <=> z = <<"dialog", x>>
    BY <1>3, <2>1
  <2>3. U = {<<"dialog", x>>}
    <3> HIDE DEF U
    <3> QED
      BY <2>2
  <2> QED
    BY <2>3
<1>4. CASE P = {} /\ Q = {} /\ D = {} /\ Lone(C) /\ A = {}
  <2>1. PICK x : C = {x}
    BY <1>4 DEF Lone
  <2>2. \A z : z \in U <=> z = <<"command", x>>
    BY <1>4, <2>1
  <2>3. U = {<<"command", x>>}
    <3> HIDE DEF U
    <3> QED
      BY <2>2
  <2> QED
    BY <2>3
<1>5. CASE P = {} /\ Q = {} /\ D = {} /\ C = {} /\ Lone(A)
  <2>1. PICK x : A = {x}
    BY <1>5 DEF Lone
  <2>2. \A z : z \in U <=> z = <<"answer", x>>
    BY <1>5, <2>1
  <2>3. U = {<<"answer", x>>}
    <3> HIDE DEF U
    <3> QED
      BY <2>2
  <2> QED
    BY <2>3
<1> QED
  BY <1>1, <1>2, <1>3, <1>4, <1>5 DEF Sole

\* For any number of tools that ask, of events and of dialogs: every request is
\* answered exactly once and is always in exactly one place, and what is allowed
\* for good is saved or was undone by the settings dialog.
THEOREM EveryRequestAnsweredOnce == OverlaySpec => []AnswersSound
<1>1. OverlayInv /\ PlacedInv /\ SavedInv => AnswersSound
  <2> SUFFICES ASSUME OverlayInv, PlacedInv, SavedInv, NEW r \in Requests
               PROVE  /\ Cardinality(Places(r)) = IF r <= app.asked THEN 1 ELSE 0
                      /\ hist.answers[r] = <<"always">> => r \in always \union hist.undone
    BY DEF AnswersSound
  <2>1. Places(r) = ({"posting"} \X InPosting(r)) \union ({"queue"} \X InQueue(r))
                      \union ({"dialog"} \X InDialogs(r)) \union ({"command"} \X InCommands(r))
                      \union ({"answer"} \X InAnswers(r))
    BY DEF Places, InPosting, InQueue, InDialogs, InCommands, InAnswers, Returning
  <2>2. \A n : {n} \X {} = {}
    OBVIOUS
  <2>4. ASSUME r <= app.asked PROVE Cardinality(Places(r)) = 1
    <3>1. Sole(InPosting(r), InQueue(r), InDialogs(r), InCommands(r), InAnswers(r))
      BY <2>4 DEF PlacedInv
    <3> DEFINE U == ({"posting"} \X InPosting(r)) \union ({"queue"} \X InQueue(r))
                      \union ({"dialog"} \X InDialogs(r)) \union ({"command"} \X InCommands(r))
                      \union ({"answer"} \X InAnswers(r))
    <3>2. \E p : U = {p}
      BY <3>1, SoleUnion
    <3>3. Places(r) = U
      BY <2>1
    <3> HIDE DEF U
    <3> QED
      BY <3>2, <3>3, FS_Singleton
  <2>5. ASSUME ~(r <= app.asked) PROVE Cardinality(Places(r)) = 0
    <3>1. Places(r) = {}
      BY <2>1, <2>2, <2>5 DEF PlacedInv, None
    <3> QED
      BY <3>1, FS_EmptySet
  <2>6. hist.answers[r] = <<"always">> => r \in always \union hist.undone
    <3>1. hist.answers[r] = <<"always">> => 1 \in DOMAIN hist.answers[r] /\ hist.answers[r][1] = "always"
      OBVIOUS
    <3> QED
      BY <3>1 DEF SavedInv
  <2> QED
    BY <2>4, <2>5, <2>6
<1> QED
  BY <1>1, OverlayInvHolds, PlacedInvariant, PTL

-----------------------------------------------------------------------------
(* The overlay: the view agrees.                                            *)

Told(e) == CASE e.kind = "STATE" -> e.what
             [] e.kind = "ERROR" -> "error"
             [] e.kind = "ANNOUNCEMENT" -> "announcement"

\* s is shown once q is drained, when u is shown now.
Final(q, u, s) ==
  \/ \E i \in 1..Len(q) :
       /\ q[i].kind \in Telling /\ s = Told(q[i])
       /\ \A j \in (i + 1)..Len(q) : q[j].kind \notin Telling
  \/ s = u /\ \A i \in 1..Len(q) : q[i].kind \notin Telling

\* The state that will be shown is the last one told, or a command or a post that
\* will tell another is under way.
ShownInv ==
  ~hist.lost => \A s : Final(queue, ui.state, s) =>
    \/ s = hist.said
    \/ hist.overtook /\ s \in {"error", "announcement"}
    \/ /\ s = "listening"
       /\ app.ptt \/ hist.refused \/ \E i \in 1..Len(commands) : commands[i][1] = "ptt"
    \/ \E i \in 1..Len(posting) : posting[i].kind \in Telling
    \/ \E i \in 1..Len(commands) : commands[i][1] \in {"paused", "cancel"}

\* b is what the worker's pause may be once it has handled cs: a push-to-talk
\* resumes, or is not served and changes nothing.
Unpaused(cs) == \A i \in 1..Len(cs) : cs[i][1] # "paused"
Decided(cs, b) ==
  \E i \in 1..Len(cs) :
    /\ (cs[i][1] = "paused" /\ b = cs[i][2]) \/ (cs[i][1] = "ptt" /\ b = FALSE)
    /\ \A j \in (i + 1)..Len(cs) : cs[j][1] # "paused"
Settled(cs, now, b) == Decided(cs, b) \/ (b = now /\ Unpaused(cs))

PausedInv == ~hist.crossed => \A b : Settled(commands, app.paused, b) => b = ui.paused

LEMMA ToldFacts ==
  ASSUME NEW e \in Events
  PROVE  /\ e.kind = "STATE" => Told(e) = e.what
         /\ e.kind = "ERROR" => Told(e) = "error"
         /\ e.kind = "ANNOUNCEMENT" => Told(e) = "announcement"
BY DEF Told

\* What an event that is queued changes in what will be shown.
LEMMA QueuedTells ==
  ASSUME NEW q \in Seq(Events), NEW e \in Events, ~Refused(q, e), NEW u, NEW s, Final(Queued(q, e), u, s)
  PROVE  /\ e.kind \notin Telling => Final(q, u, s)
         /\ e.kind \in Louder => s = Told(e)
         /\ e.kind = "STATE" => \/ s = e.what
                                \/ /\ s \in {"error", "announcement"}
                                   /\ \E i \in Slots(q, e) : \E j \in i..Len(q) : q[j].kind \in Louder
<1>1. Len(q) \in Nat /\ \A i \in 1..Len(q) : q[i] \in Events
  BY LenProperties, ElementOfSeq
<1>2. CASE Slots(q, e) = {} /\ Queued(q, e) = Append(q, e)
  <2>1. /\ Len(Append(q, e)) = Len(q) + 1 /\ Append(q, e)[Len(q) + 1] = e
        /\ \A i \in 1..Len(q) : Append(q, e)[i] = q[i]
    BY AppendProperties
  <2>2. CASE e.kind \in Telling
    <3>1. s = Told(e)
      BY <1>1, <1>2, <2>1, <2>2 DEF Final
    <3> QED
      BY <2>2, <3>1, ToldFacts DEF Telling
  <2>3. CASE e.kind \notin Telling
    <3>1. Final(q, u, s)
      <4>1. CASE s = u /\ \A i \in 1..(Len(q) + 1) : Append(q, e)[i].kind \notin Telling
        BY <1>1, <2>1, <4>1 DEF Final
      <4>2. ASSUME NEW i \in 1..(Len(q) + 1), Append(q, e)[i].kind \in Telling, s = Told(Append(q, e)[i]),
                   \A j \in (i + 1)..(Len(q) + 1) : Append(q, e)[j].kind \notin Telling
            PROVE  Final(q, u, s)
        <5>1. i \in 1..Len(q) /\ \A j \in (i + 1)..Len(q) : q[j].kind \notin Telling
          BY <1>1, <2>1, <2>3, <4>2
        <5> QED
          BY <2>1, <4>2, <5>1 DEF Final
      <4> QED
        BY <1>2, <2>1, <4>1, <4>2 DEF Final
    <3> QED
      BY <2>3, <3>1 DEF Telling, Louder
  <2> QED
    BY <2>2, <2>3
<1>3. ASSUME NEW i \in Slots(q, e), \A j \in Slots(q, e) : j <= i, \A j \in (i + 1)..Len(q) : q[j].kind # e.kind,
             Queued(q, e) = [q EXCEPT ![i] = Merged(q[i], e)]
      PROVE  /\ e.kind \notin Telling => Final(q, u, s)
             /\ e.kind \in Louder => s = Told(e)
             /\ e.kind = "STATE" => \/ s = e.what
                                    \/ /\ s \in {"error", "announcement"}
                                       /\ \E j \in i..Len(q) : q[j].kind \in Louder
  <2>1. i \in 1..Len(q) /\ q[i].kind = e.kind /\ e.kind \in {"STATE", "USER", "ACK", "DELTA"}
    BY SlotFacts
  <2>2. Merged(q[i], e).kind = e.kind /\ (e.kind # "DELTA" => Merged(q[i], e) = e) /\ Merged(q[i], e) \in Events
    BY <1>1, <2>1, MergedType
  <2> DEFINE m == Merged(q[i], e)
             p == [q EXCEPT ![i] = m]
  <2>3. Len(p) = Len(q) /\ \A j \in 1..Len(q) : p[j] = IF j = i THEN m ELSE q[j]
    BY <2>1, <2>2, ExceptSeq
  <2>4. Final(p, u, s)
    BY <1>3
  <2> HIDE DEF m, p
  <2>5. CASE e.kind = "STATE"
    <3>1. m = e /\ e.kind \in Telling
      BY <2>2, <2>5 DEF m, Telling
    <3>2. PICK k \in 1..Len(q) : p[k].kind \in Telling /\ s = Told(p[k]) /\ \A j \in (k + 1)..Len(q) : p[j].kind \notin Telling
      BY <2>1, <2>3, <2>4, <3>1 DEF Final
    <3>3. k >= i
      BY <1>1, <2>1, <2>3, <3>1, <3>2
    <3>4. CASE k = i
      BY <2>3, <2>5, <3>1, <3>2, <3>4, ToldFacts DEF Louder
    <3>5. CASE k > i
      <4>1. p[k] = q[k] /\ k \in (i + 1)..Len(q) /\ k \in i..Len(q)
        BY <1>1, <2>1, <2>3, <3>5
      <4>2. q[k].kind \in Louder
        BY <1>3, <2>5, <3>2, <4>1 DEF Telling, Louder
      <4>3. s \in {"error", "announcement"}
        BY <1>1, <3>2, <4>1, <4>2, ToldFacts DEF Louder
      <4> QED
        BY <2>5, <4>1, <4>2, <4>3 DEF Telling, Louder
    <3> QED
      BY <1>1, <2>1, <3>3, <3>4, <3>5
  <2>6. CASE e.kind # "STATE"
    <3>1. e.kind \notin Telling /\ e.kind \notin Louder
      BY <2>1, <2>6 DEF Telling, Louder
    <3>2. m.kind \notin Telling /\ q[i].kind \notin Telling
      BY <2>1, <2>2, <3>1 DEF m
    <3>3. \A j \in 1..Len(q) : p[j].kind \in Telling => p[j] = q[j]
      BY <2>3, <3>2
    <3>4. \A j \in 1..Len(q) : p[j].kind \in Telling <=> q[j].kind \in Telling
      BY <2>3, <3>2
    <3>5. Final(q, u, s)
      <4>1. CASE s = u /\ \A j \in 1..Len(q) : p[j].kind \notin Telling
        BY <3>4, <4>1 DEF Final
      <4>2. ASSUME NEW k \in 1..Len(q), p[k].kind \in Telling, s = Told(p[k]),
                   \A j \in (k + 1)..Len(q) : p[j].kind \notin Telling
            PROVE  Final(q, u, s)
        <5>1. \A j \in (k + 1)..Len(q) : q[j].kind \notin Telling
          BY <1>1, <3>4, <4>2
        <5> QED
          BY <3>3, <4>2, <5>1 DEF Final
      <4> QED
        BY <2>3, <2>4, <4>1, <4>2 DEF Final
    <3> QED
      BY <2>6, <3>1, <3>5
  <2> QED
    BY <2>5, <2>6
<1> QED
  BY <1>2, <1>3, QueuedCases

\* Draining an event does not change what will be shown.
LEMMA DrainedTells ==
  ASSUME NEW q \in Seq(Events), q # <<>>, NEW u, NEW s,
         Final(Tail(q), IF Head(q).kind \in Telling THEN Told(Head(q)) ELSE u, s)
  PROVE  Final(q, u, s)
<1>1. /\ Len(q) \in Nat /\ Len(q) # 0
      /\ Len(Tail(q)) = Len(q) - 1
      /\ \A i \in 1..(Len(q) - 1) : Tail(q)[i] = q[i + 1]
      /\ Head(q) = q[1]
  BY HeadTailProperties, LenProperties, EmptySeq
<1>2. \A j \in 2..Len(q) : j - 1 \in 1..(Len(q) - 1) /\ Tail(q)[j - 1] = q[j]
  <2>1. \A j \in 2..Len(q) : j - 1 \in 1..(Len(q) - 1) /\ (j - 1) + 1 = j
    BY <1>1
  <2> QED
    BY <1>1, <2>1
<1>3. ASSUME NEW i \in 1..(Len(q) - 1), Tail(q)[i].kind \in Telling, s = Told(Tail(q)[i]),
             \A j \in (i + 1)..(Len(q) - 1) : Tail(q)[j].kind \notin Telling
      PROVE  Final(q, u, s)
  <2>1. i + 1 \in 1..Len(q) /\ q[i + 1].kind \in Telling /\ s = Told(q[i + 1])
    BY <1>1, <1>3
  <2>2. ASSUME NEW j \in (i + 1 + 1)..Len(q) PROVE q[j].kind \notin Telling
    <3>1. j \in 2..Len(q) /\ j - 1 \in (i + 1)..(Len(q) - 1)
      BY <1>1
    <3> QED
      BY <1>2, <1>3, <3>1
  <2> QED
    BY <2>1, <2>2 DEF Final
<1>4. ASSUME s = IF Head(q).kind \in Telling THEN Told(Head(q)) ELSE u,
             \A i \in 1..(Len(q) - 1) : Tail(q)[i].kind \notin Telling
      PROVE  Final(q, u, s)
  <2>1. \A j \in 2..Len(q) : q[j].kind \notin Telling
    BY <1>2, <1>4
  <2>2. CASE q[1].kind \in Telling
    <3>1. 1 \in 1..Len(q) /\ 1 + 1 = 2
      BY <1>1
    <3> QED
      BY <1>1, <1>4, <2>1, <2>2, <3>1 DEF Final
  <2>3. CASE q[1].kind \notin Telling
    <3>1. \A j \in 1..Len(q) : j = 1 \/ j \in 2..Len(q)
      BY <1>1
    <3> QED
      BY <1>1, <1>4, <2>1, <2>3, <3>1 DEF Final
  <2> QED
    BY <2>2, <2>3
<1> QED
  BY <1>1, <1>3, <1>4 DEF Final

LEMMA PostNotes ==
  ASSUME OverlayInv, Post, NEW e, e = Head(posting)
  PROVE  /\ hist'.said = IF e.kind \in Telling THEN Told(e) ELSE hist.said
         /\ hist'.lost = (hist.lost \/ Refused(queue, e))
         /\ hist'.overtook = IF e.kind = "STATE"
                               THEN \E i \in Slots(queue, e) : \E j \in i..Len(queue) : queue[j].kind \in Louder
                               ELSE hist.overtook /\ e.kind \notin Louder
         /\ hist'.crossed = hist.crossed
         /\ hist'.refused = (hist.refused /\ e.kind \notin Telling)
<1> DEFINE n == Noted(queue, e)
<1>1. e \in Events /\ queue \in Seq(Events) /\ HistOK
  BY HeadTailProperties DEF OverlayInv, PostingOK, QueueOK, Post
<1>2. n \in Histories /\ n.crossed = hist.crossed
  BY <1>1, NotedType
<1>3. /\ n.said = IF e.kind \in Telling THEN Told(e) ELSE hist.said
      /\ n.lost = (hist.lost \/ Refused(queue, e))
      /\ n.overtook = IF e.kind = "STATE"
                        THEN \E i \in Slots(queue, e) : \E j \in i..Len(queue) : queue[j].kind \in Louder
                        ELSE hist.overtook /\ e.kind \notin Louder
      /\ n.refused = (hist.refused /\ e.kind \notin Telling)
  BY <1>1 DEF Noted, HistOK, Histories, Telling, Told, Louder
<1> HIDE DEF n
<1>4. \A r : /\ Deny(r, n).said = n.said /\ Deny(r, n).lost = n.lost
             /\ Deny(r, n).overtook = n.overtook /\ Deny(r, n).crossed = n.crossed
             /\ Deny(r, n).refused = n.refused
  BY <1>2 DEF Deny, Histories
<1>5. hist' = n \/ \E r : hist' = Deny(r, n)
  BY DEF Post, n
<1> QED
  BY <1>2, <1>3, <1>4, <1>5

LEMMA PostShown == OverlayInv /\ ShownInv /\ Post => ShownInv'
<1> SUFFICES ASSUME OverlayInv, ShownInv, Post, ~hist'.lost, NEW s, Final(queue', ui'.state, s)
             PROVE  (\/ s = hist.said
                     \/ hist.overtook /\ s \in {"error", "announcement"}
                     \/ /\ s = "listening"
                        /\ app.ptt \/ hist.refused \/ \E i \in 1..Len(commands) : commands[i][1] = "ptt"
                     \/ \E i \in 1..Len(posting) : posting[i].kind \in Telling
                     \/ \E i \in 1..Len(commands) : commands[i][1] \in {"paused", "cancel"})'
  BY DEF ShownInv
<1> DEFINE e == Head(posting)
<1>1. /\ e \in Events /\ queue \in Seq(Events) /\ posting \in Seq(Events) /\ posting # <<>>
      /\ queue' = Queued(queue, e) /\ posting' = Tail(posting) /\ UNCHANGED <<ui, commands, app>>
  BY HeadTailProperties DEF OverlayInv, PostingOK, QueueOK, Post
<1>2. /\ hist'.said = IF e.kind \in Telling THEN Told(e) ELSE hist.said
      /\ hist'.lost = (hist.lost \/ Refused(queue, e))
      /\ hist'.overtook = IF e.kind = "STATE"
                            THEN \E i \in Slots(queue, e) : \E j \in i..Len(queue) : queue[j].kind \in Louder
                            ELSE hist.overtook /\ e.kind \notin Louder
  BY PostNotes
<1>3. ~hist.lost /\ ~Refused(queue, e) /\ Final(Queued(queue, e), ui.state, s)
  BY <1>1, <1>2
<1> HIDE DEF e
<1>4. /\ e.kind \notin Telling => Final(queue, ui.state, s)
      /\ e.kind \in Louder => s = Told(e)
      /\ e.kind = "STATE" => \/ s = e.what
                             \/ /\ s \in {"error", "announcement"}
                                /\ \E i \in Slots(queue, e) : \E j \in i..Len(queue) : queue[j].kind \in Louder
  BY <1>1, <1>3, QueuedTells
<1>5. CASE e.kind = "STATE"
  BY <1>1, <1>2, <1>4, <1>5, ToldFacts DEF Telling
<1>6. CASE e.kind \in Louder
  BY <1>2, <1>4, <1>6 DEF Telling, Louder
<1>7. CASE e.kind \notin Telling
  <2>1. hist'.said = hist.said /\ hist'.overtook = (hist.overtook /\ TRUE)
        /\ hist'.refused = (hist.refused /\ TRUE)
    BY <1>2, <1>7, PostNotes DEF Telling, Louder, e
  <2>2. ASSUME NEW i \in 1..Len(posting), posting[i].kind \in Telling
        PROVE  \E j \in 1..Len(posting') : posting'[j].kind \in Telling
    <3>1. /\ Len(posting) \in Nat /\ Len(posting') = Len(posting) - 1
          /\ \A j \in 1..(Len(posting) - 1) : posting'[j] = posting[j + 1]
          /\ e = posting[1]
      BY <1>1, HeadTailProperties, LenProperties DEF e
    <3>2. i # 1
      BY <1>7, <2>2, <3>1
    <3>3. i - 1 \in 1..Len(posting') /\ (i - 1) + 1 = i
      BY <3>1, <3>2
    <3> QED
      BY <2>2, <3>1, <3>3
  <2> QED
    BY <1>1, <1>3, <1>4, <1>7, <2>1, <2>2 DEF ShownInv
<1> QED
  BY <1>5, <1>6, <1>7 DEF Telling, Louder

LEMMA DrainShown == OverlayInv /\ ShownInv /\ Drain => ShownInv'
<1> SUFFICES ASSUME OverlayInv, ShownInv, Drain, ~hist'.lost, NEW s, Final(queue', ui'.state, s)
             PROVE  (\/ s = hist.said
                     \/ hist.overtook /\ s \in {"error", "announcement"}
                     \/ /\ s = "listening"
                        /\ app.ptt \/ hist.refused \/ \E i \in 1..Len(commands) : commands[i][1] = "ptt"
                     \/ \E i \in 1..Len(posting) : posting[i].kind \in Telling
                     \/ \E i \in 1..Len(commands) : commands[i][1] \in {"paused", "cancel"})'
  BY DEF ShownInv
<1> DEFINE e == Head(queue)
<1>1. /\ e \in Events /\ queue \in Seq(Events) /\ queue # <<>>
      /\ queue' = Tail(queue) /\ ui' = Applied(ui, e) /\ UNCHANGED <<posting, commands, app>>
  BY HeadTailProperties DEF OverlayInv, QueueOK, Drain
<1>2. hist'.said = hist.said /\ hist'.lost = hist.lost /\ hist'.overtook = hist.overtook
      /\ hist'.refused = hist.refused
  BY DEF Drain, OverlayInv, HistOK, Histories
<1>3. Applied(ui, e).state = IF e.kind \in Telling THEN Told(e) ELSE ui.state
  <2>1. ui \in Views
    BY DEF OverlayInv, UiOK
  <2> USE DEF Views
  <2> HIDE DEF e
  <2>2. CASE e.kind = "STATE"
    BY <2>1, <2>2, <1>1, ToldFacts DEF Applied, Telling
  <2>3. CASE e.kind = "ERROR"
    BY <2>1, <2>3, <1>1, ToldFacts DEF Applied, Telling
  <2>4. CASE e.kind = "ANNOUNCEMENT"
    BY <2>1, <2>4, <1>1, ToldFacts DEF Applied, Telling
  <2>5. CASE e.kind \notin Telling
    BY <2>1, <2>5 DEF Applied, Telling
  <2> QED
    BY <2>2, <2>3, <2>4, <2>5 DEF Telling
<1>4. Final(queue, ui.state, s)
  BY <1>1, <1>3, DrainedTells
<1> QED
  BY <1>1, <1>2, <1>4 DEF ShownInv

\* A handler tells a state, or what others still have to tell stays so.
LEMMA HandlesShown ==
  ASSUME OverlayInv, ShownInv, NEW x, NEW events, Handles(x, events),
         hist'.said = hist.said, hist'.lost = hist.lost, hist'.overtook = hist.overtook,
         \/ Tellings(events)
         \/ /\ app.ptt => x.ptt \/ hist'.refused
            /\ hist.refused => hist'.refused
            /\ \A i \in 1..Len(commands) : commands[i][1] = "ptt" =>
                 x.ptt \/ hist'.refused \/ \E j \in 1..Len(commands') : commands'[j][1] = "ptt"
            /\ \A i \in 1..Len(commands) : commands[i][1] \in {"paused", "cancel"} =>
                 \E j \in 1..Len(commands') : commands'[j][1] \in {"paused", "cancel"}
  PROVE  ShownInv'
<1> SUFFICES ASSUME ~hist'.lost, NEW s, Final(queue', ui'.state, s)
             PROVE  (\/ s = hist.said
                     \/ hist.overtook /\ s \in {"error", "announcement"}
                     \/ /\ s = "listening"
                        /\ app.ptt \/ hist.refused \/ \E i \in 1..Len(commands) : commands[i][1] = "ptt"
                     \/ \E i \in 1..Len(posting) : posting[i].kind \in Telling
                     \/ \E i \in 1..Len(commands) : commands[i][1] \in {"paused", "cancel"})'
  BY DEF ShownInv
<1>1. posting = <<>> /\ Len(posting) = 0 /\ posting' = events /\ app' = x /\ UNCHANGED <<queue, ui>>
  BY EmptySeq DEF Handles
<1>2. CASE Tellings(events)
  BY <1>1, <1>2 DEF Tellings
<1>3. CASE ~Tellings(events)
  <2>1. \/ s = hist.said
        \/ hist.overtook /\ s \in {"error", "announcement"}
        \/ /\ s = "listening"
           /\ app.ptt \/ hist.refused \/ \E i \in 1..Len(commands) : commands[i][1] = "ptt"
        \/ \E i \in 1..Len(commands) : commands[i][1] \in {"paused", "cancel"}
    BY <1>1 DEF ShownInv
  <2> QED
    BY <1>1, <1>3, <2>1
<1> QED
  BY <1>2, <1>3

LEMMA ObeyShown == OverlayInv /\ ShownInv /\ Obey => ShownInv'
<1> SUFFICES ASSUME OverlayInv, ShownInv, Obey PROVE ShownInv'
  OBVIOUS
<1> DEFINE c == Head(commands)
<1>2. /\ commands \in Seq(Commands) /\ commands # <<>> /\ commands' = Tail(commands)
      /\ c \in Commands /\ c = commands[1]
      /\ Len(commands) \in Nat /\ Len(commands') = Len(commands) - 1
      /\ \A i \in 1..(Len(commands) - 1) : commands'[i] = commands[i + 1]
  BY HeadTailProperties, LenProperties DEF OverlayInv, CommandsOK, Obey
<1>3. ASSUME NEW i \in 1..Len(commands), i # 1
      PROVE  i - 1 \in 1..Len(commands') /\ commands'[i - 1] = commands[i]
  <2>1. i - 1 \in 1..(Len(commands) - 1) /\ (i - 1) + 1 = i
    BY <1>2, <1>3
  <2> QED
    BY <1>2, <2>1
<1>4. /\ c[1] \notin {"paused", "cancel"} =>
           \A i \in 1..Len(commands) : commands[i][1] \in {"paused", "cancel"} =>
             \E j \in 1..Len(commands') : commands'[j][1] \in {"paused", "cancel"}
      /\ c[1] # "ptt" =>
           \A i \in 1..Len(commands) : commands[i][1] = "ptt" =>
             \E j \in 1..Len(commands') : commands'[j][1] = "ptt"
  BY <1>2, <1>3
<1>5. ASSUME NEW x, NEW events, Handles(x, events), Tellings(events), hist' = hist PROVE ShownInv'
  BY <1>5, HandlesShown
<1>6. Worked(app) /\ hist \in Histories
  BY DEF OverlayInv, AppOK, HistOK
<1>7. \/ c[1] = "paused" /\ SetPaused(c[2])
      \/ c[1] = "ptt" /\ Talk
      \/ c[1] = "cancel" /\ Cancel
      \/ c[1] = "settings" /\ ChangeSettings
      \/ c[1] = "answer" /\ Decide(c[2], c[3])
  BY DEF Obey
<1>8. CASE SetPaused(c[2])
  BY <1>5, <1>8, TellingsFacts DEF SetPaused
<1>9. CASE Cancel
  BY <1>5, <1>9, TellingsFacts DEF Cancel
<1>10. CASE ChangeSettings
  <2>1. Tellings(<<State("loading"), Error("secrets")>>)
    <3>1. State("loading") \in Events /\ Error("secrets") \in Events
      BY EventFacts DEF States, Texts
    <3>2. <<State("loading")>> \in Seq(Events) /\ <<Error("secrets")>> \in Seq(Events)
      BY <3>1
    <3>3. Tellings(<<State("loading")>> \o <<Error("secrets")>>)
      BY <3>2, PlainFacts, TellingsFacts
    <3> QED
      BY <3>3, Joined
  <2>2. hist' = hist
    BY <1>10 DEF ChangeSettings
  <2>3. CASE Handles(app, <<Error("settings")>>)
    BY <1>5, <2>2, <2>3, TellingsFacts
  <2>4. ASSUME NEW lacks \in Lacks, NEW x, NEW events, Handles(x, events),
               events = CASE lacks = "nothing" -> <<State("loading")>>
                          [] lacks = "secrets" -> <<State("loading"), Error("secrets")>>
                          [] lacks = "provider" -> <<Error("provider")>>
        PROVE  ShownInv'
    <3>1. events \in {<<State("loading")>>, <<State("loading"), Error("secrets")>>, <<Error("provider")>>}
      BY <2>4 DEF Lacks
    <3>2. Tellings(events)
      BY <2>1, <3>1, TellingsFacts
    <3> QED
      BY <1>5, <2>2, <2>4, <3>2
  <2> QED
    BY <1>10, <2>3, <2>4 DEF ChangeSettings
<1>11. CASE c[1] = "ptt" /\ Talk
  <2>1. CASE Handles(app, <<Error("provider")>>) /\ UNCHANGED hist
    BY <1>5, <2>1, TellingsFacts
  <2>2. CASE Handles(app, <<>>) /\ hist' = [hist EXCEPT !.refused = TRUE]
    <3>1. hist'.said = hist.said /\ hist'.lost = hist.lost /\ hist'.overtook = hist.overtook
          /\ hist'.refused
      BY <1>6, <2>2 DEF Histories
    <3> QED
      BY <1>4, <1>11, <2>2, <3>1, HandlesShown
  <2>3. ASSUME NEW t \in Attempts(Cancelled([app EXCEPT !.paused = FALSE, !.ptt = TRUE])),
               Handles(t.app, t.told),
               hist' = [hist EXCEPT !.refused = hist.refused \/ (t.told = <<>> /\ ~t.app.ptt)]
        PROVE  ShownInv'
    <3>1. hist'.said = hist.said /\ hist'.lost = hist.lost /\ hist'.overtook = hist.overtook
          /\ hist'.refused = (hist.refused \/ (t.told = <<>> /\ ~t.app.ptt))
      BY <1>6, <2>3 DEF Histories
    <3>2. Worked([app EXCEPT !.paused = FALSE, !.ptt = TRUE])
      BY <1>6 DEF Worked
    <3>3. t.told = <<>> \/ t.told = <<State("listening")>>
      BY <2>3, <3>2, CancelledType, AttemptFacts
    <3>4. CASE t.told = <<>>
      <4>1. t.app.ptt \/ hist'.refused
        BY <3>1, <3>4
      <4>2. hist.refused => hist'.refused
        BY <3>1
      <4> QED
        BY <1>4, <1>11, <2>3, <3>1, <4>1, <4>2, HandlesShown
    <3>5. CASE t.told = <<State("listening")>>
      BY <2>3, <3>1, <3>5, TellingsFacts, HandlesShown
    <3> QED
      BY <3>3, <3>4, <3>5
  <2> QED
    BY <1>11, <2>1, <2>2, <2>3 DEF Talk
<1>12. CASE c[1] = "answer" /\ Decide(c[2], c[3])
  <2>1. Handles(app, <<>>)
        /\ hist' = [hist EXCEPT !.answers = [hist.answers EXCEPT ![c[2]] = Append(hist.answers[c[2]], c[3])]]
    BY <1>12 DEF Decide
  <2>2. hist'.said = hist.said /\ hist'.lost = hist.lost /\ hist'.overtook = hist.overtook
        /\ hist'.refused = hist.refused
    BY <1>6, <2>1 DEF Histories
  <2> QED
    BY <1>4, <1>12, <2>1, <2>2, HandlesShown
<1> QED
  BY <1>7, <1>8, <1>9, <1>10, <1>11, <1>12

LEMMA WorkerShown == OverlayInv /\ ShownInv /\ Worker => ShownInv'
<1> SUFFICES ASSUME OverlayInv, ShownInv, Worker PROVE ShownInv'
  OBVIOUS
<1>1. ASSUME NEW x, NEW events, Tells(x, events), Tellings(events) \/ x.ptt = app.ptt PROVE ShownInv'
  BY <1>1, HandlesShown DEF Tells
<1>2. CASE Post
  BY <1>2, PostShown
<1>3. CASE Obey
  BY <1>3, ObeyShown
<1>4. CASE Approval
  BY <1>1, <1>4, ApprovalCase
<1>5. CASE ~Post /\ ~Obey /\ ~Approval
  BY <1>1, <1>5, TellsCases
<1> QED
  BY <1>2, <1>3, <1>4, <1>5

LEMMA UserShown == OverlayInv /\ ShownInv /\ User => ShownInv'
<1> SUFFICES ASSUME OverlayInv, ShownInv, User, ~hist'.lost, NEW s, Final(queue', ui'.state, s)
             PROVE  (\/ s = hist.said
                     \/ hist.overtook /\ s \in {"error", "announcement"}
                     \/ /\ s = "listening"
                        /\ app.ptt \/ hist.refused \/ \E i \in 1..Len(commands) : commands[i][1] = "ptt"
                     \/ \E i \in 1..Len(posting) : posting[i].kind \in Telling
                     \/ \E i \in 1..Len(commands) : commands[i][1] \in {"paused", "cancel"})'
  BY DEF ShownInv
<1> USE DEF ShownInv
<1>1. commands \in Seq(Commands) /\ ui.paused \in BOOLEAN /\ Worked(app) /\ ui \in Views
  BY DEF OverlayInv, CommandsOK, UiOK, Views, AppOK
\* Commands are only added; what is under way stays so.
<1>2. ASSUME NEW command \in Seq(Commands), Order(command)
      PROVE  /\ app'.ptt = app.ptt
             /\ \A i \in 1..Len(commands) : i \in 1..Len(commands') /\ commands'[i] = commands[i]
             /\ \A i \in 1..Len(command) : Len(commands) + i \in 1..Len(commands') /\ commands'[Len(commands) + i] = command[i]
  <2>1. commands' = commands \o command /\ app' = [app EXCEPT !.incidents = app.incidents + 1]
    BY <1>2 DEF Order
  <2>2. /\ Len(commands) \in Nat /\ Len(command) \in Nat /\ Len(commands') = Len(commands) + Len(command)
        /\ \A i \in 1..(Len(commands) + Len(command)) :
             commands'[i] = IF i <= Len(commands) THEN commands[i] ELSE command[i - Len(commands)]
    BY <1>1, <2>1, ConcatProperties, LenProperties
  <2>3. ASSUME NEW i \in 1..Len(command)
        PROVE  Len(commands) + i \in 1..Len(commands') /\ commands'[Len(commands) + i] = command[i]
    <3>1. Len(commands) + i \in 1..(Len(commands) + Len(command)) /\ ~(Len(commands) + i <= Len(commands))
          /\ (Len(commands) + i) - Len(commands) = i
      BY <2>2
    <3> QED
      BY <2>2, <3>1
  <2>4. app'.ptt = app.ptt
    BY <1>1, <2>1 DEF Worked
  <2> QED
    BY <2>2, <2>3, <2>4
<1>3. CASE Pause
  <2>1. <<"paused", ~ui.paused>> \in Commands
    BY <1>1 DEF Commands
  <2>2. <<<<"paused", ~ui.paused>>>> \in Seq(Commands) /\ 1 \in 1..Len(<<<<"paused", ~ui.paused>>>>)
        /\ (<<<<"paused", ~ui.paused>>>>)[1][1] = "paused"
    BY <2>1
  <2>3. Order(<<<<"paused", ~ui.paused>>>>)
    BY <1>3 DEF Pause
  <2>4. \E i \in 1..Len(commands') : commands'[i][1] = "paused"
    BY <1>2, <2>2, <2>3
  <2> QED
    BY <2>4
<1>4. CASE PushToTalk
  <2> DEFINE command == (IF ui.paused THEN <<<<"paused", FALSE>>>> ELSE <<>>) \o <<<<"ptt">>>>
  <2>1. command \in Seq(Commands) /\ \E i \in 1..Len(command) : command[i][1] = "ptt"
    BY <1>1, PttCommand
  <2>2. Order(command) /\ ui'.state = "listening" /\ UNCHANGED <<queue, posting, hist>>
    BY <1>1, <1>4 DEF PushToTalk, Views
  <2> HIDE DEF command
  <2>3. CASE s = "listening"
    <3>1. \E i \in 1..Len(commands') : commands'[i][1] = "ptt"
      BY <1>2, <2>1, <2>2
    <3> QED
      BY <2>3, <3>1
  <2>4. CASE s # "listening"
    <3>1. Final(queue, ui.state, s)
      BY <1>1, <2>2, <2>4 DEF Final
    <3> QED
      BY <1>2, <2>1, <2>2, <3>1
  <2> QED
    BY <2>3, <2>4
<1>5. CASE Stop
  <2>1. <<"cancel">> \in Commands
    BY DEF Commands
  <2>2. <<<<"cancel">>>> \in Seq(Commands) /\ 1 \in 1..Len(<<<<"cancel">>>>)
        /\ (<<<<"cancel">>>>)[1][1] = "cancel"
    BY <2>1
  <2>3. Order(<<<<"cancel">>>>)
    BY <1>5 DEF Stop
  <2>4. \E i \in 1..Len(commands') : commands'[i][1] = "cancel"
    BY <1>2, <2>2, <2>3
  <2> QED
    BY <2>4
<1>6. CASE OpenSettings
  <2>1. <<>> \in Seq(Commands) /\ Order(<<>>) /\ UNCHANGED <<queue, ui, posting, hist>>
    BY <1>6, EmptySeq DEF OpenSettings
  <2> QED
    BY <1>2, <2>1
<1>7. ASSUME NEW save \in BOOLEAN, CloseSettings(save)
      PROVE  /\ UNCHANGED <<queue, ui, posting, app>> /\ hist'.said = hist.said /\ hist'.lost = hist.lost
             /\ hist'.overtook = hist.overtook /\ hist'.refused = hist.refused
             /\ \A i \in 1..Len(commands) : i \in 1..Len(commands') /\ commands'[i] = commands[i]
  <2>1. UNCHANGED <<queue, ui, posting, app>> /\ hist'.said = hist.said /\ hist'.lost = hist.lost
        /\ hist'.overtook = hist.overtook /\ hist'.refused = hist.refused
    BY <1>7 DEF CloseSettings, OverlayInv, HistOK, Histories
  <2>2. commands' = commands \/ commands' = Append(commands, <<"settings">>)
    BY <1>7 DEF CloseSettings
  <2>3. <<"settings">> \in Commands
    BY DEF Commands
  <2>4. \A i \in 1..Len(commands) : i \in 1..Len(commands') /\ commands'[i] = commands[i]
    BY <1>1, <2>2, <2>3, AppendProperties, LenProperties
  <2> QED
    BY <2>1, <2>4
<1>8. ASSUME NEW b \in Decisions, NEW saved \in BOOLEAN, Answer(b, saved)
      PROVE  /\ UNCHANGED <<queue, ui, posting, app, hist>>
             /\ \A i \in 1..Len(commands) : i \in 1..Len(commands') /\ commands'[i] = commands[i]
  <2> DEFINE c == <<"answer", Last(dialogs), Resolved(b, saved)>>
  <2>1. UNCHANGED <<queue, ui, posting, app, hist>> /\ commands' = Append(commands, c) /\ dialogs # <<>>
    BY <1>8 DEF Answer
  <2>2. c \in Commands
    <3>1. Last(dialogs) \in Requests
      BY <2>1, LastFront DEF OverlayInv, DialogsOK
    <3>2. Resolved(b, saved) \in Decisions
      BY DEF Resolved, Decisions
    <3> QED
      BY <3>1, <3>2 DEF Commands
  <2> HIDE DEF c
  <2>3. Len(commands) \in Nat /\ Len(commands') = Len(commands) + 1
        /\ \A i \in 1..Len(commands) : commands'[i] = commands[i]
    BY <1>1, <2>1, <2>2, AppendProperties, LenProperties
  <2> QED
    BY <2>1, <2>3
<1>9. CASE \E save \in BOOLEAN : CloseSettings(save)
  BY <1>7, <1>9
<1>10. CASE \E b \in Decisions, saved \in BOOLEAN : Answer(b, saved)
  BY <1>8, <1>10
<1> QED
  BY <1>3, <1>4, <1>5, <1>6, <1>9, <1>10 DEF User

-----------------------------------------------------------------------------

\* Commands that are added: one that pauses or resumes decides; the others, among
\* which is a push-to-talk, leave what was before or resume.
LEMMA SettledConcat ==
  ASSUME NEW cs \in Seq(Commands), NEW t \in Seq(Commands), NEW now, NEW b, Settled(cs \o t, now, b)
  PROVE  (Settled(cs, now, b) /\ Unpaused(t)) \/ Decided(t, b)
<1> DEFINE u == cs \o t
           Decides(c) == (c[1] = "paused" /\ b = c[2]) \/ (c[1] = "ptt" /\ b = FALSE)
<1>1. /\ Len(cs) \in Nat /\ Len(t) \in Nat /\ Len(u) = Len(cs) + Len(t)
      /\ \A i \in 1..(Len(cs) + Len(t)) : u[i] = IF i <= Len(cs) THEN cs[i] ELSE t[i - Len(cs)]
  BY ConcatProperties, LenProperties
<1>2. Settled(u, now, b)
  OBVIOUS
<1> HIDE DEF u
<1>3. \A i \in 1..Len(cs) : i \in 1..Len(u) /\ u[i] = cs[i]
  BY <1>1
<1>4. ASSUME NEW i \in 1..Len(t) PROVE Len(cs) + i \in 1..Len(u) /\ u[Len(cs) + i] = t[i]
  <2>1. Len(cs) + i \in 1..(Len(cs) + Len(t)) /\ ~(Len(cs) + i <= Len(cs))
        /\ (Len(cs) + i) - Len(cs) = i
    BY <1>1
  <2> QED
    BY <1>1, <2>1
<1>5. \A i \in 1..Len(u) : i \in 1..Len(cs) \/ \E k \in 1..Len(t) : i = Len(cs) + k
  <2> SUFFICES ASSUME NEW i \in 1..Len(u), i \notin 1..Len(cs) PROVE \E k \in 1..Len(t) : i = Len(cs) + k
    OBVIOUS
  <2>1. i - Len(cs) \in 1..Len(t) /\ i = Len(cs) + (i - Len(cs))
    BY <1>1
  <2> QED
    BY <2>1
<1>6. \/ Settled(cs, now, b) /\ \A i \in 1..Len(t) : t[i][1] # "paused"
      \/ \E k \in 1..Len(t) : Decides(t[k]) /\ \A j \in (k + 1)..Len(t) : t[j][1] # "paused"
  <2>1. CASE b = now /\ \A i \in 1..Len(u) : u[i][1] # "paused"
    BY <1>3, <1>4, <2>1 DEF Settled, Decided, Unpaused
  <2>2. ASSUME NEW i \in 1..Len(u), Decides(u[i]), \A j \in (i + 1)..Len(u) : u[j][1] # "paused",
               i \in 1..Len(cs)
        PROVE  Settled(cs, now, b) /\ \A j \in 1..Len(t) : t[j][1] # "paused"
    <3>1. Decides(cs[i])
      BY <1>3, <2>2
    <3>2. ASSUME NEW j \in (i + 1)..Len(cs) PROVE cs[j][1] # "paused"
      <4>1. j \in 1..Len(cs) /\ j \in (i + 1)..Len(u)
        BY <1>1, <2>2
      <4> QED
        BY <1>3, <2>2, <4>1
    <3>3. ASSUME NEW j \in 1..Len(t) PROVE t[j][1] # "paused"
      <4>1. Len(cs) + j \in (i + 1)..Len(u)
        BY <1>1, <2>2
      <4> QED
        BY <1>4, <2>2, <4>1
    <3> QED
      BY <2>2, <3>1, <3>2, <3>3 DEF Settled, Decided, Unpaused
  <2>3. ASSUME NEW k \in 1..Len(t), Decides(u[Len(cs) + k]),
               \A j \in (Len(cs) + k + 1)..Len(u) : u[j][1] # "paused"
        PROVE  Decides(t[k]) /\ \A j \in (k + 1)..Len(t) : t[j][1] # "paused"
    <3>1. Decides(t[k])
      BY <1>4, <2>3
    <3>2. ASSUME NEW j \in (k + 1)..Len(t) PROVE t[j][1] # "paused"
      <4>1. j \in 1..Len(t) /\ Len(cs) + j \in (Len(cs) + k + 1)..Len(u)
        BY <1>1, <2>3
      <4> QED
        BY <1>4, <2>3, <4>1
    <3> QED
      BY <3>1, <3>2
  <2> HIDE DEF Decides
  <2>4. ASSUME NEW i \in 1..Len(u), Decides(u[i]), \A j \in (i + 1)..Len(u) : u[j][1] # "paused"
        PROVE  \/ Settled(cs, now, b) /\ \A j \in 1..Len(t) : t[j][1] # "paused"
               \/ \E k \in 1..Len(t) : Decides(t[k]) /\ \A j \in (k + 1)..Len(t) : t[j][1] # "paused"
    BY <1>5, <2>2, <2>3, <2>4
  <2>5. \/ b = now /\ \A i \in 1..Len(u) : u[i][1] # "paused"
        \/ \E i \in 1..Len(u) : Decides(u[i]) /\ \A j \in (i + 1)..Len(u) : u[j][1] # "paused"
    BY <1>2 DEF Settled, Decided, Unpaused, Decides
  <2> QED
    BY <2>1, <2>4, <2>5
<1> QED
  BY <1>6 DEF Decided, Unpaused

\* What decides.
LEMMA DecidedFacts ==
  ASSUME NEW t \in Seq(Commands), NEW b, Decided(t, b)
  PROVE  /\ \E i \in 1..Len(t) : t[i][1] \in {"paused", "ptt"}
         /\ Len(t) # 0 /\ t[Len(t)][1] = "paused" => b = t[Len(t)][2]
         /\ (\A i \in 1..Len(t) : t[i][1] = "paused" => t[i][2] = FALSE) => b = FALSE
<1>1. PICK k \in 1..Len(t) : /\ (t[k][1] = "paused" /\ b = t[k][2]) \/ (t[k][1] = "ptt" /\ b = FALSE)
                            /\ \A j \in (k + 1)..Len(t) : t[j][1] # "paused"
  BY DEF Decided
<1>2. Len(t) \in Nat /\ (k # Len(t) => Len(t) \in (k + 1)..Len(t))
  BY LenProperties
<1>3. ASSUME t[Len(t)][1] = "paused" PROVE b = t[Len(t)][2]
  <2>1. k = Len(t)
    BY <1>1, <1>2, <1>3
  <2>2. t[k][1] # "ptt"
    BY <1>3, <2>1
  <2> QED
    BY <1>1, <2>1, <2>2
<1> QED
  BY <1>1, <1>3

\* The command that is handled next.
LEMMA SettledTail ==
  ASSUME NEW cs \in Seq(Commands), cs # <<>>, NEW now, NEW then, NEW b,
         Settled(Tail(cs), then, b),
         \/ cs[1][1] = "paused" /\ then = cs[1][2]
         \/ cs[1][1] = "ptt" /\ then = FALSE
         \/ cs[1][1] # "paused" /\ then = now
  PROVE  Settled(cs, now, b)
<1>1. /\ Len(cs) \in Nat /\ Len(cs) # 0 /\ Len(Tail(cs)) = Len(cs) - 1
      /\ \A i \in 1..(Len(cs) - 1) : Tail(cs)[i] = cs[i + 1]
  BY HeadTailProperties, LenProperties, EmptySeq
<1>2. \A j \in 2..Len(cs) : j - 1 \in 1..(Len(cs) - 1) /\ Tail(cs)[j - 1] = cs[j]
  <2>1. \A j \in 2..Len(cs) : j - 1 \in 1..(Len(cs) - 1) /\ (j - 1) + 1 = j
    BY <1>1
  <2> QED
    BY <1>1, <2>1
<1>3. ASSUME NEW i \in 1..(Len(cs) - 1),
             (Tail(cs)[i][1] = "paused" /\ b = Tail(cs)[i][2]) \/ (Tail(cs)[i][1] = "ptt" /\ b = FALSE),
             \A j \in (i + 1)..(Len(cs) - 1) : Tail(cs)[j][1] # "paused"
      PROVE  Settled(cs, now, b)
  <2>1. i + 1 \in 1..Len(cs)
        /\ ((cs[i + 1][1] = "paused" /\ b = cs[i + 1][2]) \/ (cs[i + 1][1] = "ptt" /\ b = FALSE))
    BY <1>1, <1>3
  <2>2. ASSUME NEW j \in (i + 1 + 1)..Len(cs) PROVE cs[j][1] # "paused"
    <3>1. j \in 2..Len(cs) /\ j - 1 \in (i + 1)..(Len(cs) - 1)
      BY <1>1
    <3> QED
      BY <1>2, <1>3, <3>1
  <2> QED
    BY <2>1, <2>2 DEF Settled, Decided, Unpaused
<1>4. ASSUME b = then, \A i \in 1..(Len(cs) - 1) : Tail(cs)[i][1] # "paused"
      PROVE  Settled(cs, now, b)
  <2>1. \A j \in 2..Len(cs) : cs[j][1] # "paused"
    BY <1>2, <1>4
  <2>2. 1 \in 1..Len(cs) /\ 1 + 1 = 2 /\ \A j \in 1..Len(cs) : j = 1 \/ j \in 2..Len(cs)
    BY <1>1
  <2>3. CASE (cs[1][1] = "paused" /\ then = cs[1][2]) \/ (cs[1][1] = "ptt" /\ then = FALSE)
    <3>1. \A j \in (1 + 1)..Len(cs) : cs[j][1] # "paused"
      BY <2>1, <2>2
    <3>2. (cs[1][1] = "paused" /\ b = cs[1][2]) \/ (cs[1][1] = "ptt" /\ b = FALSE)
      BY <1>4, <2>3
    <3> QED
      BY <2>2, <3>1, <3>2 DEF Settled, Decided, Unpaused
  <2>4. CASE cs[1][1] # "paused" /\ then = now
    BY <1>4, <2>1, <2>2, <2>4 DEF Settled, Decided, Unpaused
  <2> QED
    BY <2>3, <2>4
<1> QED
  BY <1>1, <1>3, <1>4 DEF Settled, Decided, Unpaused

LEMMA PausedStep == OverlayInv /\ PausedInv /\ [OverlayNext]_overlayVars => PausedInv'
<1> SUFFICES ASSUME OverlayInv, PausedInv, [OverlayNext]_overlayVars, ~hist'.crossed,
                    NEW b, Settled(commands', app'.paused, b)
             PROVE  b = ui'.paused
  BY DEF PausedInv
<1> USE DEF Views
<1>1. commands \in Seq(Commands) /\ Worked(app) /\ HistOK
      /\ ui \in Views
  BY DEF OverlayInv, CommandsOK, UiOK, AppOK
<1>2. CASE commands' = commands /\ app'.paused = app.paused /\ ui'.paused = ui.paused /\ hist'.crossed = hist.crossed
  BY <1>2 DEF PausedInv
<1>3. ASSUME NEW command \in Seq(Commands), Order(command)
      PROVE  /\ Settled(commands \o command, app.paused, b)
             /\ (\A i \in 1..Len(command) : command[i][1] \notin {"paused", "ptt"}) => Settled(commands, app.paused, b)
             /\ Len(command) # 0 /\ command[Len(command)][1] = "paused" => b = command[Len(command)][2]
             /\ (\A i \in 1..Len(command) : command[i][1] = "paused" => command[i][2] = FALSE) =>
                  b = FALSE \/ (Settled(commands, app.paused, b)
                                /\ \A i \in 1..Len(command) : command[i][1] # "paused")
  <2>1. commands' = commands \o command /\ app' = [app EXCEPT !.incidents = app.incidents + 1]
    BY <1>3 DEF Order
  <2>2. app'.paused = app.paused
    BY <1>1, <2>1 DEF Worked
  <2>3. Settled(commands \o command, app.paused, b)
    BY <2>1, <2>2
  <2> DEFINE now == app.paused
  <2>4. commands \in Seq(Commands) /\ Settled(commands \o command, now, b)
    BY <1>1, <2>3
  <2> HIDE DEF now
  <2>5. /\ (\A i \in 1..Len(command) : command[i][1] \notin {"paused", "ptt"}) => Settled(commands, now, b)
        /\ Len(command) # 0 /\ command[Len(command)][1] = "paused" => b = command[Len(command)][2]
        /\ (\A i \in 1..Len(command) : command[i][1] = "paused" => command[i][2] = FALSE) =>
             b = FALSE \/ (Settled(commands, now, b) /\ \A i \in 1..Len(command) : command[i][1] # "paused")
    <3> DEFINE cs == commands
    <3>1. cs \in Seq(Commands) /\ command \in Seq(Commands) /\ Settled(cs \o command, now, b)
      BY <1>3, <2>4
    <3> HIDE DEF cs
    <3>2. (Settled(cs, now, b) /\ Unpaused(command)) \/ Decided(command, b)
      BY <3>1, SettledConcat
    <3>3. CASE Settled(cs, now, b) /\ Unpaused(command)
      <4>1. /\ Settled(cs, now, b)
            /\ \A i \in 1..Len(command) : command[i][1] # "paused"
            /\ ~(Len(command) # 0 /\ command[Len(command)][1] = "paused")
        <5>1. Len(command) # 0 => Len(command) \in 1..Len(command)
          BY <3>1, LenProperties
        <5> QED
          BY <3>3, <5>1 DEF Unpaused
      <4> QED
        BY <4>1 DEF cs
    <3>4. CASE Decided(command, b)
      BY <3>1, <3>4, DecidedFacts
    <3> QED
      BY <3>2, <3>3, <3>4
  <2> QED
    BY <2>3, <2>5 DEF now
<1>4. CASE Pause
  <2> DEFINE command == <<<<"paused", ~ui.paused>>>>
  <2>1. command \in Seq(Commands) /\ Len(command) = 1 /\ command[1][1] = "paused" /\ command[1][2] = ~ui.paused
    <3>1. <<"paused", ~ui.paused>> \in Commands
      BY <1>1 DEF Commands
    <3> QED
      BY <3>1
  <2>2. Order(command) /\ ui'.paused = ~ui.paused
    BY <1>1, <1>4 DEF Pause
  <2> HIDE DEF command
  <2>3. b = command[Len(command)][2]
    <3>1. Len(command) # 0 /\ command[Len(command)][1] = "paused"
      BY <2>1
    <3> QED
      BY <1>3, <2>1, <2>2, <3>1
  <2> QED
    BY <2>1, <2>2, <2>3
<1>5. CASE PushToTalk
  <2> DEFINE command == (IF ui.paused THEN <<<<"paused", FALSE>>>> ELSE <<>>) \o <<<<"ptt">>>>
  <2>1. /\ command \in Seq(Commands)
        /\ \A i \in 1..Len(command) : command[i][1] = "paused" => command[i][2] = FALSE
        /\ ui.paused => 1 \in 1..Len(command) /\ command[1][1] = "paused"
    <3> HIDE DEF command
    <3>1. \A n \in Nat : n \in 1..n => 1 \in 1..n
      OBVIOUS
    <3> QED
      BY <1>1, <3>1, PttCommand, LenProperties DEF command
  <2>2. Order(command) /\ ui'.paused = FALSE /\ hist' = hist
    BY <1>1, <1>5 DEF PushToTalk
  <2> HIDE DEF command
  <2>3. b = FALSE \/ (Settled(commands, app.paused, b) /\ ~ui.paused)
    BY <1>1, <1>3, <2>1, <2>2
  <2> QED
    BY <1>1, <2>2, <2>3 DEF PausedInv
<1>6. CASE Stop
  <2>1. <<"cancel">> \in Commands
    BY DEF Commands
  <2> DEFINE command == <<<<"cancel">>>>
  <2>2. command \in Seq(Commands) /\ \A i \in 1..Len(command) : command[i][1] \notin {"paused", "ptt"}
    BY <2>1
  <2>3. Order(command) /\ UNCHANGED <<ui, hist>>
    BY <1>6 DEF Stop
  <2> HIDE DEF command
  <2> QED
    BY <1>3, <2>2, <2>3 DEF PausedInv
<1>7. CASE OpenSettings
  <2>1. <<>> \in Seq(Commands) /\ \A i \in 1..Len(<<>>) : (<<>>)[i][1] \notin {"paused", "ptt"}
    <3>1. <<>> \in Seq(Commands) /\ Len(<<>>) = 0
      BY EmptySeq
    <3> QED
      BY <3>1
  <2>2. Order(<<>>) /\ UNCHANGED <<ui, hist>>
    BY <1>7 DEF OpenSettings
  <2> QED
    BY <1>3, <2>1, <2>2 DEF PausedInv
\* A command that neither pauses nor resumes.
<1>15. ASSUME NEW c \in Commands, c[1] \notin {"paused", "ptt"}, commands' = Append(commands, c),
              UNCHANGED <<ui, app>>, hist'.crossed = hist.crossed
       PROVE  b = ui'.paused
  <2> DEFINE t == <<c>>
  <2>1. Append(commands, c) = commands \o t /\ t \in Seq(Commands) /\ Len(t) = 1 /\ t[1] = c
    BY <1>1, AppendIsConcat
  <2>2. Settled(commands \o t, app.paused, b)
    BY <1>15, <2>1
  <2>3. \A i \in 1..Len(t) : t[i][1] \notin {"paused", "ptt"}
    BY <1>15, <2>1
  <2> HIDE DEF t
  <2>4. Settled(commands, app.paused, b)
    <3>1. Settled(commands, app.paused, b) \/ Decided(t, b)
      BY <1>1, <2>1, <2>2, SettledConcat
    <3> QED
      BY <2>1, <2>3, <3>1, DecidedFacts
  <2> QED
    BY <1>15, <2>4 DEF PausedInv
<1>8. ASSUME NEW save \in BOOLEAN, CloseSettings(save) PROVE b = ui'.paused
  <2> DEFINE c == <<"settings">>
  <2>1. c \in Commands /\ c[1] \notin {"paused", "ptt"}
    BY DEF Commands
  <2>2. UNCHANGED <<ui, app>> /\ hist'.crossed = hist.crossed
        /\ commands' \in {commands, Append(commands, c)}
    BY <1>1, <1>8 DEF CloseSettings, HistOK, Histories
  <2> HIDE DEF c
  <2> QED
    BY <1>2, <1>15, <2>1, <2>2
<1>9. ASSUME NEW d \in Decisions, NEW saved \in BOOLEAN, Answer(d, saved) PROVE b = ui'.paused
  <2> DEFINE c == <<"answer", Last(dialogs), Resolved(d, saved)>>
  <2>1. UNCHANGED <<ui, app, hist>> /\ commands' = Append(commands, c) /\ dialogs # <<>>
    BY <1>9 DEF Answer
  <2>2. c \in Commands /\ c[1] = "answer"
    <3>1. Last(dialogs) \in Requests
      BY <2>1, LastFront DEF OverlayInv, DialogsOK
    <3>2. Resolved(d, saved) \in Decisions
      BY DEF Resolved, Decisions
    <3> QED
      BY <3>1, <3>2 DEF Commands
  <2> HIDE DEF c
  <2> QED
    BY <1>15, <2>1, <2>2
<1>10. CASE Drain
  <2> DEFINE e == Head(queue)
  <2>1. /\ UNCHANGED <<commands, app>> /\ ui' = Applied(ui, e)
        /\ hist'.crossed = (hist.crossed \/ (e = State("muted") /\ ~ui.paused))
    BY <1>1, <1>10 DEF Drain, HistOK, Histories
  <2>2. e \in Events
    BY <1>10, HeadTailProperties DEF OverlayInv, QueueOK, Drain
  <2> HIDE DEF e
  <2>3. ui'.paused = (ui.paused \/ (e.kind = "STATE" /\ e.what = "muted"))
    BY <1>1, <2>1 DEF Applied
  <2>4. e.kind = "STATE" /\ e.what = "muted" => e = State("muted")
    BY <2>2, KindOf DEF State, Event
  <2>5. ui'.paused = ui.paused /\ ~hist.crossed
    BY <1>1, <2>1, <2>3, <2>4
  <2> QED
    BY <2>1, <2>5 DEF PausedInv
<1>11. CASE Post
  <2>1. hist'.crossed = hist.crossed /\ UNCHANGED <<ui, commands, app>>
    BY <1>11, PostNotes DEF Post
  <2> QED
    BY <1>2, <2>1
<1>12. CASE Obey
  <2> DEFINE c == Head(commands)
  <2>1. commands # <<>> /\ commands' = Tail(commands) /\ c \in Commands /\ c = commands[1]
    BY <1>1, <1>12, HeadTailProperties DEF Obey
  <2>2. hist'.crossed = hist.crossed /\ ui' = ui
    BY <1>1, <1>12, ObeyCases DEF Decide, Handles, HistOK, Histories
  <2>3. /\ app'.paused \in BOOLEAN
        /\ \/ c[1] = "paused" /\ app'.paused = c[2]
           \/ c[1] = "ptt" /\ app'.paused = FALSE
           \/ c[1] # "paused" /\ app'.paused = app.paused
    <3>1. \/ c[1] = "paused" /\ SetPaused(c[2])
          \/ c[1] = "ptt" /\ Talk
          \/ c[1] = "cancel" /\ Cancel
          \/ c[1] = "settings" /\ ChangeSettings
          \/ c[1] = "answer" /\ Decide(c[2], c[3])
      BY <1>12 DEF Obey
    <3>2. app'.paused \in BOOLEAN
      BY <1>12, ObeyType DEF OverlayInv, AppOK, Worked
    <3>3. ASSUME SetPaused(c[2]) PROVE app'.paused = c[2]
      <4>1. app' = [app EXCEPT !.paused = c[2], !.ptt = FALSE,
                               !.phase = IF c[2] /\ app.phase \in Hearing THEN "idle" ELSE app.phase]
        BY <3>3 DEF SetPaused, Handles
      <4> QED
        BY <1>1, <4>1 DEF Worked
    <3>4. ASSUME Talk PROVE app'.paused = FALSE \/ app'.paused = app.paused
      <4>1. CASE app' = app
        BY <4>1
      <4>2. ASSUME NEW t \in Attempts(Cancelled([app EXCEPT !.paused = FALSE, !.ptt = TRUE])),
                   app' = t.app
            PROVE  app'.paused = FALSE
        <5> DEFINE y == [app EXCEPT !.paused = FALSE, !.ptt = TRUE]
                   z == Cancelled(y)
        <5>1. Worked(y) /\ y.paused = FALSE /\ t \in Attempts(z)
          BY <1>1, <4>2 DEF Worked
        <5> HIDE DEF y
        <5>2. z.paused = FALSE /\ Worked(z)
          BY <5>1, CancelledType DEF Cancelled, Worked
        <5> HIDE DEF z
        <5> QED
          BY <4>2, <5>1, <5>2, AttemptFacts
      <4> QED
        BY <3>4, <4>1, <4>2 DEF Talk, Handles
    <3>5. ASSUME Cancel PROVE app'.paused = app.paused
      <4> DEFINE y == [app EXCEPT !.ptt = FALSE]
      <4>1. app' = Cancelled(y)
        BY <3>5 DEF Cancel, Handles
      <4>2. Worked(y) /\ y.paused = app.paused
        BY <1>1 DEF Worked
      <4> HIDE DEF y
      <4> QED
        BY <4>1, <4>2 DEF Cancelled, Worked
    <3>6. ASSUME ChangeSettings PROVE app'.paused = app.paused
      <4>1. app' = app \/ \E l, p : app' = [app EXCEPT !.lacks = l, !.phase = p]
        BY <3>6 DEF ChangeSettings, Handles
      <4> QED
        BY <1>1, <4>1 DEF Worked
    <3>7. ASSUME Decide(c[2], c[3]) PROVE app'.paused = app.paused
      BY <3>7 DEF Decide, Handles
    <3> QED
      BY <3>1, <3>2, <3>3, <3>4, <3>5, <3>6, <3>7
  <2> HIDE DEF c
  <2>4. Settled(commands, app.paused, b)
    BY <1>1, <2>1, <2>3, SettledTail
  <2> QED
    BY <2>2, <2>4 DEF PausedInv
<1>13. CASE Worker /\ ~Post /\ ~Obey
  <2>1. UNCHANGED <<ui, commands, hist>> /\ app'.paused = app.paused
    BY <1>13, TellsCases, ApprovalCase DEF Tells, Handles
  <2> QED
    BY <1>2, <2>1
<1>14. CASE UNCHANGED overlayVars
  BY <1>2, <1>14 DEF overlayVars
<1> QED
  BY <1>4, <1>5, <1>6, <1>7, <1>8, <1>9, <1>10, <1>11, <1>12, <1>13, <1>14 DEF OverlayNext, User

\* For any capacity of the queue and any number of turns: once everything is
\* posted, shown and handled, the state shown is the last one told and the menu
\* offers what the worker would do, but for the cases the two properties name.
THEOREM ViewAgreesAtRest == OverlaySpec => []ViewAgrees
<1>1. OverlayInit => ShownInv /\ PausedInv
  <2> SUFFICES ASSUME OverlayInit PROVE ShownInv /\ PausedInv
    OBVIOUS
  <2>1. /\ queue = <<>> /\ commands = <<>> /\ Len(<<>>) = 0 /\ ui.state = "idle" /\ hist.said = "idle"
        /\ app.paused = FALSE /\ ui.paused = FALSE
    BY EmptySeq DEF OverlayInit
  <2>2. ShownInv
    BY <2>1 DEF ShownInv, Final
  <2>3. PausedInv
    <3>1. \A b : Settled(commands, FALSE, b) => b = FALSE
      <4>1. \A i : i \notin 1..0
        OBVIOUS
      <4> QED
        BY <2>1, <4>1 DEF Settled, Decided, Unpaused
    <3> QED
      BY <2>1, <3>1 DEF PausedInv
  <2> QED
    BY <2>2, <2>3
<1>2. OverlayInv /\ ShownInv /\ [OverlayNext]_overlayVars => ShownInv'
  <2>1. ShownInv /\ UNCHANGED overlayVars => ShownInv'
    BY DEF overlayVars, ShownInv
  <2> QED
    BY <2>1, WorkerShown, UserShown, DrainShown DEF OverlayNext
<1>3. OverlayInv /\ ShownInv /\ PausedInv => ViewAgrees
  <2> SUFFICES ASSUME ShownInv, PausedInv, Quiet PROVE StateShown /\ PauseAgrees
    BY DEF ViewAgrees, StateShown, PauseAgrees
  <2>1. queue = <<>> /\ posting = <<>> /\ commands = <<>> /\ Len(<<>>) = 0
    BY EmptySeq DEF Quiet
  <2>2. Final(queue, ui.state, ui.state) /\ Settled(commands, app.paused, app.paused)
    BY <2>1 DEF Final, Settled, Unpaused
  <2> QED
    BY <2>1, <2>2 DEF ShownInv, PausedInv, StateShown, PauseAgrees
<1> QED
  BY <1>1, <1>2, <1>3, PausedStep, OverlayInvHolds, PTL DEF OverlaySpec

-----------------------------------------------------------------------------
(* The overlay: the pieces of replies as sequences of chunks.               *)

ChunkOfEvent(e) == IF e.kind = "DELTA" THEN e.what ELSE <<>>
ChunkOfMessage(m) == IF m.kind = "ASSISTANT" THEN m.text ELSE <<>>
EventChunks(q) == [i \in 1..Len(q) |-> ChunkOfEvent(q[i])]
MessageChunks(ms) == [i \in 1..Len(ms) |-> ChunkOfMessage(ms[i])]

Nums(w) == {w[k][2] : k \in DOMAIN w}
NumsOf(c) == UNION {Nums(c[i]) : i \in DOMAIN c}
Increasing(w) == \A k, l \in DOMAIN w : k < l => w[k][2] < w[l][2]
AllBelow(A, B) == \A a \in A, b \in B : a < b
Ordered(c) ==
  /\ \A i \in DOMAIN c : Increasing(c[i])
  /\ \A i, j \in DOMAIN c : i < j => AllBelow(Nums(c[i]), Nums(c[j]))

LEMMA EventChunkType == ASSUME NEW e \in Events PROVE ChunkOfEvent(e) \in Pieces
<1>1. <<>> \in Pieces
  BY EmptySeq DEF Pieces
<1> QED
  BY <1>1, KindOf DEF ChunkOfEvent

LEMMA MessageChunkType == ASSUME NEW m \in Messages PROVE ChunkOfMessage(m) \in Pieces
<1>1. <<>> \in Pieces
  BY EmptySeq DEF Pieces
<1> QED
  BY <1>1 DEF ChunkOfMessage, Messages

LEMMA EventChunksType ==
  ASSUME NEW q \in Seq(Events)
  PROVE  /\ EventChunks(q) \in Seq(Pieces) /\ Len(EventChunks(q)) = Len(q)
         /\ DOMAIN EventChunks(q) = 1..Len(q)
         /\ \A i \in 1..Len(q) : EventChunks(q)[i] = ChunkOfEvent(q[i])
<1>1. Len(q) \in Nat /\ \A i \in 1..Len(q) : ChunkOfEvent(q[i]) \in Pieces
  BY LenProperties, ElementOfSeq, EventChunkType
<1> QED
  BY <1>1, IsASeq DEF EventChunks

LEMMA MessageChunksType ==
  ASSUME NEW q \in Seq(Messages)
  PROVE  /\ MessageChunks(q) \in Seq(Pieces) /\ Len(MessageChunks(q)) = Len(q)
         /\ DOMAIN MessageChunks(q) = 1..Len(q)
         /\ \A i \in 1..Len(q) : MessageChunks(q)[i] = ChunkOfMessage(q[i])
<1>1. Len(q) \in Nat /\ \A i \in 1..Len(q) : ChunkOfMessage(q[i]) \in Pieces
  BY LenProperties, ElementOfSeq, MessageChunkType
<1> QED
  BY <1>1, IsASeq DEF MessageChunks

LEMMA EventChunksAppend ==
  ASSUME NEW q \in Seq(Events), NEW e \in Events
  PROVE  EventChunks(Append(q, e)) = Append(EventChunks(q), ChunkOfEvent(e))
<1>1. /\ EventChunks(q) \in Seq(Pieces) /\ Len(EventChunks(q)) = Len(q) /\ ChunkOfEvent(e) \in Pieces
      /\ Len(q) \in Nat
  BY EventChunksType, EventChunkType, LenProperties
<1>2. Append(q, e) \in Seq(Events) /\ Len(Append(q, e)) = Len(q) + 1 /\ Append(q, e)[Len(q) + 1] = e
      /\ \A i \in 1..Len(q) : Append(q, e)[i] = q[i]
  BY AppendProperties
<1> DEFINE a == EventChunks(Append(q, e))
           b == Append(EventChunks(q), ChunkOfEvent(e))
<1>3. a \in Seq(Pieces) /\ Len(a) = Len(q) + 1 /\ \A i \in 1..(Len(q) + 1) : a[i] = ChunkOfEvent(Append(q, e)[i])
  BY <1>2, EventChunksType
<1>4. b \in Seq(Pieces) /\ Len(b) = Len(q) + 1 /\ b[Len(q) + 1] = ChunkOfEvent(e)
      /\ \A i \in 1..Len(q) : b[i] = EventChunks(q)[i]
  BY <1>1, AppendProperties
<1>5. \A i \in 1..Len(q) : EventChunks(q)[i] = ChunkOfEvent(q[i])
  BY EventChunksType
<1> HIDE DEF a, b
<1>6. ASSUME NEW i \in 1..(Len(q) + 1) PROVE a[i] = b[i]
  <2>1. i \in 1..Len(q) \/ i = Len(q) + 1
    BY <1>1
  <2> QED
    BY <1>2, <1>3, <1>4, <1>5, <2>1
<1>7. a = b
  BY <1>3, <1>4, <1>6, SeqEqual
<1> QED
  BY <1>7 DEF a, b

LEMMA MessageChunksAppend ==
  ASSUME NEW q \in Seq(Messages), NEW e \in Messages
  PROVE  MessageChunks(Append(q, e)) = Append(MessageChunks(q), ChunkOfMessage(e))
<1>1. /\ MessageChunks(q) \in Seq(Pieces) /\ Len(MessageChunks(q)) = Len(q) /\ ChunkOfMessage(e) \in Pieces
      /\ Len(q) \in Nat
  BY MessageChunksType, MessageChunkType, LenProperties
<1>2. Append(q, e) \in Seq(Messages) /\ Len(Append(q, e)) = Len(q) + 1 /\ Append(q, e)[Len(q) + 1] = e
      /\ \A i \in 1..Len(q) : Append(q, e)[i] = q[i]
  BY AppendProperties
<1> DEFINE a == MessageChunks(Append(q, e))
           b == Append(MessageChunks(q), ChunkOfMessage(e))
<1>3. a \in Seq(Pieces) /\ Len(a) = Len(q) + 1 /\ \A i \in 1..(Len(q) + 1) : a[i] = ChunkOfMessage(Append(q, e)[i])
  BY <1>2, MessageChunksType
<1>4. b \in Seq(Pieces) /\ Len(b) = Len(q) + 1 /\ b[Len(q) + 1] = ChunkOfMessage(e)
      /\ \A i \in 1..Len(q) : b[i] = MessageChunks(q)[i]
  BY <1>1, AppendProperties
<1>5. \A i \in 1..Len(q) : MessageChunks(q)[i] = ChunkOfMessage(q[i])
  BY MessageChunksType
<1> HIDE DEF a, b
<1>6. ASSUME NEW i \in 1..(Len(q) + 1) PROVE a[i] = b[i]
  <2>1. i \in 1..Len(q) \/ i = Len(q) + 1
    BY <1>1
  <2> QED
    BY <1>2, <1>3, <1>4, <1>5, <2>1
<1>7. a = b
  BY <1>3, <1>4, <1>6, SeqEqual
<1> QED
  BY <1>7 DEF a, b

LEMMA EventChunksTail ==
  ASSUME NEW q \in Seq(Events), q # <<>>
  PROVE  EventChunks(Tail(q)) = Tail(EventChunks(q)) /\ EventChunks(q) # <<>> /\ Head(EventChunks(q)) = ChunkOfEvent(Head(q))
<1>1. /\ Len(q) \in Nat /\ Len(q) # 0 /\ Tail(q) \in Seq(Events) /\ Len(Tail(q)) = Len(q) - 1
      /\ \A i \in 1..(Len(q) - 1) : Tail(q)[i] = q[i + 1]
      /\ Head(q) = q[1]
  BY HeadTailProperties, LenProperties, EmptySeq
<1> DEFINE c == EventChunks(q)
           a == EventChunks(Tail(q))
           b == Tail(c)
<1>2. c \in Seq(Pieces) /\ Len(c) = Len(q) /\ \A i \in 1..Len(q) : c[i] = ChunkOfEvent(q[i])
  BY EventChunksType
<1>3. a \in Seq(Pieces) /\ Len(a) = Len(q) - 1 /\ \A i \in 1..(Len(q) - 1) : a[i] = ChunkOfEvent(Tail(q)[i])
  BY <1>1, EventChunksType
<1> HIDE DEF c, a
<1>4. c # <<>> /\ Head(c) = c[1]
  BY <1>1, <1>2, EmptySeq
<1>5. b \in Seq(Pieces) /\ Len(b) = Len(q) - 1 /\ \A i \in 1..(Len(q) - 1) : b[i] = c[i + 1]
  BY <1>2, <1>4, HeadTailProperties
<1> HIDE DEF b
<1>6. ASSUME NEW i \in 1..(Len(q) - 1) PROVE a[i] = b[i]
  <2>1. i + 1 \in 1..Len(q)
    BY <1>1
  <2> QED
    BY <1>1, <1>2, <1>3, <1>5, <2>1
<1>7. a = b
  BY <1>3, <1>5, <1>6, SeqEqual
<1>8. 1 \in 1..Len(q)
  BY <1>1
<1> QED
  BY <1>1, <1>2, <1>4, <1>7, <1>8 DEF a, b, c

\* Chunks appended at the end, appended to the last one, and taken from the front.
LEMMA NumsFacts ==
  ASSUME NEW v \in Pieces, NEW w \in Pieces
  PROVE  /\ Nums(v) \subseteq Nat
         /\ Nums(v \o w) = Nums(v) \union Nums(w)
         /\ Increasing(v) /\ Increasing(w) /\ AllBelow(Nums(v), Nums(w)) => Increasing(v \o w)
<1>1. /\ Len(v) \in Nat /\ Len(w) \in Nat /\ DOMAIN v = 1..Len(v) /\ DOMAIN w = 1..Len(w)
      /\ v \o w \in Pieces /\ DOMAIN (v \o w) = 1..(Len(v) + Len(w))
      /\ \A i \in 1..(Len(v) + Len(w)) : (v \o w)[i] = IF i <= Len(v) THEN v[i] ELSE w[i - Len(v)]
  BY ConcatProperties, LenProperties DEF Pieces
<1>2. \A k \in DOMAIN v : v[k] \in Nat \X Nat
  BY <1>1, ElementOfSeq DEF Pieces
<1>3. Nums(v) \subseteq Nat
  BY <1>2 DEF Nums
<1>4. \A k \in 1..Len(w) : Len(v) + k \in 1..(Len(v) + Len(w)) /\ (v \o w)[Len(v) + k] = w[k]
  <2> SUFFICES ASSUME NEW k \in 1..Len(w)
               PROVE  Len(v) + k \in 1..(Len(v) + Len(w)) /\ (v \o w)[Len(v) + k] = w[k]
    OBVIOUS
  <2>1. Len(v) + k \in 1..(Len(v) + Len(w)) /\ ~(Len(v) + k <= Len(v)) /\ (Len(v) + k) - Len(v) = k
    BY <1>1
  <2> QED
    BY <1>1, <2>1
<1>5. \A k \in 1..Len(v) : k \in 1..(Len(v) + Len(w)) /\ (v \o w)[k] = v[k]
  BY <1>1
<1>6. \A k \in 1..(Len(v) + Len(w)) : k \in 1..Len(v) \/ k - Len(v) \in 1..Len(w)
  BY <1>1
<1>7. Nums(v \o w) = Nums(v) \union Nums(w)
  <2>1. Nums(v \o w) \subseteq Nums(v) \union Nums(w)
    BY <1>1, <1>6 DEF Nums
  <2>2. Nums(v) \subseteq Nums(v \o w)
    BY <1>1, <1>5 DEF Nums
  <2>3. Nums(w) \subseteq Nums(v \o w)
    BY <1>1, <1>4 DEF Nums
  <2> QED
    BY <2>1, <2>2, <2>3
<1>8. ASSUME Increasing(v), Increasing(w), AllBelow(Nums(v), Nums(w)),
             NEW k \in 1..(Len(v) + Len(w)), NEW l \in 1..(Len(v) + Len(w)), k < l
      PROVE  (v \o w)[k][2] < (v \o w)[l][2]
  <2>1. CASE l <= Len(v)
    <3>1. k \in 1..Len(v) /\ l \in 1..Len(v)
      BY <1>1, <1>8, <2>1
    <3> QED
      BY <1>1, <1>5, <1>8, <3>1 DEF Increasing
  <2>2. CASE k <= Len(v) /\ ~(l <= Len(v))
    <3>1. k \in 1..Len(v) /\ l - Len(v) \in 1..Len(w) /\ (v \o w)[k] = v[k] /\ (v \o w)[l] = w[l - Len(v)]
      BY <1>1, <1>8, <2>2
    <3>2. v[k][2] \in Nums(v) /\ w[l - Len(v)][2] \in Nums(w)
      BY <1>1, <3>1 DEF Nums
    <3> QED
      BY <1>8, <3>1, <3>2 DEF AllBelow
  <2>3. CASE ~(k <= Len(v))
    <3>1. k - Len(v) \in 1..Len(w) /\ l - Len(v) \in 1..Len(w) /\ k - Len(v) < l - Len(v)
          /\ (v \o w)[k] = w[k - Len(v)] /\ (v \o w)[l] = w[l - Len(v)]
      BY <1>1, <1>8, <2>3
    <3> QED
      BY <1>1, <1>8, <3>1 DEF Increasing
  <2> QED
    BY <1>1, <2>1, <2>2, <2>3
<1>9. Increasing(v) /\ Increasing(w) /\ AllBelow(Nums(v), Nums(w)) => Increasing(v \o w)
  BY <1>1, <1>8 DEF Increasing
<1> QED
  BY <1>3, <1>7, <1>9

LEMMA ChunksAppend ==
  ASSUME NEW c \in Seq(Pieces), NEW w \in Pieces
  PROVE  /\ NumsOf(Append(c, w)) = NumsOf(c) \union Nums(w)
         /\ Ordered(c) /\ Increasing(w) /\ AllBelow(NumsOf(c), Nums(w)) => Ordered(Append(c, w))
<1>1. /\ Len(c) \in Nat /\ DOMAIN c = 1..Len(c) /\ DOMAIN Append(c, w) = 1..(Len(c) + 1)
      /\ Append(c, w)[Len(c) + 1] = w /\ \A i \in 1..Len(c) : Append(c, w)[i] = c[i]
  BY AppendProperties, LenProperties
<1>2. \A i : i \in 1..(Len(c) + 1) <=> i \in 1..Len(c) \/ i = Len(c) + 1
  BY <1>1
<1>3. NumsOf(Append(c, w)) = NumsOf(c) \union Nums(w)
  BY <1>1, <1>2 DEF NumsOf
<1>4. ASSUME Ordered(c), Increasing(w), AllBelow(NumsOf(c), Nums(w)) PROVE Ordered(Append(c, w))
  <2>1. \A i \in 1..Len(c) : Nums(c[i]) \subseteq NumsOf(c)
    BY <1>1 DEF NumsOf
  <2>2. \A i \in 1..(Len(c) + 1) : Increasing(Append(c, w)[i])
    BY <1>1, <1>2, <1>4 DEF Ordered
  <2>3. ASSUME NEW i \in 1..(Len(c) + 1), NEW j \in 1..(Len(c) + 1), i < j
        PROVE  AllBelow(Nums(Append(c, w)[i]), Nums(Append(c, w)[j]))
    <3>1. i \in 1..Len(c)
      BY <1>1, <2>3
    <3>2. CASE j \in 1..Len(c)
      BY <1>1, <1>4, <2>3, <3>1, <3>2 DEF Ordered
    <3>3. CASE j = Len(c) + 1
      BY <1>1, <1>4, <2>1, <3>1, <3>3 DEF AllBelow
    <3> QED
      BY <1>2, <3>2, <3>3
  <2> QED
    BY <1>1, <2>2, <2>3 DEF Ordered
<1> QED
  BY <1>3, <1>4

LEMMA ChunksExtend ==
  ASSUME NEW c \in Seq(Pieces), c # <<>>, NEW w \in Pieces, NEW d \in Seq(Pieces), Len(d) = Len(c),
         d[Len(c)] = c[Len(c)] \o w, \A i \in 1..Len(c) : i # Len(c) => d[i] = c[i]
  PROVE  /\ NumsOf(d) = NumsOf(c) \union Nums(w)
         /\ Ordered(c) /\ Increasing(w) /\ AllBelow(NumsOf(c), Nums(w)) => Ordered(d)
<1> DEFINE n == Len(c)
<1>1. /\ n \in Nat /\ n \in 1..n /\ DOMAIN c = 1..n /\ DOMAIN d = 1..n
      /\ d[n] = c[n] \o w /\ \A i \in 1..n : i # n => d[i] = c[i]
      /\ c[n] \in Pieces
  BY LenProperties, EmptySeq, ElementOfSeq
<1> HIDE DEF n
<1>2. /\ Nums(d[n]) = Nums(c[n]) \union Nums(w)
      /\ Increasing(c[n]) /\ Increasing(w) /\ AllBelow(Nums(c[n]), Nums(w)) => Increasing(d[n])
  BY <1>1, NumsFacts
<1>3. NumsOf(d) = NumsOf(c) \union Nums(w)
  <2>1. ASSUME NEW x PROVE x \in NumsOf(d) <=> x \in NumsOf(c) \/ x \in Nums(w)
    <3>1. x \in NumsOf(d) <=> \E i \in 1..n : x \in Nums(d[i])
      BY <1>1 DEF NumsOf
    <3>2. x \in NumsOf(c) <=> \E i \in 1..n : x \in Nums(c[i])
      BY <1>1 DEF NumsOf
    <3> QED
      BY <1>1, <1>2, <3>1, <3>2
  <2> QED
    BY <2>1
<1>4. ASSUME Ordered(c), Increasing(w), AllBelow(NumsOf(c), Nums(w)) PROVE Ordered(d)
  <2>1. \A i \in 1..n : Nums(c[i]) \subseteq NumsOf(c)
    BY <1>1 DEF NumsOf
  <2>2. \A i \in 1..n : Increasing(d[i])
    <3>1. AllBelow(Nums(c[n]), Nums(w))
      BY <1>1, <1>4, <2>1 DEF AllBelow
    <3> QED
      BY <1>1, <1>2, <1>4, <3>1 DEF Ordered
  <2>3. ASSUME NEW i \in 1..n, NEW j \in 1..n, i < j PROVE AllBelow(Nums(d[i]), Nums(d[j]))
    <3>4. i # n /\ d[i] = c[i]
      BY <1>1, <2>3
    <3>5. AllBelow(Nums(c[i]), Nums(c[j]))
      BY <1>1, <1>4, <2>3 DEF Ordered
    <3>1. i # n /\ d[i] = c[i] /\ AllBelow(Nums(c[i]), Nums(c[j]))
      BY <3>4, <3>5
    <3>2. CASE j # n
      BY <1>1, <3>1, <3>2
    <3>3. CASE j = n
      BY <1>1, <1>2, <1>4, <2>1, <3>1, <3>3 DEF AllBelow
    <3> QED
      BY <3>2, <3>3
  <2> QED
    BY <1>1, <2>2, <2>3 DEF Ordered
<1> QED
  BY <1>3, <1>4

LEMMA ChunksTail ==
  ASSUME NEW c \in Seq(Pieces), c # <<>>
  PROVE  /\ NumsOf(c) = Nums(Head(c)) \union NumsOf(Tail(c))
         /\ Ordered(c) => Ordered(Tail(c)) /\ Increasing(Head(c)) /\ AllBelow(Nums(Head(c)), NumsOf(Tail(c)))
<1> DEFINE d == Tail(c)
           n == Len(c)
<1>1. /\ n \in Nat /\ n # 0 /\ DOMAIN c = 1..n /\ DOMAIN d = 1..(n - 1)
      /\ \A i \in 1..(n - 1) : d[i] = c[i + 1] /\ i + 1 \in 1..n
      /\ Head(c) = c[1] /\ 1 \in 1..n
  BY HeadTailProperties, LenProperties, EmptySeq
<1> HIDE DEF d, n
<1>2. ASSUME NEW j \in 1..n, j # 1 PROVE j - 1 \in 1..(n - 1) /\ d[j - 1] = c[j]
  <2>1. j - 1 \in 1..(n - 1) /\ (j - 1) + 1 = j
    BY <1>1, <1>2
  <2> QED
    BY <1>1, <2>1
<1>3. ASSUME NEW x PROVE x \in NumsOf(d) <=> \E i \in 1..n : i # 1 /\ x \in Nums(c[i])
  <2>1. x \in NumsOf(d) <=> \E i \in 1..(n - 1) : x \in Nums(d[i])
    BY <1>1 DEF NumsOf
  <2>2. \A i \in 1..(n - 1) : i + 1 # 1
    BY <1>1
  <2> QED
    BY <1>1, <1>2, <2>1, <2>2
<1>4. ASSUME NEW x PROVE x \in NumsOf(c) <=> \E i \in 1..n : x \in Nums(c[i])
  BY <1>1 DEF NumsOf
<1>5. NumsOf(c) = Nums(Head(c)) \union NumsOf(d)
  BY <1>1, <1>3, <1>4
<1>6. ASSUME Ordered(c) PROVE Ordered(d) /\ Increasing(Head(c)) /\ AllBelow(Nums(Head(c)), NumsOf(d))
  <2>1. Increasing(Head(c))
    BY <1>1, <1>6 DEF Ordered
  <2>2. \A i \in 1..(n - 1) : Increasing(d[i])
    BY <1>1, <1>6 DEF Ordered
  <2>3. \A i, j \in 1..(n - 1) : i < j => AllBelow(Nums(d[i]), Nums(d[j]))
    <3>1. \A i, j \in 1..(n - 1) : i < j => i + 1 < j + 1
      BY <1>1
    <3> QED
      BY <1>1, <1>6, <3>1 DEF Ordered
  <2>4. \A i \in 1..n : i # 1 => AllBelow(Nums(c[1]), Nums(c[i]))
    <3>1. \A i \in 1..n : i # 1 => 1 < i
      BY <1>1
    <3> QED
      BY <1>1, <1>6, <3>1 DEF Ordered
  <2>5. AllBelow(Nums(Head(c)), NumsOf(d))
    BY <1>1, <1>3, <2>4 DEF AllBelow
  <2> QED
    BY <1>1, <2>1, <2>2, <2>3, <2>5 DEF Ordered
<1> QED
  BY <1>5, <1>6 DEF d

-----------------------------------------------------------------------------
(* What the worker's handlers post, as far as replies and questions go.     *)

Parting == {"USER", "CLEAR"}
Answering == {"thinking", "replying"}

\* What is still to be posted, as far as replies and questions go.
PostedInv ==
  \A i \in 1..Len(posting) :
    /\ posting[i].kind = "DELTA" =>
         /\ Len(posting) = 1 /\ app.phase = "replying"
         /\ posting[i].what = <<<<app.turn, app.pieces>>>>
    /\ posting[i].kind = "USER" => posting[i].what = app.turn

Owed == IF \E i \in 1..Len(posting) : posting[i].kind = "DELTA" THEN {app.pieces} ELSE {}
Shown == NumsOf(MessageChunks(messages))
Waiting == NumsOf(EventChunks(queue))
Standing == Shown \union Waiting \union Owed

\* Pieces on display come before those in the queue and these before the one
\* that is still to be posted; nothing is missing.
WholeInv ==
  /\ Ordered(MessageChunks(messages)) /\ Ordered(EventChunks(queue))
  /\ AllBelow(Shown, Waiting) /\ AllBelow(Shown \union Waiting, Owed)
  /\ \A n \in Standing : n <= app.pieces
  /\ ~hist.lost => \A m \in Standing : \A n \in m..app.pieces : n \in Standing

\* What a handler of the worker may post, as far as replies and questions go.
Fair(x, events) ==
  /\ \/ x.pieces = app.pieces /\ \A i \in 1..Len(events) : events[i].kind # "DELTA"
     \/ /\ x.pieces = app.pieces + 1 /\ x.turn = app.turn /\ x.phase = "replying"
        /\ events = <<Event("DELTA", <<<<app.turn, app.pieces + 1>>>>)>>
  /\ x.turn \in Nat /\ app.turn <= x.turn
  /\ \A i \in 1..Len(events) : events[i].kind = "USER" => events[i].what = x.turn
  /\ x.phase \in Answering =>
       /\ x.turn = app.turn
       /\ \/ /\ events # <<>> /\ events[1] = Event("USER", app.turn)
             /\ \A i \in 2..Len(events) : events[i].kind \notin Parting
          \/ /\ app.phase \in Answering
             /\ \A i \in 1..Len(events) : events[i].kind \notin Parting

LEMMA QuietFair ==
  ASSUME OverlayInv, NEW x, NEW events,
         x.pieces = app.pieces /\ x.turn = app.turn,
         x.phase \in Answering => app.phase \in Answering,
         \A i \in 1..Len(events) : events[i].kind \notin {"DELTA", "USER", "CLEAR"}
  PROVE  Fair(x, events)
<1>1. app.turn \in Nat
  BY DEF OverlayInv, AppOK, Worked
<1> QED
  BY <1>1 DEF Fair, Parting

LEMMA TurnFair ==
  ASSUME OverlayInv, NEW x, NEW events,
         x.pieces = app.pieces /\ x.turn = app.turn + 1, x.phase \in Hearing,
         \A i \in 1..Len(events) : events[i].kind \notin {"DELTA", "USER"}
  PROVE  Fair(x, events)
<1>1. app.turn \in Nat /\ app.turn + 1 \in Nat /\ app.turn <= app.turn + 1
  BY DEF OverlayInv, AppOK, Worked
<1> QED
  BY <1>1 DEF Fair, Answering, Hearing

LEMMA NewTurnFields ==
  ASSUME NEW x, Worked(x), NEW ph
  PROVE  NewTurn(x, ph).turn = x.turn + 1 /\ NewTurn(x, ph).pieces = x.pieces /\ NewTurn(x, ph).phase = ph
BY DEF NewTurn, Worked

LEMMA CancelledFields ==
  ASSUME NEW x, Worked(x)
  PROVE  /\ Cancelled(x).turn = x.turn /\ Cancelled(x).pieces = x.pieces
         /\ Cancelled(x).phase \notin Answering
BY DEF Cancelled, Worked, Phases, Answering

\* Events of one or two kinds.
LEMMA KindsOf ==
  /\ \A i \in 1..Len(<<>>) : FALSE
  /\ \A a : \A i \in 1..Len(<<a>>) : (<<a>>)[i] = a
  /\ \A a, b : \A i \in 1..Len(<<a, b>>) : (<<a, b>>)[i] = a \/ (<<a, b>>)[i] = b
  /\ \A s : State(s).kind = "STATE"
  /\ \A k, v : Event(k, v).kind = k /\ Event(k, v).what = v
<1>1. Len(<<>>) = 0
  BY EmptySeq
<1>2. \A a : \A i \in 1..Len(<<a>>) : (<<a>>)[i] = a
  <2> SUFFICES ASSUME NEW a, NEW i \in 1..Len(<<a>>) PROVE (<<a>>)[i] = a
    OBVIOUS
  <2>1. i = 1
    OBVIOUS
  <2> QED
    BY <2>1
<1>3. \A a, b : \A i \in 1..Len(<<a, b>>) : (<<a, b>>)[i] = a \/ (<<a, b>>)[i] = b
  <2> SUFFICES ASSUME NEW a, NEW b, NEW i \in 1..Len(<<a, b>>) PROVE (<<a, b>>)[i] = a \/ (<<a, b>>)[i] = b
    OBVIOUS
  <2>1. i = 1 \/ i = 2
    OBVIOUS
  <2> QED
    BY <2>1
<1> QED
  BY <1>1, <1>2, <1>3 DEF State, Event

\* Events that touch neither a reply nor a question.
Mute(events) ==
  events \in Seq(Events) /\ \A i \in 1..Len(events) : events[i].kind \notin {"DELTA", "USER", "CLEAR"}

LEMMA MuteFacts ==
  /\ Mute(<<>>)
  /\ \A s \in States : Mute(<<State(s)>>)
  /\ \A x : Worked(x) => Mute(<<State(Rest(x))>>)
  /\ \A s \in Texts : Mute(<<Error(s)>>)
  /\ Mute(<<Event("ACK", 0)>>) /\ Mute(<<Event("ANNOUNCEMENT", 0)>>)
  /\ \A r \in Requests : Mute(<<Event("APPROVAL", r)>>)
  /\ \A s, t : Mute(s) /\ Mute(t) => Mute(s \o t)
<1>1. \A e \in Events : e.kind \notin {"DELTA", "USER", "CLEAR"} => Mute(<<e>>)
  BY DEF Mute
<1>2. Mute(<<>>)
  BY EmptySeq DEF Mute
<1>3. \A x : Worked(x) => Rest(x) \in States
  BY EventFacts DEF Worked
<1>4. ASSUME NEW s, NEW t, Mute(s), Mute(t) PROVE Mute(s \o t)
  <2>1. /\ s \o t \in Seq(Events) /\ Len(s) \in Nat /\ Len(t) \in Nat
        /\ Len(s \o t) = Len(s) + Len(t)
        /\ \A i \in 1..(Len(s) + Len(t)) : (s \o t)[i] = IF i <= Len(s) THEN s[i] ELSE t[i - Len(s)]
    BY <1>4, ConcatProperties, LenProperties DEF Mute
  <2>2. ASSUME NEW i \in 1..(Len(s) + Len(t)) PROVE (s \o t)[i].kind \notin {"DELTA", "USER", "CLEAR"}
    <3>1. CASE i <= Len(s)
      BY <1>4, <2>1, <3>1 DEF Mute
    <3>2. CASE ~(i <= Len(s))
      <4>1. i - Len(s) \in 1..Len(t)
        BY <2>1, <3>2
      <4> QED
        BY <1>4, <2>1, <3>2, <4>1 DEF Mute
    <3> QED
      BY <3>1, <3>2
  <2> QED
    BY <2>1, <2>2 DEF Mute
<1>5. /\ \A s \in States : State(s) \in Events /\ State(s).kind = "STATE"
      /\ \A s \in Texts : Error(s) \in Events /\ Error(s).kind = "ERROR"
      /\ \A r \in Requests : Event("APPROVAL", r) \in Events
      /\ \A k \in {"ACK", "ANNOUNCEMENT"} : Event(k, 0) \in Events
      /\ \A k, v : Event(k, v).kind = k
  BY EventFacts
<1> QED
  BY <1>1, <1>2, <1>3, <1>4, <1>5

\* A handler that posts such events and begins no answer; one that begins a turn.
LEMMA MuteFair ==
  ASSUME OverlayInv, NEW x, NEW events, Mute(events), x.pieces = app.pieces
  PROVE  /\ x.turn = app.turn /\ (x.phase \in Answering => app.phase \in Answering) => Fair(x, events)
         /\ x.turn = app.turn + 1 /\ x.phase \in Hearing => Fair(x, events)
<1>1. \A i \in 1..Len(events) : events[i].kind \notin {"DELTA", "USER", "CLEAR"}
  BY DEF Mute
<1> QED
  BY <1>1, QuietFair, TurnFair

\* A push-to-talk that is tried.
LEMMA AttemptFair ==
  ASSUME OverlayInv, NEW x, Worked(x), x.pieces = app.pieces, x.turn = app.turn,
         x.phase \notin Answering, NEW t \in Attempts(x)
  PROVE  Mute(t.told) /\ \A events : Mute(events) => Fair(t.app, events)
<1>0. /\ t.app.pieces = x.pieces
      /\ \/ t.told = <<>> /\ t.app.turn = x.turn /\ t.app.phase = x.phase
         \/ t.told = <<State("listening")>> /\ t.app.turn = x.turn + 1 /\ t.app.phase = "listening"
  BY AttemptFacts
<1>1. /\ t.app.pieces = app.pieces /\ t.told \in {<<>>, <<State("listening")>>}
      /\ \/ t.app.turn = app.turn /\ t.app.phase \notin Answering
         \/ t.app.turn = app.turn + 1 /\ t.app.phase = "listening"
  BY <1>0
<1>2. "listening" \in States /\ "listening" \in Hearing
  BY DEF States, Hearing
<1> QED
  BY <1>1, <1>2, MuteFacts, MuteFair

LEMMA ObeyFair ==
  ASSUME OverlayInv, Obey
  PROVE  /\ \E x, events : Handles(x, events) /\ Fair(x, events)
         /\ hist'.lost = hist.lost /\ hist'.mixed = hist.mixed
<1> DEFINE c == Head(commands)
<1>1. Worked(app) /\ HistOK
  BY DEF OverlayInv, AppOK
<1>2. hist'.lost = hist.lost /\ hist'.mixed = hist.mixed
  BY <1>1, ObeyCases DEF Decide, HistOK, Histories
<1>3. \/ c[1] = "paused" /\ SetPaused(c[2])
      \/ Talk
      \/ Cancel
      \/ ChangeSettings
      \/ Decide(c[2], c[3])
  BY DEF Obey
<1> DEFINE Goal == \E x, events : Handles(x, events) /\ Fair(x, events)
<1> SUFFICES Goal
  BY <1>2
<1>4. \A events : Mute(events) => Fair(app, events)
  BY MuteFair
<1>5. CASE c[1] = "paused" /\ SetPaused(c[2])
  <2> DEFINE x == [app EXCEPT !.paused = c[2], !.ptt = FALSE,
                              !.phase = IF c[2] /\ app.phase \in Hearing THEN "idle" ELSE app.phase]
  <2>1. Handles(x, <<State(Rest(x))>>)
    BY <1>5 DEF SetPaused
  <2>2. c[2] \in BOOLEAN
    BY <1>5, ObeyCases DEF Commands
  <2>3. Worked(x) /\ x.pieces = app.pieces /\ x.turn = app.turn /\ (x.phase = app.phase \/ x.phase = "idle")
    BY <1>1, <2>2 DEF Worked, Phases
  <2> HIDE DEF x
  <2>4. Fair(x, <<State(Rest(x))>>)
    BY <2>3, MuteFacts, MuteFair DEF Answering
  <2> QED
    BY <2>1, <2>4
<1>6. CASE Talk
  <2>1. CASE \E s \in Texts : Handles(app, <<Error(s)>>)
    BY <1>4, <2>1, MuteFacts
  <2>2. CASE Handles(app, <<>>)
    BY <1>4, <2>2, MuteFacts
  <2>3. ASSUME NEW t \in Attempts(Cancelled([app EXCEPT !.paused = FALSE, !.ptt = TRUE])),
               Handles(t.app, t.told)
        PROVE  Goal
    <3> DEFINE y == [app EXCEPT !.paused = FALSE, !.ptt = TRUE]
               x == Cancelled(y)
    <3>1. Worked(y) /\ y.pieces = app.pieces /\ y.turn = app.turn
      BY <1>1 DEF Worked
    <3>2. t \in Attempts(x)
      BY <2>3
    <3> HIDE DEF y
    <3>3. Worked(x) /\ x.pieces = app.pieces /\ x.turn = app.turn /\ x.phase \notin Answering
      BY <3>1, CancelledType, CancelledFields
    <3> HIDE DEF x
    <3>4. Fair(t.app, t.told)
      BY <3>2, <3>3, AttemptFair
    <3> QED
      BY <2>3, <3>4
  <2> QED
    BY <1>6, <2>1, <2>2, <2>3 DEF Talk, Texts
<1>7. CASE Cancel
  <2> DEFINE y == [app EXCEPT !.ptt = FALSE]
             x == Cancelled(y)
  <2>1. Worked(y) /\ y.pieces = app.pieces /\ y.turn = app.turn
    BY <1>1 DEF Worked
  <2>2. Handles(x, <<State(Rest(x))>>)
    BY <1>7 DEF Cancel
  <2> HIDE DEF y
  <2>3. Worked(x) /\ x.pieces = app.pieces /\ x.turn = app.turn /\ x.phase \notin Answering
    BY <2>1, CancelledType, CancelledFields
  <2> HIDE DEF x
  <2>4. Fair(x, <<State(Rest(x))>>)
    BY <2>3, MuteFacts, MuteFair
  <2> QED
    BY <2>2, <2>4
<1>8. CASE ChangeSettings
  <2>1. CASE Handles(app, <<Error("settings")>>)
    BY <1>4, <2>1, MuteFacts DEF Texts
  <2>2. ASSUME NEW lacks \in Lacks, NEW events,
               Handles([app EXCEPT !.lacks = lacks,
                                   !.phase = IF lacks = "nothing" THEN "loading" ELSE "broken"], events),
               events = CASE lacks = "nothing" -> <<State("loading")>>
                          [] lacks = "secrets" -> <<State("loading"), Error("secrets")>>
                          [] lacks = "provider" -> <<Error("provider")>>
        PROVE  Goal
    <3> DEFINE x == [app EXCEPT !.lacks = lacks,
                                !.phase = IF lacks = "nothing" THEN "loading" ELSE "broken"]
    <3>1. x.pieces = app.pieces /\ x.turn = app.turn /\ x.phase \notin Answering
      BY <1>1 DEF Worked, Answering
    <3>2. "loading" \in States /\ "secrets" \in Texts /\ "provider" \in Texts
      BY DEF States, Texts
    <3>3. <<State("loading"), Error("secrets")>> = <<State("loading")>> \o <<Error("secrets")>>
      BY Joined
    <3>4. events \in {<<State("loading")>>, <<State("loading")>> \o <<Error("secrets")>>, <<Error("provider")>>}
      BY <2>2, <3>3 DEF Lacks
    <3>5. Mute(events)
      BY <3>2, <3>4, MuteFacts
    <3> HIDE DEF x
    <3>6. Handles(x, events)
      BY <2>2 DEF x
    <3>7. Fair(x, events)
      BY <3>1, <3>5, MuteFair
    <3> QED
      BY <3>6, <3>7
  <2> QED
    BY <1>8, <2>1, <2>2 DEF ChangeSettings
<1>9. CASE Decide(c[2], c[3])
  BY <1>4, <1>9, MuteFacts DEF Decide
<1> QED
  BY <1>3, <1>5, <1>6, <1>7, <1>8, <1>9

\* What is heard of the question.
LEMMA TranscriptFair ==
  ASSUME OverlayInv, NEW final \in BOOLEAN, Transcript(final)
  PROVE  \E x, events : Tells(x, events) /\ Fair(x, events)
<1> DEFINE u == Event("USER", app.turn)
           x == [app EXCEPT !.phase = "thinking"]
           es == <<u, State("thinking")>>
           ds == <<u>>
<1>1. Tells(x, es) \/ Tells(app, ds)
  BY DEF Transcript
<1>2. app.phase \in Hearing /\ app.turn \in Nat /\ x.pieces = app.pieces /\ x.turn = app.turn
  BY DEF OverlayInv, AppOK, Transcript, Worked
<1>3. /\ \A i \in 1..Len(es) : es[i] = u \/ es[i] = State("thinking")
      /\ \A i \in 1..Len(ds) : ds[i] = u
  BY KindsOf
<1>4. es # <<>> /\ es[1] = u /\ \A i \in 2..Len(es) : es[i] = State("thinking")
  <2>1. \A i \in 2..Len(es) : i = 2
    OBVIOUS
  <2> QED
    BY <2>1
<1> HIDE DEF x, es, ds
<1>5. Fair(app, ds)
  BY <1>2, <1>3, KindsOf DEF Fair, Answering, Hearing
<1>6. Fair(x, es)
  BY <1>2, <1>3, <1>4, KindsOf DEF Fair, Parting
<1> QED
  BY <1>1, <1>5, <1>6

\* A piece of the reply.
LEMMA DeltaFair ==
  ASSUME OverlayInv, TextDelta
  PROVE  \E x, events : Tells(x, events) /\ Fair(x, events)
<1> DEFINE x == [app EXCEPT !.pieces = app.pieces + 1]
           es == <<Event("DELTA", <<<<app.turn, app.pieces + 1>>>>)>>
<1>1. Tells(x, es) /\ app.phase = "replying"
  BY DEF TextDelta
<1>2. x.pieces = app.pieces + 1 /\ x.turn = app.turn /\ x.phase = "replying" /\ app.turn \in Nat
  BY <1>1 DEF OverlayInv, AppOK, Worked
<1>3. \A i \in 1..Len(es) : es[i].kind = "DELTA"
  BY KindsOf
<1>4. es = <<Event("DELTA", <<<<app.turn, app.pieces + 1>>>>)>>
  OBVIOUS
<1> HIDE DEF x, es
<1>5. Fair(x, es)
  BY <1>1, <1>2, <1>3, <1>4 DEF Fair, Answering, Parting
<1> QED
  BY <1>1, <1>5

\* Every handler of the worker.
LEMMA WorkerFair ==
  ASSUME OverlayInv, Worker, ~Post
  PROVE  /\ \E x, events : Handles(x, events) /\ Fair(x, events)
         /\ hist'.lost = hist.lost /\ hist'.mixed = hist.mixed
<1>1. Worked(app)
  BY DEF OverlayInv, AppOK
<1> DEFINE Goal == \E x, events : Tells(x, events) /\ Fair(x, events)
           Aside == Phases \ Answering
           Sound(x) == Worked(x) /\ x.pieces = app.pieces /\ x.turn = app.turn
<1>2. \A p \in Phases : /\ Sound([app EXCEPT !.phase = p]) /\ [app EXCEPT !.phase = p].phase = p
                        /\ app.incidents < MaxIncidents =>
                             Sound([Troubled EXCEPT !.phase = p]) /\ [Troubled EXCEPT !.phase = p].phase = p
  <2> SUFFICES ASSUME NEW p \in Phases
               PROVE  /\ Sound([app EXCEPT !.phase = p]) /\ [app EXCEPT !.phase = p].phase = p
                      /\ app.incidents < MaxIncidents =>
                           Sound([Troubled EXCEPT !.phase = p]) /\ [Troubled EXCEPT !.phase = p].phase = p
    OBVIOUS
  <2>1. Troubled = [app EXCEPT !.incidents = app.incidents + 1]
    BY DEF Troubled
  <2>2. app.incidents < MaxIncidents => app.incidents + 1 \in Nat /\ app.asked <= app.incidents + 1
                                        /\ app.incidents + 1 <= MaxIncidents
    BY <1>1, OverlayAssumption DEF Worked
  <2> QED
    BY <1>1, <2>1, <2>2 DEF Worked
<1>3. {"idle", "listening", "follow_up", "broken", "loading", "announcing", "cancelled"} \subseteq Aside
      /\ Hearing \subseteq Phases
  BY DEF Phases, Answering, Hearing
<1>4. ASSUME NEW p \in Aside, NEW events, Mute(events)
      PROVE  /\ Fair([app EXCEPT !.phase = p], events)
             /\ app.incidents < MaxIncidents => Fair([Troubled EXCEPT !.phase = p], events)
  <2>1. \A x : x.pieces = app.pieces /\ x.turn = app.turn /\ x.phase \notin Answering => Fair(x, events)
    BY <1>4, MuteFair
  <2>2. p \in Phases /\ p \notin Answering
    BY <1>4
  <2>3. Fair([app EXCEPT !.phase = p], events)
    <3> DEFINE x == [app EXCEPT !.phase = p]
    <3>1. x.pieces = app.pieces /\ x.turn = app.turn /\ x.phase \notin Answering
      BY <1>2, <2>2
    <3> HIDE DEF x
    <3>2. Fair(x, events)
      BY <2>1, <3>1
    <3> QED
      BY <3>2 DEF x
  <2>4. ASSUME app.incidents < MaxIncidents PROVE Fair([Troubled EXCEPT !.phase = p], events)
    <3> DEFINE x == [Troubled EXCEPT !.phase = p]
    <3>1. x.pieces = app.pieces /\ x.turn = app.turn /\ x.phase \notin Answering
      BY <1>2, <2>2, <2>4
    <3> HIDE DEF x
    <3>2. Fair(x, events)
      BY <2>1, <3>1
    <3> QED
      BY <3>2 DEF x
  <2> QED
    BY <2>3, <2>4
<1>5. ASSUME NEW p \in Aside, NEW t \in Attempts([app EXCEPT !.phase = p])
      PROVE  Mute(t.told) /\ \A events : Mute(events) => Fair(t.app, events)
  BY <1>2, <1>5, AttemptFair
<1>6. ASSUME NEW p \in Aside, app.incidents < MaxIncidents, NEW t \in Attempts([Troubled EXCEPT !.phase = p])
      PROVE  Mute(t.told) /\ \A events : Mute(events) => Fair(t.app, events)
  BY <1>2, <1>6, AttemptFair
<1>7. ASSUME NEW events, Mute(events)
      PROVE  Fair(app, events) /\ (app.incidents < MaxIncidents => Fair(Troubled, events))
  <2>1. app.incidents < MaxIncidents => Troubled.pieces = app.pieces /\ Troubled.turn = app.turn
                                        /\ Troubled.phase = app.phase
    BY <1>1 DEF Worked, Troubled
  <2> QED
    BY <1>7, <2>1, MuteFair
<1>8. ASSUME NEW ph \in Hearing, NEW events, Mute(events) PROVE Fair(NewTurn(app, ph), events)
  BY <1>1, <1>8, NewTurnFields, MuteFair
<1>9. /\ \A s \in States : Mute(<<State(s)>>)
      /\ Mute(<<State(Rest(app))>>) /\ Mute(<<>>)
      /\ \A s \in Texts : Mute(<<Error(s)>>)
      /\ Mute(<<Event("ANNOUNCEMENT", 0)>>)
      /\ \A s \in States : Mute(<<Event("ACK", 0), State(s)>>)
      /\ \A s, t : Mute(s) /\ Mute(t) => Mute(s \o t)
  BY <1>1, MuteFacts, Joined
<1>10. /\ {"listening", "follow_up", "thinking", "speaking", "loading"} \subseteq States
       /\ {"turn", "cancel", "engine"} \subseteq Texts
       /\ {"idle", "listening", "follow_up", "broken", "loading", "announcing", "cancelled"} \subseteq Aside
       /\ {"listening", "follow_up"} \subseteq Hearing
  BY <1>3 DEF States, Texts, Hearing
<1> SUFFICES ASSUME ~Obey PROVE Goal
  BY ObeyFair DEF Tells
<1> HIDE DEF Goal, Aside, Sound
<1>11. ASSUME NEW x, NEW events, Tells(x, events), Fair(x, events) PROVE Goal
  BY <1>11 DEF Goal
<1>12. CASE Wake
  <2> DEFINE x == NewTurn(app, "listening")
             es == <<Event("CLEAR", 0), State("listening")>>
  <2>1. Tells(x, es) /\ x.pieces = app.pieces /\ x.turn = app.turn + 1 /\ x.phase \in Hearing
    BY <1>1, <1>12, NewTurnFields DEF Wake, Hearing
  <2>2. \A i \in 1..Len(es) : es[i] = Event("CLEAR", 0) \/ es[i] = State("listening")
    BY KindsOf
  <2> HIDE DEF x, es
  <2>3. \A i \in 1..Len(es) : es[i].kind \notin {"DELTA", "USER"}
    BY <2>2, KindsOf
  <2>4. Fair(x, es)
    BY <2>1, <2>3, TurnFair
  <2> QED
    BY <1>11, <2>1, <2>4
<1>13. CASE Listening
  BY <1>7, <1>9, <1>10, <1>11, <1>13 DEF Listening, Hearing
<1>14. CASE Accepted
  <2> DEFINE x == [app EXCEPT !.phase = "replying"]
             es == <<Event("ACK", 0), State("thinking")>>
  <2>1. Tells(x, es) /\ app.phase \in Answering
    BY <1>14 DEF Accepted, Answering
  <2>2. x.pieces = app.pieces /\ x.turn = app.turn /\ Mute(es)
    BY <1>1, <1>9, <1>10 DEF Worked
  <2> HIDE DEF x, es
  <2>3. Fair(x, es)
    BY <2>1, <2>2, MuteFair
  <2> QED
    BY <1>11, <2>1, <2>3
<1>15. CASE Speaking
  BY <1>7, <1>9, <1>10, <1>11, <1>15 DEF Speaking
<1>16. CASE Approval
  <2> DEFINE x == [Troubled EXCEPT !.asked = app.asked + 1]
             es == <<Event("APPROVAL", app.asked + 1)>>
  <2>1. Tells(x, es) /\ app.asked + 1 \in Requests
    BY <1>16, ApprovalCase
  <2>2. x.pieces = app.pieces /\ x.turn = app.turn /\ x.phase = app.phase
    BY <1>1 DEF Worked, Troubled
  <2>3. Mute(es)
    BY <2>1, MuteFacts
  <2> HIDE DEF x, es
  <2>4. Fair(x, es)
    BY <2>2, <2>3, MuteFair
  <2> QED
    BY <1>11, <2>1, <2>4
<1>17. CASE Complete
  <2>1. CASE Tells([app EXCEPT !.phase = "idle"], <<State(Rest(app))>>)
    BY <1>4, <1>9, <1>10, <1>11, <2>1
  <2>2. CASE Tells(NewTurn(app, "follow_up"), <<State("follow_up")>>)
    BY <1>8, <1>9, <1>10, <1>11, <2>2
  <2>3. ASSUME NEW t \in Attempts([app EXCEPT !.phase = "idle"]), Tells(t.app, <<State(Rest(app))>> \o t.told)
        PROVE  Goal
    BY <1>5, <1>9, <1>10, <1>11, <2>3
  <2> QED
    BY <1>17, <2>1, <2>2, <2>3 DEF Complete
<1>18. CASE VoiceIdle
  <2>1. PICK t \in Attempts([app EXCEPT !.phase = "idle"]) :
          Tells(t.app, t.told \o IF t.app.ptt THEN <<>> ELSE <<State(Rest(app))>>)
    BY <1>18 DEF VoiceIdle
  <2>2. Mute(IF t.app.ptt THEN <<>> ELSE <<State(Rest(app))>>)
    BY <1>9
  <2>3. Mute(t.told) /\ \A events : Mute(events) => Fair(t.app, events)
    BY <1>5, <1>10
  <2>4. Fair(t.app, t.told \o IF t.app.ptt THEN <<>> ELSE <<State(Rest(app))>>)
    BY <1>9, <2>2, <2>3
  <2> QED
    BY <1>11, <2>1, <2>4
<1>19. CASE TurnFails
  <2>1. app.incidents < MaxIncidents
    BY <1>19 DEF TurnFails, Trouble
  <2>2. PICK t \in Attempts([Troubled EXCEPT !.phase = "idle"]) : Tells(t.app, t.told \o <<Error("turn")>>)
    BY <1>19 DEF TurnFails
  <2>3. Mute(t.told) /\ \A events : Mute(events) => Fair(t.app, events)
    BY <1>6, <1>10, <2>1
  <2>4. Mute(t.told \o <<Error("turn")>>)
    BY <1>9, <1>10, <2>3
  <2> QED
    BY <1>11, <2>2, <2>3, <2>4
<1>20. CASE CancelRejected
  <2>1. Tells(Troubled, <<Error("cancel")>>) /\ app.incidents < MaxIncidents
    BY <1>20 DEF CancelRejected, Trouble
  <2> QED
    BY <1>7, <1>9, <1>10, <1>11, <2>1
<1>21. CASE Breaks
  <2>1. Tells([Troubled EXCEPT !.phase = "broken"], <<Error("engine")>>) /\ app.incidents < MaxIncidents
    BY <1>21 DEF Breaks, Trouble
  <2> QED
    BY <1>4, <1>9, <1>10, <1>11, <2>1
<1>22. CASE Restart
  BY <1>4, <1>9, <1>10, <1>11, <1>22 DEF Restart
<1>23. CASE Ready
  BY <1>4, <1>9, <1>10, <1>11, <1>23 DEF Ready
<1>24. CASE Announce
  <2>1. app.incidents < MaxIncidents
    BY <1>24 DEF Announce, Trouble
  <2>2. PICK p \in {"announcing", "idle"} : Tells([Troubled EXCEPT !.phase = p], <<Event("ANNOUNCEMENT", 0)>>)
    BY <1>24 DEF Announce
  <2> QED
    BY <1>4, <1>9, <1>10, <1>11, <2>1, <2>2
<1>25. CASE Announced
  <2>1. PICK t \in Attempts([app EXCEPT !.phase = "idle"]) :
          Tells(t.app, IF t.told = <<>> THEN <<State(Rest(app))>> ELSE t.told)
    BY <1>25 DEF Announced
  <2>2. Mute(t.told) /\ \A events : Mute(events) => Fair(t.app, events)
    BY <1>5, <1>10
  <2>3. Mute(IF t.told = <<>> THEN <<State(Rest(app))>> ELSE t.told)
    BY <1>9, <2>2
  <2> QED
    BY <1>11, <2>1, <2>2, <2>3
<1>26. CASE TextDelta
  BY <1>26, DeltaFair DEF Goal
<1>27. CASE \E final \in BOOLEAN : Transcript(final)
  BY <1>27, TranscriptFair DEF Goal
<1> QED
  BY <1>12, <1>13, <1>14, <1>15, <1>16, <1>17, <1>18, <1>19, <1>20, <1>21, <1>22, <1>23, <1>24, <1>25,
    <1>26, <1>27 DEF Worker

LEMMA NoChunks ==
  /\ NumsOf(<<>>) = {} /\ Ordered(<<>>) /\ EventChunks(<<>>) = <<>> /\ MessageChunks(<<>>) = <<>>
  /\ Nums(<<>>) = {} /\ Increasing(<<>>)
<1>1. <<>> \in Seq(Events) /\ <<>> \in Seq(Messages) /\ Len(<<>>) = 0 /\ DOMAIN <<>> = {}
  <2>1. 1..0 = {}
    OBVIOUS
  <2> QED
    BY <2>1, EmptySeq, LenProperties
<1>2. EventChunks(<<>>) = <<>>
  <2>1. EventChunks(<<>>) \in Seq(Pieces) /\ Len(EventChunks(<<>>)) = 0
    BY <1>1, EventChunksType
  <2> QED
    BY <2>1, EmptySeq
<1>3. MessageChunks(<<>>) = <<>>
  <2>1. MessageChunks(<<>>) \in Seq(Pieces) /\ Len(MessageChunks(<<>>)) = 0
    BY <1>1, MessageChunksType
  <2> QED
    BY <2>1, EmptySeq
<1> QED
  BY <1>1, <1>2, <1>3 DEF NumsOf, Ordered, Nums, Increasing

LEMMA NumsType == ASSUME NEW c \in Seq(Pieces) PROVE NumsOf(c) \subseteq Nat
<1>1. \A i \in DOMAIN c : c[i] \in Pieces
  BY ElementOfSeq, LenProperties
<1>2. \A i \in DOMAIN c : Nums(c[i]) \subseteq Nat
  BY <1>1, NumsFacts
<1> QED
  BY <1>2 DEF NumsOf

LEMMA OnePiece ==
  ASSUME NEW t \in Nat, NEW n \in Nat
  PROVE  LET w == <<<<t, n>>>> IN w \in Pieces /\ Nums(w) = {n} /\ Increasing(w)
<1> DEFINE w == <<<<t, n>>>>
<1>1. w \in Pieces /\ DOMAIN w = {1} /\ w[1][2] = n
  <2>1. <<t, n>> \in Nat \X Nat
    OBVIOUS
  <2>2. Len(w) = 1 /\ 1..1 = {1} /\ DOMAIN w = 1..Len(w)
    OBVIOUS
  <2> QED
    BY <2>1, <2>2 DEF Pieces
<1> HIDE DEF w
<1>2. Nums(w) = {n} /\ Increasing(w)
  BY <1>1 DEF Nums, Increasing
<1> QED
  BY <1>1, <1>2 DEF w

\* The pieces of the queue and of the transcript after an event.
LEMMA QueuedNums ==
  ASSUME NEW q \in Seq(Events), NEW e \in Events
  PROVE  /\ ~Refused(q, e) => NumsOf(EventChunks(Queued(q, e)))
                                = NumsOf(EventChunks(q)) \union Nums(ChunkOfEvent(e))
         /\ Refused(q, e) => Queued(q, e) = q
         /\ /\ Ordered(EventChunks(q)) /\ Increasing(ChunkOfEvent(e))
            /\ AllBelow(NumsOf(EventChunks(q)), Nums(ChunkOfEvent(e)))
            => Ordered(EventChunks(Queued(q, e)))
<1> DEFINE c == EventChunks(q)
           w == ChunkOfEvent(e)
<1>1. c \in Seq(Pieces) /\ Len(c) = Len(q) /\ w \in Pieces /\ DOMAIN c = 1..Len(q)
      /\ \A i \in 1..Len(q) : c[i] = ChunkOfEvent(q[i])
  BY EventChunksType, EventChunkType
<1>2. CASE Slots(q, e) = {} /\ Queued(q, e) = Append(q, e) /\ ~Refused(q, e)
  <2>1. EventChunks(Queued(q, e)) = Append(c, w)
    BY <1>2, EventChunksAppend
  <2> HIDE DEF c, w
  <2> QED
    BY <1>1, <1>2, <2>1, ChunksAppend DEF c, w
<1>3. CASE Slots(q, e) = {} /\ Queued(q, e) = q /\ Refused(q, e)
  BY <1>3
<1>4. ASSUME NEW i \in Slots(q, e), Queued(q, e) = [q EXCEPT ![i] = Merged(q[i], e)], ~Refused(q, e)
      PROVE  /\ NumsOf(EventChunks(Queued(q, e))) = NumsOf(c) \union Nums(w)
             /\ Ordered(c) /\ Increasing(w) /\ AllBelow(NumsOf(c), Nums(w)) => Ordered(EventChunks(Queued(q, e)))
  <2>1. i \in 1..Len(q) /\ q[i] \in Events /\ q[i].kind = e.kind
    BY SlotFacts, ElementOfSeq
  <2>2. Merged(q[i], e) \in Events /\ Merged(q[i], e).kind = e.kind
        /\ (e.kind # "DELTA" => Merged(q[i], e) = e)
        /\ (e.kind = "DELTA" => Merged(q[i], e).what = q[i].what \o e.what)
    BY <2>1, MergedType
  <2> DEFINE m == Merged(q[i], e)
             p == [q EXCEPT ![i] = m]
             d == EventChunks(p)
  <2>3. p \in Seq(Events) /\ Len(p) = Len(q) /\ (\A j \in 1..Len(q) : p[j] = IF j = i THEN m ELSE q[j])
        /\ Queued(q, e) = p
    BY <1>4, <2>1, <2>2, ExceptSeq
  <2> HIDE DEF p
  <2>6. d \in Seq(Pieces) /\ Len(d) = Len(q) /\ d[i] = ChunkOfEvent(m)
        /\ \A j \in 1..Len(q) : j # i => d[j] = c[j]
    <3>1. d \in Seq(Pieces) /\ Len(d) = Len(q) /\ \A j \in 1..Len(q) : d[j] = ChunkOfEvent(p[j])
      BY <2>3, EventChunksType
    <3> HIDE DEF c, d, m
    <3> QED
      BY <1>1, <2>1, <2>3, <3>1
  <2>4. CASE e.kind = "DELTA"
    <3>1. i = Len(q) /\ c # <<>>
      <4>1. i = Len(q) /\ Len(q) # 0
        BY <2>1, <2>4, SlotFacts
      <4> HIDE DEF c
      <4> QED
        BY <1>1, <4>1, EmptySeq
    <3>2. d[Len(c)] = c[Len(c)] \o w
      BY <1>1, <2>1, <2>2, <2>4, <2>6, <3>1 DEF ChunkOfEvent
    <3> HIDE DEF c, w, d
    <3>3. NumsOf(d) = NumsOf(c) \union Nums(w)
          /\ (Ordered(c) /\ Increasing(w) /\ AllBelow(NumsOf(c), Nums(w)) => Ordered(d))
      BY <1>1, <2>6, <3>1, <3>2, ChunksExtend
    <3> QED
      BY <2>3, <3>3 DEF d
  <2>5. CASE e.kind # "DELTA"
    <3>1. ChunkOfEvent(m) = <<>> /\ c[i] = <<>> /\ w = <<>>
      BY <1>1, <2>1, <2>2, <2>5 DEF ChunkOfEvent
    <3>2. d = c
      <4> HIDE DEF c, d, m
      <4>1. \A j \in 1..Len(q) : d[j] = c[j]
        BY <2>6, <3>1
      <4> QED
        BY <1>1, <2>6, <4>1, SeqEqual
    <3> QED
      BY <2>3, <3>1, <3>2, NoChunks
  <2> QED
    BY <2>4, <2>5
<1> QED
  BY <1>2, <1>3, <1>4, QueuedCases

LEMMA TranscribedNums ==
  ASSUME NEW ms \in Seq(Messages), NEW e \in Events, ui.open \in BOOLEAN
  PROVE  /\ e.kind = "CLEAR" => Transcribed(ms, e) = <<>>
         /\ e.kind # "CLEAR" =>
              /\ NumsOf(MessageChunks(Transcribed(ms, e)))
                   = NumsOf(MessageChunks(ms)) \union Nums(ChunkOfEvent(e))
              /\ /\ Ordered(MessageChunks(ms)) /\ Increasing(ChunkOfEvent(e))
                 /\ AllBelow(NumsOf(MessageChunks(ms)), Nums(ChunkOfEvent(e)))
                 => Ordered(MessageChunks(Transcribed(ms, e)))
<1> DEFINE c == MessageChunks(ms)
           w == ChunkOfEvent(e)
           d == MessageChunks(Transcribed(ms, e))
           Fine == /\ NumsOf(d) = NumsOf(c) \union Nums(w)
                   /\ Ordered(c) /\ Increasing(w) /\ AllBelow(NumsOf(c), Nums(w)) => Ordered(d)
<1>1. c \in Seq(Pieces) /\ Len(c) = Len(ms) /\ w \in Pieces /\ DOMAIN c = 1..Len(ms)
      /\ \A i \in 1..Len(ms) : c[i] = ChunkOfMessage(ms[i])
  BY MessageChunksType, EventChunkType
<1>2. ASSUME d = c, w = <<>> PROVE Fine
  <2> HIDE DEF c, d, w
  <2> QED
    BY <1>2, NoChunks
<1>3. ASSUME d = Append(c, w) PROVE Fine
  <2> HIDE DEF c, d, w
  <2> QED
    BY <1>1, <1>3, ChunksAppend
<1>4. ASSUME NEW m \in Messages, Len(ms) # 0, ChunkOfMessage(m) = c[Len(ms)] \o w,
             Transcribed(ms, e) = [ms EXCEPT ![Len(ms)] = m]
      PROVE  Fine
  <2> DEFINE p == [ms EXCEPT ![Len(ms)] = m]
  <2>1. p \in Seq(Messages) /\ Len(p) = Len(ms) /\ (\A j \in 1..Len(ms) : p[j] = IF j = Len(ms) THEN m ELSE ms[j])
        /\ Transcribed(ms, e) = p /\ Len(ms) \in 1..Len(ms)
    <3>1. Len(ms) \in 1..Len(ms)
      BY <1>4, LenProperties
    <3> QED
      BY <1>4, <3>1, ExceptSeq
  <2> HIDE DEF p
  <2>2. d = MessageChunks(p)
    BY <2>1
  <2>3. d \in Seq(Pieces) /\ Len(d) = Len(ms) /\ \A j \in 1..Len(ms) : d[j] = ChunkOfMessage(p[j])
    BY <2>1, <2>2, MessageChunksType
  <2> HIDE DEF c, d, w
  <2>4. c # <<>> /\ d[Len(c)] = c[Len(c)] \o w /\ \A i \in 1..Len(c) : i # Len(c) => d[i] = c[i]
    BY <1>1, <1>4, <2>1, <2>3, EmptySeq
  <2> QED
    BY <1>1, <2>3, <2>4, ChunksExtend
<1>5. ASSUME NEW m \in Messages, m.kind # "ASSISTANT", w = <<>>, Transcribed(ms, e) = Append(ms, m) PROVE Fine
  <2>1. d = Append(c, w)
    BY <1>5, MessageChunksAppend DEF ChunkOfMessage
  <2> HIDE DEF Fine, d, c
  <2> QED
    BY <1>3, <2>1
<1>6. CASE e.kind = "CLEAR"
  BY <1>6 DEF Transcribed
<1>7. CASE e.kind = "DELTA"
  <2>1. w = e.what /\ e.what \in Pieces /\ Transcribed(ms, e) = Appended(ms, e.what)
    BY <1>7, KindOf DEF ChunkOfEvent, Transcribed
  <2>2. CASE LastIs(ms, "ASSISTANT")
    <3>1. ms # <<>> /\ Len(ms) \in 1..Len(ms) /\ ms[Len(ms)] \in Messages /\ ms[Len(ms)].kind = "ASSISTANT"
      BY <2>2, EmptySeq, LenProperties, ElementOfSeq DEF LastIs
    <3>2. ms[Len(ms)].text \in Pieces
      BY <3>1 DEF Messages
    <3>3. ms[Len(ms)].text \o w \in Pieces
      BY <2>1, <3>2, ConcatProperties DEF Pieces
    <3> DEFINE m == [ms[Len(ms)] EXCEPT !.text = ms[Len(ms)].text \o w]
    <3>4. m \in Messages /\ m.kind = "ASSISTANT" /\ m.text = ms[Len(ms)].text \o w
      <4>1. \A t \in Pieces : LET z == [ms[Len(ms)] EXCEPT !.text = t]
                              IN z \in Messages /\ z.kind = "ASSISTANT" /\ z.text = t
        BY <3>1 DEF Messages
      <4> QED
        BY <3>3, <4>1
    <3>5. Transcribed(ms, e) = [ms EXCEPT ![Len(ms)] = m]
      BY <2>1, <2>2 DEF Appended
    <3> HIDE DEF m
    <3>6. ChunkOfMessage(m) = c[Len(ms)] \o w
      BY <1>1, <3>1, <3>4 DEF ChunkOfMessage
    <3>7. Len(ms) # 0
      BY <3>1
    <3> HIDE DEF Fine, c, w
    <3> QED
      BY <1>4, <1>7, <3>4, <3>5, <3>6, <3>7 DEF Fine, c, w
  <2>3. CASE ~LastIs(ms, "ASSISTANT")
    <3>1. Message("ASSISTANT", w) \in Messages /\ ChunkOfMessage(Message("ASSISTANT", w)) = w
      BY <2>1 DEF Message, Messages, ChunkOfMessage
    <3>2. Transcribed(ms, e) = Append(ms, Message("ASSISTANT", w))
      BY <2>1, <2>3 DEF Appended
    <3>3. d = Append(c, w)
      BY <3>1, <3>2, MessageChunksAppend
    <3> QED
      BY <1>3, <1>7, <3>3
  <2> QED
    BY <2>2, <2>3
<1>8. CASE e.kind = "USER"
  <2>1. w = <<>> /\ e.what \in Nat /\ Transcribed(ms, e) = Added(ms, "USER", e.what, ui.open)
    BY <1>8, KindOf DEF ChunkOfEvent, Transcribed
  <2>2. CASE ui.open /\ LastIs(ms, "USER")
    <3>1. ms # <<>> /\ Len(ms) \in 1..Len(ms) /\ ms[Len(ms)] \in Messages /\ ms[Len(ms)].kind = "USER"
      BY <2>2, EmptySeq, LenProperties, ElementOfSeq DEF LastIs
    <3> DEFINE m == [ms[Len(ms)] EXCEPT !.text = e.what]
    <3>2. m \in Messages /\ m.kind = "USER"
      BY <2>1, <3>1 DEF Messages
    <3>3. Transcribed(ms, e) = [ms EXCEPT ![Len(ms)] = m]
      BY <2>1, <2>2 DEF Added
    <3> HIDE DEF m
    <3>4. ChunkOfMessage(m) = <<>> /\ c[Len(ms)] = <<>>
      BY <1>1, <3>1, <3>2 DEF ChunkOfMessage
    <3>5. <<>> \o <<>> = <<>> /\ Len(ms) # 0
      BY <3>1, ConcatEmptySeq, EmptySeq
    <3>6. Fine
      <4> HIDE DEF Fine, c, w
      <4> QED
        BY <1>4, <2>1, <3>2, <3>3, <3>4, <3>5
    <3> QED
      BY <1>8, <3>6
  <2>3. CASE ~(ui.open /\ LastIs(ms, "USER"))
    <3>1. Message("USER", e.what) \in Messages /\ Message("USER", e.what).kind # "ASSISTANT"
      BY <2>1 DEF Message, Messages
    <3>2. Transcribed(ms, e) = Append(ms, Message("USER", e.what))
      BY <2>1, <2>3 DEF Added
    <3> QED
      BY <1>5, <1>8, <2>1, <3>1, <3>2
  <2> QED
    BY <2>2, <2>3
<1>9. CASE e.kind \in {"ERROR", "ANNOUNCEMENT"}
  <2>1. w = <<>>
    BY <1>9 DEF ChunkOfEvent
  <2>2. /\ Message("ANNOUNCEMENT", 0) \in Messages /\ Message("ANNOUNCEMENT", 0).kind # "ASSISTANT"
        /\ \A x \in Texts : Message("ERROR", x) \in Messages /\ Message("ERROR", x).kind # "ASSISTANT"
    BY DEF Message, Messages
  <2>3. e.kind = "ERROR" => e.what \in Texts
    BY KindOf
  <2>4. \/ Transcribed(ms, e) = ms
        \/ \E x \in Texts : Transcribed(ms, e) = Append(ms, Message("ERROR", x))
        \/ Transcribed(ms, e) = Append(ms, Message("ANNOUNCEMENT", 0))
    BY <1>9, <2>3 DEF Transcribed
  <2> QED
    BY <1>2, <1>5, <1>9, <2>1, <2>2, <2>4
<1>10. CASE e.kind \notin {"CLEAR", "DELTA", "USER", "ERROR", "ANNOUNCEMENT"}
  <2>1. w = <<>> /\ Transcribed(ms, e) = ms
    BY <1>10 DEF ChunkOfEvent, Transcribed
  <2> QED
    BY <1>2, <1>10, <2>1
<1> QED
  BY <1>6, <1>7, <1>8, <1>9, <1>10

-----------------------------------------------------------------------------
(* Pieces of replies are whole and in order.                                *)

LEMMA PostedFacts ==
  ASSUME OverlayInv, PostedInv, Post, NEW e, e = Head(posting)
  PROVE  /\ e \in Events /\ queue \in Seq(Events) /\ queue' = Queued(queue, e) /\ Len(queue) <= Cap
         /\ UNCHANGED <<messages, app, ui>>
         /\ e.kind = "DELTA" => /\ e.what = <<<<app.turn, app.pieces>>>> /\ app.phase = "replying"
                                /\ Len(posting') = 0 /\ Owed = {app.pieces}
         /\ e.kind # "DELTA" => Owed = {}
         /\ e.kind = "USER" => e.what = app.turn
         /\ Owed' = {}
         /\ Len(posting) \in Nat /\ Len(posting') = Len(posting) - 1 /\ e = posting[1] /\ 1 \in 1..Len(posting)
         /\ \A i \in 1..Len(posting') : i + 1 \in 1..Len(posting) /\ posting'[i] = posting[i + 1]
         /\ PostedInv'
<1>1. /\ e \in Events /\ queue \in Seq(Events) /\ queue' = Queued(queue, e) /\ Len(queue) <= Cap
      /\ UNCHANGED <<messages, app, ui>> /\ posting # <<>> /\ posting' = Tail(posting) /\ posting \in Seq(Events)
  BY HeadTailProperties DEF OverlayInv, QueueOK, PostingOK, Post
<1>2. /\ Len(posting) \in Nat /\ Len(posting) # 0 /\ Len(posting') = Len(posting) - 1 /\ e = posting[1]
      /\ \A i \in 1..(Len(posting) - 1) : posting'[i] = posting[i + 1]
  BY <1>1, HeadTailProperties, LenProperties, EmptySeq
<1>3. 1 \in 1..Len(posting) /\ \A i \in 1..Len(posting') : i + 1 \in 1..Len(posting) /\ posting'[i] = posting[i + 1]
  BY <1>2
<1>4. \A i \in 1..Len(posting') : posting'[i].kind # "DELTA"
  <2>1. ASSUME NEW i \in 1..Len(posting'), posting'[i].kind = "DELTA" PROVE FALSE
    <3>1. i + 1 \in 1..Len(posting) /\ posting[i + 1].kind = "DELTA"
      BY <1>3, <2>1
    <3>2. Len(posting) = 1
      BY <3>1 DEF PostedInv
    <3> QED
      BY <1>2, <2>1, <3>2
  <2> QED
    BY <2>1
<1>5. Owed' = {}
  BY <1>4 DEF Owed
<1>6. PostedInv'
  <2>1. \A i \in 1..Len(posting') : posting'[i].kind = "USER" => posting'[i].what = app.turn
    BY <1>3 DEF PostedInv
  <2> QED
    BY <1>1, <1>4, <2>1 DEF PostedInv
<1>7. e.kind = "DELTA" => /\ e.what = <<<<app.turn, app.pieces>>>> /\ app.phase = "replying"
                          /\ Len(posting') = 0 /\ Owed = {app.pieces}
  BY <1>2, <1>3 DEF PostedInv, Owed
<1>8. e.kind # "DELTA" => Owed = {}
  <2>1. ASSUME NEW i \in 1..Len(posting), posting[i].kind = "DELTA" PROVE e.kind = "DELTA"
    <3>1. Len(posting) = 1
      BY <2>1 DEF PostedInv
    <3>2. i = 1
      BY <3>1
    <3> QED
      BY <1>2, <2>1, <3>2
  <2> QED
    BY <2>1 DEF Owed
<1>9. e.kind = "USER" => e.what = app.turn
  BY <1>2, <1>3 DEF PostedInv
<1> QED
  BY <1>1, <1>2, <1>3, <1>5, <1>6, <1>7, <1>8, <1>9

LEMMA StandingTypes ==
  ASSUME OverlayInv
  PROVE  /\ Shown \subseteq Nat /\ Waiting \subseteq Nat /\ Owed \subseteq Nat /\ app.pieces \in Nat
         /\ Standing \subseteq Nat /\ app.turn \in Nat /\ ui.open \in BOOLEAN
<1>1. app.pieces \in Nat /\ app.turn \in Nat /\ ui.open \in BOOLEAN
  BY DEF OverlayInv, AppOK, Worked, UiOK, Views
<1>2. Shown \subseteq Nat /\ Waiting \subseteq Nat
  BY MessageChunksType, EventChunksType, NumsType DEF Shown, Waiting, OverlayInv, MessagesOK, QueueOK
<1>3. Owed \subseteq Nat
  BY <1>1 DEF Owed
<1> QED
  BY <1>1, <1>2, <1>3 DEF Standing

LEMMA PostWhole == OverlayInv /\ PostedInv /\ WholeInv /\ Post => WholeInv'
<1> SUFFICES ASSUME OverlayInv, PostedInv, WholeInv, Post PROVE WholeInv'
  OBVIOUS
<1> DEFINE e == Head(posting)
           w == ChunkOfEvent(e)
<1>1. /\ e \in Events /\ queue \in Seq(Events) /\ queue' = Queued(queue, e)
      /\ UNCHANGED <<messages, app>>
      /\ e.kind = "DELTA" => e.what = <<<<app.turn, app.pieces>>>> /\ Owed = {app.pieces}
      /\ e.kind # "DELTA" => Owed = {}
      /\ Owed' = {}
  BY PostedFacts
<1>2. /\ Shown \subseteq Nat /\ Waiting \subseteq Nat /\ Owed \subseteq Nat /\ app.pieces \in Nat /\ app.turn \in Nat
      /\ Standing \subseteq Nat
  BY StandingTypes
<1>3. hist'.lost = (hist.lost \/ Refused(queue, e))
  BY PostNotes
<1> HIDE DEF e
<1>4. Increasing(w) /\ Nums(w) = Owed
  <2>1. CASE e.kind = "DELTA"
    <3>1. w = <<<<app.turn, app.pieces>>>>
      BY <1>1, <2>1 DEF ChunkOfEvent
    <3> HIDE DEF w
    <3> QED
      BY <1>1, <1>2, <2>1, <3>1, OnePiece
  <2>2. CASE e.kind # "DELTA"
    <3>1. w = <<>>
      BY <2>2 DEF ChunkOfEvent
    <3> QED
      BY <1>1, <2>2, <3>1, NoChunks
  <2> QED
    BY <2>1, <2>2
<1> HIDE DEF w
<1>5. /\ ~Refused(queue, e) => Waiting' = Waiting \union Nums(w)
      /\ Refused(queue, e) => queue' = queue
      /\ Ordered(EventChunks(queue)) /\ Increasing(w) /\ AllBelow(Waiting, Nums(w)) => Ordered(EventChunks(queue'))
  BY <1>1, QueuedNums DEF Waiting, w
<1>6. AllBelow(Waiting, Nums(w)) /\ AllBelow(Shown, Nums(w))
  BY <1>4 DEF WholeInv, AllBelow
<1>7. Shown' = Shown /\ MessageChunks(messages') = MessageChunks(messages) /\ app'.pieces = app.pieces
  BY <1>1 DEF Shown
<1>8. Waiting' \subseteq Waiting \union Owed
  <2>1. CASE Refused(queue, e)
    BY <1>5, <2>1 DEF Waiting
  <2>2. CASE ~Refused(queue, e)
    BY <1>4, <1>5, <2>2
  <2> QED
    BY <2>1, <2>2
<1>9. Ordered(MessageChunks(messages')) /\ Ordered(EventChunks(queue'))
  BY <1>4, <1>5, <1>6, <1>7 DEF WholeInv
<1>10. AllBelow(Shown', Waiting') /\ AllBelow(Shown' \union Waiting', Owed')
  BY <1>1, <1>4, <1>6, <1>7, <1>8 DEF WholeInv, AllBelow
<1>11. Standing' \subseteq Standing
  BY <1>1, <1>7, <1>8 DEF Standing
<1>12. ~hist'.lost => Standing' = Standing
  BY <1>1, <1>3, <1>4, <1>5, <1>7 DEF Standing
<1> QED
  BY <1>3, <1>7, <1>9, <1>10, <1>11, <1>12 DEF WholeInv

LEMMA DrainWhole == OverlayInv /\ WholeInv /\ Drain => WholeInv'
<1> SUFFICES ASSUME OverlayInv, WholeInv, Drain PROVE WholeInv'
  OBVIOUS
<1> DEFINE e == Head(queue)
           w == ChunkOfEvent(e)
<1>1. /\ e \in Events /\ queue \in Seq(Events) /\ queue # <<>> /\ messages \in Seq(Messages)
      /\ queue' = Tail(queue) /\ messages' = Transcribed(messages, e) /\ UNCHANGED <<posting, app>>
  BY HeadTailProperties DEF OverlayInv, QueueOK, MessagesOK, Drain
<1>2. /\ Shown \subseteq Nat /\ Waiting \subseteq Nat /\ Owed \subseteq Nat /\ app.pieces \in Nat
      /\ Standing \subseteq Nat /\ ui.open \in BOOLEAN
  BY StandingTypes
<1>3. hist'.lost = hist.lost
  BY DEF Drain, OverlayInv, HistOK, Histories
<1> HIDE DEF e
<1>4. /\ Waiting = Nums(w) \union Waiting'
      /\ Ordered(EventChunks(queue')) /\ Increasing(w) /\ AllBelow(Nums(w), Waiting')
  <2>1. /\ EventChunks(queue') = Tail(EventChunks(queue)) /\ EventChunks(queue) # <<>>
        /\ Head(EventChunks(queue)) = w /\ EventChunks(queue) \in Seq(Pieces)
    BY <1>1, EventChunksTail, EventChunksType DEF e
  <2> HIDE DEF w
  <2> QED
    BY <2>1, ChunksTail DEF WholeInv, Waiting
<1>5. Owed' = Owed /\ app'.pieces = app.pieces
  BY <1>1 DEF Owed
<1> HIDE DEF w
<1>6. /\ e.kind = "CLEAR" => messages' = <<>>
      /\ e.kind # "CLEAR" =>
           /\ Shown' = Shown \union Nums(w)
           /\ /\ Ordered(MessageChunks(messages)) /\ Increasing(w) /\ AllBelow(Shown, Nums(w))
              => Ordered(MessageChunks(messages'))
  BY <1>1, <1>2, TranscribedNums DEF w, Shown
<1>7. AllBelow(Shown, Nums(w))
  BY <1>4 DEF WholeInv, AllBelow
<1>8. CASE e.kind = "CLEAR"
  <2>1. Shown' = {} /\ Ordered(MessageChunks(messages'))
    BY <1>6, <1>8, NoChunks DEF Shown
  <2>2. w = <<>>
    BY <1>8 DEF w, ChunkOfEvent
  <2>3. Waiting' = Waiting
    BY <1>4, <2>2, NoChunks
  <2>4. AllBelow(Shown', Waiting') /\ AllBelow(Shown' \union Waiting', Owed')
    BY <1>5, <2>1, <2>3 DEF WholeInv, AllBelow
  <2>5. Standing' = Waiting \union Owed /\ Standing = Shown \union Waiting \union Owed
    BY <1>5, <2>1, <2>3 DEF Standing
  <2>6. ASSUME ~hist.lost, NEW m \in Waiting \union Owed, NEW n \in m..app.pieces PROVE n \in Waiting \union Owed
    <3>1. m \in Nat /\ n \in Int /\ m <= n
      BY <1>2, <2>6
    <3>2. n \in Shown \union Waiting \union Owed
      BY <2>5, <2>6 DEF WholeInv
    <3>3. \A a \in Shown : a < m
      BY <2>6 DEF WholeInv, AllBelow
    <3>4. n \notin Shown
      BY <1>2, <3>1, <3>3
    <3> QED
      BY <3>2, <3>4
  <2>7. \A n \in Standing' : n <= app'.pieces
    BY <1>5, <2>5 DEF WholeInv
  <2> QED
    BY <1>3, <1>4, <1>5, <2>1, <2>4, <2>5, <2>6, <2>7 DEF WholeInv
<1>9. CASE e.kind # "CLEAR"
  <2>1. Shown' = Shown \union Nums(w)
    BY <1>6, <1>9
  <2>2. Ordered(MessageChunks(messages'))
    BY <1>4, <1>6, <1>7, <1>9 DEF WholeInv
  <2>3. AllBelow(Shown', Waiting') /\ AllBelow(Shown' \union Waiting', Owed')
    BY <1>4, <1>5, <2>1 DEF WholeInv, AllBelow
  <2>4. Standing' = Standing
    BY <1>4, <1>5, <2>1 DEF Standing
  <2> QED
    BY <1>3, <1>4, <1>5, <2>2, <2>3, <2>4 DEF WholeInv
<1> QED
  BY <1>8, <1>9

\* A handler of the worker.
LEMMA FairPosted ==
  ASSUME OverlayInv, NEW x, NEW events, Handles(x, events), Fair(x, events)
  PROVE  /\ PostedInv' /\ Owed = {} /\ UNCHANGED <<queue, messages>>
         /\ \/ Owed' = {} /\ app'.pieces = app.pieces
            \/ Owed' = {app.pieces + 1} /\ app'.pieces = app.pieces + 1
<1>1. posting = <<>> /\ posting' = events /\ app' = x /\ UNCHANGED <<queue, messages>>
  BY DEF Handles
<1>2. Owed = {}
  <2>1. Len(posting) = 0
    BY <1>1, EmptySeq
  <2> QED
    BY <2>1 DEF Owed
<1>3. CASE x.pieces = app.pieces /\ \A i \in 1..Len(events) : events[i].kind # "DELTA"
  BY <1>1, <1>2, <1>3 DEF PostedInv, Fair, Owed
<1>4. CASE /\ x.pieces = app.pieces + 1 /\ x.turn = app.turn /\ x.phase = "replying"
           /\ events = <<Event("DELTA", <<<<app.turn, app.pieces + 1>>>>)>>
  <2> DEFINE d == Event("DELTA", <<<<app.turn, app.pieces + 1>>>>)
  <2>1. Len(events) = 1 /\ events[1] = d
    BY <1>4
  <2>2. d.kind = "DELTA" /\ d.what = <<<<app.turn, app.pieces + 1>>>>
    BY DEF Event
  <2> HIDE DEF d
  <2>3. \A i \in 1..Len(events) : i = 1
    BY <2>1
  <2>4. 1 \in 1..Len(events)
    BY <2>1
  <2>5. PostedInv'
    BY <1>1, <1>4, <2>1, <2>2, <2>3 DEF PostedInv
  <2>6. Owed' = {app'.pieces}
    BY <1>1, <2>1, <2>2, <2>4 DEF Owed
  <2> QED
    BY <1>1, <1>2, <1>4, <2>5, <2>6
<1> QED
  BY <1>3, <1>4 DEF Fair

LEMMA FairWhole ==
  ASSUME OverlayInv, WholeInv, NEW x, NEW events, Handles(x, events), Fair(x, events), hist'.lost = hist.lost
  PROVE  WholeInv'
<1>1. /\ Owed = {} /\ UNCHANGED <<queue, messages>>
      /\ \/ Owed' = {} /\ app'.pieces = app.pieces
         \/ Owed' = {app.pieces + 1} /\ app'.pieces = app.pieces + 1
  BY FairPosted
<1>2. Shown' = Shown /\ Waiting' = Waiting
  BY <1>1 DEF Shown, Waiting
<1>3. /\ Shown \subseteq Nat /\ Waiting \subseteq Nat /\ app.pieces \in Nat
  BY StandingTypes
<1>4. CASE Owed' = {} /\ app'.pieces = app.pieces
  <2>1. Standing' = Standing
    BY <1>1, <1>2, <1>4 DEF Standing
  <2>2. AllBelow(Shown' \union Waiting', Owed')
    BY <1>4 DEF AllBelow
  <2> QED
    BY <1>1, <1>2, <1>4, <2>1, <2>2 DEF WholeInv
<1>5. CASE Owed' = {app.pieces + 1} /\ app'.pieces = app.pieces + 1
  <2>1. Standing' = Standing \union {app.pieces + 1} /\ Standing = Shown \union Waiting
    BY <1>1, <1>2, <1>5 DEF Standing
  <2>2. \A n \in Standing : n \in Nat /\ n <= app.pieces
    BY <1>3, <2>1 DEF WholeInv
  <2>3. AllBelow(Shown' \union Waiting', Owed')
    BY <1>2, <1>3, <1>5, <2>1, <2>2 DEF AllBelow
  <2>4. \A n \in Standing' : n <= app'.pieces
    BY <1>3, <1>5, <2>1, <2>2
  <2>5. ASSUME ~hist.lost, NEW m \in Standing', NEW n \in m..(app.pieces + 1) PROVE n \in Standing'
    <3>1. CASE n = app.pieces + 1
      BY <2>1, <3>1
    <3>2. CASE n # app.pieces + 1
      <4>1. m \in Nat /\ m \in Standing \union {app.pieces + 1}
        BY <1>3, <2>1, <2>2
      <4>2. n \in m..app.pieces
        BY <1>3, <2>5, <3>2, <4>1
      <4>3. m \in Standing
        BY <1>3, <4>1, <4>2
      <4> QED
        BY <2>1, <2>5, <4>2, <4>3 DEF WholeInv
    <3> QED
      BY <3>1, <3>2
  <2> QED
    BY <1>1, <1>2, <1>5, <2>3, <2>4, <2>5 DEF WholeInv
<1> QED
  BY <1>1, <1>4, <1>5

\* What the user does leaves replies and questions alone.
LEMMA UserAloof ==
  ASSUME OverlayInv, User
  PROVE  /\ UNCHANGED <<queue, messages, posting>>
         /\ app'.pieces = app.pieces /\ app'.turn = app.turn /\ app'.phase = app.phase
         /\ hist'.lost = hist.lost /\ hist'.mixed = hist.mixed
<1>1. /\ app'.pieces = app.pieces /\ app'.turn = app.turn /\ app'.phase = app.phase
  <2>1. UNCHANGED app \/ app' = [app EXCEPT !.incidents = app.incidents + 1]
    BY DEF User, Pause, PushToTalk, Stop, OpenSettings, CloseSettings, Answer, Order
  <2> QED
    BY <2>1 DEF OverlayInv, AppOK, Worked
<1>2. hist'.lost = hist.lost /\ hist'.mixed = hist.mixed
  BY DEF User, Pause, PushToTalk, Stop, OpenSettings, CloseSettings, Answer, OverlayInv, HistOK, Histories
<1> QED
  BY <1>1, <1>2 DEF User, Pause, PushToTalk, Stop, OpenSettings, CloseSettings, Answer

LEMMA WholeStep == OverlayInv /\ PostedInv /\ WholeInv /\ [OverlayNext]_overlayVars => PostedInv' /\ WholeInv'
<1> SUFFICES ASSUME OverlayInv, PostedInv, WholeInv, [OverlayNext]_overlayVars PROVE PostedInv' /\ WholeInv'
  OBVIOUS
<1>1. ASSUME UNCHANGED <<queue, messages, posting>>, hist'.lost = hist.lost,
             app'.pieces = app.pieces /\ app'.turn = app.turn /\ app'.phase = app.phase
      PROVE  PostedInv' /\ WholeInv'
  BY <1>1 DEF PostedInv, WholeInv, Standing, Shown, Waiting, Owed
<1>2. CASE Post
  BY <1>2, PostedFacts, PostWhole
<1>3. CASE Worker /\ ~Post
  BY <1>3, WorkerFair, FairPosted, FairWhole
<1>4. CASE Drain
  <2>1. UNCHANGED <<posting, app>>
    BY <1>4 DEF Drain
  <2> QED
    BY <1>4, <2>1, DrainWhole DEF PostedInv
<1>5. CASE User
  BY <1>1, <1>5, UserAloof
<1>6. CASE UNCHANGED overlayVars
  BY <1>1, <1>6 DEF overlayVars
<1> QED
  BY <1>2, <1>3, <1>4, <1>5, <1>6 DEF OverlayNext

LEMMA WholeInit == OverlayInit => PostedInv /\ WholeInv
<1> SUFFICES ASSUME OverlayInit PROVE PostedInv /\ WholeInv
  OBVIOUS
<1>1. queue = <<>> /\ messages = <<>> /\ posting = <<>> /\ Len(posting) = 0
  BY EmptySeq DEF OverlayInit
<1>2. Shown = {} /\ Waiting = {} /\ Owed = {} /\ Standing = {}
  BY <1>1, NoChunks DEF Shown, Waiting, Owed, Standing
<1>3. PostedInv
  BY <1>1 DEF PostedInv
<1> QED
  BY <1>1, <1>2, <1>3, NoChunks DEF WholeInv, AllBelow

LEMMA WholeInvariant == OverlaySpec => [](PostedInv /\ WholeInv)
BY WholeInit, WholeStep, OverlayInvHolds, PTL DEF OverlaySpec

-----------------------------------------------------------------------------
(* RepliesWhole, from where the pieces are.                                 *)

\* The places of pieces as places in chunks.
LEMMA SpotCases ==
  ASSUME OverlayInv, PostedInv, NEW s \in Spots
  PROVE  LET mc == MessageChunks(messages)
             qc == EventChunks(queue)
         IN  \/ /\ s[1] = 1 /\ s[2] \in DOMAIN mc /\ s[3] \in DOMAIN mc[s[2]]
                /\ Number(s) = mc[s[2]][s[3]][2]
             \/ /\ s[1] = 2 /\ s[2] \in DOMAIN qc /\ s[3] \in DOMAIN qc[s[2]]
                /\ Number(s) = qc[s[2]][s[3]][2]
             \/ /\ s[1] = 3 /\ s[2] = 1 /\ s[3] = 1
                /\ Owed = {app.pieces} /\ Number(s) = app.pieces
<1> DEFINE mc == MessageChunks(messages)
           qc == EventChunks(queue)
<1>1. /\ DOMAIN mc = 1..Len(messages) /\ \A i \in 1..Len(messages) : mc[i] = ChunkOfMessage(messages[i])
      /\ DOMAIN qc = 1..Len(queue) /\ \A i \in 1..Len(queue) : qc[i] = ChunkOfEvent(queue[i])
      /\ DOMAIN messages = 1..Len(messages) /\ DOMAIN queue = 1..Len(queue) /\ DOMAIN posting = 1..Len(posting)
  BY MessageChunksType, EventChunksType, LenProperties DEF OverlayInv, MessagesOK, QueueOK, PostingOK
<1> HIDE DEF mc, qc
<1>2. \/ \E i \in DOMAIN messages : messages[i].kind = "ASSISTANT" /\ s \in {1} \X {i} \X DOMAIN messages[i].text
      \/ \E i \in DOMAIN queue : queue[i].kind = "DELTA" /\ s \in {2} \X {i} \X DOMAIN queue[i].what
      \/ \E i \in DOMAIN posting : posting[i].kind = "DELTA" /\ s \in {3} \X {i} \X DOMAIN posting[i].what
  BY DEF Spots
<1>3. ASSUME NEW i \in DOMAIN messages, messages[i].kind = "ASSISTANT", s \in {1} \X {i} \X DOMAIN messages[i].text
      PROVE  /\ s[1] = 1 /\ s[2] \in DOMAIN mc /\ s[3] \in DOMAIN mc[s[2]]
             /\ Number(s) = mc[s[2]][s[3]][2]
  <2>1. s[1] = 1 /\ s[2] = i /\ s[3] \in DOMAIN messages[i].text
    BY <1>3
  <2>2. mc[i] = messages[i].text
    BY <1>1, <1>3 DEF ChunkOfMessage
  <2>3. Piece(s) = messages[i].text[s[3]]
    BY <2>1 DEF Piece
  <2> QED
    BY <1>1, <2>1, <2>2, <2>3 DEF Number
<1>4. ASSUME NEW i \in DOMAIN queue, queue[i].kind = "DELTA", s \in {2} \X {i} \X DOMAIN queue[i].what
      PROVE  /\ s[1] = 2 /\ s[2] \in DOMAIN qc /\ s[3] \in DOMAIN qc[s[2]]
             /\ Number(s) = qc[s[2]][s[3]][2]
  <2>1. s[1] = 2 /\ s[2] = i /\ s[3] \in DOMAIN queue[i].what
    BY <1>4
  <2>2. qc[i] = queue[i].what
    BY <1>1, <1>4 DEF ChunkOfEvent
  <2>3. Piece(s) = queue[i].what[s[3]]
    BY <2>1 DEF Piece
  <2> QED
    BY <1>1, <2>1, <2>2, <2>3 DEF Number
<1>5. ASSUME NEW i \in DOMAIN posting, posting[i].kind = "DELTA", s \in {3} \X {i} \X DOMAIN posting[i].what
      PROVE  /\ s[1] = 3 /\ s[2] = 1 /\ s[3] = 1
             /\ Owed = {app.pieces} /\ Number(s) = app.pieces
  <2>1. Len(posting) = 1 /\ posting[i].what = <<<<app.turn, app.pieces>>>>
    BY <1>1, <1>5 DEF PostedInv
  <2>2. i = 1 /\ Owed = {app.pieces}
    BY <1>1, <1>5, <2>1 DEF Owed
  <2> DEFINE w == posting[i].what
  <2>3. w = <<<<app.turn, app.pieces>>>> /\ s[1] = 3 /\ s[2] = i /\ s[3] \in DOMAIN w
    BY <1>5, <2>1
  <2>4. DOMAIN w = {1} /\ w[1][2] = app.pieces
    <3>1. DOMAIN <<<<app.turn, app.pieces>>>> = {1}
      OBVIOUS
    <3> QED
      BY <2>3, <3>1
  <2>5. Piece(s) = w[s[3]]
    BY <2>3 DEF Piece
  <2> HIDE DEF w
  <2> QED
    BY <2>2, <2>3, <2>4, <2>5 DEF Number
<1> QED
  BY <1>2, <1>3, <1>4, <1>5 DEF mc, qc

LEMMA StandingSpot ==
  ASSUME OverlayInv, PostedInv, NEW n \in Standing
  PROVE  \E t \in Spots : Number(t) = n
<1> DEFINE mc == MessageChunks(messages)
           qc == EventChunks(queue)
<1>1. /\ DOMAIN mc = 1..Len(messages) /\ \A i \in 1..Len(messages) : mc[i] = ChunkOfMessage(messages[i])
      /\ DOMAIN qc = 1..Len(queue) /\ \A i \in 1..Len(queue) : qc[i] = ChunkOfEvent(queue[i])
      /\ DOMAIN messages = 1..Len(messages) /\ DOMAIN queue = 1..Len(queue) /\ DOMAIN posting = 1..Len(posting)
  BY MessageChunksType, EventChunksType, LenProperties DEF OverlayInv, MessagesOK, QueueOK, PostingOK
<1> HIDE DEF mc, qc
<1>2. CASE n \in Shown
  <2>1. PICK i \in DOMAIN mc : n \in Nums(mc[i])
    BY <1>2 DEF Shown, NumsOf, mc
  <2>2. PICK k \in DOMAIN mc[i] : n = mc[i][k][2]
    BY <2>1 DEF Nums
  <2>3. mc[i] # <<>>
    BY <2>1, NoChunks
  <2>4. messages[i].kind = "ASSISTANT" /\ mc[i] = messages[i].text /\ i \in DOMAIN messages
    BY <1>1, <2>3 DEF ChunkOfMessage
  <2> DEFINE t == <<1, i, k>>
  <2>5. t \in Spots
    <3>1. t \in {1} \X {i} \X DOMAIN messages[i].text
      BY <2>2, <2>4
    <3>2. ({1} \X {i} \X DOMAIN messages[i].text)
            \in {{1} \X {j} \X DOMAIN messages[j].text : j \in {m \in DOMAIN messages : messages[m].kind = "ASSISTANT"}}
      BY <2>4
    <3> HIDE DEF t
    <3> QED
      BY <3>1, <3>2 DEF Spots
  <2>6. Number(t) = n
    BY <2>2, <2>4 DEF Number, Piece
  <2> QED
    BY <2>5, <2>6
<1>3. CASE n \in Waiting
  <2>1. PICK i \in DOMAIN qc : n \in Nums(qc[i])
    BY <1>3 DEF Waiting, NumsOf, qc
  <2>2. PICK k \in DOMAIN qc[i] : n = qc[i][k][2]
    BY <2>1 DEF Nums
  <2>3. qc[i] # <<>>
    BY <2>1, NoChunks
  <2>4. queue[i].kind = "DELTA" /\ qc[i] = queue[i].what /\ i \in DOMAIN queue
    BY <1>1, <2>3 DEF ChunkOfEvent
  <2> DEFINE t == <<2, i, k>>
  <2>5. t \in Spots
    <3>1. t \in {2} \X {i} \X DOMAIN queue[i].what
      BY <2>2, <2>4
    <3>2. ({2} \X {i} \X DOMAIN queue[i].what)
            \in {{2} \X {j} \X DOMAIN queue[j].what : j \in {m \in DOMAIN queue : queue[m].kind = "DELTA"}}
      BY <2>4
    <3> HIDE DEF t
    <3> QED
      BY <3>1, <3>2 DEF Spots
  <2>6. Number(t) = n
    BY <2>2, <2>4 DEF Number, Piece
  <2> QED
    BY <2>5, <2>6
<1>4. CASE n \in Owed
  <2>1. n = app.pieces /\ \E i \in 1..Len(posting) : posting[i].kind = "DELTA"
    BY <1>4 DEF Owed
  <2>2. PICK i \in 1..Len(posting) : posting[i].kind = "DELTA"
    BY <2>1
  <2>3. posting[i].what = <<<<app.turn, app.pieces>>>> /\ i \in DOMAIN posting
    BY <1>1, <2>2 DEF PostedInv
  <2> DEFINE t == <<3, i, 1>>
             w == <<<<app.turn, app.pieces>>>>
  <2>4. 1 \in DOMAIN w /\ w[1][2] = app.pieces
    OBVIOUS
  <2>5. t \in Spots
    <3>1. t \in {3} \X {i} \X DOMAIN posting[i].what
      BY <2>3, <2>4
    <3>2. ({3} \X {i} \X DOMAIN posting[i].what)
            \in {{3} \X {j} \X DOMAIN posting[j].what : j \in {m \in DOMAIN posting : posting[m].kind = "DELTA"}}
      BY <2>2, <2>3
    <3> HIDE DEF t
    <3> QED
      BY <3>1, <3>2 DEF Spots
  <2>6. Number(t) = n
    BY <2>1, <2>3, <2>4 DEF Number, Piece
  <2> QED
    BY <2>5, <2>6
<1> QED
  BY <1>2, <1>3, <1>4 DEF Standing

LEMMA NumInChunk ==
  ASSUME NEW c, NEW i \in DOMAIN c, NEW k \in DOMAIN c[i]
  PROVE  c[i][k][2] \in Nums(c[i]) /\ c[i][k][2] \in NumsOf(c)
<1>1. c[i][k][2] \in Nums(c[i])
  BY DEF Nums
<1> QED
  BY <1>1 DEF NumsOf

LEMMA OrderedChunks ==
  ASSUME NEW c, Ordered(c), NEW i \in DOMAIN c, NEW j \in DOMAIN c, NEW k \in DOMAIN c[i], NEW l \in DOMAIN c[j],
         i < j \/ (i = j /\ k < l)
  PROVE  c[i][k][2] < c[j][l][2]
<1>1. CASE i < j
  <2>1. AllBelow(Nums(c[i]), Nums(c[j]))
    BY <1>1 DEF Ordered
  <2> QED
    BY <2>1, NumInChunk DEF AllBelow
<1>2. CASE i = j /\ k < l
  BY <1>2 DEF Ordered, Increasing
<1> QED
  BY <1>1, <1>2

LEMMA WholeReplies == OverlayInv /\ PostedInv /\ WholeInv => RepliesWhole
<1> SUFFICES ASSUME OverlayInv, PostedInv, WholeInv PROVE RepliesWhole
  OBVIOUS
<1> DEFINE mc == MessageChunks(messages)
           qc == EventChunks(queue)
<1>1. Ordered(mc) /\ Ordered(qc) /\ AllBelow(NumsOf(mc), NumsOf(qc))
      /\ AllBelow(NumsOf(mc) \union NumsOf(qc), Owed)
  BY DEF WholeInv, Shown, Waiting
<1>0. NumsOf(mc) = Shown /\ NumsOf(qc) = Waiting
  BY DEF Shown, Waiting
<1> DEFINE On(s) == /\ s[1] = 1 /\ s[2] \in DOMAIN mc /\ s[3] \in DOMAIN mc[s[2]]
                    /\ Number(s) = mc[s[2]][s[3]][2]
           In(s) == /\ s[1] = 2 /\ s[2] \in DOMAIN qc /\ s[3] \in DOMAIN qc[s[2]]
                    /\ Number(s) = qc[s[2]][s[3]][2]
           Yet(s) == /\ s[1] = 3 /\ s[2] = 1 /\ s[3] = 1
                     /\ Owed = {app.pieces} /\ Number(s) = app.pieces
<1>2. \A s \in Spots : On(s) \/ In(s) \/ Yet(s)
  BY SpotCases
<1> HIDE DEF mc, qc
<1>3. ASSUME NEW s PROVE /\ On(s) => Number(s) \in NumsOf(mc)
                         /\ In(s) => Number(s) \in NumsOf(qc)
                         /\ Yet(s) => Number(s) \in Owed
  BY NumInChunk
<1>4. ASSUME NEW s \in Spots, NEW t \in Spots, Before(s, t) PROVE Number(s) < Number(t)
  <2>1. CASE On(s) /\ On(t)
    <3>1. s[2] < t[2] \/ (s[2] = t[2] /\ s[3] < t[3])
      BY <1>4, <2>1 DEF Before
    <3> QED
      BY <1>1, <2>1, <3>1, OrderedChunks
  <2>2. CASE In(s) /\ In(t)
    <3>1. s[2] < t[2] \/ (s[2] = t[2] /\ s[3] < t[3])
      BY <1>4, <2>2 DEF Before
    <3> QED
      BY <1>1, <2>2, <3>1, OrderedChunks
  <2>3. CASE On(s) /\ In(t)
    BY <1>1, <1>3, <2>3 DEF AllBelow
  <2>4. CASE (On(s) \/ In(s)) /\ Yet(t)
    BY <1>1, <1>3, <2>4 DEF AllBelow
  <2>5. CASE Yet(s) \/ (In(s) /\ On(t))
    <3>1. CASE In(s) /\ On(t)
      <4>1. s[1] = 2 /\ t[1] = 1
        BY <3>1
      <4> QED
        BY <1>4, <4>1 DEF Before
    <3>2. CASE Yet(s)
      <4>1. s[1] = 3 /\ s[2] = 1 /\ s[3] = 1 /\ (t[1] \in {1, 2} \/ (t[1] = 3 /\ t[2] = 1 /\ t[3] = 1))
        BY <1>2, <3>2
      <4> QED
        BY <1>4, <4>1 DEF Before
    <3> QED
      BY <2>5, <3>1, <3>2
  <2> QED
    BY <1>2, <2>1, <2>2, <2>3, <2>4, <2>5
<1>5. ASSUME NEW s \in Spots PROVE Number(s) \in Standing
  BY <1>0, <1>2, <1>3 DEF Standing
<1>6. ASSUME NEW s \in Spots, ~hist.lost
      PROVE  /\ Number(s) <= app.pieces
             /\ \A n \in Number(s)..app.pieces : \E t \in Spots : Number(t) = n
  BY <1>5, <1>6, StandingSpot DEF WholeInv
<1> QED
  BY <1>4, <1>6 DEF RepliesWhole

-----------------------------------------------------------------------------
(* The question that a reply stands beneath.                                *)

\* The last question on display.
LastUser(ms, t) ==
  \E j \in 1..Len(ms) :
    ms[j] = Message("USER", t) /\ \A k \in (j + 1)..Len(ms) : ms[k].kind # "USER"

\* The question ahead of the place i of the queue.
Asked(q, ms, i, t) ==
  \/ \E j \in 1..(i - 1) : /\ q[j] = Event("USER", t)
                           /\ \A k \in (j + 1)..(i - 1) : q[k].kind \notin Parting
  \/ (\A k \in 1..(i - 1) : q[k].kind \notin Parting) /\ LastUser(ms, t)

TurnsIn(w) == {w[k][1] : k \in DOMAIN w}

\* The question above message i.
Heads(ms, i, t) ==
  \E j \in 1..(i - 1) : /\ ms[j] = Message("USER", t)
                        /\ \A k \in (j + 1)..i : ms[k].kind # "USER"

AllHeaded(ms) ==
  \A i \in 1..Len(ms) : ms[i].kind = "ASSISTANT" => \A t \in TurnsIn(ms[i].text) : Heads(ms, i, t)
AllAsked(q, ms) ==
  \A i \in 1..Len(q) : q[i].kind = "DELTA" => \A t \in TurnsIn(q[i].what) : Asked(q, ms, i, t)

TurnsInv ==
  \A i \in 1..Len(queue) : queue[i].kind = "DELTA" => \A t \in TurnsIn(queue[i].what) : t <= app.turn

\* The question of the turn the worker is in is the last one, posted or not.
TurnAsked ==
  app.phase \in Answering =>
    \/ /\ posting # <<>> /\ posting[1] = Event("USER", app.turn)
       /\ \A i \in 2..Len(posting) : posting[i].kind \notin Parting
    \/ /\ \A i \in 1..Len(posting) : posting[i].kind \notin Parting
       /\ Asked(queue, messages, Len(queue) + 1, app.turn)

AskedInv ==
  ~hist.lost /\ ~hist.mixed => AllHeaded(messages) /\ AllAsked(queue, messages) /\ TurnAsked

LEMMA TurnsFacts ==
  ASSUME NEW v \in Pieces, NEW w \in Pieces
  PROVE  TurnsIn(v) \subseteq Nat /\ TurnsIn(v \o w) \subseteq TurnsIn(v) \union TurnsIn(w)
<1>1. /\ Len(v) \in Nat /\ Len(w) \in Nat /\ DOMAIN v = 1..Len(v) /\ DOMAIN w = 1..Len(w)
      /\ DOMAIN (v \o w) = 1..(Len(v) + Len(w))
      /\ \A i \in 1..(Len(v) + Len(w)) : (v \o w)[i] = IF i <= Len(v) THEN v[i] ELSE w[i - Len(v)]
  BY ConcatProperties, LenProperties DEF Pieces
<1>2. \A k \in DOMAIN v : v[k] \in Nat \X Nat
  BY <1>1, ElementOfSeq DEF Pieces
<1>3. \A k \in 1..(Len(v) + Len(w)) : (k <= Len(v) /\ k \in 1..Len(v)) \/ (~(k <= Len(v)) /\ k - Len(v) \in 1..Len(w))
  BY <1>1
<1>4. \A k \in 1..(Len(v) + Len(w)) : \/ k \in 1..Len(v) /\ (v \o w)[k] = v[k]
                                      \/ k - Len(v) \in 1..Len(w) /\ (v \o w)[k] = w[k - Len(v)]
  BY <1>1, <1>3
<1> QED
  BY <1>1, <1>2, <1>4 DEF TurnsIn

LEMMA OneTurn == \A t, n : TurnsIn(<<<<t, n>>>>) = {t}
<1> SUFFICES ASSUME NEW t, NEW n PROVE TurnsIn(<<<<t, n>>>>) = {t}
  OBVIOUS
<1> DEFINE w == <<<<t, n>>>>
<1>1. DOMAIN w = {1} /\ w[1][1] = t
  <2>1. Len(w) = 1 /\ 1..1 = {1} /\ DOMAIN w = 1..Len(w)
    OBVIOUS
  <2> QED
    BY <2>1
<1> HIDE DEF w
<1>2. TurnsIn(w) = {t}
  BY <1>1 DEF TurnsIn
<1> QED
  BY <1>2 DEF w

\* The last question stays the last beneath a message that is none.
LEMMA LastUserKept ==
  ASSUME NEW ms \in Seq(Messages), NEW p \in Seq(Messages), NEW t, LastUser(ms, t), Len(ms) <= Len(p),
         \A i \in 1..Len(ms) : p[i] = ms[i] \/ (p[i].kind # "USER" /\ ms[i].kind # "USER"),
         \A i \in (Len(ms) + 1)..Len(p) : p[i].kind # "USER"
  PROVE  LastUser(p, t)
<1>1. PICK j \in 1..Len(ms) : ms[j] = Message("USER", t) /\ \A k \in (j + 1)..Len(ms) : ms[k].kind # "USER"
  BY DEF LastUser
<1>2. Len(ms) \in Nat /\ Len(p) \in Nat /\ j \in 1..Len(p) /\ p[j] = Message("USER", t)
  BY <1>1, LenProperties DEF Message
<1>3. ASSUME NEW k \in (j + 1)..Len(p) PROVE p[k].kind # "USER"
  <2>1. k \in (j + 1)..Len(ms) \/ k \in (Len(ms) + 1)..Len(p)
    BY <1>2
  <2>2. k \in (j + 1)..Len(ms) => k \in 1..Len(ms)
    BY <1>2
  <2> QED
    BY <1>1, <2>1, <2>2
<1> QED
  BY <1>2, <1>3 DEF LastUser

\* What an event makes of the transcript: nothing, a message more, or the last one
\* with another text.
LEMMA TranscribedCases ==
  ASSUME NEW ms \in Seq(Messages), NEW e \in Events, ui.open \in BOOLEAN,
         NEW p, p = Transcribed(ms, e), NEW n, n = Len(ms)
  PROVE  /\ p \in Seq(Messages)
         /\ \/ p = ms /\ e.kind \notin {"USER", "DELTA", "CLEAR"}
            \/ p = <<>> /\ e.kind = "CLEAR"
            \/ /\ Len(p) = n + 1 /\ \A i \in 1..n : p[i] = ms[i]
               /\ \/ e.kind = "USER" /\ p[n + 1] = Message("USER", e.what)
                  \/ e.kind = "DELTA" /\ p[n + 1] = Message("ASSISTANT", e.what)
                  \/ e.kind \in {"ERROR", "ANNOUNCEMENT"} /\ p[n + 1].kind = e.kind
            \/ /\ Len(p) = n /\ n \in 1..n /\ \A i \in 1..n : i # n => p[i] = ms[i]
               /\ \/ e.kind = "USER" /\ ms[n].kind = "USER" /\ p[n] = Message("USER", e.what)
                  \/ /\ e.kind = "DELTA" /\ ms[n].kind = "ASSISTANT" /\ p[n].kind = "ASSISTANT"
                     /\ p[n].text = ms[n].text \o e.what
<1>1. /\ \A v \in Texts : Message("ERROR", v) \in Messages
      /\ Message("ANNOUNCEMENT", 0) \in Messages
      /\ \A k, v : Message(k, v).kind = k /\ Message(k, v).text = v
      /\ \A v \in Nat : Message("USER", v) \in Messages
      /\ \A v \in Pieces : Message("ASSISTANT", v) \in Messages
  BY DEF Message, Messages
<1>2. n \in Nat
  BY LenProperties
<1>3. ASSUME NEW m \in Messages, p = Append(ms, m)
      PROVE  p \in Seq(Messages) /\ Len(p) = n + 1 /\ p[n + 1] = m /\ \A i \in 1..n : p[i] = ms[i]
  BY <1>3, AppendProperties
<1>4. ASSUME n # 0, NEW m \in Messages, p = [ms EXCEPT ![n] = m]
      PROVE  /\ p \in Seq(Messages) /\ Len(p) = n /\ n \in 1..n /\ p[n] = m
             /\ \A i \in 1..n : i # n => p[i] = ms[i]
  <2>1. n \in 1..n
    BY <1>2, <1>4
  <2> QED
    BY <1>4, <2>1, ExceptSeq
<1>5. CASE e.kind = "USER"
  <2>1. e.what \in Nat /\ p = Added(ms, "USER", e.what, ui.open)
    BY <1>5, KindOf DEF Transcribed
  <2>2. CASE ui.open /\ LastIs(ms, "USER")
    <3>1. n # 0 /\ n \in 1..n /\ ms[n] \in Messages /\ ms[n].kind = "USER"
      BY <2>2, EmptySeq, LenProperties, ElementOfSeq DEF LastIs
    <3>2. [ms[n] EXCEPT !.text = e.what] = Message("USER", e.what)
      BY <2>1, <3>1 DEF Messages, Message
    <3>3. p = [ms EXCEPT ![n] = [ms[n] EXCEPT !.text = e.what]]
      BY <2>1, <2>2 DEF Added
    <3>4. p = [ms EXCEPT ![n] = Message("USER", e.what)]
      BY <3>2, <3>3
    <3> QED
      BY <1>1, <1>4, <1>5, <2>1, <3>1, <3>4
  <2>3. CASE ~(ui.open /\ LastIs(ms, "USER"))
    <3>1. p = Append(ms, Message("USER", e.what))
      BY <2>1, <2>3 DEF Added
    <3> QED
      BY <1>1, <1>3, <1>5, <2>1, <3>1
  <2> QED
    BY <2>2, <2>3
<1>6. CASE e.kind = "DELTA"
  <2>1. e.what \in Pieces /\ p = Appended(ms, e.what)
    BY <1>6, KindOf DEF Transcribed
  <2>2. CASE LastIs(ms, "ASSISTANT")
    <3>1. n # 0 /\ n \in 1..n /\ ms[n] \in Messages /\ ms[n].kind = "ASSISTANT"
      BY <2>2, EmptySeq, LenProperties, ElementOfSeq DEF LastIs
    <3>2. ms[n].text \in Pieces
      BY <3>1 DEF Messages
    <3>3. ms[n].text \o e.what \in Pieces
      BY <2>1, <3>2, ConcatProperties DEF Pieces
    <3> DEFINE m == [ms[n] EXCEPT !.text = ms[n].text \o e.what]
    <3>4. m \in Messages /\ m.kind = "ASSISTANT" /\ m.text = ms[n].text \o e.what
      <4>1. \A t \in Pieces : LET z == [ms[n] EXCEPT !.text = t]
                              IN z \in Messages /\ z.kind = "ASSISTANT" /\ z.text = t
        BY <3>1 DEF Messages
      <4> QED
        BY <3>3, <4>1
    <3>5. p = [ms EXCEPT ![n] = m]
      BY <2>1, <2>2 DEF Appended
    <3> HIDE DEF m
    <3> QED
      BY <1>4, <1>6, <3>1, <3>4, <3>5
  <2>3. CASE ~LastIs(ms, "ASSISTANT")
    <3>1. p = Append(ms, Message("ASSISTANT", e.what))
      BY <2>1, <2>3 DEF Appended
    <3> QED
      BY <1>1, <1>3, <1>6, <2>1, <3>1
  <2> QED
    BY <2>2, <2>3
<1>7. CASE e.kind \in {"ERROR", "ANNOUNCEMENT"}
  <2>1. e.kind = "ERROR" => e.what \in Texts
    BY KindOf
  <2>2. PICK v : p = ms \/ (p = Append(ms, Message(e.kind, v)) /\ Message(e.kind, v) \in Messages)
    BY <1>1, <1>7, <2>1 DEF Transcribed
  <2>3. Message(e.kind, v).kind = e.kind
    BY <1>1
  <2> QED
    BY <1>3, <1>7, <2>2, <2>3
<1>8. CASE e.kind = "CLEAR"
  BY <1>8, EmptySeq DEF Transcribed
<1>9. CASE e.kind \notin {"USER", "DELTA", "ERROR", "ANNOUNCEMENT", "CLEAR"}
  BY <1>9 DEF Transcribed
<1> QED
  BY <1>5, <1>6, <1>7, <1>8, <1>9

LEMMA TranscribedAsks ==
  ASSUME NEW ms \in Seq(Messages), NEW e \in Events, ui.open \in BOOLEAN, NEW t
  PROVE  /\ e = Event("USER", t) => LastUser(Transcribed(ms, e), t)
         /\ e.kind \notin Parting /\ LastUser(ms, t) => LastUser(Transcribed(ms, e), t)
<1> DEFINE p == Transcribed(ms, e)
           n == Len(ms)
<1>0. /\ p \in Seq(Messages)
      /\ \/ p = ms /\ e.kind \notin {"USER", "DELTA", "CLEAR"}
         \/ p = <<>> /\ e.kind = "CLEAR"
         \/ /\ Len(p) = n + 1 /\ \A i \in 1..n : p[i] = ms[i]
            /\ \/ e.kind = "USER" /\ p[n + 1] = Message("USER", e.what)
               \/ e.kind = "DELTA" /\ p[n + 1] = Message("ASSISTANT", e.what)
               \/ e.kind \in {"ERROR", "ANNOUNCEMENT"} /\ p[n + 1].kind = e.kind
         \/ /\ Len(p) = n /\ n \in 1..n /\ \A i \in 1..n : i # n => p[i] = ms[i]
            /\ \/ e.kind = "USER" /\ ms[n].kind = "USER" /\ p[n] = Message("USER", e.what)
               \/ /\ e.kind = "DELTA" /\ ms[n].kind = "ASSISTANT" /\ p[n].kind = "ASSISTANT"
                  /\ p[n].text = ms[n].text \o e.what
  BY TranscribedCases
<1>1. p \in Seq(Messages) /\ n \in Nat /\ Len(p) \in Nat
  BY <1>0, LenProperties
<1>2. CASE e = Event("USER", t)
  <2>1. e.kind = "USER" /\ e.what = t
    BY <1>2 DEF Event
  <2>2. \/ Len(p) = n + 1 /\ p[n + 1] = Message("USER", t)
        \/ Len(p) = n /\ n \in 1..n /\ p[n] = Message("USER", t)
    BY <1>0, <2>1
  <2> HIDE DEF p, n
  <2>3. Len(p) \in 1..Len(p) /\ p[Len(p)] = Message("USER", t) /\ \A k \in (Len(p) + 1)..Len(p) : FALSE
    BY <1>1, <2>2
  <2>4. LastUser(p, t)
    BY <2>3 DEF LastUser
  <2> QED
    BY <1>2, <2>1, <2>4 DEF p, Parting
<1>3. CASE e.kind \notin Parting /\ LastUser(ms, t)
  <2>1. e.kind # "USER" /\ e.kind # "CLEAR"
    BY <1>3 DEF Parting
  <2>2. CASE p = ms
    BY <1>3, <2>1, <2>2 DEF Event
  <2>3. CASE p # ms
    <3>1. /\ Len(p) = n + 1 \/ Len(p) = n
          /\ \A i \in 1..n : p[i] = ms[i] \/ (p[i].kind # "USER" /\ ms[i].kind # "USER")
          /\ \A i \in (n + 1)..Len(p) : p[i].kind # "USER"
      <4>1. \A k, v : Message(k, v).kind = k
        BY DEF Message
      <4>2. CASE /\ Len(p) = n + 1 /\ \A i \in 1..n : p[i] = ms[i]
                 /\ \/ p[n + 1] = Message("ASSISTANT", e.what)
                    \/ e.kind \in {"ERROR", "ANNOUNCEMENT"} /\ p[n + 1].kind = e.kind
        <5>1. p[n + 1].kind # "USER"
          BY <4>1, <4>2
        <5>2. \A i \in (n + 1)..(n + 1) : i = n + 1
          BY <1>1
        <5> QED
          BY <4>2, <5>1, <5>2
      <4>3. CASE /\ Len(p) = n /\ \A i \in 1..n : i # n => p[i] = ms[i]
                 /\ ms[n].kind = "ASSISTANT" /\ p[n].kind = "ASSISTANT"
        <5>1. \A i \in (n + 1)..n : FALSE
          BY <1>1
        <5> QED
          BY <4>3, <5>1
      <4> QED
        BY <1>0, <2>1, <2>3, <4>2, <4>3
    <3> HIDE DEF p
    <3>2. LastUser(p, t)
      BY <1>1, <1>3, <3>1, LastUserKept
    <3> QED
      BY <1>3, <2>1, <3>2 DEF p, Event
  <2> QED
    BY <2>2, <2>3
<1> QED
  BY <1>2, <1>3

\* A message is headed as long as those before it stay.
LEMMA HeadsKept ==
  ASSUME NEW ms, NEW p, NEW i \in Nat, NEW t, Heads(ms, i, t),
         \A j \in 1..(i - 1) : p[j] = ms[j], p[i].kind # "USER"
  PROVE  Heads(p, i, t)
<1>1. PICK j \in 1..(i - 1) : ms[j] = Message("USER", t) /\ \A k \in (j + 1)..i : ms[k].kind # "USER"
  BY DEF Heads
<1>2. ASSUME NEW k \in (j + 1)..i PROVE p[k].kind # "USER"
  <2>1. k = i \/ k \in 1..(i - 1)
    BY <1>1
  <2> QED
    BY <1>1, <2>1
<1> QED
  BY <1>1, <1>2 DEF Heads

LEMMA TranscribedHeads ==
  ASSUME NEW ms \in Seq(Messages), NEW e \in Events, ui.open \in BOOLEAN, AllHeaded(ms),
         e.kind = "DELTA" => \A t \in TurnsIn(e.what) : LastUser(ms, t)
  PROVE  AllHeaded(Transcribed(ms, e))
<1> DEFINE p == Transcribed(ms, e)
           n == Len(ms)
<1>0. /\ p \in Seq(Messages)
      /\ \/ p = ms /\ e.kind \notin {"USER", "DELTA", "CLEAR"}
         \/ p = <<>> /\ e.kind = "CLEAR"
         \/ /\ Len(p) = n + 1 /\ \A i \in 1..n : p[i] = ms[i]
            /\ \/ e.kind = "USER" /\ p[n + 1] = Message("USER", e.what)
               \/ e.kind = "DELTA" /\ p[n + 1] = Message("ASSISTANT", e.what)
               \/ e.kind \in {"ERROR", "ANNOUNCEMENT"} /\ p[n + 1].kind = e.kind
         \/ /\ Len(p) = n /\ n \in 1..n /\ \A i \in 1..n : i # n => p[i] = ms[i]
            /\ \/ e.kind = "USER" /\ ms[n].kind = "USER" /\ p[n] = Message("USER", e.what)
               \/ /\ e.kind = "DELTA" /\ ms[n].kind = "ASSISTANT" /\ p[n].kind = "ASSISTANT"
                  /\ p[n].text = ms[n].text \o e.what
  BY TranscribedCases
<1>1. p \in Seq(Messages) /\ n \in Nat /\ Len(p) \in Nat /\ \A k, v : Message(k, v).kind = k /\ Message(k, v).text = v
  BY <1>0, LenProperties DEF Message
<1>2. CASE p = ms
  BY <1>2
<1>3. CASE p = <<>>
  <2>1. Len(p) = 0
    BY <1>3, EmptySeq
  <2> HIDE DEF p
  <2>2. AllHeaded(p)
    BY <2>1 DEF AllHeaded
  <2> QED
    BY <2>2 DEF p
<1>4. ASSUME NEW t, LastUser(ms, t), \A i \in 1..n : p[i] = ms[i], p[n + 1].kind # "USER" PROVE Heads(p, n + 1, t)
  <2> HIDE DEF p
  <2>1. PICK j \in 1..n : ms[j] = Message("USER", t) /\ \A k \in (j + 1)..n : ms[k].kind # "USER"
    BY <1>4 DEF LastUser
  <2>2. j \in 1..((n + 1) - 1)
    BY <1>1, <2>1
  <2>3. ASSUME NEW k \in (j + 1)..(n + 1) PROVE p[k].kind # "USER"
    <3>1. k = n + 1 \/ (k \in (j + 1)..n /\ k \in 1..n)
      BY <1>1, <2>1
    <3> QED
      BY <1>4, <2>1, <3>1
  <2>4. p[j] = Message("USER", t)
    BY <1>4, <2>1
  <2> QED
    BY <2>2, <2>3, <2>4 DEF Heads
<1>5. ASSUME NEW i \in 1..n, NEW t, Heads(ms, i, t), \A j \in 1..(i - 1) : p[j] = ms[j], p[i].kind # "USER"
      PROVE  Heads(p, i, t)
  <2>1. i \in Nat
    BY <1>1
  <2> HIDE DEF p
  <2> QED
    BY <1>5, <2>1, HeadsKept
<1>6. CASE /\ Len(p) = n + 1 /\ \A i \in 1..n : p[i] = ms[i]
           /\ \/ e.kind = "USER" /\ p[n + 1] = Message("USER", e.what)
              \/ e.kind = "DELTA" /\ p[n + 1] = Message("ASSISTANT", e.what)
              \/ e.kind \in {"ERROR", "ANNOUNCEMENT"} /\ p[n + 1].kind = e.kind
  <2>1. \/ p[n + 1].kind \in {"USER", "ERROR", "ANNOUNCEMENT"}
        \/ e.kind = "DELTA" /\ p[n + 1] = Message("ASSISTANT", e.what)
    BY <1>1, <1>6
  <2> HIDE DEF p
  <2>2. ASSUME NEW i \in 1..Len(p), p[i].kind = "ASSISTANT", NEW t \in TurnsIn(p[i].text) PROVE Heads(p, i, t)
    <3>1. CASE i \in 1..n
      <4>1. \A j \in 1..(i - 1) : j \in 1..n
        BY <1>1, <3>1
      <4>2. p[i] = ms[i] /\ \A j \in 1..(i - 1) : p[j] = ms[j]
        BY <1>6, <3>1, <4>1
      <4>3. Heads(ms, i, t)
        BY <2>2, <3>1, <4>2 DEF AllHeaded
      <4> QED
        BY <1>5, <2>2, <3>1, <4>2, <4>3
    <3>2. CASE i = n + 1
      <4>1. e.kind = "DELTA" /\ p[n + 1].text = e.what
        BY <1>1, <2>1, <2>2, <3>2
      <4>2. LastUser(ms, t)
        BY <2>2, <3>2, <4>1
      <4> QED
        BY <1>4, <1>6, <2>2, <3>2, <4>2
    <3> QED
      BY <1>1, <1>6, <3>1, <3>2
  <2>3. AllHeaded(p)
    BY <2>2 DEF AllHeaded
  <2> QED
    BY <2>3 DEF p
<1>7. CASE /\ Len(p) = n /\ n \in 1..n /\ \A i \in 1..n : i # n => p[i] = ms[i]
           /\ \/ e.kind = "USER" /\ ms[n].kind = "USER" /\ p[n] = Message("USER", e.what)
              \/ /\ e.kind = "DELTA" /\ ms[n].kind = "ASSISTANT" /\ p[n].kind = "ASSISTANT"
                 /\ p[n].text = ms[n].text \o e.what
  <2>0. \A i \in 1..n : \A j \in 1..(i - 1) : j \in 1..n /\ j # n
    BY <1>1
  <2> HIDE DEF p
  <2>1. ASSUME NEW i \in 1..n, p[i].kind = "ASSISTANT", NEW t \in TurnsIn(p[i].text) PROVE Heads(p, i, t)
    <3>1. \A j \in 1..(i - 1) : p[j] = ms[j]
      BY <1>7, <2>0
    <3>2. CASE i # n
      <4>1. p[i] = ms[i]
        BY <1>7, <3>2
      <4>2. Heads(ms, i, t)
        BY <2>1, <4>1 DEF AllHeaded
      <4> QED
        BY <1>5, <2>1, <3>1, <4>2
    <3>3. CASE i = n
      <4>1. e.kind = "DELTA" /\ ms[n].kind = "ASSISTANT" /\ p[n].text = ms[n].text \o e.what
        BY <1>1, <1>7, <2>1, <3>3
      <4>2. e.what \in Pieces /\ ms[n].text \in Pieces
        <5>1. ms[n] \in Messages
          BY <1>7, ElementOfSeq
        <5> QED
          BY <4>1, <5>1, KindOf DEF Messages
      <4>3. t \in TurnsIn(ms[n].text) \/ t \in TurnsIn(e.what)
        BY <2>1, <3>3, <4>1, <4>2, TurnsFacts
      <4>4. CASE t \in TurnsIn(ms[n].text)
        <5>1. Heads(ms, n, t)
          BY <1>7, <4>1, <4>4 DEF AllHeaded
        <5> QED
          BY <1>5, <2>1, <3>1, <3>3, <5>1
      <4>5. CASE t \in TurnsIn(e.what)
        <5>1. LastUser(ms, t)
          BY <4>1, <4>5
        <5>2. PICK j \in 1..n : ms[j] = Message("USER", t) /\ \A k \in (j + 1)..n : ms[k].kind # "USER"
          BY <5>1 DEF LastUser
        <5>3. j # n
          BY <1>1, <4>1, <5>2
        <5>4. j \in 1..(n - 1)
          BY <1>1, <5>2, <5>3
        <5>5. Heads(ms, n, t)
          BY <5>2, <5>4 DEF Heads
        <5> QED
          BY <1>5, <2>1, <3>1, <3>3, <5>5
      <4> QED
        BY <4>3, <4>4, <4>5
    <3> QED
      BY <3>2, <3>3
  <2>2. AllHeaded(p)
    BY <1>7, <2>1 DEF AllHeaded
  <2> QED
    BY <2>2 DEF p
<1> QED
  BY <1>0, <1>2, <1>3, <1>6, <1>7

\* What Asked depends on.
LEMMA AskedSame ==
  ASSUME NEW q, NEW p, NEW ms, NEW i \in Nat, NEW t, Asked(q, ms, i, t),
         \A j \in 1..(i - 1) : p[j] = q[j] \/ (p[j].kind \notin Parting /\ q[j].kind \notin Parting)
  PROVE  Asked(p, ms, i, t)
<1>1. Event("USER", t).kind \in Parting
  BY DEF Event, Parting
<1>2. ASSUME NEW j \in 1..(i - 1), q[j] = Event("USER", t), \A k \in (j + 1)..(i - 1) : q[k].kind \notin Parting
      PROVE  Asked(p, ms, i, t)
  <2>1. p[j] = Event("USER", t)
    BY <1>1, <1>2
  <2>2. \A k \in (j + 1)..(i - 1) : k \in 1..(i - 1)
    BY <1>2
  <2>3. \A k \in (j + 1)..(i - 1) : p[k].kind \notin Parting
    BY <1>2, <2>2
  <2> QED
    BY <2>1, <2>3 DEF Asked
<1>3. ASSUME \A k \in 1..(i - 1) : q[k].kind \notin Parting, LastUser(ms, t)
      PROVE  Asked(p, ms, i, t)
  <2>1. \A k \in 1..(i - 1) : p[k].kind \notin Parting
    BY <1>3
  <2> QED
    BY <1>3, <2>1 DEF Asked
<1> QED
  BY <1>2, <1>3 DEF Asked

LEMMA AskedNext ==
  ASSUME NEW q, NEW ms, NEW i \in Nat \ {0}, NEW t, q[i].kind \notin Parting
  PROVE  Asked(q, ms, i, t) <=> Asked(q, ms, i + 1, t)
<1>1. (i + 1) - 1 = i
  OBVIOUS
<1>2. ASSUME Asked(q, ms, i, t) PROVE Asked(q, ms, i + 1, t)
  <2>1. ASSUME NEW j \in 1..(i - 1), q[j] = Event("USER", t), \A k \in (j + 1)..(i - 1) : q[k].kind \notin Parting
        PROVE  Asked(q, ms, i + 1, t)
    <3>1. j \in 1..i /\ \A k \in (j + 1)..i : k = i \/ k \in (j + 1)..(i - 1)
      OBVIOUS
    <3>2. \A k \in (j + 1)..i : q[k].kind \notin Parting
      BY <2>1, <3>1
    <3> QED
      BY <1>1, <2>1, <3>1, <3>2 DEF Asked
  <2>2. ASSUME \A k \in 1..(i - 1) : q[k].kind \notin Parting, LastUser(ms, t) PROVE Asked(q, ms, i + 1, t)
    <3>1. \A k \in 1..i : k = i \/ k \in 1..(i - 1)
      OBVIOUS
    <3>2. \A k \in 1..i : q[k].kind \notin Parting
      BY <2>2, <3>1
    <3> QED
      BY <1>1, <2>2, <3>2 DEF Asked
  <2> QED
    BY <1>2, <2>1, <2>2 DEF Asked
<1>3. ASSUME Asked(q, ms, i + 1, t) PROVE Asked(q, ms, i, t)
  <2>1. ASSUME NEW j \in 1..i, q[j] = Event("USER", t), \A k \in (j + 1)..i : q[k].kind \notin Parting
        PROVE  Asked(q, ms, i, t)
    <3>1. j # i
      BY <2>1 DEF Event, Parting
    <3>2. j \in 1..(i - 1) /\ \A k \in (j + 1)..(i - 1) : k \in (j + 1)..i
      BY <3>1
    <3> QED
      BY <2>1, <3>2 DEF Asked
  <2>2. ASSUME \A k \in 1..i : q[k].kind \notin Parting, LastUser(ms, t) PROVE Asked(q, ms, i, t)
    <3>1. \A k \in 1..(i - 1) : k \in 1..i
      OBVIOUS
    <3>2. \A k \in 1..(i - 1) : q[k].kind \notin Parting
      BY <2>2, <3>1
    <3> QED
      BY <2>2, <3>2 DEF Asked
  <2> QED
    BY <1>1, <1>3, <2>1, <2>2 DEF Asked
<1> QED
  BY <1>2, <1>3

\* What has drained the head of the queue sees the same question.
LEMMA AskedTail ==
  ASSUME NEW q \in Seq(Events), q # <<>>, NEW ms \in Seq(Messages), ui.open \in BOOLEAN,
         NEW i \in 1..Len(q), NEW t, Asked(q, ms, i + 1, t)
  PROVE  Asked(Tail(q), Transcribed(ms, Head(q)), i, t)
<1> DEFINE d == Tail(q)
           n == Len(q)
           p == Transcribed(ms, Head(q))
<1>1. /\ n \in Nat /\ \A j \in 1..(n - 1) : d[j] = q[j + 1]
      /\ Head(q) = q[1] /\ 1 \in 1..n /\ Head(q) \in Events
  BY HeadTailProperties, LenProperties, EmptySeq
<1>2. /\ q[1] = Event("USER", t) => LastUser(p, t)
      /\ q[1].kind \notin Parting /\ LastUser(ms, t) => LastUser(p, t)
  BY <1>1, TranscribedAsks
<1> SUFFICES Asked(d, p, i, t)
  OBVIOUS
<1> HIDE DEF d, n, p
<1>3. (i + 1) - 1 = i
  OBVIOUS
<1>4. \A k \in 1..(i - 1) : k + 1 \in 1..i /\ d[k] = q[k + 1]
  <2>1. \A k \in 1..(i - 1) : k + 1 \in 1..i /\ k \in 1..(n - 1)
    BY <1>1 DEF n
  <2> QED
    BY <1>1, <2>1
<1>5. ASSUME NEW j \in 1..i, j # 1, q[j] = Event("USER", t), \A k \in (j + 1)..i : q[k].kind \notin Parting
      PROVE  Asked(d, p, i, t)
  <2>1. j - 1 \in 1..(i - 1) /\ (j - 1) + 1 = j
    BY <1>5
  <2>2. d[j - 1] = Event("USER", t)
    BY <1>4, <1>5, <2>1
  <2>3. ASSUME NEW k \in j..(i - 1) PROVE d[k].kind \notin Parting
    <3>1. k \in 1..(i - 1) /\ k + 1 \in (j + 1)..i
      BY <1>5
    <3> QED
      BY <1>4, <1>5, <3>1
  <2> QED
    BY <2>1, <2>2, <2>3 DEF Asked
<1>6. ASSUME \A k \in 2..i : q[k].kind \notin Parting, LastUser(p, t)
      PROVE  Asked(d, p, i, t)
  <2>1. ASSUME NEW k \in 1..(i - 1) PROVE d[k].kind \notin Parting
    <3>1. k + 1 \in 2..i
      OBVIOUS
    <3> QED
      BY <1>4, <1>6, <3>1
  <2> QED
    BY <1>6, <2>1 DEF Asked
<1>7. CASE \E j \in 1..i : q[j] = Event("USER", t) /\ \A k \in (j + 1)..i : q[k].kind \notin Parting
  <2>1. PICK j \in 1..i : q[j] = Event("USER", t) /\ \A k \in (j + 1)..i : q[k].kind \notin Parting
    BY <1>7
  <2>2. CASE j = 1
    <3>1. \A k \in 2..i : q[k].kind \notin Parting
      BY <2>1, <2>2
    <3> QED
      BY <1>2, <1>6, <2>1, <2>2, <3>1
  <2> QED
    BY <1>5, <2>1, <2>2
<1>8. CASE (\A k \in 1..i : q[k].kind \notin Parting) /\ LastUser(ms, t)
  <2>1. 1 \in 1..i /\ \A k \in 2..i : k \in 1..i
    OBVIOUS
  <2> QED
    BY <1>2, <1>6, <1>8, <2>1
<1>9. \/ \E j \in 1..i : q[j] = Event("USER", t) /\ \A k \in (j + 1)..i : q[k].kind \notin Parting
      \/ (\A k \in 1..i : q[k].kind \notin Parting) /\ LastUser(ms, t)
  BY <1>3 DEF Asked
<1> QED
  BY <1>7, <1>8, <1>9

LEMMA TailAsked ==
  ASSUME NEW q \in Seq(Events), q # <<>>, NEW ms \in Seq(Messages), ui.open \in BOOLEAN, AllAsked(q, ms)
  PROVE  AllAsked(Tail(q), Transcribed(ms, Head(q)))
<1>1. /\ Len(q) \in Nat /\ Len(Tail(q)) = Len(q) - 1
      /\ \A j \in 1..(Len(q) - 1) : Tail(q)[j] = q[j + 1]
  BY HeadTailProperties, LenProperties
<1> SUFFICES ASSUME NEW i \in 1..(Len(q) - 1), Tail(q)[i].kind = "DELTA", NEW t \in TurnsIn(Tail(q)[i].what)
             PROVE  Asked(Tail(q), Transcribed(ms, Head(q)), i, t)
  BY <1>1 DEF AllAsked
<1>2. i \in 1..Len(q) /\ i + 1 \in 1..Len(q) /\ Tail(q)[i] = q[i + 1]
  BY <1>1
<1>3. Asked(q, ms, i + 1, t)
  BY <1>2 DEF AllAsked
<1> QED
  BY <1>2, <1>3, AskedTail

\* What posting an event leaves of the questions in the queue: one that is no
\* question and no clearing.
LEMMA QueuedPlain ==
  ASSUME NEW q \in Seq(Events), NEW e \in Events, e.kind \notin Parting, ~Refused(q, e), NEW ms, AllAsked(q, ms),
         e.kind = "DELTA" => \A t \in TurnsIn(e.what) : Asked(q, ms, Len(q) + 1, t)
  PROVE  /\ AllAsked(Queued(q, e), ms)
         /\ \A t : Asked(q, ms, Len(q) + 1, t) => Asked(Queued(q, e), ms, Len(Queued(q, e)) + 1, t)
<1>1. Len(q) \in Nat /\ \A i \in 1..Len(q) : q[i] \in Events
  BY LenProperties, ElementOfSeq
<1>2. CASE Slots(q, e) = {} /\ Queued(q, e) = Append(q, e)
  <2> DEFINE p == Append(q, e)
  <2>1. Len(p) = Len(q) + 1 /\ p[Len(q) + 1] = e /\ \A i \in 1..Len(q) : p[i] = q[i]
    BY AppendProperties
  <2> HIDE DEF p
  <2>2. ASSUME NEW i \in 1..(Len(q) + 1), NEW t, Asked(q, ms, i, t) PROVE Asked(p, ms, i, t)
    <3>1. i \in Nat /\ \A j \in 1..(i - 1) : j \in 1..Len(q)
      BY <1>1
    <3> QED
      BY <2>1, <2>2, <3>1, AskedSame
  <2>3. Len(q) + 1 \in 1..(Len(q) + 1) /\ Len(q) + 1 \in Nat \ {0} /\ 1..Len(q) \subseteq 1..(Len(q) + 1)
    BY <1>1
  <2>4. AllAsked(p, ms)
    <3> SUFFICES ASSUME NEW i \in 1..(Len(q) + 1), p[i].kind = "DELTA", NEW t \in TurnsIn(p[i].what)
                 PROVE  Asked(p, ms, i, t)
      BY <2>1 DEF AllAsked
    <3>1. CASE i \in 1..Len(q)
      BY <2>1, <2>2, <3>1 DEF AllAsked
    <3>2. CASE i = Len(q) + 1
      BY <2>1, <2>2, <3>2
    <3> QED
      BY <1>1, <3>1, <3>2
  <2>5. ASSUME NEW t, Asked(q, ms, Len(q) + 1, t) PROVE Asked(p, ms, Len(p) + 1, t)
    <3>1. Asked(p, ms, Len(q) + 1, t)
      BY <2>2, <2>3, <2>5
    <3> QED
      BY <2>1, <2>3, <3>1, AskedNext
  <2> QED
    BY <1>2, <2>4, <2>5 DEF p
<1>3. ASSUME NEW s \in Slots(q, e), Queued(q, e) = [q EXCEPT ![s] = Merged(q[s], e)]
      PROVE  /\ AllAsked(Queued(q, e), ms)
             /\ \A t : Asked(q, ms, Len(q) + 1, t) => Asked(Queued(q, e), ms, Len(Queued(q, e)) + 1, t)
  <2> DEFINE m == Merged(q[s], e)
             p == [q EXCEPT ![s] = m]
  <2>1. s \in 1..Len(q) /\ q[s].kind = e.kind /\ (e.kind = "DELTA" => s = Len(q)) /\ q[s] \in Events
    BY <1>1, SlotFacts
  <2>2. m \in Events /\ m.kind = e.kind /\ (e.kind = "DELTA" => m.what = q[s].what \o e.what)
    BY <2>1, MergedType
  <2>3. Len(p) = Len(q) /\ (\A j \in 1..Len(q) : p[j] = IF j = s THEN m ELSE q[j]) /\ Queued(q, e) = p
    BY <1>3, <2>1, <2>2, ExceptSeq
  <2> HIDE DEF m, p
  <2>4. \A j \in 1..Len(q) : p[j] = q[j] \/ (p[j].kind \notin Parting /\ q[j].kind \notin Parting)
    BY <2>1, <2>2, <2>3
  <2>5. ASSUME NEW i \in 1..(Len(q) + 1), NEW t, Asked(q, ms, i, t) PROVE Asked(p, ms, i, t)
    <3>1. i \in Nat /\ \A j \in 1..(i - 1) : j \in 1..Len(q)
      BY <1>1
    <3> QED
      BY <2>4, <2>5, <3>1, AskedSame
  <2>6. Len(q) + 1 \in 1..(Len(q) + 1) /\ 1..Len(q) \subseteq 1..(Len(q) + 1)
    BY <1>1
  <2>7. AllAsked(p, ms)
    <3> SUFFICES ASSUME NEW i \in 1..Len(q), p[i].kind = "DELTA", NEW t \in TurnsIn(p[i].what)
                 PROVE  Asked(q, ms, i, t)
      BY <2>3, <2>5, <2>6 DEF AllAsked
    <3>1. CASE i # s
      BY <2>3, <3>1 DEF AllAsked
    <3>2. CASE i = s
      <4>1. e.kind = "DELTA" /\ q[s].kind = "DELTA" /\ p[s].what = q[s].what \o e.what /\ s = Len(q)
        BY <2>1, <2>2, <2>3, <3>2
      <4>2. q[s].what \in Pieces /\ e.what \in Pieces
        BY <2>1, <4>1, KindOf
      <4>3. t \in TurnsIn(q[s].what) \/ t \in TurnsIn(e.what)
        BY <3>2, <4>1, <4>2, TurnsFacts
      <4>4. CASE t \in TurnsIn(q[s].what)
        BY <2>1, <3>2, <4>1, <4>4 DEF AllAsked
      <4>5. CASE t \in TurnsIn(e.what)
        <5>1. Asked(q, ms, s + 1, t) /\ s \in Nat \ {0}
          BY <2>1, <4>1, <4>5
        <5>2. q[s].kind \notin Parting
          BY <2>1
        <5> QED
          BY <3>2, <5>1, <5>2, AskedNext
      <4> QED
        BY <4>3, <4>4, <4>5
    <3> QED
      BY <3>1, <3>2
  <2> QED
    BY <2>3, <2>5, <2>6, <2>7
<1> QED
  BY <1>2, <1>3, QueuedCases

\* A question or a clearing.
LEMMA QueuedParting ==
  ASSUME NEW q \in Seq(Events), NEW e \in Events, e.kind \in Parting, ~Refused(q, e), NEW ms, AllAsked(q, ms),
         e.kind = "USER" => \A i \in Slots(q, e) : \A j \in i..Len(q) : q[j].kind = "DELTA" =>
                              \A t \in TurnsIn(q[j].what) : t = e.what
  PROVE  /\ AllAsked(Queued(q, e), ms)
         /\ e.kind = "USER" => Asked(Queued(q, e), ms, Len(Queued(q, e)) + 1, e.what)
<1>1. Len(q) \in Nat /\ \A i \in 1..Len(q) : q[i] \in Events
  BY LenProperties, ElementOfSeq
<1>0. e.kind = "USER" => e = Event("USER", e.what)
  BY KindOf DEF Event
<1>2. CASE Slots(q, e) = {} /\ Queued(q, e) = Append(q, e)
  <2> DEFINE p == Append(q, e)
  <2>1. Len(p) = Len(q) + 1 /\ p[Len(q) + 1] = e /\ \A i \in 1..Len(q) : p[i] = q[i]
    BY AppendProperties
  <2> HIDE DEF p
  <2>2. AllAsked(p, ms)
    <3> SUFFICES ASSUME NEW i \in 1..(Len(q) + 1), p[i].kind = "DELTA", NEW t \in TurnsIn(p[i].what)
                 PROVE  Asked(p, ms, i, t)
      BY <2>1 DEF AllAsked
    <3>1. i # Len(q) + 1
      BY <2>1 DEF Parting
    <3>2. i \in 1..Len(q) /\ i \in Nat /\ \A j \in 1..(i - 1) : j \in 1..Len(q)
      BY <1>1, <3>1
    <3>3. Asked(q, ms, i, t)
      BY <2>1, <3>2 DEF AllAsked
    <3> QED
      BY <2>1, <3>2, <3>3, AskedSame
  <2>3. ASSUME e.kind = "USER" PROVE Asked(p, ms, Len(p) + 1, e.what)
    <3>1. Len(q) + 1 \in 1..((Len(p) + 1) - 1) /\ \A k \in ((Len(q) + 1) + 1)..((Len(p) + 1) - 1) : FALSE
      BY <1>1, <2>1
    <3>2. p[Len(q) + 1] = Event("USER", e.what)
      BY <1>0, <2>1, <2>3
    <3> QED
      BY <3>1, <3>2 DEF Asked
  <2> QED
    BY <1>2, <2>2, <2>3 DEF p
<1>3. ASSUME NEW s \in Slots(q, e), Queued(q, e) = [q EXCEPT ![s] = Merged(q[s], e)],
             \A j \in (s + 1)..Len(q) : q[j].kind # e.kind
      PROVE  /\ AllAsked(Queued(q, e), ms)
             /\ e.kind = "USER" => Asked(Queued(q, e), ms, Len(Queued(q, e)) + 1, e.what)
  <2> DEFINE p == [q EXCEPT ![s] = e]
  <2>1. /\ s \in 1..Len(q) /\ q[s].kind = e.kind /\ e.kind = "USER"
        /\ \A j \in s..Len(q) : q[j].kind # "CLEAR"
    BY SlotFacts DEF Parting
  <2>2. Merged(q[s], e) = e
    BY <1>1, <2>1, MergedType
  <2>3. Len(p) = Len(q) /\ (\A j \in 1..Len(q) : p[j] = IF j = s THEN e ELSE q[j]) /\ Queued(q, e) = p
    BY <1>3, <2>1, <2>2, ExceptSeq
  <2> HIDE DEF p
  <2>4. p[s] = Event("USER", e.what)
    BY <1>0, <2>1, <2>3
  <2>5. \A j \in (s + 1)..Len(q) : p[j] = q[j] /\ p[j].kind \notin Parting /\ j \in s..Len(q)
    <3>1. \A j \in (s + 1)..Len(q) : j \in s..Len(q) /\ j \in 1..Len(q) /\ j # s
      BY <1>1, <2>1
    <3> QED
      BY <1>3, <2>1, <2>3, <3>1 DEF Parting
  <2>6. ASSUME NEW i \in (s + 1)..(Len(q) + 1) PROVE Asked(p, ms, i, e.what)
    <3>1. s \in 1..(i - 1) /\ \A k \in (s + 1)..(i - 1) : k \in (s + 1)..Len(q)
      BY <1>1, <2>1
    <3> QED
      BY <2>4, <2>5, <3>1 DEF Asked
  <2>7. AllAsked(p, ms)
    <3> SUFFICES ASSUME NEW i \in 1..Len(q), p[i].kind = "DELTA", NEW t \in TurnsIn(p[i].what)
                 PROVE  Asked(p, ms, i, t)
      BY <2>3 DEF AllAsked
    <3>1. i # s /\ p[i] = q[i]
      BY <2>1, <2>3
    <3>2. CASE i > s
      <4>1. i \in (s + 1)..Len(q) /\ i \in s..Len(q) /\ i \in (s + 1)..(Len(q) + 1)
        BY <1>1, <2>1, <3>2
      <4>2. t = e.what
        BY <2>1, <3>1, <4>1
      <4> QED
        BY <2>6, <4>1, <4>2
    <3>3. CASE ~(i > s)
      <4>1. i \in Nat /\ \A j \in 1..(i - 1) : j \in 1..Len(q) /\ j # s
        BY <1>1, <2>1, <3>3
      <4>2. Asked(q, ms, i, t)
        BY <3>1 DEF AllAsked
      <4> QED
        BY <2>3, <4>1, <4>2, AskedSame
    <3> QED
      BY <3>2, <3>3
  <2>8. Len(p) + 1 \in (s + 1)..(Len(q) + 1)
    BY <1>1, <2>1, <2>3
  <2> QED
    BY <2>3, <2>6, <2>7, <2>8
<1> QED
  BY <1>2, <1>3, QueuedCases

LEMMA TurnsOfIn == \A w : {p[1] : p \in Range(w)} = TurnsIn(w)
BY DEF Range, TurnsIn

LEMMA PostMixed ==
  ASSUME OverlayInv, Post, NEW e, e = Head(posting)
  PROVE  hist'.mixed = (hist.mixed \/ (e.kind = "USER" /\ \E i \in Slots(queue, e) : \E j \in i..Len(queue) :
                          queue[j].kind = "DELTA" /\ \E t \in TurnsIn(queue[j].what) : t < e.what))
<1> DEFINE n == Noted(queue, e)
<1>1. e \in Events /\ queue \in Seq(Events) /\ HistOK
  BY HeadTailProperties DEF OverlayInv, PostingOK, QueueOK, Post
<1>2. n \in Histories
  BY <1>1, NotedType
<1>3. n.mixed = (hist.mixed \/ (e.kind = "USER" /\ \E i \in Slots(queue, e) : \E j \in i..Len(queue) :
                   queue[j].kind = "DELTA" /\ \E t \in TurnsOf(queue[j]) : t < e.what))
  BY <1>1 DEF Noted, HistOK, Histories
<1>4. \A x : TurnsOf(x) = TurnsIn(x.what)
  BY TurnsOfIn DEF TurnsOf
<1> HIDE DEF n
<1>5. \A r : Deny(r, n).mixed = n.mixed
  BY <1>2 DEF Deny, Histories
<1>6. hist' = n \/ \E r : hist' = Deny(r, n)
  BY DEF Post, n
<1>7. hist'.mixed = n.mixed
  BY <1>5, <1>6
<1> QED
  BY <1>3, <1>4, <1>7

-----------------------------------------------------------------------------
(* No piece belongs to a turn that has yet to come.                         *)

LEMMA QueuedTurns ==
  ASSUME NEW q \in Seq(Events), NEW e \in Events, NEW b,
         \A i \in 1..Len(q) : q[i].kind = "DELTA" => \A t \in TurnsIn(q[i].what) : t <= b,
         e.kind = "DELTA" => \A t \in TurnsIn(e.what) : t <= b
  PROVE  \A i \in 1..Len(Queued(q, e)) :
           Queued(q, e)[i].kind = "DELTA" => \A t \in TurnsIn(Queued(q, e)[i].what) : t <= b
<1>1. CASE Queued(q, e) = Append(q, e)
  <2> DEFINE p == Append(q, e)
  <2>1. Len(p) = Len(q) + 1 /\ p[Len(q) + 1] = e /\ (\A i \in 1..Len(q) : p[i] = q[i]) /\ Len(q) \in Nat
    BY AppendProperties, LenProperties
  <2> HIDE DEF p
  <2>2. \A i \in 1..Len(p) : i \in 1..Len(q) \/ i = Len(q) + 1
    BY <2>1
  <2>3. \A i \in 1..Len(p) : p[i].kind = "DELTA" => \A t \in TurnsIn(p[i].what) : t <= b
    BY <2>1, <2>2
  <2> QED
    BY <1>1, <2>3 DEF p
<1>2. ASSUME NEW s \in Slots(q, e), Queued(q, e) = [q EXCEPT ![s] = Merged(q[s], e)]
      PROVE  \A i \in 1..Len(Queued(q, e)) :
               Queued(q, e)[i].kind = "DELTA" => \A t \in TurnsIn(Queued(q, e)[i].what) : t <= b
  <2> DEFINE m == Merged(q[s], e)
             p == [q EXCEPT ![s] = m]
  <2>1. s \in 1..Len(q) /\ q[s].kind = e.kind /\ q[s] \in Events
    BY SlotFacts, ElementOfSeq
  <2>2. m \in Events /\ m.kind = e.kind /\ (e.kind = "DELTA" => m.what = q[s].what \o e.what)
    BY <2>1, MergedType
  <2>3. Len(p) = Len(q) /\ (\A j \in 1..Len(q) : p[j] = IF j = s THEN m ELSE q[j]) /\ Queued(q, e) = p
    BY <1>2, <2>1, <2>2, ExceptSeq
  <2> HIDE DEF m, p
  <2>4. e.kind = "DELTA" => \A t \in TurnsIn(m.what) : t <= b
    <3> SUFFICES ASSUME e.kind = "DELTA", NEW t \in TurnsIn(m.what) PROVE t <= b
      OBVIOUS
    <3>1. q[s].what \in Pieces /\ e.what \in Pieces /\ m.what = q[s].what \o e.what
      BY <2>1, <2>2, KindOf
    <3>2. t \in TurnsIn(q[s].what) \/ t \in TurnsIn(e.what)
      BY <3>1, TurnsFacts
    <3> QED
      BY <2>1, <3>2
  <2>5. \A i \in 1..Len(p) : p[i].kind = "DELTA" => \A t \in TurnsIn(p[i].what) : t <= b
    BY <2>2, <2>3, <2>4
  <2> QED
    BY <2>3, <2>5
<1>3. CASE Queued(q, e) = q
  BY <1>3
<1> QED
  BY <1>1, <1>2, <1>3, QueuedCases DEF Queued

LEMMA TurnsStep == OverlayInv /\ PostedInv /\ TurnsInv /\ [OverlayNext]_overlayVars => TurnsInv'
<1> SUFFICES ASSUME OverlayInv, PostedInv, TurnsInv, [OverlayNext]_overlayVars PROVE TurnsInv'
  OBVIOUS
<1>0. app.turn \in Nat /\ queue \in Seq(Events) /\ \A i \in 1..Len(queue) : queue[i] \in Events
  BY StandingTypes, ElementOfSeq DEF OverlayInv, QueueOK
<1>1. CASE UNCHANGED queue /\ app'.turn = app.turn
  BY <1>1 DEF TurnsInv
<1>2. CASE Post
  <2> DEFINE e == Head(posting)
  <2>1. /\ e \in Events /\ queue' = Queued(queue, e) /\ app' = app
        /\ e.kind = "DELTA" => e.what = <<<<app.turn, app.pieces>>>>
    BY <1>2, PostedFacts
  <2> HIDE DEF e
  <2>2. e.kind = "DELTA" => \A t \in TurnsIn(e.what) : t <= app.turn
    <3>1. TurnsIn(<<<<app.turn, app.pieces>>>>) = {app.turn}
      BY OneTurn
    <3>2. e.kind = "DELTA" => TurnsIn(e.what) = {app.turn}
      BY <2>1, <3>1
    <3> QED
      BY <1>0, <3>2
  <2> QED
    BY <1>0, <2>1, <2>2, QueuedTurns DEF TurnsInv
<1>3. CASE Worker /\ ~Post
  <2>1. PICK x, events : Handles(x, events) /\ Fair(x, events)
    BY <1>3, WorkerFair
  <2>2. queue' = queue /\ app'.turn \in Nat /\ app.turn <= app'.turn
    BY <2>1 DEF Handles, Fair
  <2>3. ASSUME NEW i \in 1..Len(queue), queue[i].kind = "DELTA", NEW t \in TurnsIn(queue[i].what)
        PROVE  t <= app'.turn
    <3>1. t \in Nat
      BY <1>0, <2>3, KindOf, TurnsFacts
    <3>2. t <= app.turn
      BY <2>3 DEF TurnsInv
    <3> QED
      BY <1>0, <2>2, <3>1, <3>2
  <2> QED
    BY <2>2, <2>3 DEF TurnsInv
<1>4. CASE Drain
  <2>1. queue # <<>> /\ queue' = Tail(queue) /\ app' = app
    BY <1>4 DEF Drain
  <2>2. /\ Len(queue) \in Nat /\ Len(queue') = Len(queue) - 1
        /\ \A j \in 1..(Len(queue) - 1) : queue'[j] = queue[j + 1]
    BY <1>0, <2>1, HeadTailProperties, LenProperties
  <2>3. \A j \in 1..Len(queue') : j + 1 \in 1..Len(queue) /\ queue'[j] = queue[j + 1]
    BY <2>2
  <2> QED
    BY <2>1, <2>3 DEF TurnsInv
<1>5. CASE User
  BY <1>1, <1>5, UserAloof
<1>6. CASE UNCHANGED overlayVars
  BY <1>1, <1>6 DEF overlayVars
<1> QED
  BY <1>2, <1>3, <1>4, <1>5, <1>6 DEF OverlayNext

-----------------------------------------------------------------------------
(* Every reply stands beneath its question.                                 *)

LEMMA PostAsked == OverlayInv /\ PostedInv /\ TurnsInv /\ AskedInv /\ Post => AskedInv'
<1> SUFFICES ASSUME OverlayInv, PostedInv, TurnsInv, AskedInv, Post, ~hist'.lost, ~hist'.mixed
             PROVE  (AllHeaded(messages) /\ AllAsked(queue, messages) /\ TurnAsked)'
  BY DEF AskedInv
<1> DEFINE e == Head(posting)
<1>1. /\ e \in Events /\ queue \in Seq(Events) /\ queue' = Queued(queue, e)
      /\ messages' = messages /\ app' = app
      /\ e.kind = "DELTA" => e.what = <<<<app.turn, app.pieces>>>> /\ app.phase = "replying"
      /\ e.kind = "USER" => e.what = app.turn
      /\ Len(posting) \in Nat /\ Len(posting') = Len(posting) - 1 /\ e = posting[1] /\ 1 \in 1..Len(posting)
      /\ \A i \in 1..Len(posting') : i + 1 \in 1..Len(posting) /\ posting'[i] = posting[i + 1]
  BY PostedFacts
<1>2. /\ ~hist.lost /\ ~Refused(queue, e)
      /\ ~hist.mixed
      /\ e.kind = "USER" => \A i \in Slots(queue, e) : \A j \in i..Len(queue) : queue[j].kind = "DELTA" =>
                              \A t \in TurnsIn(queue[j].what) : ~(t < e.what)
  BY PostNotes, PostMixed
<1>3. AllHeaded(messages) /\ AllAsked(queue, messages) /\ TurnAsked
  BY <1>2 DEF AskedInv
<1>4. app.turn \in Nat /\ \A i \in 1..Len(queue) : queue[i] \in Events
  BY <1>1, StandingTypes, ElementOfSeq
<1> HIDE DEF e
<1>5. /\ app.phase \in Answering /\ e.kind # "USER" => Asked(queue, messages, Len(queue) + 1, app.turn)
      /\ app.phase \in Answering => \A i \in 1..Len(posting') : posting'[i].kind \notin Parting
      /\ app.phase \in Answering => e.kind # "CLEAR"
  <2>1. Event("USER", app.turn).kind = "USER"
    BY DEF Event
  <2>2. \A i \in 1..Len(posting') : i + 1 \in 2..Len(posting)
    BY <1>1
  <2> QED
    BY <1>1, <1>3, <2>1, <2>2 DEF TurnAsked, Parting
<1>6. CASE e.kind \notin Parting
  <2>1. e.kind = "DELTA" => \A t \in TurnsIn(e.what) : Asked(queue, messages, Len(queue) + 1, t)
    <3>1. TurnsIn(<<<<app.turn, app.pieces>>>>) = {app.turn}
      BY OneTurn
    <3>2. e.kind = "DELTA" => TurnsIn(e.what) = {app.turn}
      BY <1>1, <3>1
    <3> QED
      BY <1>1, <1>5, <3>2 DEF Answering
  <2>2. /\ AllAsked(queue', messages)
        /\ \A t : Asked(queue, messages, Len(queue) + 1, t) => Asked(queue', messages, Len(queue') + 1, t)
    BY <1>1, <1>2, <1>3, <1>6, <2>1, QueuedPlain
  <2>3. TurnAsked'
    BY <1>1, <1>5, <1>6, <2>2 DEF TurnAsked, Parting
  <2> QED
    BY <1>1, <1>3, <2>2, <2>3
<1>7. CASE e.kind \in Parting
  <2>1. ASSUME e.kind = "USER", NEW i \in Slots(queue, e), NEW j \in i..Len(queue), queue[j].kind = "DELTA",
               NEW t \in TurnsIn(queue[j].what)
        PROVE  t = e.what
    <3>1. j \in 1..Len(queue)
      <4>1. i \in 1..Len(queue)
        BY <1>1, <2>1, SlotFacts
      <4> QED
        BY <4>1
    <3>2. t \in Nat /\ t <= app.turn
      BY <1>4, <2>1, <3>1, KindOf, TurnsFacts DEF TurnsInv
    <3>3. ~(t < e.what) /\ e.what = app.turn
      BY <1>1, <1>2, <2>1
    <3> QED
      BY <1>4, <3>2, <3>3
  <2>2. /\ AllAsked(queue', messages)
        /\ e.kind = "USER" => Asked(queue', messages, Len(queue') + 1, e.what)
    BY <1>1, <1>2, <1>3, <1>7, <2>1, QueuedParting
  <2>3. TurnAsked'
    BY <1>1, <1>5, <1>7, <2>2 DEF TurnAsked, Parting
  <2> QED
    BY <1>1, <1>3, <2>2, <2>3
<1> QED
  BY <1>6, <1>7

LEMMA DrainAsked == OverlayInv /\ AskedInv /\ Drain => AskedInv'
<1> SUFFICES ASSUME OverlayInv, AskedInv, Drain, ~hist'.lost, ~hist'.mixed
             PROVE  (AllHeaded(messages) /\ AllAsked(queue, messages) /\ TurnAsked)'
  BY DEF AskedInv
<1> DEFINE e == Head(queue)
           n == Len(queue)
<1>1. /\ e \in Events /\ queue \in Seq(Events) /\ queue # <<>> /\ messages \in Seq(Messages)
      /\ queue' = Tail(queue) /\ messages' = Transcribed(messages, e) /\ UNCHANGED <<posting, app>>
      /\ e = queue[1]
  BY HeadTailProperties DEF OverlayInv, QueueOK, MessagesOK, Drain
<1>2. n \in Nat /\ n # 0 /\ Len(queue') = n - 1 /\ ui.open \in BOOLEAN
  BY <1>1, HeadTailProperties, LenProperties, EmptySeq, StandingTypes
<1>3. ~hist.lost /\ ~hist.mixed
  BY DEF Drain, OverlayInv, HistOK, Histories
<1>4. AllHeaded(messages) /\ AllAsked(queue, messages) /\ TurnAsked
  BY <1>3 DEF AskedInv
<1>5. AllAsked(queue', messages')
  BY <1>1, <1>2, <1>4, TailAsked
<1>6. e.kind = "DELTA" => \A t \in TurnsIn(e.what) : LastUser(messages, t)
  <2> SUFFICES ASSUME e.kind = "DELTA", NEW t \in TurnsIn(e.what) PROVE LastUser(messages, t)
    OBVIOUS
  <2>1. 1 \in 1..n
    BY <1>2
  <2>2. Asked(queue, messages, 1, t)
    BY <1>1, <1>4, <2>1 DEF AllAsked
  <2>3. \A j \in 1..(1 - 1) : FALSE
    OBVIOUS
  <2> QED
    BY <2>2, <2>3 DEF Asked
<1> HIDE DEF e, n
<1>7. AllHeaded(messages')
  BY <1>1, <1>2, <1>4, <1>6, TranscribedHeads
<1>8. Asked(queue, messages, n + 1, app.turn) => Asked(queue', messages', Len(queue') + 1, app.turn)
  <2>1. n \in 1..Len(queue) /\ (n - 1) + 1 = n
    BY <1>2 DEF n
  <2> QED
    BY <1>1, <1>2, <2>1, AskedTail DEF e
<1>9. TurnAsked'
  BY <1>1, <1>4, <1>8 DEF TurnAsked, n
<1> QED
  BY <1>5, <1>7, <1>9

LEMMA AskedStep ==
  OverlayInv /\ PostedInv /\ TurnsInv /\ AskedInv /\ [OverlayNext]_overlayVars => AskedInv'
<1> SUFFICES ASSUME OverlayInv, PostedInv, TurnsInv, AskedInv, [OverlayNext]_overlayVars PROVE AskedInv'
  OBVIOUS
<1>1. CASE /\ UNCHANGED <<queue, messages, posting>>
           /\ app'.turn = app.turn /\ app'.phase = app.phase
           /\ hist'.lost = hist.lost /\ hist'.mixed = hist.mixed
  BY <1>1 DEF AskedInv, AllHeaded, AllAsked, TurnAsked
<1>2. CASE Post
  BY <1>2, PostAsked
<1>3. CASE Worker /\ ~Post
  <2> SUFFICES ASSUME ~hist'.lost, ~hist'.mixed
               PROVE  (AllHeaded(messages) /\ AllAsked(queue, messages) /\ TurnAsked)'
    BY DEF AskedInv
  <2>1. PICK x, events : Handles(x, events) /\ Fair(x, events)
    BY <1>3, WorkerFair
  <2>2. ~hist.lost /\ ~hist.mixed
    BY <1>3, WorkerFair
  <2>3. AllHeaded(messages) /\ AllAsked(queue, messages) /\ TurnAsked
    BY <2>2 DEF AskedInv
  <2>4. posting = <<>> /\ posting' = events /\ app' = x /\ queue' = queue /\ messages' = messages
    BY <2>1 DEF Handles
  <2>5. app.phase \in Answering => Asked(queue, messages, Len(queue) + 1, app.turn)
    BY <2>3, <2>4 DEF TurnAsked
  <2>6. TurnAsked'
    BY <2>1, <2>4, <2>5 DEF TurnAsked, Fair
  <2> QED
    BY <2>3, <2>4, <2>6
<1>4. CASE Drain
  BY <1>4, DrainAsked
<1>5. CASE User
  BY <1>1, <1>5, UserAloof
<1>6. CASE UNCHANGED overlayVars
  BY <1>1, <1>6 DEF overlayVars
<1> QED
  BY <1>2, <1>3, <1>4, <1>5, <1>6 DEF OverlayNext

LEMMA AskedInit == OverlayInit => TurnsInv /\ AskedInv
<1> SUFFICES ASSUME OverlayInit PROVE TurnsInv /\ AskedInv
  OBVIOUS
<1>1. Len(queue) = 0 /\ Len(messages) = 0
  BY EmptySeq DEF OverlayInit
<1>2. app.phase \notin Answering
  BY DEF OverlayInit, Answering
<1> QED
  BY <1>1, <1>2 DEF TurnsInv, AskedInv, AllHeaded, AllAsked, TurnAsked

LEMMA AskedInvariant == OverlaySpec => [](TurnsInv /\ AskedInv)
BY AskedInit, TurnsStep, AskedStep, OverlayInvHolds, WholeInvariant, PTL DEF OverlaySpec

LEMMA AskedReplies == AskedInv => RepliesPlaced
<1> SUFFICES ASSUME AskedInv, ~hist.lost, ~hist.mixed, NEW i \in 1..Len(messages),
                    messages[i].kind = "ASSISTANT", NEW t \in TurnsIn(messages[i].text)
             PROVE  \E j \in 1..(i - 1) :
                      /\ messages[j] = Message("USER", t)
                      /\ \A k \in j..i : messages[k].kind = "USER" => k = j
  BY TurnsOfIn DEF RepliesPlaced
<1>1. PICK j \in 1..(i - 1) : /\ messages[j] = Message("USER", t)
                              /\ \A k \in (j + 1)..i : messages[k].kind # "USER"
  BY DEF AskedInv, AllHeaded, Heads
<1>2. \A k \in j..i : k = j \/ k \in (j + 1)..i
  BY <1>1
<1> QED
  BY <1>1, <1>2

\* The transcript is what the worker said, however the queue merged it and the
\* interface drained it: pieces of replies are in order, none is shown twice and
\* none is missing between the first on display and the latest (unless the queue
\* was full); and every piece stands beneath the question it answers, unless a
\* question was merged into one whose reply was already queued behind it.
THEOREM TranscriptIsFaithful == OverlaySpec => []TranscriptFaithful
<1>1. OverlayInv /\ PostedInv /\ WholeInv /\ AskedInv => TranscriptFaithful
  BY WholeReplies, AskedReplies DEF TranscriptFaithful
<1> QED
  BY <1>1, OverlayInvHolds, WholeInvariant, AskedInvariant, PTL
=============================================================================
