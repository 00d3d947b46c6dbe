------------------------------- MODULE Installer -------------------------------
(***************************************************************************)
(* The bootstrap that downloads, publishes and launches one release        *)
(* (src/src/bootstrap/main.c): its worker thread, the buttons of its       *)
(* window, and the folder .dio, which outlives every run.  A component is  *)
(* its index in the manifest; a directory is the set of the components     *)
(* whose files it holds, {} when it is missing.                            *)
(***************************************************************************)
EXTENDS Integers, Sequences, FiniteSets

CONSTANTS
  Manifest,    \* the components, in order: [target, profile]
  Entry,       \* the component that holds the program to launch
  FullSize,    \* bytes of a download, all of them alike
  MaxFaults    \* crashes, failed calls and lost connections of a behaviour

ASSUME ManifestAssumption ==
  /\ Manifest \in Seq([target : STRING, profile : {"all", "small", "large"}])
  /\ Entry \in DOMAIN Manifest
  /\ Manifest[Entry].profile = "all"

ASSUME BoundsAssumption == FullSize \in Nat \ {0} /\ MaxFaults \in Nat

VARIABLES
  pc,          \* where the worker is
  profile,     \* selected_profile
  repair,      \* force_repair
  fresh,       \* this run installs, it did not trust the marker
  todo,        \* the components the current loop has not handled
  cancel,      \* cancel_event
  live,        \* what each target holds
  prev,        \* what each target's .dio-previous holds
  staged,      \* what the staging folder holds, by target
  cache,       \* the verified downloads in the cache
  part,        \* the .part files
  manifest,    \* release-manifest.json is in the cache
  mpart,       \* release-manifest.json.part
  marker,      \* the profile install.json records
  faults       \* faults that may still happen

worker == <<pc, profile, repair, fresh, todo>>
trees == <<live, prev, staged>>
downloads == <<cache, part, manifest, mpart>>
vars == <<worker, cancel, trees, downloads, marker, faults>>

Comps == DOMAIN Manifest
Profiles == {"small", "large"}
TargetOf(c) == Manifest[c].target
Targets == {TargetOf(c) : c \in Comps}
Torn == 0                  \* files that are not what the manifest names
NoTrees == [t \in Targets |-> {}]
NoPart == [len |-> 0, ok |-> TRUE]
Parts == [len : 0 .. FullSize, ok : BOOLEAN]

Selected(c, p) == Manifest[c].profile \in {"all", p}
Chosen(p) == {c \in Comps : Selected(c, p)}
Uses(p) == {TargetOf(c) : c \in Chosen(p)}

\* Every target of the profile holds its components and nothing else.
Complete(p) ==
  \A t \in Uses(p) : live[t] = {c \in Chosen(p) : TargetOf(c) = t}

EntryExists == Entry \in live[TargetOf(Entry)]
MarkerValid == marker = profile /\ EntryExists

Init ==
  /\ pc = "idle" /\ profile = "small" /\ repair = FALSE /\ fresh = FALSE
  /\ todo = {} /\ cancel = FALSE
  /\ live = NoTrees /\ prev = NoTrees /\ staged = NoTrees
  /\ cache = [c \in Comps |-> "none"]
  /\ part = [c \in Comps |-> NoPart]
  /\ manifest = FALSE /\ mpart = NoPart /\ marker = "none"
  /\ faults = MaxFaults

--------------------------------------------------------------------------------
(* Helpers of the worker's steps *)

Go(next) == pc' = next /\ UNCHANGED <<profile, repair, fresh, todo>>

Fault == faults > 0 /\ faults' = faults - 1
NoFault == UNCHANGED faults

\* The component the loop is at: the first it has not handled.
At(c) == c \in todo /\ \A d \in todo : c <= d

\* A failure before anything is staged.
Fail == Go("failed") /\ UNCHANGED trees

\* The label cleanup of dio_install: staging is deleted as far as it can be.
Abandon ==
  /\ Go("failed")
  /\ UNCHANGED <<live, prev>>
  /\ \/ staged' = NoTrees /\ NoFault
     \/ staged' = staged /\ Fault

\* Mutant: the file is always resumed.
ResumedWhole(p) == p

\* The .part file that a component's download starts from: a file that has
\* every byte and was not moved into the cache is thrown away.
Resumed(p) == IF p.len >= FullSize THEN NoPart ELSE p

\* What dio_extract_cabinet makes of a download: a wrong one is not noticed.
Extracted(c) == IF cache[c] = "good" THEN c ELSE Torn

\* DeleteFileW of install.json: whether it succeeds is not looked at.
Unmark == marker' \in {"none", marker}

\* The hash of a complete .part file is the one the manifest names.
HashMatches(p) == p.ok

\* dio_delete_tree stops at the first file it cannot delete.
HalfDeleted == {Torn}

\* What a download leaves of the .part file: the server sends the rest (206) or
\* everything again (200), and what it sends may be wrong.
Received(p) == {q \in Parts : q.len = 0 => q.ok}

\* dio_download returns true: every byte is there and nobody cancelled.  A
\* Range that starts at the end of the file is refused (416).
Downloads(p, q) ==
  /\ ~cancel /\ p.len < FullSize
  /\ q \in Received(p) /\ q.len = FullSize
  /\ IF p.ok /\ ~q.ok THEN Fault ELSE NoFault

\* It returns false and leaves what it has: cancelled between two chunks, or
\* the connection failed.
DownloadFails(p, q) ==
  /\ q \in Received(p) /\ (q.ok \/ ~p.ok)
  /\ \/ cancel /\ NoFault
     \/ p.len >= FullSize /\ q = p /\ NoFault
     \/ Fault

--------------------------------------------------------------------------------
(* The window *)

\* dio_start, and a new process when the last one ended.
Start ==
  /\ pc = "idle"
  /\ pc' = "manifest" /\ cancel' = FALSE
  /\ profile' \in Profiles /\ repair' \in BOOLEAN
  /\ fresh' = FALSE /\ todo' = {}
  /\ UNCHANGED <<trees, downloads, marker, faults>>

\* The Cancel button and WM_CLOSE while the worker is busy.
Cancel ==
  /\ pc # "idle" /\ ~cancel
  /\ cancel' = TRUE
  /\ UNCHANGED <<worker, trees, downloads, marker, faults>>

\* DIO_WM_ERROR and DIO_WM_DONE.
Handled ==
  /\ pc \in {"failed", "done"}
  /\ pc' = "idle" /\ fresh' = FALSE /\ todo' = {}
  /\ UNCHANGED <<profile, repair, cancel, trees, downloads, marker, faults>>

--------------------------------------------------------------------------------
(* The worker: manifest and marker *)

PrepareManifest ==
  /\ pc = "manifest"
  /\ UNCHANGED <<cancel, trees, cache, part, manifest, marker>>
  /\ \/ manifest /\ Go("begin") /\ NoFault /\ UNCHANGED mpart
     \/ /\ ~manifest
        /\ mpart' \in Parts
        /\ \/ Downloads(mpart, mpart') /\ Go("move_manifest")
           \/ DownloadFails(mpart, mpart') /\ Go("failed")

\* The .part file becomes the manifest; one with the wrong hash is deleted.
MoveManifest ==
  /\ pc = "move_manifest"
  /\ UNCHANGED <<cancel, trees, cache, part, marker>>
  /\ \/ /\ mpart' = NoPart /\ manifest' = HashMatches(mpart) /\ NoFault
        /\ Go(IF HashMatches(mpart) THEN "begin" ELSE "failed")
     \/ Fault /\ Go("failed") /\ UNCHANGED <<manifest, mpart>>

Begin ==
  /\ pc = "begin"
  /\ UNCHANGED <<cancel, trees, downloads, marker, faults>>
  /\ \/ cancel /\ Go("failed")
     \/ ~cancel /\ ~repair /\ MarkerValid /\ Go("gate")
     \/ ~cancel /\ (repair \/ ~MarkerValid) /\ Go("install")

\* dio_install up to its first loop: plan, free space, an empty staging folder.
Install ==
  /\ pc = "install"
  /\ UNCHANGED <<cancel, downloads, marker>>
  /\ \/ cancel /\ Fail /\ NoFault
     \/ Fail /\ Fault
     \/ /\ ~cancel
        /\ pc' = "fetch" /\ fresh' = TRUE /\ todo' = Chosen(profile)
        /\ staged' = NoTrees
        /\ UNCHANGED <<profile, repair, live, prev, faults>>

--------------------------------------------------------------------------------
(* The worker: dio_prepare_component for every selected component *)

Fetch(c) ==
  /\ pc = "fetch" /\ At(c)
  /\ UNCHANGED <<cancel, cache, manifest, mpart, marker>>
  /\ \/ cancel /\ Abandon /\ UNCHANGED part
     \/ ~cancel /\ cache[c] = "good" /\ Go("stage") /\ UNCHANGED <<trees, part, faults>>
     \/ /\ cache[c] # "good"
        /\ \E q \in Parts :
             /\ part' = [part EXCEPT ![c] = q]
             /\ \/ Downloads(Resumed(part[c]), q) /\ Go("verify") /\ UNCHANGED trees
                \/ DownloadFails(Resumed(part[c]), q) /\ Go("failed")
                   /\ staged' = NoTrees /\ UNCHANGED <<live, prev>>

\* Mutant: only the size is compared.
VerifySize(c) ==
  /\ pc = "verify" /\ At(c)
  /\ cache' = [cache EXCEPT ![c] = IF part[c].ok THEN "good" ELSE "bad"]
  /\ part' = [part EXCEPT ![c] = NoPart]
  /\ Go("stage")
  /\ UNCHANGED <<cancel, manifest, mpart, marker, trees, faults>>

\* Size and hash of the .part file, and its move into the cache.
Verify(c) ==
  /\ pc = "verify" /\ At(c)
  /\ UNCHANGED <<cancel, manifest, mpart, marker>>
  /\ \/ /\ HashMatches(part[c])
        /\ cache' = [cache EXCEPT ![c] = "good"]
        /\ part' = [part EXCEPT ![c] = NoPart]
        /\ Go("stage") /\ UNCHANGED <<trees, faults>>
     \/ ~HashMatches(part[c]) /\ part' = [part EXCEPT ![c] = NoPart] /\ Abandon /\ UNCHANGED cache
     \/ /\ Go("failed") /\ staged' = NoTrees /\ Fault
        /\ UNCHANGED <<live, prev, cache, part>>

\* Extraction or copy below staging.
Stage(c) ==
  /\ pc = "stage" /\ At(c)
  /\ UNCHANGED <<cancel, downloads, marker>>
  /\ \/ cancel /\ Abandon
     \/ Go("failed") /\ staged' = NoTrees /\ Fault /\ UNCHANGED <<live, prev>>
     \/ /\ ~cancel
        /\ staged' = [staged EXCEPT ![TargetOf(c)] =
                        @ \cup {Extracted(c)}]
        /\ pc' = "fetch" /\ todo' = todo \ {c}
        /\ UNCHANGED <<profile, repair, fresh, live, prev, faults>>

\* The staged entry point, before anything is published.
CheckEntry ==
  /\ pc = "fetch" /\ todo = {}
  /\ UNCHANGED <<cancel, downloads, marker>>
  /\ \/ (cancel \/ Entry \notin staged[TargetOf(Entry)]) /\ Abandon
     \/ /\ ~cancel /\ Entry \in staged[TargetOf(Entry)]
        /\ pc' = "publish" /\ todo' = Chosen(profile)
        /\ UNCHANGED <<profile, repair, fresh, trees, faults>>

--------------------------------------------------------------------------------
(* The worker: dio_publish_component for every target *)

\* What an interrupted publication left: the previous tree goes back where the
\* target is missing and is deleted where it is not.
Recover(c) ==
  LET t == TargetOf(c) IN
  /\ pc = "publish" /\ At(c)
  /\ UNCHANGED <<cancel, downloads, marker>>
  /\ \/ cancel /\ Abandon
     \/ ~cancel /\ prev[t] = {} /\ Go("backup") /\ UNCHANGED <<trees, faults>>
     \/ /\ ~cancel /\ prev[t] # {} /\ live[t] = {}
        /\ live' = [live EXCEPT ![t] = prev[t]]
        /\ prev' = [prev EXCEPT ![t] = {}]
        /\ Go("backup") /\ UNCHANGED <<staged, faults>>
     \/ /\ ~cancel /\ prev[t] # {} /\ live[t] # {}
        /\ prev' = [prev EXCEPT ![t] = {}]
        /\ Go("backup") /\ UNCHANGED <<live, staged, faults>>
     \/ \* the move or the deletion fails, the latter half way
        /\ ~cancel /\ prev[t] # {} /\ Fault
        /\ prev' = [prev EXCEPT ![t] = IF live[t] = {} THEN @ ELSE HalfDeleted]
        /\ Go("failed") /\ staged' = NoTrees /\ UNCHANGED live

Backup(c) ==
  LET t == TargetOf(c) IN
  /\ pc = "backup" /\ At(c)
  /\ UNCHANGED <<cancel, downloads, marker>>
  /\ \/ live[t] = {} /\ Go("swap") /\ UNCHANGED <<trees, faults>>
     \/ /\ live[t] # {}
        /\ prev' = [prev EXCEPT ![t] = live[t]]
        /\ live' = [live EXCEPT ![t] = {}]
        /\ Go("swap") /\ UNCHANGED <<staged, faults>>
     \/ live[t] # {} /\ Go("failed") /\ staged' = NoTrees /\ Fault /\ UNCHANGED <<live, prev>>

\* The previous tree back in its place, if there is one and the move succeeds.
Restore(t) ==
  \/ /\ live' = [live EXCEPT ![t] = prev[t]]
     /\ prev' = [prev EXCEPT ![t] = {}]
     /\ NoFault
  \/ prev[t] # {} /\ live' = [live EXCEPT ![t] = {}] /\ prev' = prev /\ Fault

Swap(c) ==
  LET t == TargetOf(c) IN
  /\ pc = "swap" /\ At(c)
  /\ UNCHANGED <<cancel, downloads, marker>>
  /\ \/ cancel /\ Restore(t) /\ Go("failed") /\ staged' = NoTrees
     \/ /\ ~cancel
        /\ live' = [live EXCEPT ![t] = staged[t]]
        /\ staged' = [staged EXCEPT ![t] = {}]
        /\ Go("settle") /\ UNCHANGED <<prev, faults>>
     \/ \* the move out of staging fails, and the previous tree is moved back
        /\ ~cancel /\ Fault
        /\ live' = [live EXCEPT ![t] = prev[t]]
        /\ prev' = [prev EXCEPT ![t] = {}]
        /\ Go("failed") /\ staged' = NoTrees

\* Mutant: the previous tree is deleted before the last cancel check.
SettleEarly(c) ==
  LET t == TargetOf(c) IN
  /\ pc = "settle" /\ At(c)
  /\ UNCHANGED <<cancel, downloads, marker, faults>>
  /\ prev' = [prev EXCEPT ![t] = {}]
  /\ \/ /\ cancel
        /\ live' = [live EXCEPT ![t] = {}]
        /\ Go("failed") /\ staged' = NoTrees
     \/ /\ ~cancel
        /\ pc' = "publish" /\ todo' = {d \in todo : TargetOf(d) # t}
        /\ UNCHANGED <<profile, repair, fresh, live, staged>>

\* The last cancel check of a component takes the publication back; without a
\* cancel the previous tree is deleted, as far as it can be.
Settle(c) ==
  LET t == TargetOf(c) IN
  /\ pc = "settle" /\ At(c)
  /\ UNCHANGED <<cancel, downloads, marker>>
  /\ \/ cancel /\ Restore(t) /\ Go("failed") /\ staged' = NoTrees
     \/ \* the new tree cannot be moved back and stays
        cancel /\ Fault /\ Go("failed") /\ staged' = NoTrees /\ UNCHANGED <<live, prev>>
     \/ /\ ~cancel
        /\ \/ prev' = [prev EXCEPT ![t] = {}] /\ NoFault
           \/ prev[t] # {} /\ prev' = [prev EXCEPT ![t] = HalfDeleted] /\ Fault
        /\ pc' = "publish" /\ todo' = {d \in todo : TargetOf(d) # t}
        /\ UNCHANGED <<profile, repair, fresh, live, staged>>

--------------------------------------------------------------------------------
(* The worker: marker, cache, launch *)

\* Staging is deleted, and only then the marker is written.
Mark ==
  /\ pc = "publish" /\ todo = {}
  /\ UNCHANGED <<cancel, downloads>>
  /\ \/ cancel /\ Abandon /\ UNCHANGED marker
     \/ Go("failed") /\ staged' = NoTrees /\ Fault /\ UNCHANGED <<live, prev, marker>>
     \/ /\ ~cancel
        /\ staged' = NoTrees /\ marker' = profile
        /\ Go("marked") /\ UNCHANGED <<live, prev, faults>>

\* dio_cleanup_component_cache; a cancel or a failure takes the marker back.
CleanCache ==
  /\ pc = "marked"
  /\ UNCHANGED <<cancel, manifest, mpart, trees>>
  /\ \/ cancel /\ Unmark /\ Go("failed") /\ UNCHANGED <<cache, part, faults>>
     \/ /\ ~cancel
        /\ \E done \in {S \in SUBSET Chosen(profile) : \A c \in S, d \in Chosen(profile) : d < c => d \in S} :
             /\ cache' = [c \in Comps |-> IF c \in done THEN "none" ELSE cache[c]]
             /\ part' = [c \in Comps |-> IF c \in done THEN NoPart ELSE part[c]]
             /\ \/ done = Chosen(profile) /\ Go("cleaned") /\ UNCHANGED <<marker, faults>>
                \/ done # Chosen(profile) /\ Unmark /\ Go("failed") /\ Fault

Commit ==
  /\ pc = "cleaned"
  /\ UNCHANGED <<cancel, downloads, trees, faults>>
  /\ \/ cancel /\ Unmark /\ Go("failed")
     \/ ~cancel /\ Go("gate") /\ UNCHANGED marker

\* dio_launch up to ResumeThread.
Launch ==
  /\ pc = "gate"
  /\ UNCHANGED <<cancel, downloads, trees, marker>>
  /\ \/ (cancel \/ ~EntryExists) /\ Go("failed") /\ NoFault
     \/ Go("failed") /\ Fault
     \/ ~cancel /\ EntryExists /\ Go("resumed") /\ NoFault

\* The last cancel check ends the program that was just started.
Launched ==
  /\ pc = "resumed"
  /\ Go(IF cancel THEN "failed" ELSE "done")
  /\ UNCHANGED <<cancel, downloads, trees, marker, faults>>

Worker ==
  \/ PrepareManifest \/ MoveManifest \/ Begin \/ Install
  \/ \E c \in Comps : Fetch(c) \/ Verify(c) \/ Stage(c)
  \/ CheckEntry
  \/ \E c \in Comps : Recover(c) \/ Backup(c) \/ Swap(c) \/ Settle(c)
  \/ Mark \/ CleanCache \/ Commit \/ Launch \/ Launched

\* The process ends anywhere, also in the middle of deleting a previous tree.
Crash ==
  /\ pc # "idle" /\ Fault
  /\ pc' = "idle" /\ cancel' = FALSE /\ fresh' = FALSE /\ todo' = {}
  /\ \/ prev' = prev
     \/ \E c \in Comps :
          /\ pc \in {"publish", "settle"} /\ At(c) /\ ~cancel
          /\ prev[TargetOf(c)] # {} /\ live[TargetOf(c)] # {}
          /\ prev' = [prev EXCEPT ![TargetOf(c)] = HalfDeleted]
  /\ UNCHANGED <<profile, repair, live, staged, downloads, marker>>

Next == Start \/ Cancel \/ Handled \/ Worker \/ Crash

Spec == Init /\ [][Next]_vars /\ WF_vars(Worker) /\ WF_vars(Handled)

--------------------------------------------------------------------------------
(* Properties *)

TypeOK ==
  /\ pc \in {"idle", "manifest", "move_manifest", "begin", "install", "fetch", "verify", "stage",
             "publish", "backup", "swap", "settle", "marked", "cleaned", "gate", "resumed",
             "failed", "done"}
  /\ profile \in Profiles /\ repair \in BOOLEAN /\ fresh \in BOOLEAN
  /\ todo \in SUBSET Comps /\ cancel \in BOOLEAN
  /\ {live, prev, staged} \subseteq [Targets -> SUBSET (Comps \cup {Torn})]
  /\ cache \in [Comps -> {"none", "good", "bad"}]
  /\ part \in [Comps -> Parts] /\ manifest \in BOOLEAN /\ mpart \in Parts
  /\ marker \in Profiles \cup {"none"}
  /\ faults \in 0 .. MaxFaults

\* The tree a target has, or would get back from the next publication.
Held(t) == IF live[t] # {} THEN live[t] ELSE prev[t]

\* Whatever crashes, fails or is cancelled between the renames of a
\* publication, no target ends up with a tree that was half deleted or whose
\* download was wrong, neither in place nor as what would be put back; and each
\* target of the profile in the marker still has a tree in place or to put back.
TreesKept ==
  /\ \A t \in Targets : Torn \notin Held(t)
  /\ \A p \in Profiles : marker = p => \A t \in Uses(p) : Held(t) # {}

\* A run that installed, and got past the marker, launches what the manifest
\* names for the chosen profile and nothing else.
InstalledComplete ==
  fresh /\ pc \in {"marked", "cleaned", "gate", "resumed", "done"} => Complete(profile)

\* The user's choice decides what is launched: the program that runs finds the
\* models of the profile that was chosen for this run.
LaunchedAsChosen == pc = "done" => Complete(profile)

\* A user who tries again and again, without cancelling, gets the program
\* launched once nothing fails any more, whatever the earlier attempts left
\* in the folder.  (A run that begins with a manifest download that is complete
\* and was not moved is the exception: the server refuses its Range, and nothing
\* deletes it.)
ManifestStuck == pc = "manifest" /\ mpart.len = FullSize

RetrySucceeds ==
  []<>(pc = "manifest") /\ <>[]~cancel => <>(pc = "done" \/ ManifestStuck)

================================================================================
