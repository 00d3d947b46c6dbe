----------------------------- MODULE InstallerProof ----------------------------
(***************************************************************************)
(* Proofs about the installer, for every manifest and any number of        *)
(* crashes and failures: types, what the targets hold, and what an install *)
(* that got past its marker launches.                                      *)
(***************************************************************************)
EXTENDS Installer, TLAPS

Trees == [Targets -> SUBSET (Comps \cup {Torn})]

LEMMA CompsFact == /\ Comps \subseteq Nat \ {0} /\ Entry \in Comps
                   /\ \A c \in Comps : TargetOf(c) \in Targets
BY ManifestAssumption DEF Comps, TargetOf, Targets

LEMMA ChosenComps == \A p \in Profiles : Chosen(p) \subseteq Comps
BY DEF Chosen

\* The loop is at one component.
LEMMA AtOnce == ASSUME todo \in SUBSET Comps, NEW c, At(c), NEW d, At(d)
                PROVE  c = d /\ c \in Comps
<1>1. c \in Nat /\ d \in Nat /\ c <= d /\ d <= c /\ c \in Comps
  BY CompsFact DEF At
<1> QED
  BY <1>1

--------------------------------------------------------------------------------
(* Types *)

PcType == {"idle", "manifest", "move_manifest", "begin", "install", "fetch", "verify", "stage",
           "publish", "backup", "swap", "settle", "marked", "cleaned", "gate", "resumed",
           "failed", "done"}

WorkerOK ==
  /\ pc \in PcType /\ profile \in Profiles /\ repair \in BOOLEAN /\ fresh \in BOOLEAN
  /\ todo \in SUBSET Comps /\ cancel \in BOOLEAN /\ marker \in Profiles \cup {"none"}

TreesOK == live \in Trees /\ prev \in Trees /\ staged \in Trees

\* What was verified is what the manifest names: no wrong download is in the cache.
DownloadsOK ==
  /\ cache \in [Comps -> {"none", "good"}] /\ part \in [Comps -> Parts]
  /\ mpart \in Parts /\ manifest \in BOOLEAN

FaultsOK == faults \in 0 .. MaxFaults

\* The worker's variables change with the place it goes to, and little else.
LEMMA WorkerStep == WorkerOK /\ [Next]_vars => WorkerOK'
<1> SUFFICES ASSUME WorkerOK, [Next]_vars PROVE WorkerOK'
  OBVIOUS
<1> USE DEF Next, Worker, PrepareManifest, MoveManifest, Begin, Install, Fetch, Verify,
      Stage, CheckEntry, Recover, Backup, Swap, Settle, Mark, CleanCache, Commit, Launch,
      Launched, Start, Cancel, Handled, Crash, vars, worker, Go, Fail, Abandon, Unmark
<1>1. pc' \in PcType
  BY DEF WorkerOK, PcType
<1>2. todo' \in SUBSET Comps
  BY ChosenComps DEF WorkerOK
<1>3. profile' \in Profiles /\ repair' \in BOOLEAN /\ fresh' \in BOOLEAN
  BY DEF WorkerOK
<1>4. cancel' \in BOOLEAN
  BY DEF WorkerOK
<1>5. marker' \in Profiles \cup {"none"}
  BY DEF WorkerOK
<1> QED
  BY <1>1, <1>2, <1>3, <1>4, <1>5 DEF WorkerOK

LEMMA PartTypes == NoPart \in Parts /\ \A p \in Parts : p.ok \in BOOLEAN
BY BoundsAssumption DEF NoPart, Parts

LEMMA DownloadsStep == DownloadsOK /\ [Next]_vars => DownloadsOK'
<1> SUFFICES ASSUME DownloadsOK, [Next]_vars PROVE DownloadsOK'
  OBVIOUS
<1> USE PartTypes DEF DownloadsOK, HashMatches
<1>1. CASE PrepareManifest \/ MoveManifest
  BY <1>1 DEF PrepareManifest, MoveManifest
<1>2. ASSUME NEW c \in Comps, Fetch(c) PROVE DownloadsOK'
  BY <1>2 DEF Fetch
<1>3. ASSUME NEW c \in Comps, Verify(c) PROVE DownloadsOK'
  BY <1>3 DEF Verify
<1>4. CASE CleanCache
  BY <1>4 DEF CleanCache
<1>5. CASE UNCHANGED downloads
  BY <1>5 DEF downloads
<1> QED
  BY <1>1, <1>2, <1>3, <1>4, <1>5 DEF Next, Worker, Begin, Install, Stage, CheckEntry, Recover,
     Backup, Swap, Settle, Mark, Commit, Launch, Launched, Start, Cancel, Handled, Crash, vars

LEMMA TreesStep == TreesOK /\ [Next]_vars => TreesOK'
<1> SUFFICES ASSUME TreesOK, [Next]_vars PROVE TreesOK'
  OBVIOUS
<1>0. NoTrees \in Trees /\ {Torn} \subseteq Comps \cup {Torn}
  BY DEF NoTrees, Trees
<1> USE <1>0 DEF TreesOK, Trees, Abandon, Fail, trees, HalfDeleted
<1>1. CASE Install \/ CheckEntry \/ Mark
  BY <1>1 DEF Install, CheckEntry, Mark
<1>2. ASSUME NEW c \in Comps, Fetch(c) \/ Verify(c) PROVE TreesOK'
  BY <1>2 DEF Fetch, Verify
<1>3. ASSUME NEW c \in Comps, Stage(c) PROVE TreesOK'
  BY <1>3 DEF Stage, Extracted
<1>4. ASSUME NEW c \in Comps, Recover(c) PROVE TreesOK'
  BY <1>4 DEF Recover
<1>5. ASSUME NEW c \in Comps, Backup(c) PROVE TreesOK'
  BY <1>5 DEF Backup
<1>6. ASSUME NEW c \in Comps, Swap(c) PROVE TreesOK'
  BY <1>6 DEF Swap, Restore
<1>7. ASSUME NEW c \in Comps, Settle(c) PROVE TreesOK'
  BY <1>7 DEF Settle, Restore
<1>8. CASE Crash
  BY <1>8 DEF Crash
<1>9. CASE UNCHANGED trees
  BY <1>9
<1> QED
  BY <1>1, <1>2, <1>3, <1>4, <1>5, <1>6, <1>7, <1>8, <1>9 DEF Next, Worker, PrepareManifest,
     MoveManifest, Begin, CleanCache, Commit, Launch, Launched, Start, Cancel, Handled, vars

LEMMA FaultsStep == FaultsOK /\ [Next]_vars => FaultsOK'
<1> SUFFICES ASSUME FaultsOK, [Next]_vars PROVE FaultsOK'
  OBVIOUS
<1>1. Fault \/ NoFault
  BY DEF NoFault, Next, Worker, PrepareManifest, MoveManifest, Begin, Install, Fetch, Verify,
     Stage, CheckEntry, Recover, Backup, Swap, Settle, Restore, Mark, CleanCache, Commit, Launch,
     Launched, Start, Cancel, Handled, Crash, vars, Abandon, Downloads, DownloadFails
<1> QED
  BY <1>1, BoundsAssumption DEF FaultsOK, Fault, NoFault

TypeInv == WorkerOK /\ TreesOK /\ DownloadsOK /\ FaultsOK

LEMMA TypeInit == Init => TypeInv
<1> SUFFICES ASSUME Init PROVE TypeInv
  OBVIOUS
<1>1. WorkerOK
  BY DEF Init, WorkerOK, PcType, Profiles
<1>2. TreesOK
  BY DEF Init, TreesOK, Trees, NoTrees
<1>3. DownloadsOK
  BY PartTypes DEF Init, DownloadsOK
<1>4. FaultsOK
  BY BoundsAssumption DEF Init, FaultsOK
<1> QED
  BY <1>1, <1>2, <1>3, <1>4 DEF TypeInv

THEOREM TypeInvariant == Spec => []TypeInv
<1>1. TypeInv /\ [Next]_vars => TypeInv'
  BY WorkerStep, TreesStep, DownloadsStep, FaultsStep DEF TypeInv
<1> QED
  BY TypeInit, <1>1, PTL DEF Spec

\* Every variable keeps its type.
THEOREM TypeCorrect == Spec => []TypeOK
<1>1. WorkerOK /\ TreesOK =>
        /\ pc \in PcType /\ profile \in Profiles /\ repair \in BOOLEAN /\ fresh \in BOOLEAN
        /\ todo \in SUBSET Comps /\ cancel \in BOOLEAN
        /\ {live, prev, staged} \subseteq Trees
        /\ marker \in Profiles \cup {"none"}
  BY DEF WorkerOK, TreesOK
<1>2. DownloadsOK =>
        /\ cache \in [Comps -> {"none", "good", "bad"}]
        /\ part \in [Comps -> Parts] /\ manifest \in BOOLEAN /\ mpart \in Parts
  BY DEF DownloadsOK
<1>3. TypeInv => TypeOK
  BY <1>1, <1>2 DEF TypeInv, FaultsOK, TypeOK, PcType, Trees
<1> QED
  BY <1>3, TypeInvariant, PTL

--------------------------------------------------------------------------------
(* The trees of the targets *)

\* What the profile puts into a target.
Wanted(t) == {c \in Chosen(profile) : TargetOf(c) = t}
Staging == {"fetch", "verify", "stage"}
Publishing == {"publish", "backup", "swap", "settle"}
Installed == {"marked", "cleaned", "gate", "resumed", "done"}
Current(t) == \E c \in Comps : At(c) /\ TargetOf(c) = t

\* Staging fills up with what the manifest names, from verified downloads,
StagingInv ==
  /\ pc = "stage" => \A c \in Comps : At(c) => cache[c] = "good"
  /\ pc \in Staging => todo \subseteq Chosen(profile)
                       /\ \A t \in Targets : staged[t] = Wanted(t) \ todo
\* and is moved to the targets one after the other.
PublishInv ==
  pc \in Publishing =>
    /\ todo \subseteq Chosen(profile)
    /\ \A c, d \in Chosen(profile) : c \in todo /\ TargetOf(c) = TargetOf(d) => d \in todo
    /\ \A c \in Chosen(profile) :
         IF c \notin todo \/ (pc = "settle" /\ Current(TargetOf(c)))
           THEN live[TargetOf(c)] = Wanted(TargetOf(c))
           ELSE staged[TargetOf(c)] = Wanted(TargetOf(c))
FreshInv ==
  /\ pc \in {"manifest", "move_manifest", "begin", "install"} => ~fresh
  /\ fresh /\ pc \in Installed => Complete(profile)

\* No target holds, or would get back, files that are not what the manifest names,
CleanInv ==
  /\ \A t \in Targets : Torn \notin live[t] /\ Torn \notin staged[t]
  /\ \A t \in Targets : live[t] = {} \/ (pc \in {"swap", "settle"} /\ Current(t))
                          => Torn \notin prev[t]
  /\ pc = "backup" => \A t \in Targets : Current(t) => prev[t] = {}
  /\ pc = "swap" => \A t \in Targets : Current(t) => live[t] = {}
\* and none that the marker relies on is given up.
MarkerInv ==
  \A p \in Profiles : marker = p => \A t \in Uses(p) :
    /\ Held(t) # {}
    /\ pc = "settle" /\ Current(t) => prev[t] # {}

TreeInv == StagingInv /\ PublishInv /\ FreshInv /\ CleanInv /\ MarkerInv

\* A step from outside the publication, or to its failure, that leaves the trees
\* where they are.
LEMMA QuietStep ==
  ASSUME TypeInv, TreeInv, UNCHANGED <<live, prev>>, staged' \in {staged, NoTrees},
         marker' \in {marker, "none"}, pc' \notin Staging \cup Publishing,
         pc' \in {"manifest", "move_manifest", "begin", "install"} => ~fresh',
         fresh' /\ pc' \in Installed => fresh /\ pc \in Installed /\ profile' = profile
  PROVE  TreeInv'
<1>1. "stage" \in Staging /\ {"backup", "swap", "settle"} \subseteq Publishing
  BY DEF Staging, Publishing
<1>2. StagingInv' /\ PublishInv'
  BY <1>1 DEF StagingInv, PublishInv
<1>3. FreshInv'
  BY DEF TreeInv, FreshInv, Complete
<1>4. CleanInv'
  BY <1>1 DEF TreeInv, CleanInv, NoTrees
<1>5. MarkerInv'
  BY <1>1 DEF TreeInv, MarkerInv, Held, Profiles
<1> QED
  BY <1>2, <1>3, <1>4, <1>5 DEF TreeInv

LEMMA StagingStep ==
  ASSUME TypeInv, TreeInv, NEW c \in Comps,
         Install \/ Fetch(c) \/ Verify(c) \/ Stage(c) \/ CheckEntry
  PROVE  TreeInv'
<1>0. CASE pc' = "failed"
  BY <1>0, QuietStep DEF Install, Fetch, Verify, Stage, CheckEntry, Fail, Abandon, Go,
     trees, Staging, Publishing, Installed
<1>1. ASSUME pc' \in {"fetch", "verify", "stage", "publish"}, UNCHANGED <<live, prev, marker, profile>>,
             StagingInv', PublishInv', \A t \in Targets : Torn \notin staged'[t]
      PROVE  TreeInv'
  BY <1>1 DEF TreeInv, FreshInv, CleanInv, MarkerInv, Held, Installed
<1>2. Torn \notin Comps
  BY CompsFact DEF Torn
<1>3. CASE Install /\ pc' = "fetch"
  <2>1. /\ todo' = Chosen(profile) /\ staged' = NoTrees /\ UNCHANGED <<live, prev, marker, profile>>
    BY <1>3 DEF Install, Fail, Go
  <2>2. StagingInv' /\ PublishInv' /\ \A t \in Targets : Torn \notin staged'[t]
    BY <1>3, <2>1 DEF StagingInv, PublishInv, NoTrees, Wanted, Publishing, Chosen
  <2> QED
    BY <1>1, <1>3, <2>1, <2>2
<1>4. CASE Fetch(c) /\ pc' # "failed"
  <2>1. /\ pc = "fetch" /\ At(c) /\ pc' \in {"stage", "verify"}
        /\ UNCHANGED <<live, prev, staged, marker, profile, todo, cache>>
        /\ pc' = "stage" => cache[c] = "good"
    BY <1>4 DEF Fetch, Abandon, Go, trees
  <2>2. \A d \in Comps : At(d)' => d = c
    BY <2>1, AtOnce DEF TypeInv, WorkerOK, At
  <2>3. StagingInv' /\ PublishInv'
    BY <2>1, <2>2 DEF TreeInv, StagingInv, PublishInv, Wanted, Chosen, Staging, Publishing
  <2> QED
    BY <1>1, <2>1, <2>3 DEF TreeInv, CleanInv
<1>5. CASE Verify(c) /\ pc' # "failed"
  <2>1. /\ pc = "verify" /\ At(c) /\ pc' = "stage"
        /\ UNCHANGED <<live, prev, staged, marker, profile, todo>>
        /\ cache'[c] = "good"
    BY <1>5 DEF Verify, Abandon, Go, trees, TypeInv, DownloadsOK
  <2>2. \A d \in Comps : At(d)' => d = c
    BY <2>1, AtOnce DEF TypeInv, WorkerOK, At
  <2>3. StagingInv' /\ PublishInv'
    BY <2>1, <2>2 DEF TreeInv, StagingInv, PublishInv, Wanted, Chosen, Staging, Publishing
  <2> QED
    BY <1>1, <2>1, <2>3 DEF TreeInv, CleanInv
<1>6. CASE Stage(c) /\ pc' # "failed"
  <2>1. /\ pc = "stage" /\ At(c) /\ pc' = "fetch" /\ todo' = todo \ {c}
        /\ UNCHANGED <<live, prev, marker, profile>>
        /\ staged' = [staged EXCEPT ![TargetOf(c)] = @ \cup {Extracted(c)}]
    BY <1>6 DEF Stage, Abandon, Go
  <2>2. Extracted(c) = c
    BY <2>1 DEF TreeInv, StagingInv, Extracted
  <2>3. \A t \in Targets : staged'[t] = IF t = TargetOf(c) THEN staged[t] \cup {c} ELSE staged[t]
    BY <2>1, <2>2 DEF TypeInv, TreesOK, Trees
  <2>4. c \in todo /\ todo \subseteq Chosen(profile) /\ \A t \in Targets : staged[t] = Wanted(t) \ todo
    BY <2>1 DEF TreeInv, StagingInv, Staging, At
  <2>5. \A t \in Targets : staged'[t] = Wanted(t)' \ todo'
    <3>1. \A t \in Targets : Wanted(t)' = Wanted(t)
      BY <2>1 DEF Wanted, Chosen
    <3>2. \A t \in Targets : c \in Wanted(t) <=> t = TargetOf(c)
      BY <2>4 DEF Wanted
    <3>3. ASSUME NEW t \in Targets, t = TargetOf(c) PROVE staged'[t] = Wanted(t) \ todo'
      <4>1. staged'[t] = (Wanted(t) \ todo) \cup {c} /\ todo' = todo \ {c} /\ c \in Wanted(t)
        BY <2>1, <2>3, <2>4, <3>2, <3>3
      <4> QED
        BY <4>1
    <3>4. ASSUME NEW t \in Targets, t # TargetOf(c) PROVE staged'[t] = Wanted(t) \ todo'
      <4>1. staged'[t] = Wanted(t) \ todo /\ todo' = todo \ {c} /\ c \notin Wanted(t)
        BY <2>1, <2>3, <2>4, <3>2, <3>4
      <4> QED
        BY <4>1
    <3> QED
      BY <3>1, <3>3, <3>4
  <2>6. StagingInv' /\ PublishInv'
    BY <2>1, <2>4, <2>5 DEF StagingInv, PublishInv, Chosen, Staging, Publishing
  <2>7. \A t \in Targets : Torn \notin staged'[t]
    BY <1>2, <2>3 DEF TreeInv, CleanInv
  <2> QED
    BY <1>1, <2>1, <2>6, <2>7
<1>7. CASE CheckEntry /\ pc' # "failed"
  <2>1. /\ pc = "fetch" /\ todo = {} /\ pc' = "publish" /\ todo' = Chosen(profile)
        /\ UNCHANGED <<live, prev, staged, marker, profile>>
    BY <1>7 DEF CheckEntry, Abandon, Go, trees
  <2>2. \A t \in Targets : staged[t] = Wanted(t)
    BY <2>1 DEF TreeInv, StagingInv, Staging
  <2>3. \A d \in Chosen(profile) : TargetOf(d) \in Targets
    BY CompsFact DEF Chosen
  <2>4. StagingInv' /\ PublishInv'
    BY <2>1, <2>2, <2>3 DEF StagingInv, PublishInv, Wanted, Chosen, Staging
  <2> QED
    BY <1>1, <2>1, <2>4 DEF TreeInv, CleanInv
<1>8. pc' = "failed" \/ (Install /\ pc' = "fetch") \/ (~Install /\ pc' # "failed")
  BY DEF Install, Fail, Go
<1> QED
  BY <1>0, <1>3, <1>4, <1>5, <1>6, <1>7, <1>8

\* The component the loop is at, and its target.
LEMMA CurrentIs ==
  ASSUME TypeInv, NEW c \in Comps, At(c)
  PROVE  \A t : Current(t) <=> t = TargetOf(c)
BY AtOnce DEF TypeInv, WorkerOK, Current

\* A step of the publication of one target: the other targets stay as they are.
LEMMA TargetStep ==
  ASSUME TypeInv, TreeInv, NEW c \in Comps, At(c), pc \in Publishing,
         \A t \in Targets : t # TargetOf(c) => live'[t] = live[t] /\ prev'[t] = prev[t],
         UNCHANGED marker, Torn \notin live'[TargetOf(c)],
         \A p \in Profiles : marker = p /\ TargetOf(c) \in Uses(p) => Held(TargetOf(c))' # {},
         live'[TargetOf(c)] = {} => Torn \notin prev'[TargetOf(c)],
         pc' \notin Staging, \A t \in Targets : staged'[t] \in {staged[t], {}}
  PROVE  /\ StagingInv' /\ \A t \in Targets : Torn \notin live'[t] /\ Torn \notin staged'[t]
         /\ \A t \in Targets : live'[t] = {} => Torn \notin prev'[t]
         /\ \A p \in Profiles : marker' = p => \A t \in Uses(p) : Held(t)' # {}
<1>1. \A t : t # TargetOf(c) => ~Current(t)
  BY CurrentIs
<1>2. StagingInv'
  BY DEF StagingInv, Staging
<1>3. \A t \in Targets : Torn \notin live'[t] /\ Torn \notin staged'[t]
  BY DEF TreeInv, CleanInv
<1>4. \A t \in Targets : live'[t] = {} => Torn \notin prev'[t]
  BY DEF TreeInv, CleanInv
<1>5. \A p \in Profiles : \A t \in Uses(p) : t \in Targets
  BY CompsFact DEF Uses, Chosen
<1>6. \A p \in Profiles : marker' = p => \A t \in Uses(p) : Held(t)' # {}
  BY <1>5 DEF TreeInv, MarkerInv, Held
<1> QED
  BY <1>2, <1>3, <1>4, <1>6

\* The publication fails, with the trees of its target put where they can be.
LEMMA PublishFails ==
  ASSUME TypeInv, TreeInv, NEW c \in Comps, At(c),
         Recover(c) \/ Backup(c) \/ Swap(c) \/ Settle(c), pc' = "failed"
  PROVE  TreeInv'
<1> DEFINE t == TargetOf(c)
<1>0. t \in Targets /\ pc \in Publishing /\ Current(t)
  BY CompsFact DEF Current, Recover, Backup, Swap, Settle, Publishing
<1>1. /\ \A u \in Targets : u # t => live'[u] = live[u] /\ prev'[u] = prev[u]
      /\ \/ live'[t] = live[t] /\ prev'[t] = prev[t]
         \/ live'[t] = live[t] /\ live[t] # {}
         \/ pc \in {"swap", "settle"} /\ live'[t] = prev[t] /\ prev'[t] = {}
         \/ pc \in {"swap", "settle"} /\ prev[t] # {} /\ live'[t] = {} /\ prev'[t] = prev[t]
  BY <1>0 DEF Recover, Backup, Swap, Settle, Restore, Abandon, Go, trees, TypeInv, TreesOK, Trees
<1>2. /\ UNCHANGED marker /\ pc' \notin Staging \cup Publishing \cup Installed
      /\ \A u \in Targets : staged'[u] \in {staged[u], {}}
  BY DEF Recover, Backup, Swap, Settle, Abandon, Go, NoTrees, Staging, Publishing, Installed
<1>3. Torn \notin live'[t] /\ (live'[t] = {} => Torn \notin prev'[t])
  BY <1>0, <1>1 DEF TreeInv, CleanInv
<1>4. \A p \in Profiles : marker = p /\ t \in Uses(p) => Held(t)' # {}
  BY <1>0, <1>1 DEF TreeInv, CleanInv, MarkerInv, Held
<1>5. /\ StagingInv' /\ \A u \in Targets : Torn \notin live'[u] /\ Torn \notin staged'[u]
      /\ \A u \in Targets : live'[u] = {} => Torn \notin prev'[u]
      /\ \A p \in Profiles : marker' = p => \A u \in Uses(p) : Held(u)' # {}
  BY <1>0, <1>1, <1>2, <1>3, <1>4, TargetStep
<1>6. PublishInv' /\ FreshInv'
  BY <1>2 DEF PublishInv, FreshInv, Installed
<1>7. CleanInv' /\ MarkerInv'
  BY <1>5 DEF CleanInv, MarkerInv
<1> QED
  BY <1>5, <1>6, <1>7 DEF TreeInv

\* The other targets of a publication are published or staged as before.
LEMMA OthersKept ==
  ASSUME TypeInv, TreeInv, NEW c \in Comps, At(c), pc \in Publishing, pc' \in Publishing,
         UNCHANGED <<todo, profile>>,
         \A t \in Targets : t # TargetOf(c) => live'[t] = live[t] /\ staged'[t] = staged[t],
         IF pc' = "settle" THEN live'[TargetOf(c)] = Wanted(TargetOf(c))
                           ELSE staged'[TargetOf(c)] = Wanted(TargetOf(c))
  PROVE  PublishInv' /\ FreshInv'
<1>1. /\ todo \subseteq Chosen(profile) /\ c \in todo
      /\ \A d \in Chosen(profile) : TargetOf(d) = TargetOf(c) => d \in todo
      /\ \A d \in Chosen(profile) : TargetOf(d) # TargetOf(c) =>
           IF d \notin todo THEN live[TargetOf(d)] = Wanted(TargetOf(d))
                            ELSE staged[TargetOf(d)] = Wanted(TargetOf(d))
  BY CurrentIs DEF TreeInv, PublishInv, At
<1>2. \A d \in Chosen(profile) : TargetOf(d) \in Targets
  BY CompsFact DEF Chosen
<1>3. \A t : Current(t)' <=> t = TargetOf(c)
  BY CurrentIs DEF Current, At
<1>4. Chosen(profile)' = Chosen(profile) /\ \A t : Wanted(t)' = Wanted(t)
  BY DEF Chosen, Wanted
<1>5. \A a, b \in Chosen(profile) : a \in todo /\ TargetOf(a) = TargetOf(b) => b \in todo
  BY DEF TreeInv, PublishInv
<1>6. PublishInv'
  BY <1>1, <1>2, <1>3, <1>4, <1>5 DEF PublishInv
<1>7. FreshInv'
  BY DEF FreshInv, Publishing, Installed
<1> QED
  BY <1>6, <1>7

LEMMA PublishStep ==
  ASSUME TypeInv, TreeInv, NEW c \in Comps,
         Recover(c) \/ Backup(c) \/ Swap(c) \/ Settle(c), pc' # "failed"
  PROVE  TreeInv'
<1> DEFINE t == TargetOf(c)
<1>0. /\ t \in Targets /\ pc \in Publishing /\ At(c) /\ pc' \in Publishing
      /\ UNCHANGED <<marker, profile>> /\ \A u : Current(u) <=> u = t
  <2>1. At(c)
    BY DEF Recover, Backup, Swap, Settle
  <2> QED
    BY <2>1, CompsFact, CurrentIs DEF Recover, Backup, Swap, Settle, Publishing, Abandon, Go
<1>1. /\ pc # "settle" => staged[t] = Wanted(t)
      /\ pc = "settle" => live[t] = Wanted(t)
      /\ c \in Wanted(t)
  <2>1. c \in todo /\ c \in Chosen(profile)
    BY <1>0 DEF At, TreeInv, PublishInv
  <2> QED
    BY <1>0, <2>1 DEF TreeInv, PublishInv, Wanted
<1>2. pc' \notin Staging
  BY <1>0 DEF Publishing, Staging
<1>3. CASE Recover(c)
  <2>1. /\ pc = "publish" /\ pc' = "backup" /\ UNCHANGED <<todo, staged>>
        /\ \A u \in Targets : u # t => live'[u] = live[u] /\ prev'[u] = prev[u]
        /\ prev'[t] = {} /\ live'[t] = Held(t)
    BY <1>0, <1>3 DEF Recover, Abandon, Go, trees, Held, TypeInv, TreesOK, Trees
  <2>2. Torn \notin live'[t] /\ Held(t)' = Held(t)
    BY <1>0, <2>1 DEF TreeInv, CleanInv, Held
  <2>3. \A p \in Profiles : marker = p /\ t \in Uses(p) => Held(t)' # {}
    BY <2>2 DEF TreeInv, MarkerInv
  <2>4. PublishInv' /\ FreshInv'
    BY <1>0, <1>1, <2>1, OthersKept
  <2>5. \A u : Current(u)' <=> u = t
    BY <1>0, <2>1 DEF Current, At
  <2>6. /\ StagingInv' /\ \A u \in Targets : Torn \notin live'[u] /\ Torn \notin staged'[u]
        /\ \A u \in Targets : live'[u] = {} => Torn \notin prev'[u]
        /\ \A p \in Profiles : marker' = p => \A u \in Uses(p) : Held(u)' # {}
    BY <1>0, <1>2, <2>1, <2>2, <2>3, TargetStep
  <2>7. CleanInv' /\ MarkerInv'
    BY <2>1, <2>5, <2>6 DEF CleanInv, MarkerInv
  <2> QED
    BY <2>4, <2>6, <2>7 DEF TreeInv
<1>4. CASE Backup(c)
  <2>1. /\ pc = "backup" /\ pc' = "swap" /\ UNCHANGED <<todo, staged>>
        /\ \A u \in Targets : u # t => live'[u] = live[u] /\ prev'[u] = prev[u]
        /\ live'[t] = {} /\ prev'[t] \in {live[t], prev[t]}
        /\ live[t] # {} => prev'[t] = live[t]
    BY <1>0, <1>4 DEF Backup, Go, trees, TypeInv, TreesOK, Trees
  <2>2. prev[t] = {} /\ Torn \notin prev'[t] /\ Held(t)' = Held(t)
    BY <1>0, <2>1 DEF TreeInv, CleanInv, Held
  <2>3. \A p \in Profiles : marker = p /\ t \in Uses(p) => Held(t)' # {}
    BY <2>2 DEF TreeInv, MarkerInv
  <2>4. PublishInv' /\ FreshInv'
    BY <1>0, <1>1, <2>1, OthersKept
  <2>5. \A u : Current(u)' <=> u = t
    BY <1>0, <2>1 DEF Current, At
  <2>6. /\ StagingInv' /\ \A u \in Targets : Torn \notin live'[u] /\ Torn \notin staged'[u]
        /\ \A u \in Targets : live'[u] = {} => Torn \notin prev'[u]
        /\ \A p \in Profiles : marker' = p => \A u \in Uses(p) : Held(u)' # {}
    BY <1>0, <1>2, <2>1, <2>2, <2>3, TargetStep
  <2>7. CleanInv' /\ MarkerInv'
    BY <2>1, <2>2, <2>5, <2>6 DEF CleanInv, MarkerInv
  <2> QED
    BY <2>4, <2>6, <2>7 DEF TreeInv
<1>5. CASE Swap(c)
  <2>1. /\ pc = "swap" /\ pc' = "settle" /\ UNCHANGED <<todo, prev>>
        /\ \A u \in Targets : u # t => live'[u] = live[u] /\ staged'[u] = staged[u]
        /\ live'[t] = Wanted(t) /\ staged'[t] = {}
    BY <1>0, <1>1, <1>5 DEF Swap, Go, TypeInv, TreesOK, Trees
  <2>2. live'[t] # {} /\ live[t] = {} /\ Torn \notin live'[t] /\ Torn \notin prev[t]
    BY <1>0, <1>1, <1>5, <2>1 DEF Swap, TreeInv, CleanInv, Wanted, Chosen, TypeInv
  <2>3. \A p \in Profiles : marker = p /\ t \in Uses(p) => Held(t)' # {} /\ prev'[t] # {}
    BY <2>1, <2>2 DEF TreeInv, MarkerInv, Held
  <2>4. PublishInv' /\ FreshInv'
    BY <1>0, <2>1, OthersKept
  <2>5. \A u : Current(u)' <=> u = t
    BY <1>0, <2>1 DEF Current, At
  <2>6. /\ StagingInv' /\ \A u \in Targets : Torn \notin live'[u] /\ Torn \notin staged'[u]
        /\ \A u \in Targets : live'[u] = {} => Torn \notin prev'[u]
        /\ \A p \in Profiles : marker' = p => \A u \in Uses(p) : Held(u)' # {}
    BY <1>0, <1>2, <2>1, <2>2, <2>3, TargetStep
  <2>7. CleanInv' /\ MarkerInv'
    BY <1>0, <2>1, <2>2, <2>3, <2>5, <2>6 DEF CleanInv, MarkerInv
  <2> QED
    BY <2>4, <2>6, <2>7 DEF TreeInv
<1>6. CASE Settle(c)
  <2>1. /\ pc = "settle" /\ pc' = "publish" /\ UNCHANGED <<live, staged>>
        /\ todo' = {d \in todo : TargetOf(d) # t}
        /\ \A u \in Targets : u # t => prev'[u] = prev[u]
    BY <1>0, <1>6 DEF Settle, Go, TypeInv, TreesOK, Trees
  <2>2. live[t] = Wanted(t) /\ live[t] # {} /\ Torn \notin live[t]
    BY <1>0, <1>1, <2>1 DEF TreeInv, CleanInv
  <2>3. \A p \in Profiles : marker = p /\ t \in Uses(p) => Held(t)' # {}
    BY <2>1, <2>2 DEF Held
  <2>4. PublishInv' /\ FreshInv'
    <3>1. Chosen(profile)' = Chosen(profile) /\ \A u : Wanted(u)' = Wanted(u)
      BY <1>0 DEF Chosen, Wanted
    <3>2. /\ todo \subseteq Chosen(profile)
          /\ \A a, b \in Chosen(profile) : a \in todo /\ TargetOf(a) = TargetOf(b) => b \in todo
          /\ \A d \in Chosen(profile) : TargetOf(d) # t =>
               IF d \notin todo THEN live[TargetOf(d)] = Wanted(TargetOf(d))
                                ELSE staged[TargetOf(d)] = Wanted(TargetOf(d))
      BY <1>0 DEF TreeInv, PublishInv
    <3>3. PublishInv'
      BY <2>1, <2>2, <3>1, <3>2 DEF PublishInv
    <3> QED
      BY <2>1, <3>3 DEF FreshInv, Installed
  <2>5. /\ StagingInv' /\ \A u \in Targets : Torn \notin live'[u] /\ Torn \notin staged'[u]
        /\ \A u \in Targets : live'[u] = {} => Torn \notin prev'[u]
        /\ \A p \in Profiles : marker' = p => \A u \in Uses(p) : Held(u)' # {}
    BY <1>0, <1>2, <2>1, <2>2, <2>3, TargetStep
  <2>6. CleanInv' /\ MarkerInv'
    BY <2>1, <2>5 DEF CleanInv, MarkerInv
  <2> QED
    BY <2>4, <2>5, <2>6 DEF TreeInv
<1> QED
  BY <1>3, <1>4, <1>5, <1>6

\* Every target is published: the profile is complete, and now marked.
LEMMA MarkStep == ASSUME TypeInv, TreeInv, Mark PROVE TreeInv'
<1>1. CASE pc' = "failed"
  BY <1>1, QuietStep DEF Mark, Abandon, Go, Staging, Publishing, Installed
<1>2. CASE pc' # "failed"
  <2>1. /\ pc = "publish" /\ todo = {} /\ pc' = "marked" /\ staged' = NoTrees
        /\ marker' = profile /\ UNCHANGED <<live, prev, profile>>
    BY <1>2 DEF Mark, Abandon, Go
  <2>2. \A t \in Uses(profile) : live[t] = Wanted(t) /\ Wanted(t) # {}
    BY <2>1 DEF TreeInv, PublishInv, Publishing, Uses, Wanted
  <2>3. FreshInv'
    BY <2>1, <2>2 DEF FreshInv, Complete, Wanted
  <2>4. CleanInv'
    BY <2>1 DEF TreeInv, CleanInv, NoTrees
  <2>5. MarkerInv'
    BY <2>1, <2>2 DEF MarkerInv, Held
  <2>6. StagingInv' /\ PublishInv'
    BY <2>1 DEF StagingInv, PublishInv, Staging, Publishing
  <2> QED
    BY <2>3, <2>4, <2>5, <2>6 DEF TreeInv
<1> QED
  BY <1>1, <1>2

\* The process ends, perhaps while a previous tree is deleted.
LEMMA CrashStep == ASSUME TypeInv, TreeInv, Crash PROVE TreeInv'
<1>1. /\ pc' = "idle" /\ UNCHANGED <<live, staged, marker>> /\ fresh' = FALSE
      /\ \A t \in Targets : live[t] = {} => prev'[t] = prev[t]
  BY CompsFact DEF Crash, TypeInv, TreesOK, Trees
<1>2. StagingInv' /\ PublishInv' /\ FreshInv'
  BY <1>1 DEF StagingInv, PublishInv, FreshInv, Staging, Publishing
<1>3. CleanInv'
  BY <1>1 DEF TreeInv, CleanInv
<1>4. \A p \in Profiles : \A t \in Uses(p) : t \in Targets
  BY CompsFact DEF Uses, Chosen
<1>5. MarkerInv'
  BY <1>1, <1>4 DEF TreeInv, MarkerInv, Held
<1> QED
  BY <1>2, <1>3, <1>5 DEF TreeInv

LEMMA FrameStep ==
  ASSUME TypeInv, TreeInv, UNCHANGED <<pc, profile, fresh, todo, trees, cache, marker>>
  PROVE  TreeInv'
<1>1. StagingInv' /\ PublishInv' /\ FreshInv'
  BY DEF TreeInv, StagingInv, PublishInv, FreshInv, trees, At, Current, Complete, Wanted, Chosen
<1>2. CleanInv' /\ MarkerInv'
  BY DEF TreeInv, CleanInv, MarkerInv, trees, At, Current, Held
<1> QED
  BY <1>1, <1>2 DEF TreeInv

THEOREM TreeInvariant == Spec => [](TypeInv /\ TreeInv)
<1>1. Init => TreeInv
  BY CompsFact DEF Init, TreeInv, StagingInv, PublishInv, FreshInv, CleanInv, MarkerInv, NoTrees,
     Staging, Publishing, Profiles
<1>2. TypeInv /\ TreeInv /\ [Next]_vars => TreeInv'
  <2> SUFFICES ASSUME TypeInv, TreeInv, [Next]_vars PROVE TreeInv'
    OBVIOUS
  <2>1. ASSUME NEW c \in Comps, Install \/ Fetch(c) \/ Verify(c) \/ Stage(c) \/ CheckEntry
        PROVE  TreeInv'
    BY <2>1, StagingStep
  <2>2. ASSUME NEW c \in Comps, Recover(c) \/ Backup(c) \/ Swap(c) \/ Settle(c) PROVE TreeInv'
    BY <2>2, PublishFails, PublishStep DEF Recover, Backup, Swap, Settle
  <2>3. CASE Start \/ Handled \/ PrepareManifest \/ MoveManifest \/ Begin
    BY <2>3, QuietStep DEF Start, Handled, PrepareManifest, MoveManifest, Begin, Go, trees,
       TreeInv, FreshInv, Staging, Publishing, Installed
  <2>4. CASE CleanCache \/ Commit \/ Launch \/ Launched
    BY <2>4, QuietStep DEF CleanCache, Commit, Launch, Launched, Unmark, Go, trees,
       Staging, Publishing, Installed
  <2>5. CASE Mark
    BY <2>5, MarkStep
  <2>6. CASE Crash
    BY <2>6, CrashStep
  <2>7. CASE Cancel \/ UNCHANGED vars
    BY <2>7, FrameStep DEF Cancel, vars, worker, downloads
  <2> QED
    BY <2>1, <2>2, <2>3, <2>4, <2>5, <2>6, <2>7, CompsFact DEF Next, Worker
<1> QED
  BY <1>1, <1>2, TypeInvariant, PTL DEF Spec

\* Whatever crashes or fails, no target is left with a damaged tree, and each
\* target that the marker relies on has one (dio_publish_component).
THEOREM TreesAreKept == Spec => []TreesKept
<1>1. TreeInv => TreesKept
  BY DEF TreeInv, CleanInv, MarkerInv, TreesKept, Held
<1> QED
  BY <1>1, TreeInvariant, PTL

\* What an install leaves behind its marker is the whole profile (dio_install).
THEOREM InstallsWhole == Spec => []InstalledComplete
<1>1. TreeInv => InstalledComplete
  BY DEF TreeInv, FreshInv, Installed, InstalledComplete
<1> QED
  BY <1>1, TreeInvariant, PTL

================================================================================
