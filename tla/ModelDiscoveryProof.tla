------------------------- MODULE ModelDiscoveryProof -------------------------
(***************************************************************************)
(* EndpointFits and AnswerStands for any endpoints, number of dialogs and  *)
(* of incidents.                                                           *)
(*                                                                         *)
(* The keys fit because an endpoint that is edited loses the key, and a    *)
(* key that is not dirty is the saved one of the same endpoint.  The       *)
(* catalogue fits because of the numbers: whatever request is on its way,  *)
(* it is of another dialog, has a lower number than the dialog's, or is of *)
(* the endpoint that is in the field.                                      *)
(*                                                                         *)
(* A catalogue stands because a request has one way to one answer: it is   *)
(* queued once, opens one harness, which greets once and is asked once.  A *)
(* catalogue that is in the window or on display is at the end of that     *)
(* way, so that only what closes the search behind it can replace it.      *)
(***************************************************************************)
EXTENDS ModelDiscovery, SequenceTheorems, TLAPS

Bases == Endpoints \union {NoEndpoint}
Keys == Bases \union {NoKey}
Says == {"catalogue", "failed", "timeout"}
Requests == [dialog : Nat, number : Nat, endpoint : Bases]
Dialogs == [id : Nat \ {0}, number : Nat, endpoint : Bases, changed : BOOLEAN,
            key : Keys, dirty : BOOLEAN, anonymous : BOOLEAN, timer : BOOLEAN,
            status : Says \union {"loading", "hint"}, shown : Nat, list : Requests]
Replies == [of : Requests, what : Says,
            why : {"answer", "late", "overdue", "died", "unopened"}]

Kinds == {"none", "DISCOVER", "SETTINGS", "READY", "MODELS", "ERROR"}

\* Commands and events, with a key that fits.
Messages ==
  {m \in [kind : Kinds, of : Requests, key : Keys] : m.key \in {NoKey, m.of.endpoint}}

Readers == [kind : {"none", "READY", "ERROR", "POSTED"}] \union
           [kind : {"MODELS"}, what : Results]

TypeInv ==
  /\ saved \in [endpoint : Bases, key : Keys] /\ unlocked \in BOOLEAN
  /\ dialog \in Dialogs \union {Closed}
  /\ slot \in Replies \union {Nothing}
  /\ queue \in Seq(Messages)
  /\ app \in [at : {"loop", "closing"}, request : Requests, key : Keys,
              deadline : BOOLEAN, then : {"nothing", "open", "timeout"},
              next : Messages, answered : BOOLEAN]
  /\ app.key \in {NoKey, app.request.endpoint}
  /\ reader \in Readers
  /\ left \in [dialogs : 0..MaxDialogs, incidents : Nat]

\* What is saved and what the dialog would save fit.
KeyInv ==
  /\ saved.key \in {NoKey, saved.endpoint}
  /\ dialog # Closed =>
       /\ dialog.key \in {NoKey, dialog.endpoint}
       /\ ~dialog.changed => dialog.endpoint = saved.endpoint
       /\ ~dialog.dirty => saved.key \in {NoKey, dialog.endpoint}

\* The requests that are on their way, and the last one the worker had.
Known ==
  {app.request, app.next.of} \union {queue[i].of : i \in DOMAIN queue} \union
  {r \in Requests : slot # Nothing /\ slot.of = r}

Fits(r) ==
  /\ r.dialog <= MaxDialogs - left.dialogs
  /\ dialog # Closed /\ r.dialog = dialog.id =>
       /\ r.number <= dialog.number
       /\ r.number = dialog.number => r.endpoint = dialog.endpoint

FitInv ==
  /\ \A r \in Known : Fits(r)
  /\ dialog # Closed =>
       /\ dialog.id = MaxDialogs - left.dialogs
       /\ dialog.list.dialog = dialog.id => dialog.list.endpoint = dialog.endpoint

IInv == TypeInv /\ KeyInv /\ FitInv

-----------------------------------------------------------------------------
(* What the operators of the dialog change                                  *)

\* dio_schedule_model_discovery counts and leaves the fields alone.
LEMMA ScheduledFields ==
  ASSUME NEW d \in Dialogs
  PROVE  /\ Scheduled(d) \in Dialogs
         /\ Scheduled(d).number = d.number + 1
         /\ Scheduled(d).id = d.id /\ Scheduled(d).endpoint = d.endpoint
         /\ Scheduled(d).changed = d.changed /\ Scheduled(d).key = d.key
         /\ Scheduled(d).dirty = d.dirty /\ Scheduled(d).list = d.list
         /\ Scheduled(d).status \in {"loading", "hint"}
<1> DEFINE n == d.number + 1
           t == Valid(d.endpoint)
           s == IF Valid(d.endpoint) THEN "loading" ELSE "hint"
<1>1. n \in Nat
  BY DEF Dialogs
<1>2. t \in BOOLEAN
  BY DEF Valid
<1>3. s \in {"loading", "hint"}
  OBVIOUS
<1>4. Scheduled(d) = [d EXCEPT !.number = n, !.timer = t, !.status = s]
  BY DEF Scheduled
<1> HIDE DEF n, t, s
<1>5. /\ Scheduled(d) \in Dialogs /\ Scheduled(d).number = n
      /\ Scheduled(d).status = s
  BY <1>1, <1>2, <1>3, <1>4 DEF Dialogs
<1> QED
  BY <1>3, <1>4, <1>5 DEF Dialogs, n

\* A key that is typed changes the key's field and counts.
LEMMA KeyTypedFields ==
  ASSUME NEW d \in Dialogs, NEW k \in Keys
  PROVE  /\ KeyTyped(d, k) \in Dialogs
         /\ KeyTyped(d, k).number = d.number + 1
         /\ KeyTyped(d, k).id = d.id /\ KeyTyped(d, k).endpoint = d.endpoint
         /\ KeyTyped(d, k).changed = d.changed /\ KeyTyped(d, k).key = k
         /\ KeyTyped(d, k).dirty = TRUE /\ KeyTyped(d, k).list = d.list
         /\ KeyTyped(d, k).status \in {"loading", "hint"}
<1> DEFINE c == [d EXCEPT !.key = k, !.dirty = TRUE]
<1>1. c \in Dialogs /\ c.number = d.number /\ c.id = d.id /\ c.endpoint = d.endpoint
  BY DEF Dialogs
<1>2. c.changed = d.changed /\ c.key = k /\ c.dirty = TRUE /\ c.list = d.list
  BY DEF Dialogs
<1>3. KeyTyped(d, k) = Scheduled(c)
  BY DEF KeyTyped
<1> HIDE DEF c
<1> QED
  BY <1>1, <1>2, <1>3, ScheduledFields

\* A dialog has an identifier that Closed does not have.
LEMMA DialogOpen ==
  ASSUME TypeInv, dialog # Closed
  PROVE  dialog \in Dialogs
BY DEF TypeInv

\* A message that is sent is behind the others, or lost.
LEMMA SendQueues ==
  ASSUME queue \in Seq(Messages), left \in [dialogs : 0..MaxDialogs, incidents : Nat],
         NEW m \in Messages, Send(m)
  PROVE  /\ queue' \in Seq(Messages)
         /\ \A i \in DOMAIN queue' : queue'[i] = m \/ \E j \in DOMAIN queue : queue'[i] = queue[j]
         /\ left' \in [dialogs : 0..MaxDialogs, incidents : Nat]
         /\ left'.dialogs = left.dialogs
<1>1. CASE queue' = Append(queue, m) /\ UNCHANGED <<left, hist>>
  BY <1>1
<1>2. CASE Incident /\ UNCHANGED queue
  BY <1>2 DEF Incident
<1> QED
  BY <1>1, <1>2 DEF Send

\* A message that is taken leaves the others.
LEMMA TakeQueues ==
  ASSUME queue \in Seq(Messages), queue # <<>>, queue' = Tail(queue)
  PROVE  /\ Head(queue) \in Messages
         /\ queue' \in Seq(Messages)
         /\ \E i \in DOMAIN queue : Head(queue) = queue[i]
         /\ \A i \in DOMAIN queue' : \E j \in DOMAIN queue : queue'[i] = queue[j]
<1>1. Head(queue) = queue[1] /\ 1 \in DOMAIN queue /\ Head(queue) \in Messages
  OBVIOUS
<1>2. queue' \in Seq(Messages) /\ Len(queue') = Len(queue) - 1
  OBVIOUS
<1>3. ASSUME NEW i \in DOMAIN queue'
      PROVE  queue'[i] = queue[i + 1] /\ i + 1 \in DOMAIN queue
  BY <1>2
<1> QED
  BY <1>1, <1>2, <1>3

\* No request and no message of the dialog carries a key.
LEMMA Blank ==
  /\ NoRequest \in Requests /\ NoCommand \in Messages
  /\ \A k \in Kinds, r \in Requests : Event(k, r) \in Messages /\ Event(k, r).of = r
<1>1. NoRequest \in Requests
  BY DEF NoRequest, Requests, Bases
<1>2. ASSUME NEW k \in Kinds, NEW r \in Requests
      PROVE  Event(k, r) \in Messages /\ Event(k, r).of = r
  BY <1>2 DEF Event, Messages, Keys, Kinds
<1>3. NoCommand \in Messages
  BY <1>1 DEF NoCommand, Messages, Keys, Kinds
<1> QED
  BY <1>1, <1>2, <1>3

-----------------------------------------------------------------------------
(* Types                                                                    *)

LEMMA InitTyped == Init => TypeInv
<1> SUFFICES ASSUME Init PROVE TypeInv
  OBVIOUS
<1>1. saved \in [endpoint : Bases, key : Keys]
  <2>1. CASE saved \in [endpoint : Endpoints \union {NoEndpoint}, key : {NoKey}]
    BY <2>1 DEF Bases, Keys
  <2>2. CASE saved \in {[endpoint |-> e, key |-> e] : e \in Endpoints}
    BY <2>2 DEF Bases, Keys
  <2> QED
    BY <2>1, <2>2 DEF Init
<1>2. dialog = Closed /\ slot = Nothing /\ reader \in Readers
  BY DEF Init, Readers, Silent
<1>3. queue \in Seq(Messages)
  BY DEF Init
<1>4. /\ app \in [at : {"loop", "closing"}, request : Requests, key : Keys,
                   deadline : BOOLEAN, then : {"nothing", "open", "timeout"},
                   next : Messages, answered : BOOLEAN]
      /\ app.key \in {NoKey, app.request.endpoint}
  BY Blank DEF Init, Keys
<1>5. left \in [dialogs : 0..MaxDialogs, incidents : Nat]
  BY DiscoveryAssumption DEF Init
<1> QED
  BY <1>1, <1>2, <1>3, <1>4, <1>5 DEF TypeInv, Init

-----------------------------------------------------------------------------
(* What the actions make of the dialog                                      *)

\* The inner parts of KeyInv and FitInv, of any dialog.
KeysFit(d) ==
  /\ d.key \in {NoKey, d.endpoint}
  /\ ~d.changed => d.endpoint = saved.endpoint
  /\ ~d.dirty => saved.key \in {NoKey, d.endpoint}
ListFits(d) == d.list.dialog = d.id => d.list.endpoint = d.endpoint

\* The endpoint changes with the number only.
Follows(d) ==
  /\ d \in Dialogs /\ d.id = dialog.id /\ d.number >= dialog.number
  /\ d.number = dialog.number => d.endpoint = dialog.endpoint
  /\ KeysFit(d) /\ ListFits(d)

\* Every edit is numbered, and takes back what was on display.
Renewed(d) == d.number > dialog.number /\ d.status \in {"loading", "hint"}

\* The dialog that opens has a number of its own and asks first of all.
LEMMA Opens ==
  ASSUME TypeInv, KeyInv, Open
  PROVE  /\ dialog' \in Dialogs /\ KeysFit(dialog') /\ dialog'.list = NoRequest
         /\ dialog'.id = MaxDialogs - left'.dialogs
         /\ left' \in [dialogs : 0..MaxDialogs, incidents : Nat]
         /\ left'.dialogs = left.dialogs - 1
         /\ dialog'.status \in {"loading", "hint"}
<1> DEFINE id == MaxDialogs - left'.dialogs
           a == saved.endpoint # NoEndpoint
           fresh == [id |-> id, number |-> 0, endpoint |-> saved.endpoint,
                     changed |-> FALSE, key |-> NoKey, dirty |-> FALSE, anonymous |-> a,
                     timer |-> FALSE, status |-> "hint", shown |-> 0, list |-> NoRequest]
           filled == IF unlocked /\ saved.key # NoKey THEN KeyTyped(fresh, saved.key)
                     ELSE fresh
           clean == [filled EXCEPT !.dirty = FALSE]
<1>1. /\ left' \in [dialogs : 0..MaxDialogs, incidents : Nat]
      /\ left'.dialogs = left.dialogs - 1 /\ id \in Nat \ {0}
  BY DiscoveryAssumption DEF Open, TypeInv
<1>2. a \in BOOLEAN /\ saved.endpoint \in Bases /\ saved.key \in Keys
  BY DEF TypeInv
<1>3. dialog' = Scheduled(clean)
  BY DEF Open
<1> HIDE DEF id, a
<1>4. fresh \in Dialogs
  BY <1>1, <1>2, Blank DEF Dialogs, Keys
<1>5. /\ fresh.id = id /\ fresh.endpoint = saved.endpoint /\ fresh.changed = FALSE
      /\ fresh.key = NoKey /\ fresh.list = NoRequest
  OBVIOUS
<1> HIDE DEF fresh
<1>6. /\ filled \in Dialogs /\ filled.id = id /\ filled.endpoint = saved.endpoint
      /\ filled.changed = FALSE /\ filled.list = NoRequest
      /\ filled.key \in {NoKey, saved.key}
  BY <1>2, <1>4, <1>5, KeyTypedFields
<1> HIDE DEF filled
<1>7. /\ clean \in Dialogs /\ clean.id = id /\ clean.endpoint = saved.endpoint
      /\ clean.changed = FALSE /\ clean.list = NoRequest
      /\ clean.key \in {NoKey, saved.key}
  BY <1>6 DEF Dialogs
<1> HIDE DEF clean
<1>8. /\ dialog' \in Dialogs /\ dialog'.id = id /\ dialog'.endpoint = saved.endpoint
      /\ dialog'.changed = FALSE /\ dialog'.list = NoRequest
      /\ dialog'.key \in {NoKey, saved.key} /\ dialog'.status \in {"loading", "hint"}
  BY <1>3, <1>7, ScheduledFields
<1> QED
  BY <1>1, <1>8 DEF KeysFit, KeyInv, id

\* Another endpoint has another number, no key and no catalogue.
LEMMA EndpointEdited ==
  ASSUME TypeInv, KeyInv, FitInv, NEW e \in Bases, EditEndpoint(e)
  PROVE  Follows(dialog') /\ Renewed(dialog')
<1> DEFINE k == saved.key # NoKey
           other == [dialog EXCEPT !.endpoint = e, !.changed = TRUE, !.list = NoRequest,
                                   !.key = NoKey, !.dirty = k, !.anonymous = TRUE]
<1>1. dialog \in Dialogs /\ dialog # Closed /\ KeysFit(dialog) /\ ListFits(dialog)
  BY DEF EditEndpoint, Edits, TypeInv, KeyInv, FitInv, KeysFit, ListFits
<1>2. CASE e = dialog.endpoint
  <2>1. dialog' = Scheduled(dialog)
    BY <1>2 DEF EditEndpoint
  <2> QED
    BY <1>1, <2>1, ScheduledFields DEF Follows, Renewed, KeysFit, ListFits, Dialogs
<1>3. CASE e # dialog.endpoint
  <2>1. dialog' = Scheduled(other)
    BY <1>3 DEF EditEndpoint
  <2>2. k \in BOOLEAN /\ (~k => saved.key = NoKey)
    OBVIOUS
  <2> HIDE DEF k
  <2>3. other \in Dialogs
    BY <1>1, <2>2, Blank DEF Dialogs, Keys
  <2>4. /\ other.id = dialog.id /\ other.number = dialog.number /\ other.endpoint = e
        /\ other.changed = TRUE /\ other.list = NoRequest /\ other.key = NoKey
        /\ other.dirty = k
    BY <1>1 DEF Dialogs
  <2> HIDE DEF other
  <2>5. /\ dialog' \in Dialogs /\ dialog'.id = dialog.id
        /\ dialog'.number = dialog.number + 1 /\ dialog'.changed = TRUE
        /\ dialog'.list = NoRequest /\ dialog'.key = NoKey /\ dialog'.dirty = k
        /\ dialog'.status \in {"loading", "hint"}
    BY <2>1, <2>3, <2>4, ScheduledFields
  <2>6. dialog.number \in Nat /\ dialog.id \in Nat \ {0} /\ NoRequest.dialog = 0
    BY <1>1 DEF Dialogs, NoRequest
  <2> QED
    BY <2>2, <2>5, <2>6 DEF Follows, Renewed, KeysFit, ListFits
<1> QED
  BY <1>2, <1>3

\* A key that is typed is of the endpoint in the field.
LEMMA KeyEdited ==
  ASSUME TypeInv, KeyInv, FitInv, NEW typed \in BOOLEAN, EditKey(typed)
  PROVE  Follows(dialog') /\ Renewed(dialog')
<1> DEFINE k == IF typed THEN dialog.endpoint ELSE NoKey
<1>1. dialog \in Dialogs /\ dialog # Closed /\ KeysFit(dialog) /\ ListFits(dialog)
  BY DEF EditKey, Edits, TypeInv, KeyInv, FitInv, KeysFit, ListFits
<1>2. k \in Keys /\ k \in {NoKey, dialog.endpoint}
  BY <1>1 DEF Keys, Dialogs
<1>3. dialog' = KeyTyped(dialog, k)
  BY DEF EditKey
<1> HIDE DEF k
<1>4. dialog.number \in Nat
  BY <1>1 DEF Dialogs
<1>5. /\ dialog' \in Dialogs /\ dialog'.id = dialog.id
      /\ dialog'.number = dialog.number + 1 /\ dialog'.endpoint = dialog.endpoint
      /\ dialog'.changed = dialog.changed /\ dialog'.key = k
      /\ dialog'.dirty = TRUE /\ dialog'.list = dialog.list
      /\ dialog'.status \in {"loading", "hint"}
  BY <1>1, <1>2, <1>3, KeyTypedFields
<1> QED
  BY <1>1, <1>2, <1>4, <1>5 DEF Follows, Renewed, KeysFit, ListFits

\* The key that is taken from the vault is of the endpoint that is saved, and
\* put into the field only if that is still there.
LEMMA Unlocked ==
  ASSUME TypeInv, KeyInv, FitInv, Unlock
  PROVE  Follows(dialog') /\ Renewed(dialog')
<1> DEFINE k == IF dialog.changed THEN NoKey ELSE saved.key
           filled == KeyTyped(dialog, k)
           b == dialog.changed /\ saved.key # NoKey
           clean == [filled EXCEPT !.dirty = b]
<1>1. dialog \in Dialogs /\ dialog # Closed /\ KeysFit(dialog) /\ ListFits(dialog)
  BY DEF Unlock, Edits, TypeInv, KeyInv, FitInv, KeysFit, ListFits
<1>2. saved.key \in Keys /\ saved.key \in {NoKey, saved.endpoint}
  BY DEF TypeInv, KeyInv
<1>3. k \in Keys /\ k \in {NoKey, dialog.endpoint}
  BY <1>1, <1>2 DEF Keys, KeysFit
<1>4. dialog' = Scheduled(clean)
  BY DEF Unlock
<1>5. b \in BOOLEAN
  OBVIOUS
<1>6. ~b => saved.key \in {NoKey, dialog.endpoint}
  BY <1>1, <1>2 DEF KeysFit
<1> HIDE DEF k, b
<1>7. /\ filled \in Dialogs /\ filled.id = dialog.id /\ filled.number = dialog.number + 1
      /\ filled.endpoint = dialog.endpoint /\ filled.changed = dialog.changed
      /\ filled.key = k /\ filled.list = dialog.list
  BY <1>1, <1>3, KeyTypedFields
<1> HIDE DEF filled
<1>8. /\ clean \in Dialogs /\ clean.id = dialog.id /\ clean.number = dialog.number + 1
      /\ clean.endpoint = dialog.endpoint /\ clean.changed = dialog.changed
      /\ clean.key = k /\ clean.list = dialog.list /\ clean.dirty = b
  BY <1>5, <1>7 DEF Dialogs
<1> HIDE DEF clean
<1>9. /\ dialog' \in Dialogs /\ dialog'.id = dialog.id
      /\ dialog'.number = dialog.number + 2
      /\ dialog'.endpoint = dialog.endpoint /\ dialog'.changed = dialog.changed
      /\ dialog'.key = k /\ dialog'.list = dialog.list /\ dialog'.dirty = b
      /\ dialog'.status \in {"loading", "hint"}
  <2>1. dialog.number \in Nat
    BY <1>1 DEF Dialogs
  <2> QED
    BY <1>4, <1>8, <2>1, ScheduledFields
<1>10. dialog.number \in Nat
  BY <1>1 DEF Dialogs
<1> QED
  BY <1>1, <1>3, <1>6, <1>9, <1>10 DEF Follows, Renewed, KeysFit, ListFits

\* The request of the dialog's timer.
Current == [dialog |-> dialog.id, number |-> dialog.number, endpoint |-> dialog.endpoint]

\* It asks with the key in the field or without one.
LEMMA TimerAsks ==
  ASSUME TypeInv, KeyInv, FitInv, TimerFires
  PROVE  /\ dialog \in Dialogs /\ dialog # Closed /\ Follows(dialog')
         /\ Current \in Requests
         /\ \E m \in Messages : m.kind = "DISCOVER" /\ m.of = Current /\ Send(m)
         /\ \/ Renewed(dialog')
            \/ /\ ~dialog'.timer /\ dialog'.status = dialog.status
               /\ dialog'.shown = dialog.shown /\ dialog'.number = dialog.number
<1> DEFINE known == unlocked /\ dialog.key # NoKey
           k == IF ~dialog.anonymous /\ known THEN dialog.key ELSE NoKey
           m == [kind |-> "DISCOVER", of |-> Current, key |-> k]
           asked == [dialog EXCEPT !.timer = FALSE, !.anonymous = FALSE]
<1>1. dialog \in Dialogs /\ dialog # Closed /\ KeysFit(dialog) /\ ListFits(dialog)
  BY DEF TimerFires, TypeInv, KeyInv, FitInv, KeysFit, ListFits
<1>2. k \in Keys /\ k \in {NoKey, dialog.endpoint}
  BY <1>1 DEF KeysFit, Keys, Dialogs
<1>3. Current \in Requests /\ Current.endpoint = dialog.endpoint
  BY <1>1 DEF Current, Requests, Dialogs
<1>4. Send(m)
  BY DEF TimerFires, Current
<1>5. m \in Messages /\ m.of = Current /\ m.kind = "DISCOVER"
  <2> HIDE DEF k
  <2> QED
    BY <1>2, <1>3 DEF Messages, Kinds
<1>6. dialog' = Scheduled(asked) \/ dialog' = asked
  BY DEF TimerFires
<1>7. /\ asked \in Dialogs /\ asked.id = dialog.id /\ asked.number = dialog.number
      /\ asked.endpoint = dialog.endpoint /\ asked.changed = dialog.changed
      /\ asked.key = dialog.key /\ asked.list = dialog.list /\ asked.dirty = dialog.dirty
      /\ asked.timer = FALSE /\ asked.status = dialog.status /\ asked.shown = dialog.shown
  BY <1>1 DEF Dialogs
<1> HIDE DEF asked, m
<1>8. /\ dialog' \in Dialogs /\ dialog'.id = dialog.id
      /\ dialog'.number \in {dialog.number, dialog.number + 1}
      /\ dialog'.endpoint = dialog.endpoint /\ dialog'.changed = dialog.changed
      /\ dialog'.key = dialog.key /\ dialog'.list = dialog.list
      /\ dialog'.dirty = dialog.dirty
  BY <1>6, <1>7, ScheduledFields
<1>9. dialog.number \in Nat
  BY <1>1 DEF Dialogs
<1>10. Follows(dialog')
  BY <1>1, <1>8, <1>9 DEF Follows, KeysFit, ListFits
<1>11. \/ Renewed(dialog')
       \/ /\ ~dialog'.timer /\ dialog'.status = dialog.status
          /\ dialog'.shown = dialog.shown /\ dialog'.number = dialog.number
  BY <1>6, <1>7, <1>9, ScheduledFields DEF Renewed
<1> QED
  BY <1>1, <1>3, <1>4, <1>5, <1>10, <1>11

\* A catalogue that the dialog has asked for under its number is of its endpoint.
LEMMA Applies ==
  ASSUME TypeInv, KeyInv, FitInv, Apply, dialog # Closed
  PROVE  Follows(dialog')
<1>1. dialog \in Dialogs /\ KeysFit(dialog) /\ ListFits(dialog)
  BY DEF TypeInv, KeyInv, FitInv, KeysFit, ListFits
<1>2. slot \in Replies /\ slot # Nothing /\ slot.of \in Requests /\ slot.of \in Known
  BY DEF Apply, TypeInv, Replies, Known
<1>3. dialog.number \in Nat
  BY <1>1 DEF Dialogs
<1>4. CASE slot.of.number # dialog.number
  BY <1>1, <1>3, <1>4 DEF Apply, Follows
<1>5. CASE slot.of.number = dialog.number
  <2> DEFINE w == slot.what
             n == slot.of.dialog
             l == IF slot.what = "catalogue" THEN slot.of ELSE dialog.list
             d == [dialog EXCEPT !.status = w, !.shown = n, !.list = l]
  <2>1. w \in Says /\ n \in Nat /\ l \in Requests
    BY <1>1, <1>2 DEF Replies, Requests, Dialogs
  <2>2. dialog' = d
    BY <1>5 DEF Apply
  <2>3. l.dialog = dialog.id => l.endpoint = dialog.endpoint
    BY <1>1, <1>2, <1>5 DEF ListFits, FitInv, Fits
  <2> HIDE DEF w, n, l
  <2>4. /\ d \in Dialogs /\ d.id = dialog.id /\ d.number = dialog.number
        /\ d.endpoint = dialog.endpoint /\ d.changed = dialog.changed
        /\ d.key = dialog.key /\ d.list = l /\ d.dirty = dialog.dirty
    BY <1>1, <2>1 DEF Dialogs
  <2> HIDE DEF d
  <2> QED
    BY <1>1, <1>3, <2>2, <2>3, <2>4 DEF Follows, KeysFit, ListFits
<1> QED
  BY <1>4, <1>5

-----------------------------------------------------------------------------
(* What becomes of the requests on their way                                *)

LEMMA KnownTyped == TypeInv => Known \subseteq Requests
<1> SUFFICES ASSUME TypeInv, NEW r \in Known PROVE r \in Requests
  OBVIOUS
<1>1. app.request \in Requests /\ app.next.of \in Requests
  BY DEF TypeInv, Messages
<1>2. \A i \in DOMAIN queue : queue[i].of \in Requests
  BY DEF TypeInv, Messages
<1> QED
  BY <1>1, <1>2 DEF Known

\* A dialog that goes on, while at most its current request is added.
LEMMA DialogGoesOn ==
  ASSUME TypeInv, KeyInv, FitInv, dialog # Closed, Follows(dialog'),
         UNCHANGED saved, left'.dialogs = left.dialogs,
         Known' \subseteq Known \union {Current, NoRequest}
  PROVE  KeyInv' /\ FitInv'
<1>1. dialog \in Dialogs /\ dialog.number \in Nat /\ dialog.id \in Nat \ {0}
  BY DEF TypeInv, Dialogs
<1>2. /\ dialog' \in Dialogs /\ dialog'.id = dialog.id
      /\ dialog'.number \in Nat /\ dialog'.number >= dialog.number
      /\ dialog'.number = dialog.number => dialog'.endpoint = dialog.endpoint
  BY DEF Follows, Dialogs
<1>3. KeyInv'
  BY DEF KeyInv, Follows, KeysFit
<1>4. ASSUME NEW r \in Known'
      PROVE  Fits(r)'
  <2>1. CASE r \in Known
    <3>1. r.dialog \in Nat /\ r.number \in Nat /\ Fits(r)
      BY <2>1, KnownTyped DEF Requests, FitInv
    <3> QED
      BY <1>1, <1>2, <3>1 DEF Fits
  <2>2. CASE r = Current
    <3>1. r.dialog = dialog.id /\ r.number = dialog.number /\ r.endpoint = dialog.endpoint
      BY <2>2 DEF Current
    <3>2. dialog.id = MaxDialogs - left.dialogs
      BY DEF FitInv
    <3> QED
      BY <1>1, <1>2, <3>1, <3>2, DiscoveryAssumption DEF Fits, TypeInv
  <2>3. CASE r = NoRequest
    <3>1. left.dialogs \in 0..MaxDialogs /\ r.dialog = 0
      BY <2>3 DEF TypeInv, NoRequest
    <3> QED
      BY <1>1, <1>2, <3>1, DiscoveryAssumption DEF Fits
  <2> QED
    BY <2>1, <2>2, <2>3
<1>5. dialog'.id = MaxDialogs - left'.dialogs /\ ListFits(dialog')
  BY <1>2 DEF FitInv, Follows
<1> QED
  BY <1>3, <1>4, <1>5 DEF FitInv, ListFits

\* Nothing happens to the dialog, and no request is added.
LEMMA DialogStays ==
  ASSUME TypeInv, KeyInv, FitInv, UNCHANGED <<saved, dialog>>,
         left'.dialogs = left.dialogs, Known' \subseteq Known \union {NoRequest}
  PROVE  KeyInv' /\ FitInv'
<1>1. KeyInv'
  BY DEF KeyInv
<1>2. ASSUME NEW r \in Known'
      PROVE  Fits(r)'
  <2>1. CASE r \in Known
    BY <2>1 DEF FitInv, Fits
  <2>2. CASE r = NoRequest
    <3>1. left.dialogs \in 0..MaxDialogs /\ r.dialog = 0
      BY <2>2 DEF TypeInv, NoRequest
    <3>2. dialog # Closed => dialog.id # 0
      BY DEF TypeInv, Dialogs
    <3> QED
      BY <3>1, <3>2, DiscoveryAssumption DEF Fits
  <2> QED
    BY <2>1, <2>2
<1> QED
  BY <1>1, <1>2 DEF FitInv

\* The dialog closes; what is saved fits.
LEMMA DialogCloses ==
  ASSUME TypeInv, KeyInv, FitInv, dialog' = Closed, left'.dialogs = left.dialogs,
         saved'.key \in {NoKey, saved'.endpoint}, Known' \subseteq Known \union {NoRequest}
  PROVE  KeyInv' /\ FitInv'
<1>1. ASSUME NEW r \in Known'
      PROVE  Fits(r)'
  <2>1. CASE r \in Known
    BY <2>1 DEF FitInv, Fits
  <2>2. CASE r = NoRequest
    <3>1. left.dialogs \in 0..MaxDialogs /\ r.dialog = 0
      BY <2>2 DEF TypeInv, NoRequest
    <3> QED
      BY <3>1, DiscoveryAssumption DEF Fits
  <2> QED
    BY <2>1, <2>2
<1> QED
  BY <1>1 DEF KeyInv, FitInv

LEMMA KnownFrom ==
  ASSUME NEW R, app'.request \in R, app'.next.of \in R,
         \A i \in DOMAIN queue' : queue'[i].of \in R,
         slot' # Nothing => slot'.of \in R
  PROVE  Known' \subseteq R
BY DEF Known

LEMMA SendKnown ==
  ASSUME TypeInv, NEW m \in Messages, Send(m), UNCHANGED <<app, slot>>
  PROVE  Known' \subseteq Known \union {m.of}
<1>1. \A i \in DOMAIN queue' : queue'[i].of \in Known \union {m.of}
  <2>1. \A i \in DOMAIN queue' : queue'[i] = m \/ \E j \in DOMAIN queue : queue'[i] = queue[j]
    BY SendQueues DEF TypeInv
  <2> QED
    BY <2>1 DEF Known
<1>2. app'.request \in Known /\ app'.next.of \in Known
  BY DEF Known
<1>3. slot' # Nothing => slot'.of \in Known
  BY DEF Known, TypeInv, Replies
<1> QED
  BY <1>1, <1>2, <1>3, KnownFrom

LEMMA TakeKnown ==
  ASSUME TypeInv, queue # <<>>, queue' = Tail(queue)
  PROVE  /\ Head(queue) \in Messages /\ queue' \in Seq(Messages)
         /\ Head(queue).of \in Known
         /\ \A i \in DOMAIN queue' : queue'[i].of \in Known
<1>1. /\ Head(queue) \in Messages /\ queue' \in Seq(Messages)
      /\ \E i \in DOMAIN queue : Head(queue) = queue[i]
      /\ \A i \in DOMAIN queue' : \E j \in DOMAIN queue : queue'[i] = queue[j]
  BY TakeQueues DEF TypeInv
<1> QED
  BY <1>1 DEF Known

\* What is known already.
LEMMA KnownHere ==
  ASSUME TypeInv
  PROVE  /\ app.request \in Known /\ app.next.of \in Known
         /\ \A i \in DOMAIN queue : queue[i].of \in Known
         /\ slot # Nothing => slot.of \in Known
BY DEF Known, TypeInv, Replies

-----------------------------------------------------------------------------
(* The steps                                                                *)

LEMMA UiStep == IInv /\ Ui => IInv'
<1> SUFFICES ASSUME IInv, Ui PROVE IInv'
  OBVIOUS
<1> USE DEF IInv
<1> DEFINE Rest == UNCHANGED <<slot, queue, app, agent, reader>>
<1>1. ASSUME dialog # Closed, Follows(dialog'), Rest, UNCHANGED saved,
             unlocked' \in BOOLEAN, Incident
      PROVE  IInv'
  <2>1. left' \in [dialogs : 0..MaxDialogs, incidents : Nat] /\ left'.dialogs = left.dialogs
    BY <1>1 DEF Incident, TypeInv
  <2>2. Known' \subseteq Known
    BY <1>1 DEF Known
  <2>3. TypeInv'
    BY <1>1, <2>1 DEF TypeInv, Follows
  <2> QED
    BY <1>1, <2>1, <2>2, <2>3, DialogGoesOn
<1>2. ASSUME NEW e \in Bases, EditEndpoint(e) PROVE IInv'
  BY <1>1, <1>2, EndpointEdited DEF EditEndpoint, Edits, TypeInv
<1>3. ASSUME NEW typed \in BOOLEAN, EditKey(typed) PROVE IInv'
  BY <1>1, <1>3, KeyEdited DEF EditKey, Edits, TypeInv
<1>4. CASE Unlock
  BY <1>1, <1>4, Unlocked DEF Unlock, Edits
<1>5. CASE Open
  <2>1. /\ dialog' \in Dialogs /\ KeysFit(dialog') /\ dialog'.list = NoRequest
        /\ dialog'.id = MaxDialogs - left'.dialogs
        /\ left' \in [dialogs : 0..MaxDialogs, incidents : Nat]
        /\ left'.dialogs = left.dialogs - 1
    BY <1>5, Opens
  <2>2. UNCHANGED saved /\ UNCHANGED unlocked /\ Rest
    BY <1>5 DEF Open
  <2>3. TypeInv'
    BY <2>1, <2>2 DEF TypeInv
  <2>4. KeyInv'
    BY <2>1, <2>2 DEF KeyInv, KeysFit
  <2>5. left.dialogs \in Nat /\ left.dialogs <= MaxDialogs /\ dialog'.id \in Nat \ {0}
    BY <2>1, DiscoveryAssumption DEF TypeInv, Dialogs
  <2>6. ASSUME NEW r \in Known'
        PROVE  Fits(r)'
    <3>1. r \in Known /\ r \in Requests
      BY <2>2, KnownTyped DEF Known
    <3>2. r.dialog <= MaxDialogs - left.dialogs /\ r.dialog \in Nat
      BY <3>1 DEF FitInv, Fits, Requests
    <3> QED
      BY <2>1, <2>5, <3>2, DiscoveryAssumption DEF Fits
  <2> QED
    BY <2>1, <2>3, <2>4, <2>5, <2>6 DEF FitInv, NoRequest
<1>6. CASE Cancel
  <2>1. UNCHANGED saved /\ UNCHANGED unlocked /\ UNCHANGED left /\ Rest /\ dialog' = Closed
    BY <1>6 DEF Cancel
  <2>2. TypeInv' /\ Known' \subseteq Known
    BY <2>1 DEF TypeInv, Known
  <2> QED
    BY <2>1, <2>2, DialogCloses DEF KeyInv
<1>7. CASE Save
  <2> DEFINE m == Event("SETTINGS", NoRequest)
             k == IF dialog.dirty THEN dialog.key ELSE saved.key
  <2>1. /\ dialog \in Dialogs /\ dialog # Closed /\ dialog' = Closed /\ UNCHANGED unlocked
        /\ saved' = [endpoint |-> dialog.endpoint, key |-> k]
        /\ Send(m) /\ UNCHANGED <<slot, app, agent, reader>>
    BY <1>7 DEF Save, TypeInv
  <2>2. k \in Keys /\ k \in {NoKey, dialog.endpoint} /\ dialog.endpoint \in Bases
    BY <2>1 DEF KeyInv, TypeInv, Dialogs
  <2>3. m \in Messages /\ m.of = NoRequest
    BY Blank DEF Kinds
  <2> HIDE DEF k, m
  <2>4. queue' \in Seq(Messages) /\ left' \in [dialogs : 0..MaxDialogs, incidents : Nat]
    BY <2>1, <2>3, SendQueues DEF TypeInv
  <2>5. left'.dialogs = left.dialogs
    BY <2>1, <2>3, SendQueues DEF TypeInv
  <2>6. Known' \subseteq Known \union {NoRequest}
    BY <2>1, <2>3, SendKnown
  <2>7. saved' \in [endpoint : Bases, key : Keys] /\ saved'.key \in {NoKey, saved'.endpoint}
    BY <2>1, <2>2
  <2>8. TypeInv'
    BY <2>1, <2>4, <2>7 DEF TypeInv
  <2> QED
    BY <2>1, <2>5, <2>6, <2>7, <2>8, DialogCloses
<1>8. CASE TimerFires
  <2>1. /\ dialog \in Dialogs /\ dialog # Closed /\ Follows(dialog')
        /\ Current \in Requests /\ \E m \in Messages : m.of = Current /\ Send(m)
    BY <1>8, TimerAsks
  <2>2. PICK m \in Messages : m.of = Current /\ Send(m)
    BY <2>1
  <2>3. UNCHANGED <<saved, unlocked, slot, app, agent, reader>>
    BY <1>8 DEF TimerFires
  <2>4. queue' \in Seq(Messages) /\ left' \in [dialogs : 0..MaxDialogs, incidents : Nat]
    BY <2>2, SendQueues DEF TypeInv
  <2>5. left'.dialogs = left.dialogs
    BY <2>2, SendQueues DEF TypeInv
  <2>6. Known' \subseteq Known \union {Current}
    BY <2>2, <2>3, SendKnown
  <2>7. TypeInv'
    BY <2>1, <2>3, <2>4 DEF TypeInv, Follows
  <2> QED
    BY <2>1, <2>3, <2>5, <2>6, <2>7, DialogGoesOn
<1>9. CASE Apply
  <2>1. /\ slot' = Nothing
        /\ UNCHANGED <<saved, unlocked, queue, app, agent, reader, left>>
    BY <1>9 DEF Apply
  <2>2. Known' \subseteq Known
    BY <2>1 DEF Known
  <2>3. CASE dialog = Closed
    <3>1. dialog' = Closed
      BY <1>9, <2>3 DEF Apply
    <3>2. TypeInv'
      BY <2>1, <3>1 DEF TypeInv
    <3> QED
      BY <2>1, <2>2, <3>1, <3>2, DialogCloses DEF KeyInv
  <2>4. CASE dialog # Closed
    <3>1. Follows(dialog')
      BY <1>9, <2>4, Applies
    <3>2. TypeInv'
      BY <2>1, <3>1 DEF TypeInv, Follows
    <3> QED
      BY <2>1, <2>2, <2>4, <3>1, <3>2, DialogGoesOn
  <2> QED
    BY <2>3, <2>4
<1> QED
  BY <1>2, <1>3, <1>4, <1>5, <1>6, <1>7, <1>8, <1>9 DEF Ui, Bases

\* The harness and its reader send what they know, and post about the request
\* that the worker has.
LEMMA ReaderStep ==
  IInv /\ (Reader \/ HarnessReady \/ HarnessDies \/ ReaderFails
           \/ \E what \in Results : HarnessAnswers(what)) => IInv'
<1> USE DEF IInv
<1>1. ASSUME IInv, UNCHANGED <<saved, unlocked, dialog, slot, queue, app, left>>,
             reader' \in Readers
      PROVE  IInv'
  <2>1. TypeInv' /\ Known' \subseteq Known
    BY <1>1 DEF TypeInv, Known
  <2> QED
    BY <1>1, <2>1, DialogStays
<1>2. ASSUME IInv, HarnessReady \/ HarnessDies \/ ReaderFails PROVE IInv'
  <2>1. reader' \in Readers
    BY <1>2 DEF HarnessReady, HarnessDies, ReaderFails, Readers, TypeInv
  <2> QED
    BY <1>1, <1>2, <2>1 DEF HarnessReady, HarnessDies, ReaderFails, ui
<1>3. ASSUME IInv, NEW what \in Results, HarnessAnswers(what) PROVE IInv'
  <2>1. reader' \in Readers
    BY <1>3 DEF HarnessAnswers, Readers
  <2> QED
    BY <1>1, <1>3, <2>1 DEF HarnessAnswers, ui
<1>4. ASSUME IInv, ReaderDrops PROVE IInv'
  <2>1. reader' \in Readers
    BY <1>4 DEF ReaderDrops, Readers, Silent
  <2> QED
    BY <1>1, <1>4, <2>1 DEF ReaderDrops, ui
<1>5. ASSUME IInv, ReaderPosts PROVE IInv'
  <2>1. /\ UNCHANGED <<saved, unlocked, dialog, queue, app, left>>
        /\ slot' = Reply(app.request, reader.what, "answer")
    BY <1>5 DEF ReaderPosts, Post, ui
  <2>2. reader' \in Readers
    BY <1>5 DEF ReaderPosts, Readers
  <2>3. reader.what \in Says
    BY <1>5 DEF ReaderPosts, TypeInv, Readers, Results, Says
  <2>4. slot' \in Replies /\ slot'.of = app.request
    BY <1>5, <2>1, <2>3 DEF Replies, Reply, TypeInv
  <2>5. TypeInv'
    BY <1>5, <2>1, <2>2, <2>4 DEF TypeInv
  <2>6. Known' \subseteq Known
    BY <1>5, <2>1, <2>4, KnownHere, KnownFrom
  <2> QED
    BY <1>5, <2>1, <2>5, <2>6, DialogStays
<1>6. ASSUME IInv, ReaderTells PROVE IInv'
  <2> DEFINE m == Event(IF reader.kind = "POSTED" THEN "MODELS" ELSE reader.kind, app.request)
  <2>1. Send(m) /\ reader' = Silent /\ UNCHANGED <<saved, unlocked, dialog, slot, app>>
    BY <1>6 DEF ReaderTells, ui
  <2>2. m \in Messages /\ m.of = app.request
    <3>1. app.request \in Requests
      BY <1>6 DEF TypeInv
    <3>2. (IF reader.kind = "POSTED" THEN "MODELS" ELSE reader.kind) \in Kinds
      BY <1>6 DEF ReaderTells, Kinds
    <3> QED
      BY <3>1, <3>2, Blank
  <2> HIDE DEF m
  <2>3. queue' \in Seq(Messages) /\ left' \in [dialogs : 0..MaxDialogs, incidents : Nat]
    BY <1>6, <2>1, <2>2, SendQueues DEF TypeInv
  <2>4. left'.dialogs = left.dialogs
    BY <1>6, <2>1, <2>2, SendQueues DEF TypeInv
  <2>5. Known' \subseteq Known
    BY <1>6, <2>1, <2>2, SendKnown, KnownHere
  <2>6. TypeInv'
    BY <1>6, <2>1, <2>3 DEF TypeInv, Readers, Silent
  <2> QED
    BY <1>6, <2>1, <2>4, <2>5, <2>6, DialogStays
<1> QED
  BY <1>2, <1>3, <1>4, <1>5, <1>6 DEF Reader

\* Where the worker may be, after it closed a search or came back from it.
Apps == [at : {"loop", "closing"}, request : Requests, key : Keys,
         deadline : BOOLEAN, then : {"nothing", "open", "timeout"},
         next : Messages, answered : BOOLEAN]

LEMMA Closings ==
  ASSUME TypeInv, NEW then \in {"nothing", "open", "timeout"}
  PROVE  /\ Closes(then) \in Apps /\ Closes(then).request = app.request
         /\ Closes(then).key = app.key /\ Closes(then).next = app.next
BY DEF Closes, TypeInv, Apps

\* The worker's steps leave the dialog alone; what it takes and posts is known.
LEMMA WorkerStep == IInv /\ Worker => IInv'
<1> SUFFICES ASSUME IInv, Worker PROVE IInv'
  OBVIOUS
<1> USE DEF IInv
<1> DEFINE AppFits == app'.key \in {NoKey, app'.request.endpoint}
           Replied == slot' = slot \/ (slot' \in Replies /\ slot'.of \in Known)
<1>1. ASSUME UNCHANGED <<saved, unlocked, dialog, reader>>,
             queue' \in Seq(Messages), \A i \in DOMAIN queue' : queue'[i].of \in Known,
             app' \in Apps, AppFits, app'.request \in Known,
             app'.next.of \in Known \union {NoRequest}, Replied,
             left' \in [dialogs : 0..MaxDialogs, incidents : Nat],
             left'.dialogs = left.dialogs
      PROVE  IInv'
  <2>1. TypeInv'
    BY <1>1 DEF TypeInv, Apps
  <2>2. slot' # Nothing => slot'.of \in Known
    BY <1>1, KnownHere
  <2>3. Known' \subseteq Known \union {NoRequest}
    BY <1>1, <2>2, KnownFrom
  <2> QED
    BY <1>1, <2>1, <2>3, DialogStays
<1>2. app \in Apps /\ app.key \in {NoKey, app.request.endpoint}
  BY DEF TypeInv, Apps
<1>3. ASSUME queue # <<>>, Handle(Head(queue))
      PROVE  IInv'
  <2> DEFINE e == Head(queue)
  <2>1. e \in Messages /\ e.of \in Known /\ e.of \in Requests
    <3>1. Head(queue) = queue[1] /\ 1 \in DOMAIN queue
      BY <1>3 DEF TypeInv
    <3> QED
      BY <3>1, KnownHere DEF TypeInv, Messages
  <2>2. ASSUME queue' = Tail(queue)
        PROVE  queue' \in Seq(Messages) /\ \A i \in DOMAIN queue' : queue'[i].of \in Known
    BY <1>3, <2>2, TakeKnown
  <2>3. left \in [dialogs : 0..MaxDialogs, incidents : Nat]
    BY DEF TypeInv
  <2>4. app.request \in Known /\ app.next.of \in Known /\ app.request \in Requests
    BY KnownHere DEF TypeInv
  <2>5. ASSUME Post("failed", "died")
        PROVE  slot' \in Replies /\ slot'.of = app.request
    BY <2>4, <2>5 DEF Post, Reply, Replies, Says
  <2>6. ASSUME Close("nothing")
        PROVE  /\ app' \in Apps /\ AppFits /\ app'.request = app.request
               /\ app'.next = app.next
    BY <1>2, <2>6, Closings DEF Close
  <2>7. ASSUME Incident
        PROVE  left' \in [dialogs : 0..MaxDialogs, incidents : Nat] /\ left'.dialogs = left.dialogs
    BY <2>3, <2>7 DEF Incident
  <2> HIDE DEF e
  <2>8. CASE HandleDiscover(e)
    <3>1. /\ queue' = Tail(queue) /\ app' = [Closes("open") EXCEPT !.next = e]
          /\ UNCHANGED <<saved, unlocked, dialog, slot, reader, left>>
      BY <2>8 DEF HandleDiscover, Take, ui
    <3>2. app' \in Apps /\ AppFits /\ app'.request = app.request /\ app'.next = e
      BY <1>2, <2>1, <3>1, Closings DEF Apps
    <3> QED
      BY <1>1, <2>1, <2>2, <2>3, <2>4, <3>1, <3>2
  <2>9. CASE HandleSettings(e)
    <3>1. queue' = Tail(queue) /\ UNCHANGED <<saved, unlocked, dialog, slot, reader>>
      BY <2>9 DEF HandleSettings, Take, ui
    <3>2. CASE Close("nothing") /\ UNCHANGED left
      BY <1>1, <2>2, <2>3, <2>4, <2>6, <3>1, <3>2
    <3>3. CASE Incident /\ UNCHANGED app
      BY <1>1, <1>2, <2>2, <2>4, <2>7, <3>1, <3>3
    <3> QED
      BY <2>9, <3>2, <3>3 DEF HandleSettings
  <2>10. CASE Ignore(e) \/ AskModels(e)
    <3>1. queue' = Tail(queue) /\ UNCHANGED <<saved, unlocked, dialog, slot, reader, app, left>>
      BY <2>10 DEF Ignore, AskModels, Take, ui
    <3> QED
      BY <1>1, <1>2, <2>2, <2>3, <2>4, <3>1
  <2>11. CASE CannotAsk(e) \/ HandleError(e)
    <3>1. /\ queue' = Tail(queue) /\ Post("failed", "died") /\ Close("nothing")
          /\ UNCHANGED <<saved, unlocked, dialog, reader, left>>
      BY <2>11 DEF CannotAsk, HandleError, Take, ui
    <3> QED
      BY <1>1, <2>2, <2>3, <2>4, <2>5, <2>6, <3>1
  <2>12. CASE HandleModels(e)
    <3> DEFINE b == e.of = app.request
    <3>1. /\ queue' = Tail(queue) /\ app' = [Closes("nothing") EXCEPT !.answered = b]
          /\ UNCHANGED <<saved, unlocked, dialog, slot, reader, left>>
      BY <2>12 DEF HandleModels, Take, ui
    <3>2. b \in BOOLEAN
      OBVIOUS
    <3> HIDE DEF b
    <3>3. app' \in Apps /\ AppFits /\ app'.request = app.request /\ app'.next = app.next
      BY <1>2, <3>1, <3>2, Closings DEF Apps
    <3> QED
      BY <1>1, <2>2, <2>3, <2>4, <3>1, <3>3
  <2>13. CASE AskFails(e)
    <3> DEFINE m == Event("ERROR", app.request)
    <3>1. /\ Post("failed", "died") /\ Close("nothing")
          /\ UNCHANGED <<saved, unlocked, dialog, reader>>
      BY <2>13 DEF AskFails, ui
    <3>2. m \in Messages /\ m.of = app.request
      BY <2>4, Blank DEF Kinds
    <3> HIDE DEF m
    <3>3. CASE queue' = Append(Tail(queue), m) /\ UNCHANGED left
      <4> DEFINE t == Tail(queue)
      <4>1. t \in Seq(Messages)
        BY <1>3 DEF TypeInv
      <4>2. \A i \in DOMAIN t : t[i].of \in Known
        <5>1. ASSUME NEW i \in DOMAIN t
              PROVE  t[i] = queue[i + 1] /\ i + 1 \in DOMAIN queue
          BY <1>3 DEF TypeInv
        <5> QED
          BY <5>1, KnownHere
      <4> HIDE DEF t
      <4>3. queue' = Append(t, m)
        BY <3>3 DEF t
      <4>4. /\ queue' \in Seq(Messages)
            /\ \A i \in DOMAIN queue' : queue'[i] = m \/ (i \in DOMAIN t /\ queue'[i] = t[i])
        BY <3>2, <4>1, <4>3
      <4>5. \A i \in DOMAIN queue' : queue'[i].of \in Known
        BY <2>4, <3>2, <4>2, <4>4
      <4> QED
        BY <1>1, <2>3, <2>4, <2>5, <2>6, <3>1, <3>3, <4>4, <4>5
    <3>4. CASE queue' = Tail(queue) /\ Incident
      BY <1>1, <2>2, <2>4, <2>5, <2>6, <2>7, <3>1, <3>4
    <3> QED
      BY <2>13, <3>3, <3>4 DEF AskFails, m
  <2> QED
    BY <1>3, <2>8, <2>9, <2>10, <2>11, <2>12, <2>13 DEF Handle, e
<1>4. CASE Joined
  <2>1. /\ UNCHANGED <<saved, unlocked, dialog, queue, left>> /\ reader' \in Readers
        /\ UNCHANGED reader
    BY <1>4 DEF Joined, ui, TypeInv
  <2>2. queue \in Seq(Messages) /\ left \in [dialogs : 0..MaxDialogs, incidents : Nat]
    BY DEF TypeInv
  <2>3. /\ app.request \in Known /\ app.next.of \in Known /\ app.request \in Requests
        /\ app.next.of \in Requests /\ app.next \in Messages
        /\ \A i \in DOMAIN queue : queue[i].of \in Known
    BY KnownHere DEF TypeInv, Messages
  <2>4. Rests \in Apps /\ Rests.request = app.request /\ Rests.next = app.next /\ Rests.key = NoKey
    BY <1>2 DEF Rests, Apps, Keys
  <2>5. CASE app' = Rests /\ UNCHANGED slot
    BY <1>1, <2>1, <2>2, <2>3, <2>4, <2>5
  <2>6. CASE app' = Rests /\ Post("timeout", IF app.answered THEN "overdue" ELSE "late")
    <3>1. slot' \in Replies /\ slot'.of = app.request
      BY <2>3, <2>6 DEF Post, Reply, Replies, Says
    <3> QED
      BY <1>1, <2>1, <2>2, <2>3, <2>4, <2>6, <3>1
  <2>7. ASSUME NEW opened \in BOOLEAN, app' = Opened(opened),
               slot' = slot \/ slot' = Reply(app.next.of, "failed", "unopened")
        PROVE  IInv'
    <3> DEFINE r == app.next.of
               k == IF opened THEN app.next.key ELSE NoKey
               a == Rests
    <3>1. app' = [a EXCEPT !.request = r, !.next = NoCommand, !.key = k, !.deadline = opened]
      BY <2>7 DEF Opened
    <3>2. k \in Keys /\ k \in {NoKey, r.endpoint} /\ r \in Requests
      BY <2>3 DEF Messages, Keys
    <3> HIDE DEF r, k, a
    <3>3. /\ app' \in Apps /\ app'.request = r /\ app'.key = k /\ app'.next = NoCommand
      <4>1. a \in Apps
        BY <2>4 DEF a
      <4> QED
        BY <3>1, <3>2, <4>1, Blank DEF Apps
    <3>4. slot' = slot \/ (slot' \in Replies /\ slot'.of = r)
      BY <2>3, <2>7 DEF Reply, Replies, Says, r
    <3>5. r \in Known /\ NoCommand.of = NoRequest
      BY <2>3 DEF r, NoCommand
    <3> QED
      BY <1>1, <2>1, <2>2, <2>3, <3>2, <3>3, <3>4, <3>5
  <2> QED
    BY <1>4, <2>5, <2>6, <2>7 DEF Joined
<1>5. CASE TimesOut
  <2>1. UNCHANGED <<saved, unlocked, dialog, slot, queue, reader, left>> /\ Close("timeout")
    BY <1>5 DEF TimesOut, ui
  <2>2. app' \in Apps /\ AppFits /\ app'.request = app.request /\ app'.next = app.next
    BY <1>2, <2>1, Closings DEF Close
  <2>3. /\ queue \in Seq(Messages) /\ left \in [dialogs : 0..MaxDialogs, incidents : Nat]
        /\ app.request \in Known /\ app.next.of \in Known
        /\ \A i \in DOMAIN queue : queue[i].of \in Known
    BY KnownHere DEF TypeInv
  <2> QED
    BY <1>1, <2>1, <2>2, <2>3
<1> QED
  BY <1>3, <1>4, <1>5 DEF Worker

-----------------------------------------------------------------------------
(* The theorems                                                             *)

LEMMA InitInv == Init => IInv
<1> SUFFICES ASSUME Init PROVE IInv
  OBVIOUS
<1>1. TypeInv
  BY InitTyped
<1>2. KeyInv
  <2>1. CASE saved \in [endpoint : Endpoints \union {NoEndpoint}, key : {NoKey}]
    BY <2>1 DEF KeyInv, Init
  <2>2. CASE saved \in {[endpoint |-> e, key |-> e] : e \in Endpoints}
    BY <2>2 DEF KeyInv, Init
  <2> QED
    BY <2>1, <2>2 DEF Init
<1>3. ASSUME NEW r \in Known
      PROVE  Fits(r)
  <2>1. r = NoRequest
    BY DEF Init, Known, NoCommand
  <2> QED
    BY <2>1, DiscoveryAssumption DEF Init, Fits, NoRequest
<1> QED
  BY <1>1, <1>2, <1>3 DEF IInv, FitInv, Init

\* Nothing changes.
LEMMA StutterStep == IInv /\ UNCHANGED vars => IInv'
BY DEF IInv, TypeInv, KeyInv, FitInv, Known, Fits, vars

\* The inductive invariant: types, what the dialog would save, and the requests on
\* their way (ui.c:10378, 3979, main.c:1804).
THEOREM DiscoveryInvariant == Spec => []IInv
<1>1. IInv /\ [Next]_vars => IInv'
  BY UiStep, ReaderStep, WorkerStep, StutterStep DEF Next
<1> QED
  BY InitInv, <1>1, PTL DEF Spec

\* Keys and catalogues stay with the endpoint they are of, for any endpoints and any
\* number of dialogs, edits, losses and failures.
THEOREM EndpointsFit == Spec => []EndpointFits
<1>1. IInv => EndpointFits
  <2> SUFFICES ASSUME IInv PROVE EndpointFits
    OBVIOUS
  <2>1. app.key \in {NoKey, app.request.endpoint} /\ app.next.key \in {NoKey, app.next.of.endpoint}
    BY DEF IInv, TypeInv, Messages
  <2>2. \A c \in Range(queue) : c.key \in {NoKey, c.of.endpoint}
    BY DEF IInv, TypeInv, Messages, Range
  <2> QED
    BY <2>1, <2>2 DEF IInv, KeyInv, FitInv, EndpointFits
<1> QED
  BY DiscoveryInvariant, <1>1, PTL

-----------------------------------------------------------------------------
(* Why a catalogue stands                                                   *)

Agents == {NoAgent} \union
          [phase : {"starting", "ready", "failed"}, alive : BOOLEAN, asked : Nat]

Histories == [silent : SUBSET Requests, mixed : SUBSET Requests]

\* A message of a kind about a request is in the queue.
Queued(q, kind, r) == \E i \in DOMAIN q : q[i].kind = kind /\ q[i].of = r

\* A search is asked for once, and its harness greets once.
Distinct(q) ==
  \A i, j \in DOMAIN q :
    q[i].kind \in {"DISCOVER", "READY"} /\ q[i].kind = q[j].kind /\ q[i].of = q[j].of
      => i = j

\* A request that the worker has still to open a harness for.
Pending(r) ==
  Queued(queue, "DISCOVER", r) \/ (app.next.kind = "DISCOVER" /\ app.next.of = r)

QueueInv ==
  /\ Distinct(queue)
  /\ app.next.kind = "DISCOVER" => ~Queued(queue, "DISCOVER", app.next.of)
  /\ Closing /\ app.then = "open" => app.next.kind = "DISCOVER"
  /\ ~Pending(app.request)
  /\ \A r \in Requests : Queued(queue, "READY", r) => ~Pending(r)

\* While the timer runs the dialog's number has not been sent, and nothing that
\* this dialog has asked for is on display.
Shows == dialog.status = "catalogue" /\ dialog.shown = dialog.id
FreshInv ==
  dialog # Closed /\ dialog.timer =>
    /\ ~Shows
    /\ \A r \in Known : r.dialog = dialog.id => r.number < dialog.number

\* How far the harness of app.request has come: it is at one place at most on the
\* way to its answer, unless a READY of another dialog was taken for its own.
Starts == agent.phase = "starting"
Greets == reader.kind = "READY"
Told == Queued(queue, "READY", app.request)
Asked == agent.phase # "none" /\ agent.asked # 0
Answers == reader.kind = "MODELS"
Busy == Starts \/ Greets \/ Told \/ Asked \/ Answers

StageInv ==
  /\ agent \in Agents /\ hist \in Histories
  /\ ~(Starts /\ Greets) /\ ~(Told /\ (Starts \/ Greets))
  /\ app.request \notin hist.mixed =>
       /\ Asked \/ Answers => ~Starts /\ ~Greets /\ ~Told
       /\ Asked => ~Answers /\ agent.asked = 1

\* Nothing is on its way that could be another answer to r.
Spent(r) == ~Pending(r) /\ (app.request = r => ~Busy)

\* A catalogue that is in the window or on display is the last word about its
\* request.
SpentInv ==
  /\ slot # Nothing /\ slot.what = "catalogue" /\ slot.of \notin hist.mixed =>
       Spent(slot.of)
  /\ dialog # Closed /\ Shows /\ Current \notin hist.mixed =>
       /\ Spent(Current)
       /\ slot # Nothing /\ slot.of = Current => slot.why \notin {"answer", "unopened"}

\* An answer that was handled has closed its search: no deadline strikes behind it.
DeadlineInv ==
  /\ app.answered => Closing /\ app.then = "nothing"
  /\ slot # Nothing => slot.why # "overdue"

StandInv == QueueInv /\ FreshInv /\ StageInv /\ SpentInv /\ DeadlineInv

USE DEF Histories

\* What is behind the first message was there before; the first is not there twice.
LEMMA TailQueued ==
  ASSUME NEW q \in Seq(Messages), q # <<>>, Distinct(q)
  PROVE  /\ Distinct(Tail(q))
         /\ \A k, r : Queued(Tail(q), k, r) => Queued(q, k, r)
         /\ Queued(q, Head(q).kind, Head(q).of)
         /\ Head(q).kind \in {"DISCOVER", "READY"} =>
              ~Queued(Tail(q), Head(q).kind, Head(q).of)
<1> DEFINE t == Tail(q)
<1>1. Head(q) = q[1] /\ 1 \in DOMAIN q /\ t \in Seq(Messages)
  OBVIOUS
<1>2. ASSUME NEW i \in DOMAIN t
      PROVE  t[i] = q[i + 1] /\ i + 1 \in DOMAIN q /\ i \in Nat /\ i + 1 # 1
  BY <1>2
<1> HIDE DEF t
<1>3. Distinct(t)
  <2> SUFFICES ASSUME NEW i \in DOMAIN t, NEW j \in DOMAIN t,
                      t[i].kind \in {"DISCOVER", "READY"},
                      t[i].kind = t[j].kind, t[i].of = t[j].of
               PROVE  i = j
    BY DEF Distinct
  <2>1. i + 1 = j + 1
    BY <1>2 DEF Distinct
  <2> QED
    BY <1>2, <2>1
<1>4. ASSUME NEW k, NEW r, Queued(t, k, r) PROVE Queued(q, k, r)
  BY <1>2, <1>4 DEF Queued
<1>5. Queued(q, Head(q).kind, Head(q).of)
  BY <1>1 DEF Queued
<1>6. ASSUME Head(q).kind \in {"DISCOVER", "READY"}, Queued(t, Head(q).kind, Head(q).of)
      PROVE  FALSE
  <2>1. PICK i \in DOMAIN t : t[i].kind = q[1].kind /\ t[i].of = q[1].of
    BY <1>1, <1>6 DEF Queued
  <2>2. q[i + 1].kind = q[1].kind /\ q[i + 1].of = q[1].of /\ i + 1 \in DOMAIN q
    BY <1>2, <2>1
  <2>3. i + 1 = 1
    BY <1>1, <1>6, <2>2 DEF Distinct
  <2> QED
    BY <1>2, <2>3
<1> QED
  BY <1>3, <1>4, <1>5, <1>6 DEF t

\* A message that is appended is new.
LEMMA AppendQueued ==
  ASSUME NEW q \in Seq(Messages), NEW m \in Messages, Distinct(q),
         m.kind \in {"DISCOVER", "READY"} => ~Queued(q, m.kind, m.of)
  PROVE  /\ Distinct(Append(q, m))
         /\ \A k, r : Queued(Append(q, m), k, r) =>
                        Queued(q, k, r) \/ (k = m.kind /\ r = m.of)
<1> DEFINE a == Append(q, m)
           n == Len(q) + 1
<1>1. ASSUME NEW i \in DOMAIN a
      PROVE  (i = n /\ a[i] = m) \/ (i \in DOMAIN q /\ a[i] = q[i])
  BY <1>1
<1> HIDE DEF a, n
<1>2. Distinct(a)
  <2> SUFFICES ASSUME NEW i \in DOMAIN a, NEW j \in DOMAIN a,
                      a[i].kind \in {"DISCOVER", "READY"},
                      a[i].kind = a[j].kind, a[i].of = a[j].of
               PROVE  i = j
    BY DEF Distinct
  <2>1. CASE i \in DOMAIN q /\ a[i] = q[i] /\ j \in DOMAIN q /\ a[j] = q[j]
    BY <2>1 DEF Distinct
  <2>2. CASE i = n /\ a[i] = m /\ j \in DOMAIN q /\ a[j] = q[j]
    BY <2>2 DEF Queued
  <2>3. CASE j = n /\ a[j] = m /\ i \in DOMAIN q /\ a[i] = q[i]
    BY <2>3 DEF Queued
  <2> QED
    BY <1>1, <2>1, <2>2, <2>3
<1>3. ASSUME NEW k, NEW r, Queued(a, k, r)
      PROVE  Queued(q, k, r) \/ (k = m.kind /\ r = m.of)
  BY <1>1, <1>3 DEF Queued
<1> QED
  BY <1>2, <1>3 DEF a

\* A message that is sent is new, or lost; nothing is mixed by it.
LEMMA SendQueued ==
  ASSUME queue \in Seq(Messages), NEW m \in Messages, Send(m), Distinct(queue), StageInv,
         m.of \in Requests,
         m.kind \in {"DISCOVER", "READY"} => ~Queued(queue, m.kind, m.of)
  PROVE  /\ Distinct(queue')
         /\ \A k, r : Queued(queue', k, r) =>
                        Queued(queue, k, r) \/ (k = m.kind /\ r = m.of)
         /\ hist'.mixed = hist.mixed
         /\ hist' \in Histories
<1>1. hist \in Histories
  BY DEF StageInv
<1>2. CASE queue' = Append(queue, m) /\ UNCHANGED <<left, hist>>
  BY <1>1, <1>2, AppendQueued
<1>3. CASE queue' = queue /\ hist' = (IF m.kind = "DISCOVER"
                                      THEN [hist EXCEPT !.silent = @ \union {m.of}]
                                      ELSE hist)
  BY <1>1, <1>3
<1> QED
  BY <1>2, <1>3 DEF Send

-----------------------------------------------------------------------------
(* What is kept when nothing is asked for                                   *)

\* No message about a search is added, and the worker stays with its request.
LEMMA QueueKept ==
  ASSUME QueueInv, Distinct(queue'), app'.request = app.request, app'.next = app.next,
         \A r : Queued(queue', "DISCOVER", r) => Queued(queue, "DISCOVER", r),
         \A r : Queued(queue', "READY", r) =>
                  Queued(queue, "READY", r) \/ (r = app.request),
         app'.at = "closing" /\ app'.then = "open" => app.at = "closing" /\ app.then = "open"
  PROVE  QueueInv' /\ \A r : Pending(r)' => Pending(r)
<1>1. ASSUME NEW r, Pending(r)' PROVE Pending(r)
  BY <1>1 DEF Pending
<1>2. ~Pending(app.request)'
  BY <1>1 DEF QueueInv
<1>3. ASSUME NEW r \in Requests, Queued(queue', "READY", r) PROVE ~Pending(r)'
  BY <1>1, <1>3 DEF QueueInv
<1>4. app'.next.kind = "DISCOVER" => ~Queued(queue', "DISCOVER", app'.next.of)
  BY DEF QueueInv
<1>5. Closing' /\ app'.then = "open" => app'.next.kind = "DISCOVER"
  BY DEF QueueInv, Closing
<1>6. \A r \in Requests : Queued(queue', "READY", r) => ~Pending(r)'
  BY <1>3
<1> QED
  BY <1>1, <1>2, <1>4, <1>5, <1>6 DEF QueueInv

\* The dialog has not sent anything.
LEMMA FreshKept ==
  ASSUME TypeInv, FreshInv, dialog' = dialog, Known' \subseteq Known \union {NoRequest}
  PROVE  FreshInv'
<1> SUFFICES ASSUME dialog # Closed, dialog.timer
             PROVE  ~Shows' /\ \A r \in Known' : r.dialog = dialog.id => r.number < dialog.number
  BY DEF FreshInv
<1>1. ~Shows'
  BY DEF FreshInv, Shows
<1>2. NoRequest.dialog # dialog.id
  BY DEF NoRequest, TypeInv, Dialogs
<1> QED
  BY <1>1, <1>2 DEF FreshInv

\* What is spent stays so, and at most a failure is told that may replace a
\* catalogue.
LEMMA SpentKept ==
  ASSUME SpentInv, dialog' = dialog \/ dialog' = Closed \/ ~Shows', hist.mixed \subseteq hist'.mixed,
         \A r : r \notin hist'.mixed /\ Spent(r) => Spent(r)',
         slot' = slot \/ (slot'.what # "catalogue" /\ slot'.why \notin {"answer", "unopened"})
  PROVE  SpentInv'
<1>1. dialog' = dialog => Shows' = Shows /\ Current' = Current
  BY DEF Shows, Current
<1>2. ASSUME NEW r, slot' # Nothing, slot'.what = "catalogue", slot'.of = r,
             r \notin hist'.mixed
      PROVE  Spent(r)'
  <2>1. slot' = slot /\ r \notin hist.mixed
    BY <1>2
  <2>2. Spent(r)
    BY <1>2, <2>1 DEF SpentInv
  <2> QED
    BY <1>2, <2>2
<1>3. ASSUME NEW r, dialog # Closed, Shows, Current = r, r \notin hist'.mixed
      PROVE  /\ Spent(r)'
             /\ slot' # Nothing /\ slot'.of = r => slot'.why \notin {"answer", "unopened"}
  <2>1. r \notin hist.mixed
    BY <1>3
  <2>2. Spent(r)
    BY <1>3, <2>1 DEF SpentInv
  <2> QED
    BY <1>3, <2>1, <2>2 DEF SpentInv
<1> QED
  BY <1>1, <1>2, <1>3 DEF SpentInv

\* Fewer ways to an answer are left.
LEMMA StillSpent ==
  ASSUME \A r : Pending(r)' => Pending(r), app'.request = app.request,
         Busy' => Busy \/ app.request \in hist'.mixed
  PROVE  \A r : r \notin hist'.mixed /\ Spent(r) => Spent(r)'
<1> SUFFICES ASSUME NEW r, r \notin hist'.mixed, Spent(r) PROVE Spent(r)'
  OBVIOUS
<1>1. ~Pending(r)'
  BY DEF Spent
<1>2. app'.request = r => ~Busy'
  BY DEF Spent
<1> QED
  BY <1>1, <1>2 DEF Spent

\* Nothing about the search changes.
LEMMA SearchKept ==
  ASSUME QueueInv, StageInv, DeadlineInv, UNCHANGED <<queue, app, agent, reader, hist>>,
         slot' = slot \/ slot' = Nothing
  PROVE  /\ QueueInv' /\ StageInv' /\ DeadlineInv'
         /\ \A r : r \notin hist'.mixed /\ Spent(r) => Spent(r)'
<1>1. QueueInv' /\ \A r : Pending(r)' => Pending(r)
  BY QueueKept DEF QueueInv
<1>2. Starts' = Starts /\ Greets' = Greets /\ Told' = Told /\ Asked' = Asked /\ Answers' = Answers
  BY DEF Starts, Greets, Told, Asked, Answers
<1>3. \A r : r \notin hist'.mixed /\ Spent(r) => Spent(r)'
  BY <1>1, <1>2, StillSpent DEF Busy
<1>4. StageInv'
  BY <1>2 DEF StageInv
<1>5. DeadlineInv'
  BY DEF DeadlineInv, Closing
<1> QED
  BY <1>1, <1>3, <1>4, <1>5

-----------------------------------------------------------------------------
(* The dialog's steps                                                       *)

\* The dialog closes, opens or is edited: it shows no catalogue of its own.
LEMMA DialogRenewed ==
  ASSUME StandInv, UNCHANGED <<slot, queue, app, agent, reader, hist>>,
         \/ dialog' = Closed
         \/ /\ dialog'.status \in {"loading", "hint"}
            /\ \A r \in Known : r.dialog = dialog'.id => r.number < dialog'.number
  PROVE  StandInv'
<1> USE DEF StandInv
<1>1. /\ QueueInv' /\ StageInv' /\ DeadlineInv'
      /\ \A r : r \notin hist'.mixed /\ Spent(r) => Spent(r)'
  BY SearchKept
<1>2. Known' = Known
  BY DEF Known
<1>3. dialog' = Closed \/ ~Shows'
  BY DEF Shows
<1>4. FreshInv'
  BY <1>2, <1>3 DEF FreshInv
<1>5. SpentInv'
  BY <1>1, <1>3, SpentKept
<1> QED
  BY <1>1, <1>4, <1>5

LEMMA EditStands ==
  ASSUME IInv, StandInv, dialog # Closed,
         \/ Unlock
         \/ \E e \in Bases : EditEndpoint(e)
         \/ \E typed \in BOOLEAN : EditKey(typed),
         Follows(dialog') /\ Renewed(dialog')
  PROVE  StandInv'
<1>1. dialog \in Dialogs /\ \A r \in Known : r \in Requests /\ Fits(r)
  BY KnownTyped DEF IInv, TypeInv, FitInv
<1>2. ASSUME NEW r \in Known, r.dialog = dialog'.id PROVE r.number < dialog'.number
  BY <1>1, <1>2 DEF Fits, Follows, Renewed, Dialogs, Requests
<1>3. UNCHANGED <<slot, queue, app, agent, reader, hist>>
  BY DEF Unlock, EditEndpoint, EditKey, Edits
<1> QED
  BY <1>2, <1>3, DialogRenewed DEF Renewed

LEMMA OpenStands == IInv /\ StandInv /\ Open => StandInv'
<1> SUFFICES ASSUME IInv, StandInv, Open PROVE StandInv'
  OBVIOUS
<1>1. /\ dialog'.id = MaxDialogs - left'.dialogs /\ left'.dialogs = left.dialogs - 1
      /\ dialog'.status \in {"loading", "hint"}
  BY Opens DEF IInv
<1>2. \A r \in Known : r \in Requests /\ Fits(r)
  BY KnownTyped DEF IInv, FitInv
<1>3. left.dialogs \in Nat
  BY DiscoveryAssumption DEF IInv, TypeInv
<1>4. ASSUME NEW r \in Known, r.dialog = dialog'.id PROVE FALSE
  BY <1>1, <1>2, <1>3, <1>4, DiscoveryAssumption DEF Fits, Requests
<1>5. UNCHANGED <<slot, queue, app, agent, reader, hist>>
  BY DEF Open
<1> QED
  BY <1>1, <1>4, <1>5, DialogRenewed

\* What Save sends is no search.
LEMMA SaveStands == IInv /\ StandInv /\ Save => StandInv'
<1> SUFFICES ASSUME IInv, StandInv, Save PROVE StandInv'
  OBVIOUS
<1> USE DEF StandInv
<1> DEFINE m == Event("SETTINGS", NoRequest)
<1>1. Send(m) /\ dialog' = Closed /\ UNCHANGED <<slot, app, agent, reader>>
  BY DEF Save
<1>2. m \in Messages /\ m.of \in Requests /\ m.kind = "SETTINGS"
  BY Blank DEF Kinds, Event
<1> HIDE DEF m
<1>3. /\ Distinct(queue') /\ hist'.mixed = hist.mixed
      /\ \A k, r : Queued(queue', k, r) => Queued(queue, k, r) \/ (k = m.kind /\ r = m.of)
      /\ hist' \in Histories
  BY <1>1, <1>2, SendQueued DEF IInv, TypeInv, QueueInv
<1>4. \A r : /\ Queued(queue', "DISCOVER", r) => Queued(queue, "DISCOVER", r)
             /\ Queued(queue', "READY", r) => Queued(queue, "READY", r)
  BY <1>2, <1>3
<1>5. QueueInv' /\ \A r : Pending(r)' => Pending(r)
  BY <1>1, <1>3, <1>4, QueueKept
<1>6. Starts' = Starts /\ Greets' = Greets /\ Asked' = Asked /\ Answers' = Answers
  BY <1>1 DEF Starts, Greets, Asked, Answers
<1>7. Told' => Told
  BY <1>1, <1>4 DEF Told
<1>8. StageInv'
  BY <1>1, <1>3, <1>6, <1>7 DEF StageInv
<1>9. \A r : r \notin hist'.mixed /\ Spent(r) => Spent(r)'
  BY <1>1, <1>5, <1>6, <1>7, StillSpent DEF Busy
<1>10. DeadlineInv' /\ FreshInv'
  BY <1>1 DEF DeadlineInv, Closing, FreshInv
<1>11. SpentInv'
  BY <1>1, <1>3, <1>9, SpentKept
<1> QED
  BY <1>5, <1>8, <1>10, <1>11

\* A number that is sent is new, and stays so while the timer does not run.
LEMMA TimerStands == IInv /\ IInv' /\ StandInv /\ TimerFires => StandInv'
<1> SUFFICES ASSUME IInv, IInv', StandInv, TimerFires PROVE StandInv'
  OBVIOUS
<1> USE DEF StandInv
<1>1. /\ dialog \in Dialogs /\ dialog # Closed /\ Follows(dialog') /\ Current \in Requests
      /\ \E m \in Messages : m.kind = "DISCOVER" /\ m.of = Current /\ Send(m)
      /\ \/ Renewed(dialog')
         \/ /\ ~dialog'.timer /\ dialog'.status = dialog.status
            /\ dialog'.shown = dialog.shown /\ dialog'.number = dialog.number
  BY TimerAsks DEF IInv
<1>2. PICK m \in Messages : m.kind = "DISCOVER" /\ m.of = Current /\ Send(m)
  BY <1>1
<1>3. UNCHANGED <<slot, app, agent, reader>>
  BY DEF TimerFires
<1>4. /\ ~Shows /\ \A r \in Known : r \in Requests
      /\ \A r \in Known : r.dialog = dialog.id => r.number < dialog.number
  BY <1>1, KnownTyped DEF TimerFires, FreshInv, IInv
<1>5. Current \notin Known
  BY <1>1, <1>4 DEF Current, Dialogs
<1>6. \A k : ~Queued(queue, k, Current)
  BY <1>5, KnownHere DEF Queued, IInv
<1>7. app.request # Current /\ app.next.of # Current
  BY <1>5, KnownHere DEF IInv
<1>8. /\ Distinct(queue') /\ hist'.mixed = hist.mixed
      /\ \A k, r : Queued(queue', k, r) =>
                     Queued(queue, k, r) \/ (k = m.kind /\ r = m.of)
      /\ hist' \in Histories
  BY <1>1, <1>2, <1>6, SendQueued DEF IInv, TypeInv, QueueInv
<1>9. ASSUME NEW r
      PROVE  /\ Queued(queue', "DISCOVER", r) => Queued(queue, "DISCOVER", r) \/ r = Current
             /\ Queued(queue', "READY", r) => Queued(queue, "READY", r)
  BY <1>2, <1>8
<1>10. ASSUME NEW r, r # Current PROVE Pending(r)' => Pending(r)
  BY <1>3, <1>9, <1>10 DEF Pending
<1>11. QueueInv'
  <2>1. app'.next.kind = "DISCOVER" => ~Queued(queue', "DISCOVER", app'.next.of)
    BY <1>3, <1>7, <1>9 DEF QueueInv
  <2>2. Closing' /\ app'.then = "open" => app'.next.kind = "DISCOVER"
    BY <1>3 DEF QueueInv, Closing
  <2>3. ~Pending(app.request)'
    BY <1>3, <1>7, <1>10 DEF QueueInv
  <2>4. ASSUME NEW r \in Requests, Queued(queue', "READY", r) PROVE ~Pending(r)'
    BY <1>6, <1>9, <1>10, <2>4 DEF QueueInv
  <2>5. \A r \in Requests : Queued(queue', "READY", r) => ~Pending(r)'
    BY <2>4
  <2> QED
    BY <1>8, <2>1, <2>2, <2>3, <2>5 DEF QueueInv
<1>12. Starts' = Starts /\ Greets' = Greets /\ Asked' = Asked /\ Answers' = Answers
  BY <1>3 DEF Starts, Greets, Asked, Answers
<1>13. Told' => Told
  BY <1>3, <1>9 DEF Told
<1>14. StageInv'
  BY <1>3, <1>8, <1>12, <1>13 DEF StageInv
<1>15. ~Shows'
  <2>1. Renewed(dialog') => dialog'.status # "catalogue"
    BY DEF Renewed
  <2> QED
    BY <1>1, <1>4, <2>1 DEF Shows, Follows
<1>16. ASSUME NEW r, slot # Nothing, slot.what = "catalogue", slot.of = r, r \notin hist.mixed
       PROVE  Spent(r)'
  <2>1. Spent(r) /\ r # Current
    BY <1>5, <1>16, KnownHere DEF SpentInv, IInv
  <2> QED
    BY <1>3, <1>10, <1>12, <1>13, <2>1 DEF Spent, Busy
<1>17. SpentInv'
  BY <1>3, <1>8, <1>15, <1>16 DEF SpentInv
<1>18. FreshInv'
  <2>1. ASSUME dialog'.timer, NEW r \in Known', r.dialog = dialog'.id
        PROVE  r.number < dialog'.number
    <3>1. Renewed(dialog')
      BY <1>1, <2>1
    <3>2. r \in Known \union {Current}
      BY <1>2, <1>3, SendKnown DEF IInv
    <3>3. r.number <= dialog.number /\ r.number \in Nat
      BY <1>1, <1>4, <2>1, <3>2 DEF Follows, Current, Requests, Dialogs
    <3> QED
      BY <1>1, <3>1, <3>3 DEF Renewed, Follows, Dialogs
  <2> QED
    BY <1>15, <2>1 DEF FreshInv
<1>19. DeadlineInv'
  BY <1>3 DEF DeadlineInv, Closing
<1> QED
  BY <1>11, <1>14, <1>17, <1>18, <1>19

\* A catalogue that comes to be shown is the last word about its request.
LEMMA ApplyStands == IInv /\ StandInv /\ Apply => StandInv'
<1> SUFFICES ASSUME IInv, StandInv, Apply PROVE StandInv'
  OBVIOUS
<1> USE DEF StandInv
<1>1. slot # Nothing /\ slot' = Nothing /\ UNCHANGED <<queue, app, agent, reader, hist>>
  BY DEF Apply
<1>2. /\ QueueInv' /\ StageInv' /\ DeadlineInv'
      /\ \A r : r \notin hist'.mixed /\ Spent(r) => Spent(r)'
  BY <1>1, SearchKept
<1>3. Known' \subseteq Known
  BY <1>1 DEF Known
<1>4. CASE dialog' = dialog
  <2>1. FreshInv'
    BY <1>3, <1>4, FreshKept DEF IInv
  <2>2. SpentInv'
    <3>1. ASSUME NEW r, dialog # Closed, Shows, Current = r, r \notin hist.mixed PROVE Spent(r)'
      BY <1>1, <1>2, <3>1 DEF SpentInv
    <3>2. Shows' = Shows /\ Current' = Current
      BY <1>4 DEF Shows, Current
    <3> QED
      BY <1>1, <1>4, <3>1, <3>2 DEF SpentInv
  <2> QED
    BY <1>2, <2>1, <2>2
<1>5. CASE dialog' # dialog
  <2>1. dialog \in Dialogs /\ slot.of \in Requests /\ slot.of \in Known
    BY <1>1, <1>5, KnownHere DEF Apply, IInv, TypeInv, Replies
  <2>2. /\ dialog # Closed /\ slot.of.number = dialog.number
        /\ dialog'.timer = dialog.timer /\ dialog'.id = dialog.id
        /\ dialog'.number = dialog.number /\ dialog'.endpoint = dialog.endpoint
        /\ dialog'.status = slot.what /\ dialog'.shown = slot.of.dialog
    BY <1>5, <2>1 DEF Apply, Dialogs
  <2>3. ASSUME Shows'
        PROVE  slot.of = Current /\ slot.what = "catalogue"
    <3>1. slot.of.dialog = dialog.id /\ slot.what = "catalogue"
      BY <2>2, <2>3 DEF Shows
    <3>2. slot.of.endpoint = dialog.endpoint
      BY <2>1, <2>2, <3>1 DEF IInv, FitInv, Fits
    <3> QED
      BY <2>1, <2>2, <3>1, <3>2 DEF Requests, Current
  <2>4. FreshInv'
    <3>1. ASSUME dialog.timer PROVE ~Shows'
      <4>1. slot.of.dialog # dialog.id
        BY <2>1, <2>2, <3>1 DEF FreshInv, Requests, Dialogs
      <4> QED
        BY <2>2, <4>1 DEF Shows
    <3> QED
      BY <1>3, <2>2, <3>1 DEF FreshInv
  <2>5. SpentInv'
    <3>1. ASSUME NEW r, Shows', Current = r, r \notin hist.mixed PROVE Spent(r)'
      BY <1>1, <1>2, <2>3, <3>1 DEF SpentInv
    <3>2. Current' = Current
      BY <2>2 DEF Current
    <3> QED
      BY <1>1, <3>1, <3>2 DEF SpentInv
  <2> QED
    BY <1>2, <2>4, <2>5
<1> QED
  BY <1>4, <1>5

-----------------------------------------------------------------------------
(* The harness's and its reader's steps                                     *)

\* The harness comes closer to its answer; nothing is told.
LEMMA HarnessKept ==
  ASSUME IInv, StandInv, UNCHANGED <<dialog, slot, queue, app, hist>>, StageInv',
         Busy' => Busy
  PROVE  StandInv'
<1> USE DEF StandInv
<1>1. QueueInv' /\ \A r : Pending(r)' => Pending(r)
  BY QueueKept DEF QueueInv
<1>2. SpentInv'
  BY <1>1, StillSpent, SpentKept
<1>3. FreshInv'
  BY FreshKept DEF IInv, Known
<1>4. DeadlineInv'
  BY DEF DeadlineInv, Closing
<1> QED
  BY <1>1, <1>2, <1>3, <1>4

LEMMA HarnessStands ==
  IInv /\ StandInv /\ (HarnessReady \/ HarnessDies \/ ReaderFails \/ ReaderDrops
                       \/ \E what \in Results : HarnessAnswers(what)) => StandInv'
<1> SUFFICES ASSUME IInv, StandInv,
                    HarnessReady \/ HarnessDies \/ ReaderFails \/ ReaderDrops
                      \/ \E what \in Results : HarnessAnswers(what)
             PROVE  StandInv'
  OBVIOUS
<1>1. UNCHANGED <<dialog, slot, queue, app, hist>>
  BY DEF HarnessReady, HarnessDies, ReaderFails, ReaderDrops, HarnessAnswers, ui
<1>2. Told' = Told /\ agent \in Agents
  BY <1>1 DEF Told, StandInv, StageInv
<1>3. CASE HarnessReady
  <2>1. agent \in Agents \ {NoAgent} /\ agent' = [agent EXCEPT !.phase = "ready"]
    BY <1>2, <1>3 DEF HarnessReady, NoAgent
  <2>2. agent' \in Agents /\ agent'.phase = "ready" /\ agent'.asked = agent.asked
    BY <2>1 DEF Agents
  <2>3. Starts /\ ~Starts' /\ Greets' /\ ~Answers' /\ ~Greets
    BY <1>3, <2>2 DEF HarnessReady, Starts, Greets, Answers, Silent
  <2>4. ~Told
    BY <2>3 DEF StandInv, StageInv
  <2>5. app.request \notin hist.mixed => ~Asked'
    BY <1>3, <2>2, <2>3 DEF StandInv, StageInv, Asked, HarnessReady
  <2>6. StageInv' /\ (Busy' => Busy)
    BY <1>1, <1>2, <2>2, <2>3, <2>4, <2>5 DEF StandInv, StageInv, Busy
  <2> QED
    BY <1>1, <2>6, HarnessKept
<1>4. CASE HarnessDies
  <2>1. agent \in Agents \ {NoAgent} /\ agent' = [agent EXCEPT !.alive = FALSE]
    BY <1>2, <1>4 DEF HarnessDies
  <2>2. agent' \in Agents /\ agent'.phase = agent.phase /\ agent'.asked = agent.asked
    BY <2>1 DEF Agents
  <2>3. Starts' = Starts /\ Greets' = Greets /\ Asked' = Asked /\ Answers' = Answers
    BY <1>4, <2>2 DEF Starts, Greets, Asked, Answers, HarnessDies
  <2>4. StageInv' /\ (Busy' => Busy)
    BY <1>1, <1>2, <2>2, <2>3 DEF StandInv, StageInv, Busy
  <2> QED
    BY <1>1, <2>4, HarnessKept
<1>5. CASE ReaderFails
  <2>1. agent \in Agents \ {NoAgent} /\ agent' = [agent EXCEPT !.phase = "failed"]
    BY <1>2, <1>5 DEF ReaderFails, NoAgent
  <2>2. /\ agent' \in Agents /\ agent.phase # "none" /\ agent'.phase = "failed"
        /\ agent'.asked = agent.asked
    BY <2>1 DEF Agents
  <2>3. ~Starts' /\ ~Greets' /\ Asked' = Asked /\ ~Answers'
    BY <1>5, <2>2 DEF Starts, Greets, Asked, Answers, ReaderFails
  <2>4. StageInv' /\ (Busy' => Busy)
    BY <1>1, <1>2, <2>2, <2>3 DEF StandInv, StageInv, Busy
  <2> QED
    BY <1>1, <2>4, HarnessKept
<1>6. CASE ReaderDrops
  <2>1. agent' = agent /\ ~Greets' /\ ~Answers'
    BY <1>6 DEF ReaderDrops, Greets, Answers, Silent
  <2>2. Starts' = Starts /\ Asked' = Asked
    BY <2>1 DEF Starts, Asked
  <2>3. StageInv' /\ (Busy' => Busy)
    BY <1>1, <1>2, <2>1, <2>2 DEF StandInv, StageInv, Busy
  <2> QED
    BY <1>1, <2>3, HarnessKept
<1>7. ASSUME NEW what \in Results, HarnessAnswers(what)
      PROVE  StandInv'
  <2>1. agent \in Agents \ {NoAgent} /\ agent' = [agent EXCEPT !.asked = @ - 1]
    BY <1>2, <1>7 DEF HarnessAnswers, NoAgent
  <2>2. /\ agent' \in Agents /\ agent.phase = "ready" /\ agent'.phase = "ready"
        /\ agent.asked \in Nat \ {0} /\ agent'.asked = agent.asked - 1
    BY <1>7, <2>1 DEF Agents, HarnessAnswers
  <2>3. ~Starts' /\ ~Greets' /\ Asked /\ Answers' /\ ~Starts
    BY <1>7, <2>2 DEF Starts, Greets, Asked, Answers, HarnessAnswers
  <2>4. app.request \notin hist.mixed => ~Asked' /\ ~Told
    BY <2>2, <2>3 DEF StandInv, StageInv, Asked
  <2>5. StageInv' /\ (Busy' => Busy)
    BY <1>1, <1>2, <2>2, <2>3, <2>4 DEF StandInv, StageInv, Busy
  <2> QED
    BY <1>1, <2>5, HarnessKept
<1> QED
  BY <1>3, <1>4, <1>5, <1>6, <1>7

\* An answer that is posted is the last.
LEMMA PostStands == IInv /\ StandInv /\ ReaderPosts => StandInv'
<1> SUFFICES ASSUME IInv, StandInv, ReaderPosts PROVE StandInv'
  OBVIOUS
<1> USE DEF StandInv
<1>1. /\ slot' = Reply(app.request, reader.what, "answer") /\ reader' = [kind |-> "POSTED"]
      /\ UNCHANGED <<dialog, queue, app, agent, hist>>
  BY DEF ReaderPosts, Post, ui
<1>2. /\ slot' # Nothing /\ slot'.of = app.request /\ slot'.why = "answer"
  BY <1>1 DEF Reply, Nothing
<1>3. QueueInv' /\ \A r : Pending(r)' => Pending(r)
  BY <1>1, QueueKept DEF QueueInv
<1>4. Starts' = Starts /\ ~Greets' /\ Told' = Told /\ Asked' = Asked /\ Answers /\ ~Answers'
  BY <1>1 DEF Starts, Greets, Told, Asked, Answers, ReaderPosts
<1>5. StageInv'
  BY <1>1, <1>4 DEF StageInv
<1>6. app.request \notin hist.mixed => ~Busy'
  BY <1>4 DEF StageInv, Busy
<1>7. \A r : r \notin hist'.mixed /\ Spent(r) => Spent(r)'
  BY <1>1, <1>3, <1>4, StillSpent DEF Busy
<1>8. ASSUME NEW r, slot'.of = r, r \notin hist'.mixed PROVE Spent(r)'
  BY <1>1, <1>2, <1>3, <1>6, <1>8 DEF Spent, QueueInv
<1>9. ASSUME NEW r, dialog # Closed, Shows, Current = r, r \notin hist'.mixed
      PROVE  Spent(r)' /\ r # app.request
  <2>1. Spent(r)
    BY <1>1, <1>9 DEF SpentInv
  <2> QED
    BY <1>4, <1>7, <1>9, <2>1 DEF Spent, Busy
<1>10. Shows' = Shows /\ Current' = Current
  BY <1>1 DEF Shows, Current
<1>11. SpentInv'
  BY <1>1, <1>2, <1>8, <1>9, <1>10 DEF SpentInv
<1>12. Known' \subseteq Known
  BY <1>1, <1>2, KnownHere, KnownFrom DEF IInv
<1>13. FreshInv'
  BY <1>1, <1>12, FreshKept DEF IInv
<1>14. DeadlineInv'
  BY <1>1, <1>2 DEF DeadlineInv, Closing
<1> QED
  BY <1>3, <1>5, <1>11, <1>13, <1>14

\* A greeting is told once.
LEMMA TellStands == IInv /\ StandInv /\ ReaderTells => StandInv'
<1> SUFFICES ASSUME IInv, StandInv, ReaderTells PROVE StandInv'
  OBVIOUS
<1> USE DEF StandInv
<1> DEFINE k == IF reader.kind = "POSTED" THEN "MODELS" ELSE reader.kind
           m == Event(k, app.request)
<1>1. Send(m) /\ reader' = Silent /\ UNCHANGED <<dialog, slot, app, agent>>
  BY DEF ReaderTells, ui
<1>2. k \in {"READY", "ERROR", "MODELS"} /\ (k = "READY" <=> Greets)
  BY DEF ReaderTells, Greets
<1>3. m \in Messages /\ m.kind = k /\ m.of = app.request /\ app.request \in Requests
  BY <1>2, Blank DEF Kinds, Event, IInv, TypeInv
<1> HIDE DEF m, k
<1>4. Greets => ~Starts /\ ~Told
  BY DEF StageInv
<1>5. m.kind \in {"DISCOVER", "READY"} => ~Queued(queue, m.kind, m.of)
  BY <1>2, <1>3, <1>4 DEF Told
<1>6. /\ Distinct(queue') /\ hist'.mixed = hist.mixed
      /\ \A c, r : Queued(queue', c, r) => Queued(queue, c, r) \/ (c = m.kind /\ r = m.of)
      /\ hist' \in Histories
  BY <1>1, <1>3, <1>5, SendQueued DEF IInv, TypeInv, QueueInv
<1>7. \A r : /\ Queued(queue', "DISCOVER", r) => Queued(queue, "DISCOVER", r)
             /\ Queued(queue', "READY", r) =>
                  Queued(queue, "READY", r) \/ (r = app.request /\ Greets)
  BY <1>2, <1>3, <1>6
<1>8. QueueInv' /\ \A r : Pending(r)' => Pending(r)
  BY <1>1, <1>6, <1>7, QueueKept
<1>9. /\ Starts' = Starts /\ ~Greets' /\ Asked' = Asked /\ ~Answers'
      /\ Told' => Told \/ Greets
  BY <1>1, <1>7 DEF Starts, Greets, Told, Asked, Answers, Silent
<1>10. StageInv'
  BY <1>1, <1>4, <1>6, <1>9 DEF StageInv
<1>11. \A r : r \notin hist'.mixed /\ Spent(r) => Spent(r)'
  BY <1>1, <1>8, <1>9, StillSpent DEF Busy
<1>12. SpentInv'
  BY <1>1, <1>6, <1>11, SpentKept
<1>13. Known' \subseteq Known
  BY <1>1, <1>3, KnownHere, SendKnown DEF IInv
<1>14. FreshInv'
  BY <1>1, <1>13, FreshKept DEF IInv
<1>15. DeadlineInv'
  BY <1>1 DEF DeadlineInv, Closing
<1> QED
  BY <1>8, <1>10, <1>12, <1>14, <1>15

-----------------------------------------------------------------------------
(* The worker's steps                                                       *)

\* The message that is taken was there once; what is added is no search.
LEMMA Taken ==
  ASSUME IInv, QueueInv, queue # <<>>,
         \/ queue' = Tail(queue)
         \/ queue' = Append(Tail(queue), Event("ERROR", app.request))
  PROVE  LET e == Head(queue) IN
         /\ e \in Messages /\ e.of \in Requests /\ Queued(queue, e.kind, e.of)
         /\ Distinct(queue')
         /\ \A r : /\ Queued(queue', "DISCOVER", r) => Queued(queue, "DISCOVER", r)
                   /\ Queued(queue', "READY", r) => Queued(queue, "READY", r)
         /\ e.kind \in {"DISCOVER", "READY"} => ~Queued(queue', e.kind, e.of)
         /\ \A i \in DOMAIN queue' : queue'[i].of \in Known
<1> DEFINE e == Head(queue)
           t == Tail(queue)
           m == Event("ERROR", app.request)
<1>1. queue \in Seq(Messages) /\ t \in Seq(Messages) /\ e \in Messages /\ e.of \in Requests
  <2>1. queue \in Seq(Messages)
    BY DEF IInv, TypeInv
  <2>2. t \in Seq(Messages) /\ e \in Messages
    BY <2>1
  <2> QED
    BY <2>1, <2>2 DEF Messages
<1>2. /\ Distinct(t) /\ Queued(queue, e.kind, e.of)
      /\ \A k, r : Queued(t, k, r) => Queued(queue, k, r)
      /\ e.kind \in {"DISCOVER", "READY"} => ~Queued(t, e.kind, e.of)
  BY <1>1, TailQueued DEF QueueInv
<1>3. m \in Messages /\ m.kind = "ERROR" /\ m.of = app.request
  BY Blank DEF Kinds, Event, IInv, TypeInv
<1>4. \A i \in DOMAIN t : t[i].of \in Known
  <2>1. ASSUME NEW i \in DOMAIN t
        PROVE  t[i] = queue[i + 1] /\ i + 1 \in DOMAIN queue
    BY <1>1
  <2> QED
    BY <2>1, KnownHere DEF IInv
<1> HIDE DEF e, t, m
<1>5. CASE queue' = t
  BY <1>1, <1>2, <1>4, <1>5 DEF e
<1>6. CASE queue' = Append(t, m)
  <2>1. /\ Distinct(queue')
        /\ \A k, r : Queued(queue', k, r) => Queued(t, k, r) \/ (k = m.kind /\ r = m.of)
    BY <1>1, <1>2, <1>3, <1>6, AppendQueued
  <2>2. \A i \in DOMAIN queue' : queue'[i] = m \/ (i \in DOMAIN t /\ queue'[i] = t[i])
    BY <1>1, <1>6
  <2>3. \A i \in DOMAIN queue' : queue'[i].of \in Known
    BY <1>3, <1>4, <2>2, KnownHere DEF IInv
  <2>4. \A r : /\ Queued(queue', "DISCOVER", r) => Queued(t, "DISCOVER", r)
               /\ Queued(queue', "READY", r) => Queued(t, "READY", r)
    BY <1>3, <2>1
  <2>5. e.kind \in {"DISCOVER", "READY"} => ~Queued(queue', e.kind, e.of)
    BY <1>2, <1>3, <2>1
  <2> QED
    BY <1>1, <1>2, <2>1, <2>3, <2>4, <2>5 DEF e
<1> QED
  BY <1>5, <1>6 DEF t, m

\* An event of another dialog is noted.
LEMMA MixedNotes ==
  ASSUME IInv, StageInv, NEW e
  PROVE  /\ Mixed(e) \in Histories
         /\ Mixed(e).silent = hist.silent /\ hist.mixed \subseteq Mixed(e).mixed
         /\ e.of # app.request => app.request \in Mixed(e).mixed
<1>1. app.request \in Requests
  BY DEF IInv, TypeInv
<1> QED
  BY <1>1 DEF Mixed, StageInv

LEMMA ClosingSays ==
  ASSUME TypeInv, NEW then \in {"nothing", "open", "timeout"}
  PROVE  /\ Closes(then).at = "closing" /\ Closes(then).then = then
         /\ Closes(then).answered = app.answered
BY DEF Closes, TypeInv

\* The worker stays with its request; what it posts is a failure.
LEMMA RequestKept ==
  ASSUME IInv, StandInv, UNCHANGED <<dialog, reader>>, Distinct(queue'),
         \A r : /\ Queued(queue', "DISCOVER", r) => Queued(queue, "DISCOVER", r)
                /\ Queued(queue', "READY", r) => Queued(queue, "READY", r),
         \A i \in DOMAIN queue' : queue'[i].of \in Known,
         app'.request = app.request, app'.next = app.next,
         app'.at = "closing" => app'.then # "open",
         app'.answered => app'.at = "closing" /\ app'.then = "nothing",
         slot' = slot \/ slot' \in [of : {app.request}, what : {"failed", "timeout"},
                                    why : {"died", "late"}],
         hist.mixed \subseteq hist'.mixed, StageInv',
         Busy' => Busy \/ app.request \in hist'.mixed
  PROVE  StandInv'
<1> USE DEF StandInv
<1>1. QueueInv' /\ \A r : Pending(r)' => Pending(r)
  BY QueueKept
<1>2. \A r : r \notin hist'.mixed /\ Spent(r) => Spent(r)'
  BY <1>1, StillSpent
<1>3. SpentInv'
  BY <1>2, SpentKept
<1>4. Known' \subseteq Known
  <2>1. slot' # Nothing => slot'.of \in Known
    BY KnownHere DEF IInv
  <2> QED
    BY <2>1, KnownHere, KnownFrom DEF IInv
<1>5. FreshInv'
  BY <1>4, FreshKept DEF IInv
<1>6. DeadlineInv'
  BY DEF DeadlineInv, Closing
<1> QED
  BY <1>1, <1>3, <1>5, <1>6

LEMMA TakeStands ==
  ASSUME IInv, StandInv, queue # <<>>, Handle(Head(queue))
  PROVE  StandInv'
<1> USE DEF StandInv
<1> DEFINE e == Head(queue)
<1>1. /\ queue' = Tail(queue) \/ queue' = Append(Tail(queue), Event("ERROR", app.request))
      /\ app.at = "loop" /\ UNCHANGED <<dialog, reader>>
  BY DEF Handle, HandleDiscover, HandleSettings, Ignore, AskModels, CannotAsk, AskFails,
         HandleModels, HandleError, Take, ui
<1>2. /\ e \in Messages /\ e.of \in Requests /\ Queued(queue, e.kind, e.of)
      /\ Distinct(queue')
      /\ \A r : /\ Queued(queue', "DISCOVER", r) => Queued(queue, "DISCOVER", r)
                /\ Queued(queue', "READY", r) => Queued(queue, "READY", r)
      /\ e.kind \in {"DISCOVER", "READY"} => ~Queued(queue', e.kind, e.of)
      /\ \A i \in DOMAIN queue' : queue'[i].of \in Known
  BY <1>1, Taken
<1>3. ~app.answered
  BY <1>1 DEF DeadlineInv, Closing
<1>4. ASSUME Close("nothing")
      PROVE  /\ app'.request = app.request /\ app'.next = app.next
             /\ app'.at = "closing" /\ app'.then = "nothing" /\ ~app'.answered
  BY <1>3, <1>4, Closings, ClosingSays DEF Close, IInv
<1>5. ASSUME Post("failed", "died")
      PROVE  slot' \in [of : {app.request}, what : {"failed", "timeout"}, why : {"died", "late"}]
  BY <1>5 DEF Post, Reply
<1>6. /\ Mixed(e) \in Histories
      /\ Mixed(e).silent = hist.silent /\ hist.mixed \subseteq Mixed(e).mixed
      /\ e.of # app.request => app.request \in Mixed(e).mixed
  BY MixedNotes
<1>7. app.request \in Requests
  BY DEF IInv, TypeInv
<1>8. Greets' = Greets /\ Answers' = Answers
  BY <1>1 DEF Greets, Answers
<1> HIDE DEF e
<1>9. ASSUME UNCHANGED agent, app'.request = app.request
      PROVE  Starts' = Starts /\ Asked' = Asked /\ (Told' => Told)
  BY <1>2, <1>9 DEF Starts, Asked, Told
<1>10. ASSUME UNCHANGED agent, app'.request = app.request, hist.mixed \subseteq hist'.mixed,
              hist' \in Histories
       PROVE  StageInv' /\ (Busy' => Busy)
  BY <1>8, <1>9, <1>10 DEF StageInv, Busy
<1>11. hist \in Histories
  BY DEF StageInv
<1>12. CASE HandleDiscover(e)
  <2>1. /\ app' = [Closes("open") EXCEPT !.next = e] /\ UNCHANGED <<slot, agent, hist>>
        /\ e.kind = "DISCOVER"
    BY <1>12 DEF HandleDiscover, ui
  <2>2. /\ app'.request = app.request /\ app'.next = e /\ app'.at = "closing"
        /\ app'.then = "open" /\ ~app'.answered
    BY <1>3, <2>1, Closings, ClosingSays DEF IInv, Apps
  <2>3. ASSUME NEW r, Pending(r)' PROVE Pending(r)
    BY <1>2, <2>1, <2>2, <2>3 DEF Pending
  <2>4. ~Pending(app.request)'
    BY <2>2, <2>3 DEF QueueInv
  <2>5. \A r \in Requests : Queued(queue', "READY", r) => ~Pending(r)'
    BY <1>2, <2>3 DEF QueueInv
  <2>6. QueueInv'
    BY <1>2, <2>1, <2>2, <2>4, <2>5 DEF QueueInv
  <2>7. StageInv' /\ (Busy' => Busy)
    BY <1>10, <1>11, <2>1, <2>2
  <2>8. \A r : r \notin hist'.mixed /\ Spent(r) => Spent(r)'
    BY <2>2, <2>3, <2>7, StillSpent
  <2>9. SpentInv'
    BY <1>1, <2>1, <2>8, SpentKept
  <2>10. Known' \subseteq Known
    <3>1. e.of \in Known
      BY <1>2, KnownHere DEF IInv, Queued
    <3> QED
      BY <1>2, <2>1, <2>2, <3>1, KnownHere, KnownFrom DEF IInv
  <2>11. FreshInv'
    BY <1>1, <2>10, FreshKept DEF IInv
  <2>12. DeadlineInv'
    BY <2>1, <2>2 DEF DeadlineInv
  <2> QED
    BY <2>6, <2>7, <2>9, <2>11, <2>12
<1>13. CASE HandleSettings(e)
  <2>1. UNCHANGED <<slot, agent, hist>> /\ (Close("nothing") \/ UNCHANGED app)
    BY <1>13 DEF HandleSettings, ui
  <2>2. /\ app'.request = app.request /\ app'.next = app.next /\ ~app'.answered
        /\ app'.at = "closing" => app'.then # "open"
    BY <1>1, <1>3, <1>4, <2>1
  <2>3. StageInv' /\ (Busy' => Busy)
    BY <1>10, <1>11, <2>1, <2>2
  <2> QED
    BY <1>1, <1>2, <2>1, <2>2, <2>3, RequestKept
<1>14. CASE Ignore(e)
  <2>1. UNCHANGED <<slot, agent, hist, app>>
    BY <1>14 DEF Ignore, ui
  <2>2. StageInv' /\ (Busy' => Busy)
    BY <1>10, <1>11, <2>1
  <2> QED
    BY <1>1, <1>2, <1>3, <2>1, <2>2, RequestKept
<1>15. CASE AskModels(e)
  <2>1. /\ e.kind = "READY" /\ agent.phase = "ready" /\ UNCHANGED <<slot, app>>
        /\ agent' = [agent EXCEPT !.asked = @ + 1] /\ hist' = Mixed(e)
    BY <1>15 DEF AskModels, ui
  <2>2. agent \in Agents \ {NoAgent}
    BY <2>1 DEF StageInv, NoAgent
  <2>3. /\ agent' \in Agents /\ agent'.phase = "ready" /\ agent'.asked = agent.asked + 1
        /\ agent.asked \in Nat
    BY <2>1, <2>2 DEF Agents
  <2>4. ~Starts' /\ (Told' => Told) /\ Asked'
    BY <1>2, <2>1, <2>3 DEF Starts, Told, Asked
  <2>5. ASSUME e.of = app.request
        PROVE  Told /\ ~Told'
    BY <1>2, <2>1, <2>5 DEF Told
  <2>6. ASSUME app.request \notin hist'.mixed
        PROVE  Told /\ ~Told' /\ ~Greets /\ ~Answers /\ agent'.asked = 1
    <3>1. e.of = app.request /\ app.request \notin hist.mixed
      BY <1>6, <2>1, <2>6
    <3>2. Told /\ ~Told' /\ ~Greets /\ ~Answers /\ ~Asked
      BY <2>5, <3>1 DEF StageInv
    <3> QED
      BY <2>1, <2>3, <3>2 DEF Asked
  <2>7. StageInv'
    BY <1>6, <1>8, <2>1, <2>3, <2>4, <2>6 DEF StageInv
  <2>8. Busy' => Busy \/ app.request \in hist'.mixed
    BY <2>6 DEF Busy
  <2> QED
    BY <1>1, <1>2, <1>3, <1>6, <2>1, <2>7, <2>8, RequestKept
<1>16. CASE CannotAsk(e) \/ HandleError(e)
  <2>1. Post("failed", "died") /\ Close("nothing") /\ hist' = Mixed(e) /\ UNCHANGED agent
    BY <1>16 DEF CannotAsk, HandleError
  <2>2. StageInv' /\ (Busy' => Busy)
    BY <1>4, <1>6, <1>10, <2>1
  <2> QED
    BY <1>1, <1>2, <1>4, <1>5, <1>6, <2>1, <2>2, RequestKept
<1>17. CASE AskFails(e)
  <2>1. /\ Post("failed", "died") /\ Close("nothing") /\ hist' = Mixed(e)
        /\ agent.phase = "ready" /\ agent' = [agent EXCEPT !.phase = "failed"]
    BY <1>17 DEF AskFails
  <2>2. agent \in Agents \ {NoAgent}
    BY <2>1 DEF StageInv, NoAgent
  <2>3. agent' \in Agents /\ agent'.phase = "failed" /\ agent'.asked = agent.asked
    BY <2>1, <2>2 DEF Agents
  <2>4. ~Starts' /\ Asked' = Asked /\ (Told' => Told)
    BY <1>2, <1>4, <2>1, <2>3 DEF Starts, Asked, Told
  <2>5. StageInv' /\ (Busy' => Busy)
    BY <1>4, <1>6, <1>8, <2>1, <2>3, <2>4 DEF StageInv, Busy
  <2> QED
    BY <1>1, <1>2, <1>4, <1>5, <1>6, <2>1, <2>5, RequestKept
<1>18. CASE HandleModels(e)
  <2> DEFINE b == e.of = app.request
             s == IF b THEN hist.silent ELSE hist.silent \union {app.request}
  <2>1. /\ app' = [Closes("nothing") EXCEPT !.answered = b] /\ UNCHANGED <<slot, agent>>
        /\ hist' = [Mixed(e) EXCEPT !.silent = s]
    BY <1>6, <1>18 DEF HandleModels
  <2>2. /\ app'.request = app.request /\ app'.next = app.next
        /\ app'.at = "closing" /\ app'.then = "nothing"
    <3>1. b \in BOOLEAN
      OBVIOUS
    <3> HIDE DEF b
    <3> QED
      BY <2>1, <3>1, Closings, ClosingSays DEF IInv, Apps
  <2>3. s \in SUBSET Requests
    BY <1>7, <1>11
  <2> HIDE DEF s
  <2>4. /\ hist' \in Histories
        /\ hist'.mixed = Mixed(e).mixed
    BY <1>6, <2>1, <2>3
  <2>5. StageInv' /\ (Busy' => Busy)
    BY <1>6, <1>10, <2>1, <2>2, <2>4
  <2> QED
    BY <1>1, <1>2, <1>6, <2>1, <2>2, <2>4, <2>5, RequestKept
<1> QED
  BY <1>12, <1>13, <1>14, <1>15, <1>16, <1>17, <1>18 DEF Handle, e

\* A harness that is opened is the first of its request: nothing of it was told,
\* and no catalogue of it is there.
LEMMA OpenedStands ==
  ASSUME IInv, StandInv, Joined, app.then = "open"
  PROVE  StandInv'
<1> USE DEF StandInv
<1>0. PICK n : n = app.next.of
  OBVIOUS
<1>1. /\ Closing /\ reader = Silent /\ UNCHANGED <<dialog, queue, reader, hist>>
      /\ \/ /\ app' = Opened(TRUE) /\ UNCHANGED slot
            /\ agent' = [phase |-> "starting", alive |-> TRUE, asked |-> 0]
         \/ /\ app' = Opened(FALSE) /\ agent' = NoAgent
            /\ slot' = Reply(n, "failed", "unopened")
  BY <1>0 DEF Joined, ui
<1>2. /\ n \in Requests /\ n \in Known /\ Pending(n)
      /\ ~Queued(queue, "DISCOVER", n) /\ ~Queued(queue, "READY", n)
  <2>1. n \in Requests /\ n \in Known
    BY <1>0, KnownHere DEF IInv, TypeInv, Messages
  <2>2. app.next.kind = "DISCOVER"
    BY <1>1 DEF QueueInv
  <2> QED
    BY <1>0, <2>1, <2>2 DEF QueueInv, Pending
<1>3. /\ app'.request = n /\ app'.next = NoCommand /\ app'.at = "loop" /\ ~app'.answered
  <2>1. app \in Apps
    BY DEF IInv, TypeInv, Apps
  <2>2. Rests \in Apps /\ Rests.at = "loop" /\ Rests.answered = FALSE
    BY <2>1 DEF Rests, Apps, Keys
  <2> DEFINE a == Rests
             k(opened) == IF opened THEN app.next.key ELSE NoKey
  <2>3. ASSUME NEW opened \in BOOLEAN, app' = Opened(opened)
        PROVE  app' = [a EXCEPT !.request = n, !.next = NoCommand, !.key = k(opened),
                                !.deadline = opened]
    BY <1>0, <2>3 DEF Opened
  <2> HIDE DEF a, k
  <2>4. a \in Apps /\ a.at = "loop" /\ a.answered = FALSE
    BY <2>2 DEF a
  <2> QED
    BY <1>1, <2>3, <2>4 DEF Apps
<1>4. NoCommand.kind = "none" /\ NoCommand.of = NoRequest
  BY DEF NoCommand
<1>5. ASSUME NEW r, Pending(r)' PROVE Pending(r) /\ r # n
  BY <1>1, <1>2, <1>3, <1>4, <1>5 DEF Pending
<1>6. QueueInv'
  <2>1. ~Pending(n)'
    BY <1>5
  <2>2. \A r \in Requests : Queued(queue, "READY", r) => ~Pending(r)'
    BY <1>5 DEF QueueInv
  <2> QED
    BY <1>1, <1>2, <1>3, <1>4, <2>1, <2>2 DEF QueueInv, Closing, Pending
<1>7. ~Greets' /\ ~Answers' /\ ~Told' /\ ~Asked' /\ agent' \in Agents
  <2>1. agent' \in Agents /\ ~Asked'
    <3>1. [phase |-> "starting", alive |-> TRUE, asked |-> 0] \in Agents
      BY DEF Agents
    <3>2. CASE agent' = [phase |-> "starting", alive |-> TRUE, asked |-> 0]
      BY <3>1, <3>2 DEF Asked
    <3>3. CASE agent' = NoAgent
      BY <3>3 DEF Asked, Agents, NoAgent
    <3> QED
      BY <1>1, <3>2, <3>3
  <2>2. ~Greets' /\ ~Answers' /\ ~Told'
    BY <1>1, <1>2, <1>3 DEF Greets, Answers, Told, Silent
  <2> QED
    BY <2>1, <2>2
<1>8. StageInv'
  BY <1>1, <1>7 DEF StageInv
<1>9. ASSUME NEW r, Spent(r) PROVE Spent(r)' /\ r # n
  BY <1>2, <1>3, <1>5, <1>9 DEF Spent
<1>10. slot' = slot \/ (slot' # Nothing /\ slot'.what = "failed" /\ slot'.of = n
                        /\ slot'.why = "unopened")
  <2> DEFINE r == Reply(n, "failed", "unopened")
  <2>1. r # Nothing /\ r.what = "failed" /\ r.of = n /\ r.why = "unopened"
    BY DEF Reply, Nothing
  <2> HIDE DEF r
  <2> QED
    BY <1>1, <2>1 DEF r
<1>11. SpentInv'
  <2>1. ASSUME NEW r, slot' # Nothing, slot'.what = "catalogue", slot'.of = r, r \notin hist.mixed
        PROVE  Spent(r)'
    BY <1>9, <1>10, <2>1 DEF SpentInv
  <2>2. ASSUME NEW r, dialog # Closed, Shows, Current = r, r \notin hist.mixed
        PROVE  /\ Spent(r)'
               /\ slot' # Nothing /\ slot'.of = r => slot'.why \notin {"answer", "unopened"}
    <3>1. Spent(r)
      BY <2>2 DEF SpentInv
    <3> QED
      BY <1>9, <1>10, <2>2, <3>1 DEF SpentInv
  <2>3. Shows' = Shows /\ Current' = Current
    BY <1>1 DEF Shows, Current
  <2> QED
    BY <1>1, <2>1, <2>2, <2>3 DEF SpentInv
<1>12. Known' \subseteq Known \union {NoRequest}
  <2>1. slot' # Nothing => slot'.of \in Known
    BY <1>2, <1>10, KnownHere DEF IInv
  <2> QED
    BY <1>1, <1>2, <1>3, <1>4, <2>1, KnownHere, KnownFrom DEF IInv
<1>13. FreshInv'
  BY <1>1, <1>12, FreshKept DEF IInv
<1>14. DeadlineInv'
  BY <1>3, <1>10 DEF DeadlineInv
<1> QED
  BY <1>6, <1>8, <1>11, <1>13, <1>14

\* A deadline that is over has found its search unanswered.
LEMMA ClosedStands ==
  ASSUME IInv, StandInv, Joined \/ TimesOut, app.then # "open" \/ TimesOut
  PROVE  StandInv'
<1> USE DEF StandInv
<1>1. UNCHANGED <<dialog, queue, reader, hist>> /\ Distinct(queue)
  BY DEF Joined, TimesOut, QueueInv, ui
<1>2. \A i \in DOMAIN queue : queue[i].of \in Known
  BY KnownHere DEF IInv
<1>3. hist \in Histories
  BY DEF StageInv
<1>4. Greets' = Greets /\ Answers' = Answers
  BY <1>1 DEF Greets, Answers
<1>5. CASE TimesOut
  <2>1. app' = Closes("timeout") /\ app.at = "loop" /\ UNCHANGED <<slot, agent>>
    BY <1>5 DEF TimesOut, Close, ui
  <2>2. /\ app'.request = app.request /\ app'.next = app.next /\ app'.then = "timeout"
        /\ app'.answered = app.answered
    BY <2>1, Closings, ClosingSays DEF IInv
  <2>3. ~app.answered
    BY <2>1 DEF DeadlineInv, Closing
  <2>4. Starts' = Starts /\ Asked' = Asked /\ Told' = Told
    BY <1>1, <2>1, <2>2 DEF Starts, Asked, Told
  <2>5. StageInv' /\ (Busy' => Busy)
    BY <1>1, <1>4, <2>1, <2>2, <2>4 DEF StageInv, Busy
  <2> QED
    BY <1>1, <1>2, <2>1, <2>2, <2>3, <2>5, RequestKept
<1>6. CASE Joined /\ app.then # "open"
  <2>1. /\ app' = Rests /\ agent' = NoAgent
        /\ \/ app.then = "nothing" /\ UNCHANGED slot
           \/ /\ app.then = "timeout"
              /\ Post("timeout", IF app.answered THEN "overdue" ELSE "late")
    BY <1>6 DEF Joined
  <2>2. /\ app'.request = app.request /\ app'.next = app.next
        /\ app'.at = "loop" /\ ~app'.answered
    BY <2>1 DEF Rests, IInv, TypeInv
  <2>3. \/ slot' = slot
        \/ slot' \in [of : {app.request}, what : {"failed", "timeout"}, why : {"died", "late"}]
    BY <2>1 DEF Post, Reply, DeadlineInv
  <2>4. ~Starts' /\ ~Asked' /\ Told' = Told /\ agent' \in Agents
    BY <1>1, <2>1, <2>2 DEF Starts, Asked, Told, NoAgent, Agents
  <2>5. StageInv' /\ (Busy' => Busy)
    BY <1>1, <1>4, <2>2, <2>4 DEF StageInv, Busy
  <2> QED
    BY <1>1, <1>2, <2>2, <2>3, <2>5, RequestKept
<1> QED
  BY <1>5, <1>6

-----------------------------------------------------------------------------

LEMMA StandStep == IInv /\ IInv' /\ StandInv /\ [Next]_vars => StandInv'
<1> SUFFICES ASSUME IInv, IInv', StandInv, [Next]_vars PROVE StandInv'
  OBVIOUS
<1>1. CASE Ui
  <2>1. ASSUME NEW e \in Bases, EditEndpoint(e) PROVE StandInv'
    BY <2>1, EndpointEdited, EditStands DEF EditEndpoint, Edits, IInv
  <2>2. ASSUME NEW typed \in BOOLEAN, EditKey(typed) PROVE StandInv'
    BY <2>2, KeyEdited, EditStands DEF EditKey, Edits, IInv
  <2>3. CASE Unlock
    BY <2>3, Unlocked, EditStands DEF Unlock, Edits, IInv
  <2>4. CASE Cancel
    BY <2>4, DialogRenewed DEF Cancel
  <2> QED
    BY <1>1, <2>1, <2>2, <2>3, <2>4, OpenStands, SaveStands, TimerStands, ApplyStands
       DEF Ui, Bases
<1>2. CASE Worker
  BY <1>2, TakeStands, OpenedStands, ClosedStands DEF Worker
<1>3. CASE UNCHANGED vars
  <2>1. /\ QueueInv' /\ StageInv' /\ DeadlineInv'
        /\ \A r : r \notin hist'.mixed /\ Spent(r) => Spent(r)'
    BY <1>3, SearchKept DEF StandInv, vars
  <2>2. SpentInv'
    BY <1>3, <2>1, SpentKept DEF StandInv, vars
  <2>3. FreshInv'
    BY <1>3, FreshKept DEF StandInv, IInv, Known, vars
  <2> QED
    BY <2>1, <2>2, <2>3 DEF StandInv
<1> QED
  BY <1>1, <1>2, <1>3, HarnessStands, PostStands, TellStands DEF Next, Reader

LEMMA InitStands == Init => StandInv
<1> SUFFICES ASSUME Init PROVE StandInv
  OBVIOUS
<1>1. QueueInv
  BY DEF Init, QueueInv, Distinct, Queued, Pending, Closing, NoCommand
<1>2. FreshInv /\ SpentInv /\ DeadlineInv
  BY DEF Init, FreshInv, SpentInv, DeadlineInv
<1>3. ~Starts /\ ~Greets /\ ~Told /\ ~Asked /\ ~Answers
  BY DEF Init, Starts, Greets, Told, Queued, Asked, Answers, NoAgent, Silent
<1>4. StageInv
  BY <1>3 DEF Init, StageInv, Agents
<1> QED
  BY <1>1, <1>2, <1>4 DEF StandInv

\* The invariant of a search: every request has one way to one answer, and a
\* catalogue that is posted or shown is at its end (main.c:895, 1804, ui.c:4053).
THEOREM SearchInvariant == Spec => []StandInv
<1>1. IInv /\ IInv' /\ StandInv /\ [Next]_vars => StandInv'
  BY StandStep
<1> QED
  BY InitStands, DiscoveryInvariant, <1>1, PTL DEF Spec

\* A catalogue stands until the dialog asks again, for any endpoints and any number
\* of dialogs, edits, losses and failures: what replaces it is a deadline that
\* struck before the answer was seen, a harness that died after it, or a mixed-up
\* dialog (main.c:895, ui.c:4053).
THEOREM CatalogueStands == Spec => AnswerStands
<1> DEFINE Stands ==
      dialog # Closed /\ dialog' # Closed
        /\ dialog.status = "catalogue" /\ dialog'.status # "catalogue"
        /\ dialog'.number = dialog.number
      => \/ slot.why \in {"late", "died"}
         \/ {slot.of.dialog, dialog.shown} # {dialog.id}
         \/ slot.of \in hist.mixed
<1>1. IInv /\ StandInv /\ [Next]_vars => Stands
  <2> SUFFICES ASSUME IInv, StandInv, [Next]_vars, dialog # Closed, dialog' # Closed,
                      dialog.status = "catalogue", dialog'.status # "catalogue",
                      dialog'.number = dialog.number,
                      {slot.of.dialog, dialog.shown} = {dialog.id}, slot.of \notin hist.mixed
               PROVE  slot.why \in {"late", "died"}
    OBVIOUS
  <2> USE DEF IInv
  <2>1. dialog \in Dialogs
    BY DEF TypeInv
  <2>2. ASSUME Renewed(dialog') PROVE FALSE
    BY <2>1, <2>2 DEF Renewed, Dialogs
  <2>3. Apply
    <3>1. dialog' # dialog
      OBVIOUS
    <3>2. ~Open /\ ~Cancel /\ ~Save
      BY DEF Open, Cancel, Save
    <3>3. ~Unlock /\ ~TimerFires
      BY <2>2, Unlocked, TimerAsks
    <3>4. ASSUME NEW e \in Bases PROVE ~EditEndpoint(e)
      BY <2>2, EndpointEdited
    <3>5. ASSUME NEW typed \in BOOLEAN PROVE ~EditKey(typed)
      BY <2>2, KeyEdited
    <3>6. ~Reader /\ ~HarnessReady /\ ~HarnessDies /\ ~ReaderFails
          /\ \A what \in Results : ~HarnessAnswers(what)
      BY <3>1 DEF Reader, ReaderPosts, ReaderTells, ReaderDrops, HarnessReady, HarnessDies,
                  ReaderFails, HarnessAnswers, ui
    <3>7. ~Worker
      BY <3>1 DEF Worker, Handle, HandleDiscover, HandleSettings, Ignore, AskModels, CannotAsk,
                  AskFails, HandleModels, HandleError, Joined, TimesOut, ui
    <3> QED
      BY <3>1, <3>2, <3>3, <3>4, <3>5, <3>6, <3>7 DEF Next, Ui, Bases, vars
  <2>4. /\ slot \in Replies /\ slot # Nothing /\ slot.of \in Requests /\ slot.of \in Known
        /\ slot.of.number = dialog.number
    BY <2>1, <2>3, KnownHere DEF Apply, TypeInv, Replies
  <2>5. slot.of.dialog = dialog.id /\ dialog.shown = dialog.id
    OBVIOUS
  <2>6. slot.of = Current
    <3>1. slot.of.endpoint = dialog.endpoint
      BY <2>4, <2>5 DEF FitInv, Fits
    <3> QED
      BY <2>4, <2>5, <3>1 DEF Requests, Current
  <2>7. slot.why \notin {"answer", "unopened", "overdue"}
    BY <2>4, <2>5, <2>6 DEF StandInv, SpentInv, DeadlineInv, Shows
  <2> QED
    BY <2>4, <2>7 DEF Replies
<1> QED
  BY DiscoveryInvariant, SearchInvariant, <1>1, PTL DEF Spec, AnswerStands
==============================================================================
