--------------------------- MODULE ModelPanelProofs ---------------------------
(***************************************************************************)
(* Proofs about ModelPanel for any sets of models, calls and lists, and    *)
(* any number of messages under way.                                       *)
(***************************************************************************)
EXTENDS ModelPanel, TLAPS

USE NoneAssumption DEF vars, catalog, call

-----------------------------------------------------------------------------
(* The inductive invariant *)

CallsNamed == \A c \in Calls : place[c] # "idle" => model[c] \in Models

\* Until it is settled a modal has told nothing; Steam can only close one that is open.
ModalUnsettled ==
    /\ Mounted => modal.model \in Models
    /\ modal.phase = "open" => ~modal.settled
    /\ ~modal.settled => modal.told = <<>>

\* A failure of the model that a modal is about came while the modal was there.
FailureIsNews == Mounted /\ failure = modal.model => modal.news

ModalInvariant == ModalUnsettled /\ SettlesOnce /\ FailureIsNews /\ NoOldFailure

Numbers(s) == 1 .. Len(s)

\* The messages that change what the catalogue says of m ...
Tells(n, m) ==
    \/ n.kind = "list"
    \/ n.kind \in {"complete", "stopped", "setupStopped", "deleted"} /\ n.model = m

\* ... and those that make it say the truth, or are known to be wrong.
Right(n, m) ==
    /\ n.kind = "complete" => m \in disk
    /\ n.kind = "deleted" => m \notin disk
    /\ n.kind = "list" => m \in n.dirty \/ (m \in n.found <=> m \in disk)

\* A list that is being put together knows what it has wrong.
ListingsRight ==
    \A l \in Lists : listing[l] # None =>
        /\ listing[l].found \subseteq listing[l].checked
        /\ \A m \in listing[l].checked :
                m \in listing[l].dirty \/ (m \in listing[l].found <=> m \in disk)

\* Of each model the last message under way is right, and without one the catalogue.
LastRight(s) ==
    \A m \in Models : \A i \in Numbers(s) :
        Tells(s[i], m) /\ (\A j \in i + 1 .. Len(s) : ~Tells(s[j], m)) => Right(s[i], m)

ShownRight ==
    loaded => \A m \in Models \ stale :
        (\A i \in Numbers(inbox) : ~Tells(inbox[i], m)) => (m \in shown <=> m \in disk)

CatalogueInvariant == ListingsRight /\ LastRight(inbox) /\ ShownRight

\* delete_model has one answer under way, to the loop that asked.
DeletionHeld ==
    /\ \A i \in Numbers(inbox) : inbox[i].kind \in {"deleted", "refused"} =>
            /\ manage.at = "deleting"
            /\ inbox[i].model \in manage.todo
            /\ \A j \in Numbers(inbox) : inbox[j].kind \in {"deleted", "refused"} => i = j
    /\ manage.at # "refreshing" => manage.by = None

OneDialog == Mounted => manage.at = "closed"

Gone(s, i, m) == \E j \in i .. Len(s) : s[j].kind = "deleted" /\ s[j].model = m

Claims(n, m) ==
    \/ n.kind = "complete" /\ n.model = m
    \/ n.kind = "list" /\ m \in n.found \ n.dirty

\* What is shown or will be shown as installed is there, or the panel that had it
\* deleted still waits for the answer.
ClaimsBacked(s) ==
    \A m \in Models : \A i \in Numbers(s) : Claims(s[i], m) => m \in disk \/ Gone(s, i + 1, m)

ShownBacked == \A m \in shown \ stale : m \in disk \/ Gone(inbox, 1, m)

HoldBacked == Mounted /\ modal.hold # "no" => modal.model \in disk \/ modal.misled

ChoiceInvariant == DeletionHeld /\ OneDialog /\ ClaimsBacked(inbox) /\ ShownBacked /\ HoldBacked

Working == \E c \in Calls : place[c] # "idle" /\ owner[c] = "panel"

EndsAfter(s, i) ==
    \E j \in i .. Len(s) : s[j].kind \in {"complete", "cancelled", "stopped", "failed"}

\* A progress of the panel's own download is of one that goes on, or its end follows.
ProgressEnds(s) ==
    \A i \in Numbers(s) :
        s[i].kind = "progress" /\ s[i].by = "panel" => Working \/ EndsAfter(s, i + 1)

ShownEnds == download # None /\ download.by = "panel" => Working \/ EndsAfter(inbox, 1)

ProgressInvariant == ProgressEnds(inbox) /\ ShownEnds

PanelInvariant ==
    /\ TypeOK /\ CallsNamed /\ ModalInvariant
    /\ CatalogueInvariant /\ ChoiceInvariant /\ ProgressInvariant

-----------------------------------------------------------------------------

LEMMA InitTypes == Init => TypeOK
<1> SUFFICES ASSUME Init PROVE TypeOK
  OBVIOUS
<1> USE DEF Init, TypeOK, Owner
<1>1. modal \in Modal
  BY DEF Modal, NoModal
<1>2. manage \in [at : {"closed", "open", "deleting", "refreshing"}, todo : SUBSET Models,
                   by : Lists \cup {None}]
  BY DEF Closed
<1>3. listing \in [Lists -> {None} \cup [checked : SUBSET Models, found : SUBSET Models,
                                          dirty : SUBSET Models]]
  OBVIOUS
<1>4. /\ inbox \in Seq(Message)
      /\ modal.phase = "none" => modal = NoModal
  OBVIOUS
<1> QED
  BY <1>1, <1>2, <1>3, <1>4

\* A modal is its fields; the fields that change keep its type.
LEMMA ModalFields ==
    ASSUME NEW q \in Modal, NEW m \in Models, NEW b \in BOOLEAN
    PROVE  /\ NoModal \in Modal
           /\ [q EXCEPT !.news = q.news] = q
           /\ [q EXCEPT !.news = b] \in Modal
           /\ [q EXCEPT !.failed = TRUE] \in Modal
           /\ [q EXCEPT !.hold = "running", !.misled = b] \in Modal
           /\ [q EXCEPT !.phase = "open", !.model = m] \in Modal
           /\ [q EXCEPT !.settled = TRUE, !.phase = "closing"] \in Modal
<1>1. NoModal \in Modal
  BY DEF Modal, NoModal
<1>2. [q EXCEPT !.news = q.news] = q /\ [q EXCEPT !.news = b] \in Modal
  BY DEF Modal
<1>3. /\ [q EXCEPT !.failed = TRUE] \in Modal
      /\ [q EXCEPT !.hold = "running", !.misled = b] \in Modal
  BY DEF Modal
<1>4. /\ [q EXCEPT !.phase = "open", !.model = m] \in Modal
      /\ [q EXCEPT !.settled = TRUE, !.phase = "closing"] \in Modal
  BY DEF Modal
<1> QED
  BY <1>1, <1>2, <1>3, <1>4

\* A message that is sent is one of the channel's.
LEMMA SendType ==
    ASSUME NEW m \in Message, inbox \in Seq(Message), Send(m)
    PROVE  inbox' \in Seq(Message)
  BY DEF Send

\* What a download of the backend does keeps the types.
LEMMA CallTypes ==
    ASSUME TypeOK, CallsNamed, NEW c \in Calls,
           Progresses(c) \/ Completes(c) \/ Fails(c) \/ StopsComplete(c) \/ SetupDownloads(c)
    PROVE  TypeOK' /\ CallsNamed'
<1> USE DEF TypeOK, CallsNamed, Owner
<1>1. CASE Progresses(c)
  <2>1. inbox' \in Seq(Message)
    BY <1>1 DEF Progresses, Send, Message
  <2> QED
    BY <1>1, <2>1 DEF Progresses
<1>2. CASE Completes(c)
  <2>1. inbox' \in Seq(Message)
    BY <1>2 DEF Completes, Send, Message
  <2>2. listing' \in [Lists -> {None} \cup [checked : SUBSET Models, found : SUBSET Models,
                                            dirty : SUBSET Models]]
    BY <1>2 DEF Completes, Changed
  <2> QED
    BY <1>2, <2>1, <2>2 DEF Completes, Ends
<1>3. CASE Fails(c)
  <2>1. \A n \in Models : /\ [kind |-> "failed", model |-> n] \in Message
                          /\ [kind |-> "cancelled", model |-> n] \in Message
    BY DEF Message
  <2>2. model[c] \in Models
    BY <1>3 DEF Fails
  <2>3. inbox' \in Seq(Message)
    BY <1>3, <2>1, <2>2, SendType DEF Fails
  <2> QED
    BY <1>3, <2>3 DEF Fails, Ends
<1>4. CASE StopsComplete(c)
  <2>1. inbox' \in Seq(Message)
    <3>1. PICK kind \in {"stopped", "setupStopped"} : Send([kind |-> kind, model |-> model[c]])
      BY <1>4 DEF StopsComplete
    <3>2. model[c] \in Models
      BY <1>4 DEF StopsComplete
    <3>3. [kind |-> kind, model |-> model[c]] \in Message
      BY <3>2 DEF Message
    <3> QED
      BY <3>1, <3>3, SendType
  <2>2. listing' \in [Lists -> {None} \cup [checked : SUBSET Models, found : SUBSET Models,
                                            dirty : SUBSET Models]]
    BY <1>4 DEF StopsComplete, Changed
  <2> QED
    BY <1>4, <2>1, <2>2 DEF StopsComplete, Ends
<1>5. CASE SetupDownloads(c)
  BY <1>5 DEF SetupDownloads
<1> QED
  BY <1>1, <1>2, <1>3, <1>4, <1>5

\* So do lists and deletions.
LEMMA ListTypes ==
    ASSUME TypeOK, \/ \E l \in Lists : Answers(l) \/ \E m \in Models : Checks(l, m)
                   \/ \E m \in Models : Deletes(m)
    PROVE  TypeOK'
<1> USE DEF TypeOK
<1>1. ASSUME NEW l \in Lists, Answers(l) PROVE TypeOK'
  <2>1. inbox' \in Seq(Message)
    <3>1. [kind |-> "unlisted", id |-> l] \in Message
      BY DEF Message
    <3>2. [kind |-> "list", id |-> l, found |-> listing[l].found, dirty |-> listing[l].dirty]
              \in Message
      BY <1>1 DEF Answers, Message
    <3> QED
      BY <1>1, <3>1, <3>2, SendType DEF Answers
  <2>2. listing' \in [Lists -> {None} \cup [checked : SUBSET Models, found : SUBSET Models,
                                            dirty : SUBSET Models]]
    BY <1>1 DEF Answers
  <2> QED
    BY <1>1, <2>1, <2>2 DEF Answers
<1>2. ASSUME NEW l \in Lists, NEW m \in Models, Checks(l, m) PROVE TypeOK'
  <2>1. listing' \in [Lists -> {None} \cup [checked : SUBSET Models, found : SUBSET Models,
                                            dirty : SUBSET Models]]
    BY <1>2 DEF Checks
  <2> QED
    BY <1>2, <2>1 DEF Checks
<1>3. ASSUME NEW m \in Models, Deletes(m) PROVE TypeOK'
  <2>1. inbox' \in Seq(Message)
    <3>1. /\ [kind |-> "refused", model |-> m] \in Message
          /\ [kind |-> "deleted", model |-> m] \in Message
      BY DEF Message
    <3> QED
      BY <1>3, <3>1, SendType DEF Deletes
  <2>2. listing' \in [Lists -> {None} \cup [checked : SUBSET Models, found : SUBSET Models,
                                            dirty : SUBSET Models]]
    BY <1>3 DEF Deletes, Changed
  <2> QED
    BY <1>3, <2>1, <2>2 DEF Deletes
<1> QED
  BY <1>1, <1>2, <1>3

\* So does the panel with what it receives.
LEMMA ReceiveTypes == ASSUME TypeOK, Receive PROVE TypeOK'
<1> USE DEF TypeOK
<1> DEFINE m == Head(inbox)
<1>1. m \in Message /\ inbox' \in Seq(Message)
  BY DEF Receive
<1> HIDE DEF m
<1>2. UNCHANGED <<disk, selected, call, listing>>
  BY DEF Receive
<1>3. CASE OnProgress(m)
  <2>1. m.model \in Models /\ m.by \in Owner
    BY <1>1, <1>3 DEF OnProgress, Message
  <2> QED
    BY <1>1, <1>2, <1>3, <2>1 DEF OnProgress
<1>4. CASE OnComplete(m) \/ OnCancelled(m) \/ OnSetupStopped(m) \/ OnFailed(m) \/ OnDeleted(m)
  <2>1. m.model \in Models
    BY <1>1, <1>4 DEF OnComplete, OnCancelled, OnSetupStopped, OnFailed, OnDeleted, Message
  <2>2. CASE OnComplete(m)
    BY <1>1, <1>2, <2>1, <2>2 DEF OnComplete
  <2>3. CASE OnCancelled(m) \/ OnSetupStopped(m)
    BY <1>1, <1>2, <2>1, <2>3 DEF OnCancelled, OnSetupStopped
  <2>4. CASE OnFailed(m)
    <3> DEFINE news == modal.news \/ modal.model = m.model
    <3>1. modal \in Modal /\ news \in BOOLEAN
      BY DEF Modal
    <3>2. modal' = [modal EXCEPT !.news = news]
      BY <2>4 DEF OnFailed
    <3>3. modal.phase = "none" => news = modal.news
      BY <2>1, <3>1 DEF NoModal, Modal
    <3> HIDE DEF news
    <3>4. modal' \in Modal
      BY <2>1, <3>1, <3>2, ModalFields
    <3>5. modal'.phase = "none" => modal' = NoModal
      <4>1. modal'.phase = modal.phase
        BY <3>1, <3>2 DEF Modal
      <4>2. modal.phase = "none" => modal' = modal
        BY <2>1, <3>1, <3>2, <3>3, ModalFields
      <4> QED
        BY <4>1, <4>2
    <3> QED
      BY <1>1, <1>2, <2>1, <2>4, <3>4, <3>5 DEF OnFailed
  <2>5. CASE OnDeleted(m)
    <3>1. manage' \in [at : {"closed", "open", "deleting", "refreshing"}, todo : SUBSET Models,
                       by : Lists \cup {None}]
      BY <2>5 DEF OnDeleted
    <3> QED
      BY <1>1, <1>2, <2>1, <2>5, <3>1 DEF OnDeleted
  <2> QED
    BY <1>4, <2>2, <2>3, <2>4, <2>5
<1>6. CASE OnList(m)
  BY <1>1, <1>2, <1>6 DEF OnList, Message
<1> QED
  BY <1>3, <1>4, <1>6 DEF Receive, m

\* A modal that settles keeps its type.
LEMMA SettlesType ==
    ASSUME modal \in Modal, NEW as \in {"selected", "cancelled"}
    PROVE  /\ Settles(as) \in Modal
           /\ Settles(as).phase = "closing"
           /\ Settles(as).model = modal.model
           /\ Settles(as).settled
           /\ Settles(as).failed = modal.failed
           /\ Settles(as).told = Append(modal.told, as)
           /\ Settles(as).news = modal.news
<1> DEFINE said == Append(modal.told, as)
<1>1. modal.told \in Seq({"selected", "cancelled"})
  BY DEF Modal
<1>2. \A S : \A q \in Seq(S) : \A x \in S : Append(q, x) \in Seq(S)
  OBVIOUS
<1>3. said \in Seq({"selected", "cancelled"})
  BY <1>1, <1>2, Zenon
<1>4. Settles(as) = [modal EXCEPT !.settled = TRUE, !.phase = "closing", !.told = said]
  BY DEF Settles
<1> HIDE DEF said
<1>5. [modal EXCEPT !.settled = TRUE, !.phase = "closing", !.told = said] \in Modal
  BY <1>3 DEF Modal
<1> QED
  BY <1>4, <1>5 DEF Modal, said

\* So does what the player does with a modal, and the modal by itself.
LEMMA ModalTypes == ASSUME TypeOK, ModalUnsettled, DownloadModal PROVE TypeOK'
<1> USE DEF DownloadModal, Mounted
<1>1. modal \in Modal /\ selected \in Models
  BY DEF TypeOK
<1>2. Mounted => modal.model \in Models
  BY DEF ModalUnsettled
<1>3. /\ modal' \in Modal
      /\ modal'.phase = "none" => modal' = NoModal
      /\ selected' \in Models
      /\ place' \in [Calls -> {"idle", "working", "stopping"}]
  <2>1. CASE FailureSeen \/ CompletionSeen \/ DismissError
    <3>1. /\ modal' \in Modal
          /\ modal'.phase # "none"
      <4>1. CASE FailureSeen
        <5>1. modal' = [modal EXCEPT !.failed = TRUE] /\ Mounted
          BY <4>1 DEF FailureSeen
        <5> QED
          BY <1>1, <5>1 DEF Modal
      <4>2. CASE CompletionSeen
        <5> DEFINE wrong == modal.model \in stale
        <5>1. modal' = [modal EXCEPT !.hold = "running", !.misled = wrong] /\ Mounted
          BY <4>2 DEF CompletionSeen
        <5>2. wrong \in BOOLEAN
          OBVIOUS
        <5> HIDE DEF wrong
        <5> QED
          BY <1>1, <5>1, <5>2 DEF Modal
      <4>3. CASE DismissError
        <5>1. modal' = [modal EXCEPT !.settled = TRUE, !.phase = "closing"]
          BY <4>3 DEF DismissError
        <5> QED
          BY <1>1, <5>1 DEF Modal
      <4> QED
        BY <2>1, <4>1, <4>2, <4>3
    <3> QED
      BY <2>1, <3>1 DEF FailureSeen, CompletionSeen, DismissError, TypeOK
  <2>2. CASE Unmounted
    BY <1>1, <2>2 DEF Unmounted, NoModal, Modal, TypeOK
  <2>3. CASE CancelRequest \/ ClosedOutside
    BY <1>1, <2>3, SettlesType DEF CancelRequest, ClosedOutside, CancelDownload, TypeOK
  <2>4. ASSUME NEW hold \in {"no", "running", "over"}, Mounted, Selects(hold)
        PROVE  /\ modal' \in Modal
               /\ modal'.phase # "none"
               /\ selected' \in Models
    <3>1. CASE modal.settled
      BY <1>1, <2>4, <3>1 DEF Selects, Modal
    <3>2. CASE ~modal.settled
      <4> DEFINE said == Settles("selected")
      <4>1. said \in Modal /\ said.phase = "closing"
        BY <1>1, SettlesType
      <4>2. modal' = [said EXCEPT !.hold = hold] /\ selected' = modal.model
        BY <2>4, <3>2 DEF Selects
      <4> HIDE DEF said
      <4> QED
        BY <1>2, <2>4, <4>1, <4>2 DEF Modal
    <3> QED
      BY <3>1, <3>2
  <2>5. CASE HoldEnds \/ DismissCompleted
    <3>1. modal.hold \in {"no", "running", "over"} /\ Mounted
      BY <1>1, <2>5 DEF HoldEnds, DismissCompleted, Modal
    <3>2. Selects("over") \/ Selects(modal.hold)
      BY <2>5 DEF HoldEnds, DismissCompleted
    <3> QED
      BY <2>4, <2>5, <3>1, <3>2 DEF HoldEnds, DismissCompleted, TypeOK
  <2> QED
    BY <2>1, <2>2, <2>3, <2>5
<1>4. UNCHANGED <<disk, model, owner, listing, inbox, catalog, manage, stale>>
  BY DEF FailureSeen, CompletionSeen, DismissError, Unmounted, CancelRequest,
         ClosedOutside, HoldEnds, DismissCompleted
<1> QED
  BY <1>3, <1>4 DEF TypeOK

\* So does the choice of a model.
LEMMA ChoiceTypes ==
    ASSUME TypeOK, CallsNamed,
           \/ \E l \in Lists : Load(l)
           \/ \E m \in Models : Select(m) \/ \E c \in Calls : SelectMissing(c, m)
    PROVE  TypeOK' /\ CallsNamed'
<1> USE DEF TypeOK, CallsNamed
<1>1. ASSUME NEW l \in Lists, Load(l) PROVE TypeOK' /\ CallsNamed'
  BY <1>1 DEF Load, ListModels
<1>2. ASSUME NEW m \in Models, Select(m) PROVE TypeOK' /\ CallsNamed'
  BY <1>2 DEF Select
<1>3. ASSUME NEW m \in Models, NEW c \in Calls, SelectMissing(c, m)
      PROVE  TypeOK' /\ CallsNamed'
  <2>1. modal' \in Modal
    BY <1>3, ModalFields DEF SelectMissing
  <2>2. modal'.phase # "none"
    BY <1>3 DEF SelectMissing, NoModal
  <2> QED
    BY <1>3, <2>1, <2>2 DEF SelectMissing, ClearFailure
<1> QED
  BY <1>1, <1>2, <1>3

\* So does the modal that deletes models.
LEMMA ManageTypes == ASSUME TypeOK, ManageModal PROVE TypeOK'
<1> USE DEF TypeOK, ManageOnly
<1>1. CASE OpenManage \/ CloseManage
  <2>1. manage' \in [at : {"closed", "open", "deleting", "refreshing"}, todo : SUBSET Models,
                     by : Lists \cup {None}]
    BY <1>1 DEF OpenManage, CloseManage, Closed
  <2> QED
    BY <1>1, <2>1 DEF OpenManage, CloseManage
<1>2. CASE ConfirmDelete
  <2>1. PICK S \in {{m} : m \in Deletable} \cup {Deletable} :
            manage' = [manage EXCEPT !.at = "deleting", !.todo = S]
    BY <1>2 DEF ConfirmDelete
  <2>2. S \subseteq Models
    BY DEF Deletable
  <2> QED
    BY <1>2, <2>1, <2>2 DEF ConfirmDelete
<1>3. ASSUME NEW l \in Lists, Refresh(l) PROVE TypeOK'
  BY <1>3 DEF Refresh, ListModels
<1> QED
  BY <1>1, <1>2, <1>3 DEF ManageModal

\* Every step keeps the types, and a call under way is about a model.
LEMMA TypeStep ==
    ASSUME TypeOK, CallsNamed, ModalUnsettled, [Next]_vars
    PROVE  TypeOK' /\ CallsNamed'
<1>1. CASE Backend
  <2>1. ASSUME UNCHANGED call PROVE CallsNamed'
    BY <2>1 DEF CallsNamed
  <2>2. \/ \E l \in Lists : Answers(l) \/ \E m \in Models : Checks(l, m)
        \/ \E m \in Models : Deletes(m)
        => UNCHANGED call
    BY DEF Answers, Checks, Deletes
  <2> QED
    BY <1>1, <2>1, <2>2, CallTypes, ListTypes DEF Backend
<1>2. CASE Receive
  BY <1>2, ReceiveTypes DEF Receive, CallsNamed
<1>3. CASE DownloadModal
  <2>1. CallsNamed'
    <3>1. UNCHANGED model /\ \A c \in Calls : place'[c] # "idle" => place[c] # "idle"
      BY <1>3 DEF DownloadModal, FailureSeen, CompletionSeen, DismissError, Unmounted, HoldEnds,
                  CancelRequest, ClosedOutside, DismissCompleted, CancelDownload, TypeOK
    <3> QED
      BY <3>1 DEF CallsNamed
  <2> QED
    BY <1>3, <2>1, ModalTypes
<1>4. CASE ManageModal
  BY <1>4, ManageTypes DEF ManageModal, OpenManage, ConfirmDelete, CloseManage, Refresh,
                           ManageOnly, CallsNamed
<1>5. CASE UNCHANGED vars
  BY <1>5 DEF TypeOK, CallsNamed
<1> QED
  BY <1>1, <1>2, <1>3, <1>4, <1>5, ChoiceTypes DEF Next

\* What else a modal's steps and the failures that come keep.
LEMMA ModalStep ==
    ASSUME PanelInvariant, DownloadModal
    PROVE  ModalInvariant'
<1> USE DEF ModalInvariant, ModalUnsettled, SettlesOnce, FailureIsNews, NoOldFailure, Mounted
<1>1. /\ modal \in Modal
      /\ ModalInvariant
  BY DEF PanelInvariant, TypeOK
<1>2. UNCHANGED failure
  BY DEF DownloadModal, FailureSeen, CompletionSeen, DismissError, Unmounted, HoldEnds,
         CancelRequest, ClosedOutside, DismissCompleted
<1>3. CASE FailureSeen
  <2>1. modal' = [modal EXCEPT !.failed = TRUE]
    BY <1>3 DEF FailureSeen
  <2>2. failure = modal.model /\ Mounted
    BY <1>3 DEF FailureSeen
  <2> QED
    BY <1>1, <1>2, <2>1, <2>2 DEF Modal
<1>4. CASE CompletionSeen
  <2>1. modal' = [modal EXCEPT !.hold = "running", !.misled = modal.model \in stale]
    BY <1>4 DEF CompletionSeen
  <2> QED
    BY <1>1, <1>2, <2>1 DEF Modal
<1>5. CASE DismissError
  <2>1. modal' = [modal EXCEPT !.settled = TRUE, !.phase = "closing"] /\ Mounted
    BY <1>5 DEF DismissError
  <2> QED
    BY <1>1, <1>2, <2>1 DEF Modal
<1>6. CASE Unmounted
  BY <1>6 DEF Unmounted, NoModal
<1>7. ASSUME NEW as \in {"selected", "cancelled"}, NEW said \in Modal, Mounted, ~modal.settled,
             modal' = said,
             said.phase = "closing", said.model = modal.model, said.settled,
             said.failed = modal.failed, said.told = Append(modal.told, as),
             said.news = modal.news
      PROVE  ModalInvariant'
  <2>1. Len(modal'.told) = 1
    BY <1>1, <1>7
  <2>2. /\ modal'.phase = "closing" /\ modal'.settled
        /\ modal'.model = modal.model /\ modal'.failed = modal.failed
        /\ modal'.news = modal.news
    BY <1>7
  <2>3. modal.model \in Models /\ (modal.failed => modal.news)
        /\ (failure = modal.model => modal.news)
    BY <1>1, <1>7
  <2> QED
    BY <1>2, <2>1, <2>2, <2>3
<1>8. CASE CancelRequest \/ ClosedOutside
  <2>1. modal' = Settles("cancelled") /\ Mounted /\ ~modal.settled
    BY <1>1, <1>8 DEF CancelRequest, ClosedOutside
  <2> QED
    BY <1>1, <1>7, <2>1, SettlesType
<1>9. ASSUME NEW hold \in {"no", "running", "over"}, Mounted, Selects(hold)
      PROVE  ModalInvariant'
  <2>1. CASE modal.settled
    <3>1. modal' = [modal EXCEPT !.hold = hold]
      BY <1>9, <2>1 DEF Selects
    <3> QED
      BY <1>1, <1>2, <1>9, <2>1, <3>1 DEF Modal
  <2>2. CASE ~modal.settled
    <3> DEFINE said == Settles("selected")
    <3>1. modal' = [said EXCEPT !.hold = hold]
      BY <1>9, <2>2 DEF Selects
    <3>2. /\ said \in Modal /\ said.phase = "closing" /\ said.model = modal.model
          /\ said.settled /\ said.failed = modal.failed
          /\ said.told = Append(modal.told, "selected") /\ said.news = modal.news
      BY <1>1, SettlesType
    <3> HIDE DEF said
    <3> DEFINE held == [said EXCEPT !.hold = hold]
    <3>3. /\ held \in Modal /\ held.phase = "closing" /\ held.model = modal.model
          /\ held.settled /\ held.failed = modal.failed
          /\ held.told = Append(modal.told, "selected") /\ held.news = modal.news
      BY <1>9, <3>2 DEF Modal
    <3>4. modal' = held
      BY <3>1
    <3> HIDE DEF held
    <3> QED
      BY <1>7, <1>9, <2>2, <3>3, <3>4
  <2> QED
    BY <2>1, <2>2
<1>10. CASE HoldEnds \/ DismissCompleted
  <2>1. modal.hold \in {"no", "running", "over"} /\ Mounted
    BY <1>1, <1>10 DEF HoldEnds, DismissCompleted, Modal
  <2>2. Selects("over") \/ Selects(modal.hold)
    BY <1>10 DEF HoldEnds, DismissCompleted
  <2> QED
    BY <1>9, <2>1, <2>2
<1> QED
  BY <1>3, <1>4, <1>5, <1>6, <1>8, <1>10 DEF DownloadModal

\* And every step keeps it.
LEMMA ModalKept == ASSUME PanelInvariant, [Next]_vars PROVE ModalInvariant'
<1>2. ModalInvariant /\ modal \in Modal
  BY DEF PanelInvariant, TypeOK
<1>3. UNCHANGED <<modal, failure>> => ModalInvariant'
  BY <1>2 DEF ModalInvariant, ModalUnsettled, SettlesOnce, FailureIsNews, NoOldFailure, Mounted
<1>4. CASE Receive
  <2> DEFINE m == Head(inbox)
  <2>1. CASE OnFailed(m)
    <3>1. modal' = [modal EXCEPT !.news = modal.news \/ modal.model = m.model]
      BY <2>1 DEF OnFailed
    <3>2. /\ modal'.phase = modal.phase /\ modal'.model = modal.model
          /\ modal'.settled = modal.settled /\ modal'.told = modal.told
          /\ modal'.failed = modal.failed
          /\ modal'.news = (modal.news \/ modal.model = m.model)
      BY <1>2, <3>1 DEF Modal
    <3>3. failure' = m.model
      BY <2>1 DEF OnFailed
    <3>4. ModalUnsettled' /\ SettlesOnce'
      BY <1>2, <3>2 DEF ModalInvariant, ModalUnsettled, SettlesOnce, Mounted
    <3>5. FailureIsNews' /\ NoOldFailure'
      BY <1>2, <3>2, <3>3 DEF ModalInvariant, FailureIsNews, NoOldFailure, Mounted
    <3> QED
      BY <3>4, <3>5 DEF ModalInvariant
  <2>2. CASE OnComplete(m)
    <3>1. failure' = None /\ UNCHANGED modal
      BY <2>2 DEF OnComplete
    <3> QED
      BY <1>2, <3>1 DEF ModalInvariant, ModalUnsettled, SettlesOnce, FailureIsNews, NoOldFailure,
                        Mounted
  <2>3. CASE OnProgress(m) \/ OnCancelled(m) \/ OnSetupStopped(m) \/ OnDeleted(m) \/ OnList(m)
    <3>1. UNCHANGED <<modal, failure>>
      BY <2>3 DEF OnProgress, OnCancelled, OnSetupStopped, OnDeleted, OnList
    <3> QED
      BY <1>3, <3>1
  <2> QED
    BY <1>4, <2>1, <2>2, <2>3 DEF Receive
<1>5. ASSUME NEW m \in Models, NEW c \in Calls, SelectMissing(c, m) PROVE ModalInvariant'
  <2>1. modal' = [NoModal EXCEPT !.phase = "open", !.model = m] /\ failure' = None
    BY <1>5 DEF SelectMissing, ClearFailure
  <2> QED
    BY <2>1 DEF NoModal, ModalInvariant, ModalUnsettled, SettlesOnce, FailureIsNews, NoOldFailure,
                Mounted
<1>6. CASE Backend \/ ManageModal \/ (\E l \in Lists : Load(l)) \/ (\E m \in Models : Select(m))
  <2>1. UNCHANGED <<modal, failure>>
    BY <1>6 DEF Backend, ManageModal, Progresses, Completes, Fails, StopsComplete,
                SetupDownloads, Checks, Answers, Deletes, OpenManage, ConfirmDelete,
                CloseManage, Refresh, ManageOnly, Load, Select
  <2> QED
    BY <1>3, <2>1
<1>7. CASE UNCHANGED vars
  <2>1. UNCHANGED <<modal, failure>>
    BY <1>7
  <2> QED
    BY <1>3, <2>1
<1> QED
  BY <1>4, <1>5, <1>6, <1>7, ModalStep DEF Next

-----------------------------------------------------------------------------
(* The channel *)

\* What is sent is the last message.
LEMMA SendIsLast ==
    ASSUME inbox \in Seq(Message), NEW n \in Message, Send(n)
    PROVE  /\ Len(inbox') = Len(inbox) + 1
           /\ inbox'[Len(inbox')] = n
           /\ \A i \in Numbers(inbox) : inbox'[i] = inbox[i]
           /\ Len(inbox) \in Nat
  BY DEF Send, Numbers

\* Once the first message is taken the others are one place further on.
LEMMA ReceiveIsFirst ==
    ASSUME inbox \in Seq(Message), Receive
    PROVE  /\ Len(inbox') = Len(inbox) - 1
           /\ inbox[1] = Head(inbox)
           /\ 1 \in Numbers(inbox)
           /\ \A i \in Numbers(inbox') : inbox'[i] = inbox[i + 1]
           /\ Len(inbox) \in Nat /\ Len(inbox') \in Nat
           /\ Head(inbox) \in Message
  BY DEF Receive, Numbers

Ending == {"complete", "cancelled", "stopped", "failed"}

\* What a message of the backend says of the step that sends it.
Announces(n) ==
    /\ disk' = CASE n.kind \in {"complete", "stopped", "setupStopped"} -> disk \cup {n.model}
                 [] n.kind = "deleted" -> disk \ {n.model}
                 [] OTHER -> disk
    /\ n.kind = "list" =>
            \A m \in Models : m \in n.dirty \/ (m \in n.found <=> m \in disk)
    /\ n.kind \in {"deleted", "refused"} =>
            manage.at = "deleting" /\ n.model \in manage.todo /\ ~Answered
    /\ n.kind = "progress" /\ n.by = "panel" => Working
    /\ Working => Working' \/ n.kind \in Ending

\* Every change of the disk is announced, and so is the end of a download of the panel.
LEMMA BackendAnnounces ==
    ASSUME TypeOK, CallsNamed, ListingsRight, Backend
    PROVE  /\ UNCHANGED <<selected, catalog, modal, manage, stale>>
           /\ \/ UNCHANGED <<disk, inbox>> /\ (Working => Working')
              \/ \E n \in Message : Send(n) /\ Announces(n)
<1> USE DEF TypeOK, CallsNamed, Owner
<1>1. ASSUME NEW c \in Calls, Progresses(c) PROVE \E n \in Message : Send(n) /\ Announces(n)
  <2> PICK n \in Message : n = [kind |-> "progress", model |-> model[c], by |-> owner[c]]
    BY <1>1 DEF Progresses, Message
  <2>1. Send(n) /\ UNCHANGED <<disk, place, owner>>
    BY <1>1 DEF Progresses
  <2>2. n.by = "panel" => Working
    BY <1>1 DEF Progresses, Working
  <2>3. Announces(n)
    BY <2>1, <2>2 DEF Announces, Working
  <2> QED
    BY <2>1, <2>3
<1>2. ASSUME NEW c \in Calls, NEW n \in Message, n.kind \in Ending, Send(n),
             disk' = CASE n.kind \in {"complete", "stopped"} -> disk \cup {n.model}
                       [] OTHER -> disk
      PROVE  \E m \in Message : Send(m) /\ Announces(m)
  BY <1>2 DEF Announces, Ending
<1>3. ASSUME NEW c \in Calls, Completes(c) PROVE \E n \in Message : Send(n) /\ Announces(n)
  <2> PICK n \in Message : n = [kind |-> "complete", model |-> model[c]]
    BY <1>3 DEF Completes, Message
  <2> QED
    BY <1>2, <1>3 DEF Completes, Ending
<1>4. ASSUME NEW c \in Calls, StopsComplete(c)
      PROVE  \E n \in Message : Send(n) /\ Announces(n)
  <2>1. CASE owner[c] = "panel"
    <3> PICK n \in Message : n = [kind |-> "stopped", model |-> model[c]]
      BY <1>4 DEF StopsComplete, Message
    <3> QED
      BY <1>2, <1>4, <2>1 DEF StopsComplete, Ending
  <2>2. CASE owner[c] # "panel"
    <3> PICK n \in Message : n = [kind |-> "setupStopped", model |-> model[c]]
      BY <1>4 DEF StopsComplete, Message
    <3>1. Send(n) /\ disk' = disk \cup {n.model}
      BY <1>4, <2>2 DEF StopsComplete
    <3>2. Working => Working'
      BY <1>4, <2>2 DEF StopsComplete, Ends, Working
    <3> QED
      BY <3>1, <3>2 DEF Announces
  <2> QED
    BY <2>1, <2>2
<1>5. ASSUME NEW c \in Calls, Fails(c)
      PROVE  \/ UNCHANGED <<disk, inbox>> /\ (Working => Working')
             \/ \E n \in Message : Send(n) /\ Announces(n)
  <2>1. CASE owner[c] = "panel"
    <3>1. \E kind \in {"failed", "cancelled"} : Send([kind |-> kind, model |-> model[c]])
      BY <1>5, <2>1 DEF Fails
    <3>2. PICK kind \in {"failed", "cancelled"} : Send([kind |-> kind, model |-> model[c]])
      BY <3>1
    <3> PICK n \in Message : n = [kind |-> kind, model |-> model[c]]
      BY <1>5 DEF Fails, Message
    <3> QED
      BY <1>2, <1>5, <3>2 DEF Fails, Ending
  <2>2. CASE owner[c] # "panel"
    BY <1>5, <2>2 DEF Fails, Ends, Working
  <2> QED
    BY <2>1, <2>2
<1>6. ASSUME NEW c \in Calls, SetupDownloads(c)
      PROVE  UNCHANGED <<disk, inbox>> /\ (Working => Working')
  BY <1>6 DEF SetupDownloads, Working
<1>7. ASSUME NEW l \in Lists, NEW m \in Models, Checks(l, m)
      PROVE  UNCHANGED <<disk, inbox>> /\ (Working => Working')
  BY <1>7 DEF Checks, Working
<1>8. ASSUME NEW l \in Lists, Answers(l) PROVE \E n \in Message : Send(n) /\ Announces(n)
  <2>1. UNCHANGED <<disk, place, owner>>
    BY <1>8 DEF Answers
  <2>2. CASE Send([kind |-> "unlisted", id |-> l])
    <3> PICK n \in Message : n = [kind |-> "unlisted", id |-> l]
      BY DEF Message
    <3> QED
      BY <2>1, <2>2 DEF Announces, Working
  <2>3. CASE /\ listing[l].checked = Models
             /\ Send([kind |-> "list", id |-> l, found |-> listing[l].found,
                      dirty |-> listing[l].dirty])
    <3> PICK n \in Message : n = [kind |-> "list", id |-> l, found |-> listing[l].found,
                                  dirty |-> listing[l].dirty]
      BY <1>8 DEF Answers, Message
    <3>1. \A m \in Models : m \in n.dirty \/ (m \in n.found <=> m \in disk)
      BY <1>8, <2>3 DEF Answers, ListingsRight
    <3> QED
      BY <2>1, <2>3, <3>1 DEF Announces, Working
  <2> QED
    BY <1>8, <2>2, <2>3 DEF Answers
<1>9. ASSUME NEW m \in Models, Deletes(m) PROVE \E n \in Message : Send(n) /\ Announces(n)
  <2>1. manage.at = "deleting" /\ m \in manage.todo /\ ~Answered /\ UNCHANGED <<place, owner>>
    BY <1>9 DEF Deletes
  <2>2. CASE Send([kind |-> "refused", model |-> m]) /\ UNCHANGED disk
    <3> PICK n \in Message : n = [kind |-> "refused", model |-> m]
      BY DEF Message
    <3> QED
      BY <2>1, <2>2 DEF Announces, Working
  <2>3. CASE Send([kind |-> "deleted", model |-> m]) /\ disk' = disk \ {m}
    <3> PICK n \in Message : n = [kind |-> "deleted", model |-> m]
      BY DEF Message
    <3> QED
      BY <2>1, <2>3 DEF Announces, Working
  <2> QED
    BY <1>9, <2>2, <2>3 DEF Deletes
<1>10. UNCHANGED <<selected, catalog, modal, manage, stale>>
  BY DEF Backend, Progresses, Completes, Fails, StopsComplete, SetupDownloads, Checks, Answers,
         Deletes
<1> QED
  BY <1>1, <1>3, <1>4, <1>5, <1>6, <1>7, <1>8, <1>9, <1>10 DEF Backend

-----------------------------------------------------------------------------
(* The catalogue *)

\* What is sent keeps the last word on each model right, and so the catalogue.
LEMMA SendRight ==
    ASSUME TypeOK, CatalogueInvariant, NEW n \in Message, Send(n), Announces(n),
           UNCHANGED <<loaded, shown, stale>>
    PROVE  LastRight(inbox)' /\ ShownRight'
<1>1. /\ Len(inbox') = Len(inbox) + 1 /\ inbox'[Len(inbox')] = n
      /\ \A i \in Numbers(inbox) : inbox'[i] = inbox[i]
      /\ Len(inbox) \in Nat
  BY SendIsLast DEF TypeOK
<1>2. \A m \in Models : Tells(n, m) \/ (m \in disk' <=> m \in disk)
  BY DEF Announces, Tells
<1>3. ASSUME NEW m \in Models, Tells(n, m)
      PROVE  /\ n.kind = "complete" => m \in disk'
             /\ n.kind = "deleted" => m \notin disk'
             /\ n.kind = "list" => m \in n.dirty \/ (m \in n.found <=> m \in disk')
  BY <1>3 DEF Announces, Tells
<1>4. LastRight(inbox)'
  <2> SUFFICES ASSUME NEW m \in Models, NEW i \in 1 .. Len(inbox'), Tells(inbox'[i], m),
                      \A j \in i + 1 .. Len(inbox') : ~Tells(inbox'[j], m)
               PROVE  /\ inbox'[i].kind = "complete" => m \in disk'
                      /\ inbox'[i].kind = "deleted" => m \notin disk'
                      /\ inbox'[i].kind = "list" =>
                            m \in inbox'[i].dirty \/ (m \in inbox'[i].found <=> m \in disk')
    BY DEF LastRight, Right, Numbers, Tells
  <2>1. CASE i = Len(inbox')
    BY <1>1, <1>3, <2>1
  <2>2. CASE i # Len(inbox')
    <3>1. i \in Numbers(inbox) /\ inbox'[i] = inbox[i] /\ ~Tells(n, m)
      BY <1>1, <2>2 DEF Numbers
    <3>2. \A j \in i + 1 .. Len(inbox) : ~Tells(inbox[j], m)
      BY <1>1, <3>1 DEF Numbers
    <3>3. Right(inbox[i], m)
      BY <3>1, <3>2 DEF CatalogueInvariant, LastRight
    <3> QED
      BY <1>2, <3>1, <3>3 DEF Right
  <2> QED
    BY <2>1, <2>2
<1>5. ShownRight'
  <2> SUFFICES ASSUME loaded, NEW m \in Models \ stale,
                      \A i \in 1 .. Len(inbox') : ~Tells(inbox'[i], m)
               PROVE  m \in shown <=> m \in disk'
    BY DEF ShownRight, Numbers, Tells
  <2>1. ~Tells(n, m) /\ \A i \in Numbers(inbox) : ~Tells(inbox[i], m)
    BY <1>1 DEF Numbers
  <2> QED
    BY <1>2, <2>1 DEF CatalogueInvariant, ShownRight
<1> QED
  BY <1>4, <1>5

\* The panel makes of a message what the disk is, when it is the last on its model.
LEMMA ReceiveRight ==
    ASSUME TypeOK, CatalogueInvariant, Receive
    PROVE  CatalogueInvariant'
<1>1. /\ Len(inbox') = Len(inbox) - 1
      /\ inbox[1] = Head(inbox) /\ 1 \in Numbers(inbox) /\ Head(inbox) \in Message
      /\ \A i \in Numbers(inbox') : inbox'[i] = inbox[i + 1]
      /\ Len(inbox) \in Nat /\ Len(inbox') \in Nat
  BY ReceiveIsFirst DEF TypeOK
<1>2. UNCHANGED <<disk, listing>>
  BY DEF Receive
<1>3. ListingsRight'
  BY <1>2 DEF CatalogueInvariant, ListingsRight
<1>4. LastRight(inbox)'
  <2> SUFFICES ASSUME NEW m \in Models, NEW i \in 1 .. Len(inbox'), Tells(inbox'[i], m),
                      \A j \in i + 1 .. Len(inbox') : ~Tells(inbox'[j], m)
               PROVE  Right(inbox[i + 1], m) /\ inbox'[i] = inbox[i + 1]
    BY <1>2 DEF LastRight, Right, Numbers, Tells
  <2>1. inbox'[i] = inbox[i + 1] /\ i + 1 \in Numbers(inbox)
    BY <1>1 DEF Numbers
  <2>2. ASSUME NEW j \in (i + 1) + 1 .. Len(inbox) PROVE ~Tells(inbox[j], m)
    <3>1. j - 1 \in i + 1 .. Len(inbox') /\ j - 1 \in 1 .. Len(inbox') /\ (j - 1) + 1 = j
      BY <1>1
    <3>2. inbox'[j - 1] = inbox[j]
      BY <1>1, <3>1 DEF Numbers
    <3> QED
      BY <3>1, <3>2
  <2> QED
    BY <2>1, <2>2 DEF CatalogueInvariant, LastRight
<1>5. ShownRight'
  <2> SUFFICES ASSUME loaded', NEW m \in Models, m \notin stale',
                      \A i \in 1 .. Len(inbox') : ~Tells(inbox'[i], m)
               PROVE  m \in shown' <=> m \in disk
    BY <1>2 DEF ShownRight, Numbers, Tells
  <2>1. \A i \in Numbers(inbox) : i # 1 => ~Tells(inbox[i], m)
    <3> SUFFICES ASSUME NEW i \in Numbers(inbox), i # 1 PROVE ~Tells(inbox[i], m)
      OBVIOUS
    <3>1. i - 1 \in 1 .. Len(inbox') /\ (i - 1) + 1 = i
      BY <1>1 DEF Numbers
    <3> QED
      BY <1>1, <3>1 DEF Numbers
  <2> DEFINE n == Head(inbox)
  <2>2. Tells(n, m) => Right(n, m)
    BY <1>1, <2>1 DEF CatalogueInvariant, LastRight, Numbers
  <2>3. ~Tells(n, m) /\ loaded /\ m \notin stale => (m \in shown <=> m \in disk)
    BY <1>1, <2>1 DEF CatalogueInvariant, ShownRight
  <2>4. \/ OnProgress(n) \/ OnComplete(n) \/ OnCancelled(n) \/ OnSetupStopped(n)
        \/ OnFailed(n) \/ OnDeleted(n) \/ OnList(n)
    BY DEF Receive
  <2> HIDE DEF n
  <2>5. CASE OnProgress(n) \/ OnFailed(n)
    BY <2>3, <2>5 DEF OnProgress, OnFailed, Tells
  <2>6. CASE OnComplete(n)
    BY <2>2, <2>3, <2>6 DEF OnComplete, Tells, Right
  <2>7. CASE OnCancelled(n) \/ OnSetupStopped(n)
    BY <2>2, <2>3, <2>7 DEF OnCancelled, OnSetupStopped, Tells, Right
  <2>8. CASE OnDeleted(n)
    BY <2>2, <2>3, <2>8 DEF OnDeleted, Tells, Right
  <2>9. CASE OnList(n)
    BY <2>2, <2>3, <2>9 DEF OnList, Tells, Right
  <2> QED
    BY <2>4, <2>5, <2>6, <2>7, <2>8, <2>9
<1> QED
  BY <1>3, <1>4, <1>5 DEF CatalogueInvariant

\* A change of the disk is noted in the lists that have looked at the model.
LEMMA ListingsKept ==
    ASSUME PanelInvariant, [Next]_vars
    PROVE  ListingsRight'
<1> USE DEF ListingsRight
<1>1. ListingsRight /\ TypeOK
  BY DEF PanelInvariant, CatalogueInvariant
<1>2. UNCHANGED <<disk, listing>> => ListingsRight'
  BY <1>1
<1>3. ASSUME NEW m \in Models, Changed(m), disk' \in {disk \cup {m}, disk \ {m}}
      PROVE  ListingsRight'
  <2> SUFFICES ASSUME NEW l \in Lists, listing'[l] # None
               PROVE  /\ listing'[l].found \subseteq listing'[l].checked
                      /\ \A x \in listing'[l].checked :
                            \/ x \in listing'[l].dirty
                            \/ x \in listing'[l].found <=> x \in disk'
    BY DEF ListingsRight
  <2>1. listing[l] # None
    BY <1>3 DEF Changed
  <2>2. CASE m \in listing[l].checked
    <3>1. listing'[l] = [listing[l] EXCEPT !.dirty = @ \cup {m}]
      BY <1>3, <2>1, <2>2 DEF Changed
    <3>2. listing[l] \in [checked : SUBSET Models, found : SUBSET Models, dirty : SUBSET Models]
      BY <1>1, <2>1 DEF TypeOK
    <3>3. /\ listing'[l].found = listing[l].found /\ listing'[l].checked = listing[l].checked
          /\ listing'[l].dirty = listing[l].dirty \cup {m}
      BY <3>1, <3>2
    <3> QED
      BY <1>1, <1>3, <2>1, <3>3
  <2>3. CASE m \notin listing[l].checked
    <3>1. listing'[l] = listing[l]
      BY <1>3, <2>3 DEF Changed
    <3> QED
      BY <1>1, <1>3, <2>1, <2>3, <3>1
  <2> QED
    BY <2>2, <2>3
<1>4. CASE Backend
  <2>1. CASE \E c \in Calls : Progresses(c) \/ Fails(c) \/ SetupDownloads(c)
    <3>1. UNCHANGED <<disk, listing>>
      BY <2>1 DEF Progresses, Fails, SetupDownloads
    <3> QED
      BY <1>2, <3>1
  <2>2. ASSUME NEW c \in Calls, Completes(c) \/ StopsComplete(c) PROVE ListingsRight'
    <3>1. model[c] \in Models /\ Changed(model[c]) /\ disk' = disk \cup {model[c]}
      BY <2>2 DEF Completes, StopsComplete, PanelInvariant, CallsNamed
    <3> QED
      BY <1>3, <3>1 DEF Changed
  <2>3. ASSUME NEW m \in Models, Deletes(m) PROVE ListingsRight'
    <3>1. \/ UNCHANGED <<disk, listing>>
          \/ Changed(m) /\ disk' = disk \ {m}
      BY <2>3 DEF Deletes
    <3> QED
      BY <1>2, <1>3, <3>1
  <2>4. ASSUME NEW l \in Lists, NEW m \in Models, Checks(l, m) PROVE ListingsRight'
    <3>1. listing[l] \in [checked : SUBSET Models, found : SUBSET Models, dirty : SUBSET Models]
      BY <1>1, <2>4 DEF TypeOK, Checks
    <3> DEFINE looked == [listing[l] EXCEPT !.checked = @ \cup {m},
                                            !.found = IF m \in disk THEN @ \cup {m} ELSE @]
    <3>2. listing' = [listing EXCEPT ![l] = looked] /\ UNCHANGED disk
      BY <1>1, <2>4 DEF Checks, TypeOK
    <3>3. /\ looked.checked = listing[l].checked \cup {m}
          /\ looked.dirty = listing[l].dirty
          /\ looked.found = IF m \in disk THEN listing[l].found \cup {m} ELSE listing[l].found
      BY <3>1
    <3>4. /\ looked.found \subseteq looked.checked
          /\ \A x \in looked.checked : x \in looked.dirty \/ (x \in looked.found <=> x \in disk)
      BY <1>1, <2>4, <3>3 DEF Checks
    <3> HIDE DEF looked
    <3>5. \A k \in Lists : listing'[k] = IF k = l THEN looked ELSE listing[k]
      BY <1>1, <3>2 DEF TypeOK
    <3> QED
      BY <1>1, <3>2, <3>4, <3>5
  <2>5. ASSUME NEW l \in Lists, Answers(l) PROVE ListingsRight'
    <3>1. UNCHANGED disk /\ \A k \in Lists : listing'[k] = IF k = l THEN None ELSE listing[k]
      BY <1>1, <2>5 DEF Answers, TypeOK
    <3> QED
      BY <1>1, <3>1
  <2> QED
    BY <1>4, <2>1, <2>2, <2>3, <2>4, <2>5 DEF Backend
<1>5. ASSUME NEW l \in Lists, ListModels(l), UNCHANGED disk PROVE ListingsRight'
  <2>1. \A k \in Lists : listing'[k] = IF k = l THEN [checked |-> {}, found |-> {}, dirty |-> {}]
                                       ELSE listing[k]
    BY <1>1, <1>5 DEF ListModels, TypeOK
  <2> QED
    BY <1>1, <1>5, <2>1
<1>6. ASSUME NEW l \in Lists, Load(l) \/ Refresh(l) PROVE ListingsRight'
  BY <1>5, <1>6 DEF Load, Refresh, ManageOnly
<1>7. CASE Receive \/ DownloadModal \/ OpenManage \/ ConfirmDelete \/ CloseManage
           \/ (\E m \in Models : Select(m) \/ \E c \in Calls : SelectMissing(c, m))
           \/ UNCHANGED vars
  <2>1. UNCHANGED <<disk, listing>>
    BY <1>7 DEF Receive, OpenManage, ConfirmDelete, CloseManage, ManageOnly, Select,
                SelectMissing, DownloadModal, FailureSeen, CompletionSeen, DismissError,
                Unmounted, HoldEnds, CancelRequest, ClosedOutside, DismissCompleted
  <2> QED
    BY <1>2, <2>1
<1> QED
  BY <1>4, <1>6, <1>7 DEF Next, ManageModal

-----------------------------------------------------------------------------
(* What is claimed to be installed *)

\* A message that is sent is behind every deletion that has not been heard of yet, and
\* only the answer to a deletion says that a file went.
LEMMA SendBacked ==
    ASSUME TypeOK, ListingsRight, ChoiceInvariant, NEW n \in Message, Send(n), Announces(n),
           UNCHANGED <<loaded, shown, stale>>
    PROVE  ClaimsBacked(inbox)' /\ ShownBacked'
<1>1. /\ Len(inbox') = Len(inbox) + 1 /\ inbox'[Len(inbox')] = n
      /\ \A i \in Numbers(inbox) : inbox'[i] = inbox[i]
      /\ Len(inbox) \in Nat
  BY SendIsLast DEF TypeOK
<1>2. ASSUME NEW i \in Nat \ {0}, i <= Len(inbox'), NEW m \in Models,
             m \in disk \/ Gone(inbox, i, m)
      PROVE  m \in disk' \/ \E j \in i .. Len(inbox') :
                                    inbox'[j].kind = "deleted" /\ inbox'[j].model = m
  <2>1. CASE Gone(inbox, i, m)
    <3>1. PICK j \in i .. Len(inbox) : inbox[j].kind = "deleted" /\ inbox[j].model = m
      BY <2>1 DEF Gone
    <3>2. j \in i .. Len(inbox') /\ inbox'[j] = inbox[j]
      BY <1>1, <1>2, <3>1 DEF Numbers
    <3> QED
      BY <3>1, <3>2
  <2>2. CASE m \in disk /\ m \notin disk'
    <3>1. n.kind = "deleted" /\ n.model = m
      BY <2>2 DEF Announces
    <3>2. Len(inbox') \in i .. Len(inbox')
      BY <1>1, <1>2
    <3> QED
      BY <1>1, <3>1, <3>2
  <2> QED
    BY <1>2, <2>1, <2>2
<1>3. ClaimsBacked(inbox)'
  <2> SUFFICES ASSUME NEW m \in Models, NEW i \in 1 .. Len(inbox'), Claims(inbox'[i], m)
               PROVE  m \in disk' \/ \E j \in i + 1 .. Len(inbox') :
                                            inbox'[j].kind = "deleted" /\ inbox'[j].model = m
    BY DEF ClaimsBacked, Claims, Gone, Numbers
  <2>1. CASE i = Len(inbox')
    <3>1. Claims(n, m)
      BY <1>1, <2>1
    <3> QED
      BY <3>1 DEF Claims, Announces
  <2>2. CASE i # Len(inbox')
    <3>1. i \in Numbers(inbox) /\ inbox'[i] = inbox[i] /\ i + 1 <= Len(inbox')
          /\ i + 1 \in Nat \ {0}
      BY <1>1, <2>2 DEF Numbers
    <3>2. m \in disk \/ Gone(inbox, i + 1, m)
      BY <3>1 DEF ChoiceInvariant, ClaimsBacked
    <3> QED
      BY <1>2, <3>1, <3>2
  <2> QED
    BY <2>1, <2>2
<1>4. ShownBacked'
  <2> SUFFICES ASSUME NEW m \in shown \ stale
               PROVE  m \in disk' \/ \E j \in 1 .. Len(inbox') :
                                            inbox'[j].kind = "deleted" /\ inbox'[j].model = m
    BY DEF ShownBacked, Gone
  <2>1. m \in Models /\ (m \in disk \/ Gone(inbox, 1, m))
    BY DEF ChoiceInvariant, ShownBacked, TypeOK
  <2>2. 1 <= Len(inbox') /\ 1 \in Nat \ {0}
    BY <1>1
  <2> QED
    BY <1>2, <2>1, <2>2
<1> QED
  BY <1>3, <1>4

\* What the panel receives as installed it may show.
LEMMA ReceiveBacked ==
    ASSUME TypeOK, ChoiceInvariant, Receive
    PROVE  ClaimsBacked(inbox)' /\ ShownBacked'
<1>1. /\ Len(inbox') = Len(inbox) - 1
      /\ inbox[1] = Head(inbox) /\ 1 \in Numbers(inbox) /\ Head(inbox) \in Message
      /\ \A i \in Numbers(inbox') : inbox'[i] = inbox[i + 1]
      /\ Len(inbox) \in Nat /\ Len(inbox') \in Nat
  BY ReceiveIsFirst DEF TypeOK
<1>2. UNCHANGED disk
  BY DEF Receive
<1>3. ASSUME NEW i \in Nat \ {0}, NEW m \in Models, Gone(inbox, i + 1, m)
      PROVE  \E j \in i .. Len(inbox') : inbox'[j].kind = "deleted" /\ inbox'[j].model = m
  <2>1. PICK j \in i + 1 .. Len(inbox) : inbox[j].kind = "deleted" /\ inbox[j].model = m
    BY <1>3 DEF Gone
  <2>2. j - 1 \in i .. Len(inbox') /\ j - 1 \in Numbers(inbox') /\ (j - 1) + 1 = j
    BY <1>1 DEF Numbers
  <2>3. inbox'[j - 1] = inbox[j]
    BY <1>1, <2>2
  <2> QED
    BY <2>1, <2>2, <2>3
<1>4. ClaimsBacked(inbox)'
  <2> SUFFICES ASSUME NEW m \in Models, NEW i \in 1 .. Len(inbox'), Claims(inbox'[i], m)
               PROVE  m \in disk' \/ \E j \in i + 1 .. Len(inbox') :
                                            inbox'[j].kind = "deleted" /\ inbox'[j].model = m
    BY DEF ClaimsBacked, Claims, Gone, Numbers
  <2>1. inbox'[i] = inbox[i + 1] /\ i + 1 \in Numbers(inbox) /\ i + 1 \in Nat \ {0}
    BY <1>1 DEF Numbers
  <2>2. m \in disk \/ Gone(inbox, (i + 1) + 1, m)
    BY <2>1 DEF ChoiceInvariant, ClaimsBacked
  <2> QED
    BY <1>2, <1>3, <2>1, <2>2
<1>5. ShownBacked'
  <2> SUFFICES ASSUME NEW m \in shown', m \notin stale'
               PROVE  m \in disk \/ \E j \in 1 .. Len(inbox') :
                                            inbox'[j].kind = "deleted" /\ inbox'[j].model = m
    BY <1>2 DEF ShownBacked, Gone
  <2> DEFINE n == Head(inbox)
  <2>1. m \in Models
    BY ReceiveTypes DEF TypeOK
  <2>2. Claims(n, m) => m \in disk \/ Gone(inbox, 1 + 1, m)
    BY <1>1, <2>1 DEF ChoiceInvariant, ClaimsBacked
  <2>3. m \in shown \ stale /\ ~(n.kind = "deleted" /\ n.model = m)
        => m \in disk \/ Gone(inbox, 1 + 1, m)
    <3> SUFFICES ASSUME m \in shown \ stale, ~(n.kind = "deleted" /\ n.model = m), m \notin disk
                 PROVE  Gone(inbox, 1 + 1, m)
      OBVIOUS
    <3>1. PICK j \in 1 .. Len(inbox) : inbox[j].kind = "deleted" /\ inbox[j].model = m
      BY DEF ChoiceInvariant, ShownBacked, Gone
    <3>2. j \in 1 + 1 .. Len(inbox)
      BY <1>1, <3>1
    <3> QED
      BY <3>1, <3>2 DEF Gone
  <2>4. \/ OnProgress(n) \/ OnComplete(n) \/ OnCancelled(n) \/ OnSetupStopped(n)
        \/ OnFailed(n) \/ OnDeleted(n) \/ OnList(n)
    BY DEF Receive
  <2> HIDE DEF n
  <2>5. \/ Claims(n, m)
        \/ m \in shown \ stale /\ ~(n.kind = "deleted" /\ n.model = m)
    <3>1. CASE OnProgress(n) \/ OnFailed(n)
      BY <3>1 DEF OnProgress, OnFailed
    <3>2. CASE OnComplete(n)
      BY <3>2 DEF OnComplete, Claims
    <3>3. CASE OnCancelled(n) \/ OnSetupStopped(n)
      BY <3>3 DEF OnCancelled, OnSetupStopped
    <3>4. CASE OnDeleted(n)
      BY <3>4 DEF OnDeleted
    <3>5. CASE OnList(n)
      BY <3>5 DEF OnList, Claims
    <3> QED
      BY <2>4, <3>1, <3>2, <3>3, <3>4, <3>5
  <2> QED
    BY <1>3, <2>1, <2>2, <2>3, <2>5
<1> QED
  BY <1>4, <1>5

\* One answer of delete_model is under way at a time, to the run that waits for it.
LEMMA DeletionKept ==
    ASSUME PanelInvariant, [Next]_vars
    PROVE  DeletionHeld'
<1> DEFINE Answer(n) == n.kind \in {"deleted", "refused"}
<1>1. DeletionHeld /\ TypeOK
  BY DEF PanelInvariant, ChoiceInvariant
<1>2. UNCHANGED <<inbox, manage>> => DeletionHeld'
  BY <1>1 DEF DeletionHeld, Numbers
<1>3. ASSUME UNCHANGED inbox, \A i \in Numbers(inbox) : ~Answer(inbox[i]),
             manage'.at # "refreshing" => manage'.by = None
      PROVE  DeletionHeld'
  BY <1>3 DEF DeletionHeld, Numbers
<1>4. ASSUME NEW n \in Message, Send(n), Announces(n), UNCHANGED manage PROVE DeletionHeld'
  <2>1. /\ Len(inbox') = Len(inbox) + 1 /\ inbox'[Len(inbox')] = n
        /\ \A i \in Numbers(inbox) : inbox'[i] = inbox[i]
        /\ Len(inbox) \in Nat
    BY <1>1, <1>4, SendIsLast DEF TypeOK
  <2>2. \A i \in 1 .. Len(inbox') : i \in Numbers(inbox) \/ (inbox'[i] = n /\ i = Len(inbox'))
    BY <2>1 DEF Numbers
  <2>3. CASE Answer(n)
    <3>1. manage.at = "deleting" /\ n.model \in manage.todo
          /\ \A i \in Numbers(inbox) : ~Answer(inbox[i])
      BY <1>4, <2>3 DEF Announces, Answered, Numbers
    <3> QED
      BY <1>1, <1>4, <2>1, <2>2, <3>1 DEF DeletionHeld, Numbers
  <2>4. CASE ~Answer(n)
    BY <1>1, <1>4, <2>1, <2>2, <2>4 DEF DeletionHeld, Numbers
  <2> QED
    BY <2>3, <2>4
<1>5. CASE Backend
  BY <1>1, <1>2, <1>4, <1>5, BackendAnnounces DEF PanelInvariant, CatalogueInvariant
<1>6. CASE Receive
  <2>1. /\ Len(inbox') = Len(inbox) - 1
        /\ inbox[1] = Head(inbox) /\ 1 \in Numbers(inbox) /\ Head(inbox) \in Message
        /\ \A i \in Numbers(inbox') : inbox'[i] = inbox[i + 1]
        /\ Len(inbox) \in Nat /\ Len(inbox') \in Nat
    BY <1>1, <1>6, ReceiveIsFirst DEF TypeOK
  <2>2. \A i \in Numbers(inbox') : i + 1 \in Numbers(inbox) /\ i + 1 # 1
    BY <2>1 DEF Numbers
  <2> DEFINE n == Head(inbox)
  <2>3. CASE UNCHANGED manage
    <3>1. \A i, j \in Numbers(inbox') : i + 1 = j + 1 => i = j
      BY DEF Numbers
    <3> QED
      BY <1>1, <2>1, <2>2, <2>3, <3>1 DEF DeletionHeld, Numbers
  <2>4. CASE OnDeleted(n)
    <3>1. Answer(inbox[1])
      BY <2>1, <2>4 DEF OnDeleted
    <3>2. \A i \in Numbers(inbox') : ~Answer(inbox'[i])
      BY <1>1, <2>1, <2>2, <3>1 DEF DeletionHeld
    <3>3. manage'.at = manage.at /\ manage'.by = manage.by
      BY <1>1, <2>4 DEF OnDeleted, TypeOK
    <3> QED
      BY <1>1, <3>2, <3>3 DEF DeletionHeld, Numbers
  <2>5. CASE OnList(n) /\ manage' # manage
    <3>1. n.id \in Lists /\ manage.by = n.id /\ manage' = [at |-> "open", todo |-> {}, by |-> None]
      BY <2>1, <2>5 DEF OnList, Message
    <3>2. \A i \in Numbers(inbox) : ~Answer(inbox[i])
      BY <1>1, <3>1 DEF DeletionHeld
    <3>3. \A i \in Numbers(inbox') : ~Answer(inbox'[i])
      BY <2>1, <2>2, <3>2
    <3> QED
      BY <3>1, <3>3 DEF DeletionHeld, Numbers
  <2> QED
    BY <1>6, <2>3, <2>4, <2>5 DEF Receive, OnProgress, OnComplete, OnCancelled, OnSetupStopped,
                                  OnFailed
<1>7. CASE ManageModal
  <2>1. UNCHANGED inbox
    BY <1>7 DEF ManageModal, OpenManage, ConfirmDelete, CloseManage, Refresh, ManageOnly
  <2>2. manage.at # "deleting" => \A i \in Numbers(inbox) : ~Answer(inbox[i])
    BY <1>1 DEF DeletionHeld
  <2>3. CASE OpenManage \/ CloseManage
    BY <1>3, <2>1, <2>2, <2>3 DEF OpenManage, CloseManage, NoDialog, Closed
  <2>4. CASE ConfirmDelete
    <3>1. manage'.at = "deleting" /\ manage'.by = manage.by /\ manage.at = "open"
      BY <1>1, <2>4 DEF ConfirmDelete, TypeOK
    <3> QED
      BY <1>1, <1>3, <2>1, <2>2, <3>1 DEF DeletionHeld
  <2>5. ASSUME NEW l \in Lists, Refresh(l) PROVE DeletionHeld'
    <3>1. \A i \in Numbers(inbox) : ~Answer(inbox[i])
      BY <1>1, <2>5 DEF Refresh, DeletionHeld
    <3>2. manage'.at = "refreshing"
      BY <1>1, <2>5 DEF Refresh, TypeOK
    <3> QED
      BY <1>3, <2>1, <3>1, <3>2
  <2> QED
    BY <1>7, <2>3, <2>4, <2>5 DEF ManageModal
<1>8. CASE DownloadModal \/ UNCHANGED vars \/ (\E l \in Lists : Load(l))
           \/ (\E m \in Models : Select(m) \/ \E c \in Calls : SelectMissing(c, m))
  <2>1. UNCHANGED <<inbox, manage>>
    BY <1>8 DEF Load, Select, SelectMissing, DownloadModal, FailureSeen, CompletionSeen,
                DismissError, Unmounted, HoldEnds, CancelRequest, ClosedOutside,
                DismissCompleted
  <2> QED
    BY <1>2, <2>1
<1> QED
  BY <1>5, <1>6, <1>7, <1>8 DEF Next

\* The modals exclude each other, and a download shown as complete is there.
LEMMA HoldKept ==
    ASSUME PanelInvariant, [Next]_vars
    PROVE  OneDialog' /\ HoldBacked'
<1>1. OneDialog /\ HoldBacked /\ TypeOK /\ modal \in Modal /\ DeletionHeld /\ ShownBacked
  BY DEF PanelInvariant, ChoiceInvariant, TypeOK
<1>2. ASSUME UNCHANGED modal, manage.at = "closed" => manage'.at = "closed",
             Mounted => disk \subseteq disk'
      PROVE  OneDialog' /\ HoldBacked'
  BY <1>1, <1>2 DEF OneDialog, HoldBacked, Mounted
<1>3. ASSUME UNCHANGED <<disk, manage>>,
             modal'.phase # "none" =>
                /\ Mounted
                /\ modal'.model = modal.model /\ modal'.misled = modal.misled
                /\ modal'.hold # "no" => modal.hold # "no"
      PROVE  OneDialog' /\ HoldBacked'
  BY <1>1, <1>3 DEF OneDialog, HoldBacked, Mounted
<1>4. CASE Backend
  <2>1. UNCHANGED <<modal, manage>>
    BY <1>1, <1>4, BackendAnnounces DEF PanelInvariant, CatalogueInvariant
  <2>2. Mounted => disk \subseteq disk'
    <3>1. ASSUME Mounted, NEW m \in Models PROVE ~Deletes(m)
      BY <1>1, <3>1 DEF Deletes, OneDialog
    <3>2. ASSUME NEW c \in Calls PROVE Completes(c) \/ StopsComplete(c) => disk \subseteq disk'
      BY DEF Completes, StopsComplete
    <3>3. \/ \E c \in Calls : Progresses(c) \/ Fails(c) \/ SetupDownloads(c)
          \/ \E l \in Lists : Answers(l) \/ \E m \in Models : Checks(l, m)
          => UNCHANGED disk
      BY DEF Progresses, Fails, SetupDownloads, Answers, Checks
    <3> QED
      BY <1>4, <3>1, <3>2, <3>3 DEF Backend
  <2> QED
    BY <1>2, <2>1, <2>2
<1>5. CASE Receive
  <2> DEFINE n == Head(inbox)
  <2>1. UNCHANGED disk
    BY <1>5 DEF Receive
  <2>2. CASE OnFailed(n)
    <3>1. modal' = [modal EXCEPT !.news = modal.news \/ modal.model = n.model]
      BY <2>2 DEF OnFailed
    <3>2. /\ modal'.phase = modal.phase /\ modal'.model = modal.model
          /\ modal'.hold = modal.hold /\ modal'.misled = modal.misled
      BY <1>1, <3>1 DEF Modal
    <3> QED
      BY <1>3, <2>1, <2>2, <3>2 DEF OnFailed, Mounted
  <2>3. CASE OnDeleted(n) \/ OnList(n)
    <3>1. UNCHANGED modal
      BY <2>3 DEF OnDeleted, OnList
    <3>2. manage.at = "closed" => manage'.at = "closed"
      <4>1. CASE OnDeleted(n)
        <5>1. manage'.at = manage.at
          BY <1>1, <4>1 DEF OnDeleted, TypeOK
        <5> QED
          BY <5>1
      <4>2. CASE OnList(n)
        <5>1. manage'.at = manage.at \/ manage.by = n.id
          BY <4>2 DEF OnList
        <5>2. n.id \in Lists
          BY <1>1, <1>5, <4>2, ReceiveIsFirst DEF OnList, Message, TypeOK
        <5>3. manage.at = "closed" => manage.by = None
          BY <1>1 DEF DeletionHeld
        <5> QED
          BY <5>1, <5>2, <5>3
      <4> QED
        BY <2>3, <4>1, <4>2
    <3> QED
      BY <1>2, <2>1, <3>1, <3>2
  <2>4. CASE OnProgress(n) \/ OnComplete(n) \/ OnCancelled(n) \/ OnSetupStopped(n)
    BY <1>2, <2>1, <2>4 DEF OnProgress, OnComplete, OnCancelled, OnSetupStopped
  <2> QED
    BY <1>5, <2>2, <2>3, <2>4 DEF Receive
<1>6. CASE DownloadModal
  <2>1. UNCHANGED <<disk, manage>>
    BY <1>6 DEF DownloadModal, FailureSeen, CompletionSeen, DismissError, Unmounted, HoldEnds,
                CancelRequest, ClosedOutside, DismissCompleted
  <2>2. CASE FailureSeen
    <3>1. modal' = [modal EXCEPT !.failed = TRUE] /\ Mounted
      BY <2>2 DEF FailureSeen
    <3> QED
      BY <1>1, <1>3, <2>1, <3>1 DEF Modal
  <2>3. CASE CompletionSeen
    <3>1. /\ modal' = [modal EXCEPT !.hold = "running", !.misled = modal.model \in stale]
          /\ Mounted /\ modal.model \in shown
      BY <2>3 DEF CompletionSeen
    <3>2. /\ modal'.model = modal.model
          /\ modal'.misled = (modal.model \in stale)
      BY <1>1, <3>1 DEF Modal
    <3>3. \A i \in Numbers(inbox) : inbox[i].kind # "deleted"
      BY <1>1, <3>1 DEF DeletionHeld, OneDialog
    <3>4. modal.model \in disk \/ modal.model \in stale
      BY <1>1, <3>1, <3>3 DEF ShownBacked, Gone, Numbers
    <3>5. modal'.model \in disk' \/ modal'.misled
      BY <2>1, <3>2, <3>4, Zenon
    <3>6. OneDialog'
      BY <1>1, <2>1, <3>1 DEF OneDialog
    <3> QED
      BY <3>5, <3>6 DEF HoldBacked
  <2>4. CASE DismissError
    <3>1. modal' = [modal EXCEPT !.settled = TRUE, !.phase = "closing"] /\ Mounted
      BY <2>4 DEF DismissError, Mounted
    <3> QED
      BY <1>1, <1>3, <2>1, <3>1 DEF Modal
  <2>5. CASE Unmounted
    BY <1>3, <2>1, <2>5 DEF Unmounted, NoModal
  <2>6. CASE CancelRequest \/ ClosedOutside
    <3>1. modal' = Settles("cancelled") /\ Mounted
      BY <2>6 DEF CancelRequest, ClosedOutside, Mounted
    <3>2. /\ modal'.model = modal.model /\ modal'.misled = modal.misled
          /\ modal'.hold = modal.hold
      BY <1>1, <3>1 DEF Settles, Modal
    <3> QED
      BY <1>3, <2>1, <3>1, <3>2
  <2>7. CASE HoldEnds \/ DismissCompleted
    <3>1. Mounted /\ modal.hold # "no"
      BY <2>7 DEF HoldEnds, DismissCompleted, Mounted
    <3>2. modal'.model = modal.model /\ modal'.misled = modal.misled
      BY <1>1, <2>7 DEF HoldEnds, DismissCompleted, Selects, Settles, Modal
    <3> QED
      BY <1>3, <2>1, <3>1, <3>2
  <2> QED
    BY <1>6, <2>2, <2>3, <2>4, <2>5, <2>6, <2>7 DEF DownloadModal
<1>7. ASSUME NEW m \in Models, NEW c \in Calls, SelectMissing(c, m)
      PROVE  OneDialog' /\ HoldBacked'
  <2>1. modal' = [NoModal EXCEPT !.phase = "open", !.model = m] /\ NoDialog /\ UNCHANGED manage
    BY <1>7 DEF SelectMissing
  <2>2. modal'.hold = "no"
    BY <2>1 DEF NoModal
  <2> QED
    BY <2>1, <2>2 DEF OneDialog, HoldBacked, Mounted, NoDialog
<1>8. CASE ManageModal
  <2>1. UNCHANGED <<disk, modal>>
    BY <1>8 DEF ManageModal, OpenManage, ConfirmDelete, CloseManage, Refresh, ManageOnly
  <2>2. Mounted => UNCHANGED manage
    BY <1>1, <1>8 DEF ManageModal, OpenManage, ConfirmDelete, CloseManage, Refresh, NoDialog,
                      OneDialog, Mounted
  <2> QED
    BY <1>1, <2>1, <2>2 DEF OneDialog, HoldBacked, Mounted
<1>9. CASE UNCHANGED vars \/ (\E l \in Lists : Load(l)) \/ (\E m \in Models : Select(m))
  <2>1. UNCHANGED <<disk, modal, manage>>
    BY <1>9 DEF Load, Select
  <2> QED
    BY <1>2, <2>1
<1> QED
  BY <1>4, <1>5, <1>6, <1>7, <1>8, <1>9 DEF Next

-----------------------------------------------------------------------------
(* The progress that is shown *)

\* A download of the panel that ends says so behind every progress it has sent.
LEMMA SendEnds ==
    ASSUME TypeOK, ProgressInvariant, NEW n \in Message, Send(n), Announces(n),
           UNCHANGED download
    PROVE  ProgressInvariant'
<1>1. /\ Len(inbox') = Len(inbox) + 1 /\ inbox'[Len(inbox')] = n
      /\ \A i \in Numbers(inbox) : inbox'[i] = inbox[i]
      /\ Len(inbox) \in Nat
  BY SendIsLast DEF TypeOK
<1>2. ASSUME NEW i \in Nat \ {0}, i <= Len(inbox'), Working \/ EndsAfter(inbox, i)
      PROVE  Working' \/ \E j \in i .. Len(inbox') : inbox'[j].kind \in Ending
  <2>1. CASE EndsAfter(inbox, i)
    <3>1. PICK j \in i .. Len(inbox) : inbox[j].kind \in Ending
      BY <2>1 DEF EndsAfter, Ending
    <3>2. j \in i .. Len(inbox') /\ inbox'[j] = inbox[j]
      BY <1>1, <1>2, <3>1 DEF Numbers
    <3> QED
      BY <3>1, <3>2
  <2>2. CASE Working
    <3>1. Len(inbox') \in i .. Len(inbox')
      BY <1>1, <1>2
    <3>2. Working' \/ n.kind \in Ending
      BY <2>2 DEF Announces
    <3> QED
      BY <1>1, <3>1, <3>2
  <2> QED
    BY <1>2, <2>1, <2>2
<1>3. ProgressEnds(inbox)'
  <2> SUFFICES ASSUME NEW i \in 1 .. Len(inbox'), inbox'[i].kind = "progress",
                      inbox'[i].by = "panel"
               PROVE  Working' \/ \E j \in i + 1 .. Len(inbox') : inbox'[j].kind \in Ending
    BY DEF ProgressEnds, EndsAfter, Ending, Numbers
  <2>1. CASE i = Len(inbox')
    BY <1>1, <2>1 DEF Announces, Ending
  <2>2. CASE i # Len(inbox')
    <3>1. /\ i \in Numbers(inbox) /\ inbox'[i] = inbox[i]
          /\ i + 1 <= Len(inbox') /\ i + 1 \in Nat \ {0}
      BY <1>1, <2>2 DEF Numbers
    <3>2. Working \/ EndsAfter(inbox, i + 1)
      BY <3>1 DEF ProgressInvariant, ProgressEnds
    <3> QED
      BY <1>2, <3>1, <3>2
  <2> QED
    BY <2>1, <2>2
<1>4. ShownEnds'
  <2> SUFFICES ASSUME download # None, download.by = "panel"
               PROVE  Working' \/ \E j \in 1 .. Len(inbox') : inbox'[j].kind \in Ending
    BY DEF ShownEnds, EndsAfter, Ending
  <2>1. 1 <= Len(inbox') /\ 1 \in Nat \ {0}
    BY <1>1
  <2> QED
    BY <1>2, <2>1 DEF ProgressInvariant, ShownEnds
<1> QED
  BY <1>3, <1>4 DEF ProgressInvariant

\* The end of a download takes its progress away.
LEMMA ReceiveEnds ==
    ASSUME TypeOK, ProgressInvariant, Receive
    PROVE  ProgressInvariant'
<1>1. /\ Len(inbox') = Len(inbox) - 1
      /\ inbox[1] = Head(inbox) /\ 1 \in Numbers(inbox) /\ Head(inbox) \in Message
      /\ \A i \in Numbers(inbox') : inbox'[i] = inbox[i + 1]
      /\ Len(inbox) \in Nat /\ Len(inbox') \in Nat
  BY ReceiveIsFirst DEF TypeOK
<1>2. Working' = Working
  BY DEF Receive, Working
<1>3. ASSUME NEW i \in Nat \ {0}, EndsAfter(inbox, i + 1)
      PROVE  \E j \in i .. Len(inbox') : inbox'[j].kind \in Ending
  <2>1. PICK j \in i + 1 .. Len(inbox) : inbox[j].kind \in Ending
    BY <1>3 DEF EndsAfter, Ending
  <2>2. j - 1 \in i .. Len(inbox') /\ j - 1 \in Numbers(inbox') /\ (j - 1) + 1 = j
    BY <1>1 DEF Numbers
  <2>3. inbox'[j - 1] = inbox[j]
    BY <1>1, <2>2
  <2> QED
    BY <2>1, <2>2, <2>3
<1>4. ProgressEnds(inbox)'
  <2> SUFFICES ASSUME NEW i \in 1 .. Len(inbox'), inbox'[i].kind = "progress",
                      inbox'[i].by = "panel"
               PROVE  Working' \/ \E j \in i + 1 .. Len(inbox') : inbox'[j].kind \in Ending
    BY DEF ProgressEnds, EndsAfter, Ending, Numbers
  <2>1. inbox'[i] = inbox[i + 1] /\ i + 1 \in Numbers(inbox) /\ i + 1 \in Nat \ {0}
    BY <1>1 DEF Numbers
  <2>2. Working \/ EndsAfter(inbox, (i + 1) + 1)
    BY <2>1 DEF ProgressInvariant, ProgressEnds
  <2> QED
    BY <1>2, <1>3, <2>1, <2>2
<1>5. ShownEnds'
  <2> SUFFICES ASSUME download' # None, download'.by = "panel", ~Working
               PROVE  EndsAfter(inbox, 1 + 1)
    BY <1>2, <1>3 DEF ShownEnds, EndsAfter, Ending
  <2> DEFINE n == Head(inbox)
  <2>1. \/ OnProgress(n) \/ OnComplete(n) \/ OnCancelled(n) \/ OnSetupStopped(n)
        \/ OnFailed(n) \/ OnDeleted(n) \/ OnList(n)
    BY DEF Receive
  <2>2. n = inbox[1]
    BY <1>1
  <2> HIDE DEF n
  <2>3. CASE OnProgress(n)
    <3>1. n.by = "panel" /\ n.kind = "progress"
      BY <2>3 DEF OnProgress
    <3> QED
      BY <1>1, <2>2, <3>1 DEF ProgressInvariant, ProgressEnds
  <2>4. CASE OnDeleted(n) \/ OnList(n) \/ OnSetupStopped(n)
    <3>1. UNCHANGED download /\ n.kind \notin Ending
      BY <2>4 DEF OnDeleted, OnList, OnSetupStopped, Ending
    <3>2. PICK j \in 1 .. Len(inbox) : inbox[j].kind \in Ending
      BY <3>1 DEF ProgressInvariant, ShownEnds, EndsAfter, Ending
    <3>3. j \in 1 + 1 .. Len(inbox)
      BY <1>1, <2>2, <3>1, <3>2
    <3> QED
      BY <3>2, <3>3 DEF EndsAfter, Ending
  <2>5. CASE OnComplete(n) \/ OnCancelled(n) \/ OnFailed(n)
    BY <2>5 DEF OnComplete, OnCancelled, OnFailed
  <2> QED
    BY <2>1, <2>3, <2>4, <2>5
<1> QED
  BY <1>4, <1>5 DEF ProgressInvariant

-----------------------------------------------------------------------------
(* The invariant *)

\* What does not send, receive or go at the disk leaves the channel as it was.
LEMMA PanelKeeps ==
    ASSUME TypeOK,
           \/ DownloadModal \/ ManageModal \/ (\E l \in Lists : Load(l)) \/ UNCHANGED vars
           \/ \E m \in Models : Select(m) \/ \E c \in Calls : SelectMissing(c, m)
    PROVE  /\ UNCHANGED <<disk, inbox, loaded, shown, download, stale, owner>>
           /\ Working => Working'
<1>1. UNCHANGED <<disk, inbox, loaded, shown, download, stale, owner>>
  BY DEF Load, Select, SelectMissing, DownloadModal, FailureSeen, CompletionSeen, DismissError,
         Unmounted, HoldEnds, CancelRequest, ClosedOutside, DismissCompleted, ManageModal,
         OpenManage, ConfirmDelete, CloseManage, Refresh, ManageOnly
<1>2. \A c \in Calls : place[c] # "idle" => place'[c] # "idle"
  <2>1. CASE CancelRequest \/ ClosedOutside
    BY <2>1 DEF CancelRequest, ClosedOutside, CancelDownload, TypeOK
  <2>2. ASSUME NEW m \in Models, NEW c \in Calls, SelectMissing(c, m)
        PROVE  \A d \in Calls : place[d] # "idle" => place'[d] # "idle"
    BY <2>2 DEF SelectMissing, TypeOK
  <2>3. CASE ~(CancelRequest \/ ClosedOutside)
             /\ ~(\E m \in Models : \E c \in Calls : SelectMissing(c, m))
    <3>1. UNCHANGED place
      BY <2>3 DEF Load, Select, DownloadModal, FailureSeen, CompletionSeen, DismissError,
                  Unmounted, HoldEnds, DismissCompleted, ManageModal, OpenManage, ConfirmDelete,
                  CloseManage, Refresh, ManageOnly
    <3> QED
      BY <3>1
  <2> QED
    BY <2>1, <2>2, <2>3
<1> QED
  BY <1>1, <1>2 DEF Working

\* The invariant is inductive.
LEMMA InvariantStep == PanelInvariant /\ [Next]_vars => PanelInvariant'
<1> SUFFICES ASSUME PanelInvariant, [Next]_vars PROVE PanelInvariant'
  OBVIOUS
<1>1. TypeOK' /\ CallsNamed'
  BY TypeStep DEF PanelInvariant, ModalInvariant
<1>2. /\ TypeOK /\ CallsNamed /\ CatalogueInvariant /\ ListingsRight /\ ChoiceInvariant
      /\ ProgressInvariant
  BY DEF PanelInvariant, CatalogueInvariant
<1>3. CatalogueInvariant' /\ ClaimsBacked(inbox)' /\ ShownBacked' /\ ProgressInvariant'
  <2>1. ASSUME UNCHANGED <<disk, inbox, loaded, shown, download, stale>>, Working => Working'
        PROVE  /\ LastRight(inbox)' /\ ShownRight' /\ ClaimsBacked(inbox)' /\ ShownBacked'
               /\ ProgressInvariant'
    <3>1. LastRight(inbox)' /\ ShownRight'
      BY <1>2, <2>1 DEF CatalogueInvariant, LastRight, ShownRight, Right, Numbers, Tells
    <3>2. ClaimsBacked(inbox)' /\ ShownBacked'
      BY <1>2, <2>1 DEF ChoiceInvariant, ClaimsBacked, ShownBacked, Claims, Gone, Numbers
    <3>3. ProgressInvariant'
      BY <1>2, <2>1 DEF ProgressInvariant, ProgressEnds, ShownEnds, EndsAfter, Numbers
    <3> QED
      BY <3>1, <3>2, <3>3
  <2>2. CASE Backend
    <3>1. \A n \in Message : Send(n) /\ Announces(n)
            => /\ LastRight(inbox)' /\ ShownRight' /\ ClaimsBacked(inbox)' /\ ShownBacked'
               /\ ProgressInvariant'
      BY <1>2, <2>2, BackendAnnounces, SendRight, SendBacked, SendEnds
    <3>2. /\ LastRight(inbox)' /\ ShownRight' /\ ClaimsBacked(inbox)' /\ ShownBacked'
          /\ ProgressInvariant'
      BY <1>2, <2>1, <2>2, <3>1, BackendAnnounces
    <3> QED
      BY <3>2, ListingsKept DEF CatalogueInvariant
  <2>3. CASE Receive
    BY <1>2, <2>3, ReceiveRight, ReceiveBacked, ReceiveEnds
  <2>4. CASE ~Backend /\ ~Receive
    <3>1. /\ UNCHANGED <<disk, inbox, loaded, shown, download, stale>>
          /\ Working => Working'
      BY <1>2, <2>4, PanelKeeps DEF Next
    <3> QED
      BY <2>1, <3>1, ListingsKept DEF CatalogueInvariant
  <2> QED
    BY <2>2, <2>3, <2>4
<1> QED
  BY <1>1, <1>3, ModalKept, DeletionKept, HoldKept DEF PanelInvariant, ChoiceInvariant

LEMMA InvariantInit == Init => PanelInvariant
<1> SUFFICES ASSUME Init PROVE PanelInvariant
  OBVIOUS
<1>1. TypeOK /\ CallsNamed /\ ModalInvariant
  BY InitTypes DEF Init, ModalInvariant, CallsNamed, ModalUnsettled, SettlesOnce, FailureIsNews,
                   NoOldFailure, Mounted, NoModal
<1>2. CatalogueInvariant
  BY DEF Init, CatalogueInvariant, ListingsRight, LastRight, ShownRight, Numbers
<1>3. ChoiceInvariant
  BY DEF Init, ChoiceInvariant, DeletionHeld, OneDialog, ClaimsBacked, ShownBacked, HoldBacked,
         Mounted, NoModal, Closed, Numbers
<1>4. ProgressInvariant
  BY DEF Init, ProgressInvariant, ProgressEnds, ShownEnds, Numbers
<1> QED
  BY <1>1, <1>2, <1>3, <1>4 DEF PanelInvariant

\* Only what the catalogue shows as installed, or a modal has seen as such, is selected.
LEMMA SelectionStep ==
    ASSUME PanelInvariant, Next, selected' # selected
    PROVE  selected' \in disk \cup stale \/ modal.misled
<1>1. TypeOK /\ DeletionHeld /\ ShownBacked /\ HoldBacked /\ CallsNamed /\ ListingsRight
  BY DEF PanelInvariant, ChoiceInvariant, CatalogueInvariant
<1>2. ASSUME NEW m \in Models, Select(m) PROVE m \in disk \cup stale
  <2>1. \A i \in Numbers(inbox) : inbox[i].kind # "deleted"
    BY <1>1, <1>2 DEF Select, NoDialog, DeletionHeld
  <2> QED
    BY <1>1, <1>2, <2>1 DEF Select, ShownBacked, Gone, Numbers
<1>3. ASSUME NEW hold, Mounted, modal.hold # "no", Selects(hold), selected' # selected
      PROVE  selected' \in disk \/ modal.misled
  BY <1>1, <1>3 DEF Selects, HoldBacked
<1>4. CASE HoldEnds \/ DismissCompleted
  <2>1. Mounted /\ modal.hold # "no" /\ (Selects("over") \/ Selects(modal.hold))
    BY <1>4 DEF HoldEnds, DismissCompleted, Mounted
  <2> QED
    BY <1>3, <2>1
<1>5. CASE Backend
  BY <1>1, <1>5, BackendAnnounces
<1>6. CASE \/ Receive \/ ManageModal \/ (\E l \in Lists : Load(l))
           \/ FailureSeen \/ CompletionSeen \/ CancelRequest \/ DismissError \/ ClosedOutside
           \/ Unmounted \/ \E m \in Models : \E c \in Calls : SelectMissing(c, m)
  BY <1>6 DEF Receive, ManageModal, OpenManage, ConfirmDelete, CloseManage, Refresh, ManageOnly,
              Load, FailureSeen, CompletionSeen, CancelRequest, DismissError, ClosedOutside,
              Unmounted, SelectMissing
<1>7. ASSUME NEW m \in Models, Select(m) PROVE selected' \in disk \cup stale
  BY <1>2, <1>7 DEF Select
<1> QED
  BY <1>4, <1>5, <1>6, <1>7 DEF Next, DownloadModal

THEOREM InvariantHolds == Spec => []PanelInvariant
  BY InvariantInit, InvariantStep, PTL DEF Spec

\* The variables keep their types, and nothing of a download modal outlives it
\* (ModelSelect.tsx, the clean-up of its timer).
THEOREM TypesAreKept == Spec => []TypeOK
  BY InvariantHolds, PTL DEF PanelInvariant, ModalInvariant

\* A download modal selects its model or cancels its download, and once
\* (openModelDownloadModal and its "settled").
THEOREM ModalsSettleOnce == Spec => []SettlesOnce
  BY InvariantHolds, PTL DEF PanelInvariant, ModalInvariant

\* No download shows the failure of an earlier attempt (ModelCatalogStore.clearFailure).
THEOREM NoFailureIsOld == Spec => []NoOldFailure
  BY InvariantHolds, PTL DEF PanelInvariant, ModalInvariant

\* With every message received the catalogue agrees with the disk, whatever downloads,
\* deletions and lists ran side by side (DeckySpeechAdapter's publishComplete, its
\* deleteModel and list), save for the models whose file came or went under the list
\* that is shown.
THEOREM CatalogueIsTrue == Spec => []CatalogueTrue
<1>1. PanelInvariant => CatalogueTrue
  <2> SUFFICES ASSUME PanelInvariant, inbox = <<>>, loaded, NEW m \in Models \ stale
               PROVE  m \in shown <=> m \in disk
    BY DEF CatalogueTrue
  <2> QED
    BY DEF PanelInvariant, CatalogueInvariant, ShownRight, Numbers
<1> QED
  BY <1>1, InvariantHolds, PTL

\* A progress that stays is of a download under way or came from the setup run
\* (publishProgress, clearDownload and publishFailure).
THEOREM ProgressIsWork == Spec => []InFlightIsWork
<1>1. PanelInvariant => InFlightIsWork
  <2> SUFFICES ASSUME PanelInvariant, download # None, inbox = <<>>, download.by # "setup"
               PROVE  \E c \in Calls : place[c] # "idle"
    BY DEF InFlightIsWork, InFlight
  <2>1. download.by = "panel"
    BY DEF PanelInvariant, TypeOK, Owner
  <2> QED
    BY <2>1 DEF PanelInvariant, ProgressInvariant, ShownEnds, EndsAfter, Working
<1> QED
  BY <1>1, InvariantHolds, PTL

\* What is selected is there (handleSelect and onComplete of ModelSelect.tsx).
THEOREM InstalledAreSelected == Spec => SelectsInstalled
<1>1. PanelInvariant /\ [Next]_vars
        => [selected' # selected => selected' \in disk \cup stale \/ modal.misled]_vars
  BY SelectionStep
<1> QED
  BY <1>1, InvariantHolds, PTL DEF Spec, SelectsInstalled

=============================================================================
