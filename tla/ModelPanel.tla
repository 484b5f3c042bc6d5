----------------------------- MODULE ModelPanel -----------------------------
(***************************************************************************)
(* The models as the panel shows them: the catalogue store                 *)
(* (application/ports/ModelCatalogPort.ts), the part of                    *)
(* infrastructure/decky/DeckySpeechAdapter.ts that fills it, the choice of *)
(* a model with its download modal (presentation/settings/ModelSelect.tsx) *)
(* and the modal that deletes models (ManageModels.tsx).                   *)
(*                                                                         *)
(* The backend is here as the panel sees it: calls that run side by side   *)
(* and one channel that carries their answers and the events in order.     *)
(* ModelDownloads has its inside; here a download is under way until it    *)
(* completes, fails or, once told to stop, is cancelled.                   *)
(*                                                                         *)
(* Labels, sizes, groups of the options and percentages are left out.      *)
(***************************************************************************)
EXTENDS Naturals, Sequences, FiniteSets

CONSTANTS
    Models,         \* identifiers of the manifest
    Calls,          \* bound: downloads under way at a time
    Lists,          \* bound: calls of list_models under way at a time
    None,           \* null
    MaxQueued       \* bound: messages under way at a time

ASSUME NoneAssumption == None \notin Models \cup Lists

VARIABLES
    disk,           \* backend: models that have a file
    selected,       \* settings.modelId
    place,          \* backend: state of each download call
    model,          \* the model it is about
    owner,          \* who made it: the panel or the setup run
    listing,        \* backend: what each list_models call has checked so far
    inbox,          \* answers and events under way to the panel
    loaded,         \* whether snapshot.models is there
    shown,          \* its models that are installed
    download,       \* snapshot.download and who made it, None also when it is full
    failure,        \* snapshot.failure: the model, or None
    modal,          \* the download modal
    manage,         \* the manage-models modal
    stale           \* history: models whose file changed under the list that is shown

catalog == <<loaded, shown, download, failure>>
call == <<place, model, owner>>

vars == <<disk, selected, call, listing, inbox, catalog, modal, manage, stale>>

-----------------------------------------------------------------------------

Owner == {"panel", "setup"}

\* "complete", "cancelled", "stopped" and "failed" end a download: "stopped" is
\* "cancelled" for a file that is there all the same, and "setupStopped" is that of the
\* setup run, which has no answer: the failure of the run is all the panel hears.
\* "deleted" and "refused" answer delete_model.
Message ==
    [kind : {"progress"}, model : Models, by : Owner]
        \cup [kind : {"complete", "cancelled", "failed", "deleted", "refused"},
              model : Models]
        \cup [kind : {"stopped", "setupStopped"}, model : Models]
        \cup [kind : {"list"}, id : Lists, found : SUBSET Models, dirty : SUBSET Models]
        \cup [kind : {"unlisted"}, id : Lists]

\* hold: the time for which a finished download stays on show.  History: what the
\* modal has called, in order, whether a failure of its model has come since it was
\* opened, and whether its model was among the stale ones when the hold began.
Modal ==
    [phase : {"none", "open", "closing"}, model : Models \cup {None}, settled : BOOLEAN,
     failed : BOOLEAN, hold : {"no", "running", "over"},
     told : Seq({"selected", "cancelled"}), news : BOOLEAN, misled : BOOLEAN]

NoModal ==
    [phase |-> "none", model |-> None, settled |-> FALSE, failed |-> FALSE, hold |-> "no",
     told |-> <<>>, news |-> FALSE, misled |-> FALSE]

Closed == [at |-> "closed", todo |-> {}, by |-> None]

\* Nothing of a modal outlives it, its timer least of all.
TypeOK ==
    /\ disk \subseteq Models
    /\ selected \in Models
    /\ place \in [Calls -> {"idle", "working", "stopping"}]
    /\ model \in [Calls -> Models \cup {None}]
    /\ owner \in [Calls -> Owner]
    /\ listing \in [Lists -> {None} \cup [checked : SUBSET Models, found : SUBSET Models,
                                          dirty : SUBSET Models]]
    /\ inbox \in Seq(Message)
    /\ loaded \in BOOLEAN
    /\ shown \subseteq Models
    /\ download \in [model : Models, by : Owner] \cup {None}
    /\ failure \in Models \cup {None}
    /\ modal \in Modal
    /\ modal.phase = "none" => modal = NoModal
    /\ manage \in [at : {"closed", "open", "deleting", "refreshing"}, todo : SUBSET Models,
                   by : Lists \cup {None}]
    /\ stale \subseteq Models

Init ==
    /\ disk \in SUBSET Models
    /\ selected \in Models
    /\ place = [c \in Calls |-> "idle"]
    /\ model = [c \in Calls |-> None]
    /\ owner = [c \in Calls |-> "panel"]
    /\ listing = [l \in Lists |-> None]
    /\ inbox = <<>>
    /\ loaded = FALSE
    /\ shown = {}
    /\ download = None
    /\ failure = None
    /\ modal = NoModal
    /\ manage = Closed
    /\ stale = {}

-----------------------------------------------------------------------------
(* The backend *)

Send(m) == Len(inbox) < MaxQueued /\ inbox' = Append(inbox, m)

\* The file of m comes or goes: a list that has checked it already is wrong.
Changed(m) ==
    listing' = [l \in Lists |->
        IF listing[l] # None /\ m \in listing[l].checked
        THEN [listing[l] EXCEPT !.dirty = @ \cup {m}]
        ELSE listing[l]]

\* model_download_progress, from the panel's and from the setup run's downloads.
Progresses(c) ==
    /\ place[c] # "idle"
    /\ Send([kind |-> "progress", model |-> model[c], by |-> owner[c]])
    /\ UNCHANGED <<disk, selected, call, listing, catalog, modal, manage, stale>>

Ends(c) ==
    /\ place' = [place EXCEPT ![c] = "idle"]
    /\ model' = [model EXCEPT ![c] = None]
    /\ owner' = [owner EXCEPT ![c] = "panel"]

\* A verified file and its event, which the setup run's downloads publish as well.
Completes(c) ==
    /\ place[c] # "idle"
    /\ disk' = disk \cup {model[c]}
    /\ Send([kind |-> "complete", model |-> model[c]])
    /\ Changed(model[c])
    /\ Ends(c)
    /\ UNCHANGED <<selected, catalog, modal, manage, stale>>

\* Only the panel's own calls have an answer that the panel sees.
Fails(c) ==
    /\ place[c] # "idle"
    /\ IF owner[c] = "panel"
       THEN \/ Send([kind |-> "failed", model |-> model[c]])
            \/ place[c] = "stopping" /\ Send([kind |-> "cancelled", model |-> model[c]])
       ELSE UNCHANGED inbox
    /\ Ends(c)
    /\ UNCHANGED <<disk, selected, listing, catalog, modal, manage, stale>>

\* The cancel reaches a download whose file has its final name already.
StopsComplete(c) ==
    /\ place[c] = "stopping"
    /\ disk' = disk \cup {model[c]}
    /\ Changed(model[c])
    /\ Send([kind |-> IF owner[c] = "panel" THEN "stopped" ELSE "setupStopped",
             model |-> model[c]])
    /\ Ends(c)
    /\ UNCHANGED <<selected, catalog, modal, manage, stale>>

\* The setup run downloads the selected model when it is missing.
SetupDownloads(c) ==
    /\ place[c] = "idle"
    /\ selected \notin disk
    /\ \A d \in Calls : owner[d] = "panel"
    /\ place' = [place EXCEPT ![c] = "working"]
    /\ model' = [model EXCEPT ![c] = selected]
    /\ owner' = [owner EXCEPT ![c] = "setup"]
    /\ UNCHANGED <<disk, selected, listing, inbox, catalog, modal, manage, stale>>

\* One model of list_models, checked in a worker thread.
Checks(l, m) ==
    /\ listing[l] # None
    /\ m \notin listing[l].checked
    /\ listing' = [listing EXCEPT ![l].checked = @ \cup {m},
                                  ![l].found = IF m \in disk THEN @ \cup {m} ELSE @]
    /\ UNCHANGED <<disk, selected, call, inbox, catalog, modal, manage, stale>>

\* The answer of list_models, or its failure.
Answers(l) ==
    /\ listing[l] # None
    /\ \/ /\ listing[l].checked = Models
          /\ Send([kind |-> "list", id |-> l, found |-> listing[l].found,
                   dirty |-> listing[l].dirty])
       \/ Send([kind |-> "unlisted", id |-> l])
    /\ listing' = [listing EXCEPT ![l] = None]
    /\ UNCHANGED <<disk, selected, call, catalog, modal, manage, stale>>

Waiting(id) == \E i \in 1 .. Len(inbox) :
    inbox[i].kind \in {"list", "unlisted"} /\ inbox[i].id = id

ListModels(l) ==
    /\ listing[l] = None
    /\ ~Waiting(l)
    /\ listing' = [listing EXCEPT ![l] = [checked |-> {}, found |-> {}, dirty |-> {}]]

Answered == \E i \in 1 .. Len(inbox) : inbox[i].kind \in {"deleted", "refused"}

\* delete_model for the next model of the modal's loop.  The selected model and
\* one that downloads are refused.
Deletes(m) ==
    /\ manage.at = "deleting"
    /\ m \in manage.todo
    /\ ~Answered
    /\ \/ /\ m = selected \/ \E c \in Calls : model[c] = m
          /\ Send([kind |-> "refused", model |-> m])
          /\ UNCHANGED <<disk, listing>>
       \/ /\ m # selected
          /\ disk' = disk \ {m}
          /\ Send([kind |-> "deleted", model |-> m])
          /\ Changed(m)
    /\ UNCHANGED <<selected, call, catalog, modal, manage, stale>>

-----------------------------------------------------------------------------
(* What the panel makes of a message *)

\* publishProgress: of a part or of all there is.
OnProgress(m) ==
    /\ m.kind = "progress"
    /\ download' \in {[model |-> m.model, by |-> m.by], None}
    /\ UNCHANGED <<loaded, shown, failure, modal, manage, stale>>

\* Fault: the event only ends the progress.
OnCompleteUnmarked(m) ==
    /\ m.kind = "complete"
    /\ download' = None
    /\ failure' = None
    /\ stale' = IF loaded THEN stale \ {m.model} ELSE stale
    /\ UNCHANGED <<loaded, shown, modal, manage>>

\* publishComplete.
OnComplete(m) ==
    /\ m.kind = "complete"
    /\ shown' = IF loaded THEN shown \cup {m.model} ELSE shown
    /\ download' = None
    /\ failure' = None
    /\ stale' = IF loaded THEN stale \ {m.model} ELSE stale
    /\ UNCHANGED <<loaded, modal, manage>>

\* Fault: a cancelled download leaves its progress.
OnCancelledKeeping(m) ==
    /\ m.kind \in {"cancelled", "stopped"}
    /\ stale' = IF m.kind = "stopped" THEN stale \cup {m.model} ELSE stale
    /\ UNCHANGED <<catalog, modal, manage>>

\* MODEL_DOWNLOAD_CANCELLED: clearDownload.
OnCancelled(m) ==
    /\ m.kind \in {"cancelled", "stopped"}
    /\ download' = None
    /\ stale' = IF m.kind = "stopped" THEN stale \cup {m.model} ELSE stale
    /\ UNCHANGED <<loaded, shown, failure, modal, manage>>

\* The store of the catalogue does not listen to the setup run.
OnSetupStopped(m) ==
    /\ m.kind = "setupStopped"
    /\ stale' = stale \cup {m.model}
    /\ UNCHANGED <<catalog, modal, manage>>

\* Any other error: publishFailure.
OnFailed(m) ==
    /\ m.kind = "failed"
    /\ download' = None
    /\ failure' = m.model
    /\ modal' = [modal EXCEPT !.news = @ \/ modal.model = m.model]
    /\ UNCHANGED <<loaded, shown, manage, stale>>

\* The call of onDelete returns or throws; an error ends the loop.
OnDeleted(m) ==
    /\ \/ /\ m.kind = "deleted"
          /\ shown' = shown \ {m.model}
          /\ manage' = [manage EXCEPT !.todo = @ \ {m.model}]
          /\ stale' = stale \ {m.model}
       \/ /\ m.kind = "refused"
          /\ manage' = [manage EXCEPT !.todo = {}]
          /\ UNCHANGED <<shown, stale>>
    /\ UNCHANGED <<loaded, download, failure, modal>>

\* setModels, whatever has been published since the backend looked.  An error is
\* logged.  The answer that a delete run waits for ends it.
OnList(m) ==
    /\ \/ /\ m.kind = "list"
          /\ loaded' = TRUE
          /\ shown' = m.found
          /\ stale' = m.dirty
       \/ /\ m.kind = "unlisted"
          /\ UNCHANGED <<loaded, shown, stale>>
    /\ manage' = IF manage.by = m.id
                 THEN [at |-> "open", todo |-> {}, by |-> None]
                 ELSE manage
    /\ UNCHANGED <<download, failure, modal>>

Receive ==
    /\ inbox # <<>>
    /\ inbox' = Tail(inbox)
    /\ LET m == Head(inbox) IN
        OnProgress(m) \/ OnComplete(m) \/ OnCancelled(m) \/ OnSetupStopped(m)
            \/ OnFailed(m) \/ OnDeleted(m) \/ OnList(m)
    /\ UNCHANGED <<disk, selected, call, listing>>

-----------------------------------------------------------------------------
(* The choice of a model *)

\* ModelCatalogPort.list, by a panel that is mounted.
Load(l) ==
    /\ ListModels(l)
    /\ UNCHANGED <<disk, selected, call, inbox, catalog, modal, manage, stale>>

NoDialog == modal.phase = "none" /\ manage.at = "closed"

\* Fault: whether the model is installed is not looked at.
SelectUninstalled(m) ==
    /\ NoDialog
    /\ loaded
    /\ m # selected
    /\ selected' = m
    /\ UNCHANGED <<disk, call, listing, inbox, catalog, modal, manage, stale>>

\* handleSelect with a model that is installed.
Select(m) ==
    /\ NoDialog
    /\ m # selected
    /\ m \in shown
    /\ selected' = m
    /\ UNCHANGED <<disk, call, listing, inbox, catalog, modal, manage, stale>>

\* Fault: the failure of the last download is not cleared.
KeepFailure == UNCHANGED failure

\* clearFailure.
ClearFailure == failure' = None

\* handleSelect with one that is not: downloadModel and the modal.
SelectMissing(c, m) ==
    /\ NoDialog
    /\ loaded
    /\ m \notin shown \cup {selected}
    /\ place[c] = "idle"
    /\ place' = [place EXCEPT ![c] = "working"]
    /\ model' = [model EXCEPT ![c] = m]
    /\ ClearFailure
    /\ modal' = [NoModal EXCEPT !.phase = "open", !.model = m]
    /\ UNCHANGED <<disk, selected, owner, listing, inbox, loaded, shown, download, manage, stale>>

-----------------------------------------------------------------------------
(* The download modal.  Its effects and its timer run until it is unmounted. *)

Mounted == modal.phase # "none"

\* The first effect keeps a failure for good.
FailureSeen ==
    /\ Mounted
    /\ failure = modal.model
    /\ ~modal.failed
    /\ modal' = [modal EXCEPT !.failed = TRUE]
    /\ UNCHANGED <<disk, selected, call, listing, inbox, catalog, manage, stale>>

\* The second starts the hold, once.
CompletionSeen ==
    /\ Mounted
    /\ modal.model \in shown
    /\ modal.hold = "no"
    /\ modal' = [modal EXCEPT !.hold = "running", !.misled = modal.model \in stale]
    /\ UNCHANGED <<disk, selected, call, listing, inbox, catalog, manage, stale>>

Settles(as) == [modal EXCEPT !.settled = TRUE, !.phase = "closing", !.told = Append(@, as)]

\* Fault: onComplete does not look at settled.
SelectsAlways(hold) ==
    /\ modal' = [Settles("selected") EXCEPT !.hold = hold]
    /\ selected' = modal.model

\* onComplete: settled guards the selection.
Selects(hold) ==
    \/ /\ modal.settled
       /\ modal' = [modal EXCEPT !.hold = hold]
       /\ UNCHANGED selected
    \/ /\ ~modal.settled
       /\ modal' = [Settles("selected") EXCEPT !.hold = hold]
       /\ selected' = modal.model

HoldEnds ==
    /\ Mounted
    /\ modal.hold = "running"
    /\ Selects("over")
    /\ UNCHANGED <<disk, call, listing, inbox, catalog, manage, stale>>

\* A dismissal during the hold.
DismissCompleted ==
    /\ modal.phase = "open"
    /\ ~modal.failed
    /\ modal.hold # "no"
    /\ Selects(modal.hold)
    /\ UNCHANGED <<disk, call, listing, inbox, catalog, manage, stale>>

\* cancel_model_download: the backend tells one download, or none, to stop.
CancelDownload ==
    \/ UNCHANGED place
    \/ \E c \in Calls :
        /\ place[c] = "working"
        /\ place' = [place EXCEPT ![c] = "stopping"]

\* onCancelRequest, by the button or a dismissal.
CancelRequest ==
    /\ modal.phase = "open"
    /\ ~modal.failed
    /\ modal.hold = "no"
    /\ modal' = Settles("cancelled")
    /\ CancelDownload
    /\ UNCHANGED <<disk, selected, model, owner, listing, inbox, catalog, manage, stale>>

\* onDismissRequest, from the error.
DismissError ==
    /\ modal.phase = "open"
    /\ modal.failed
    /\ modal' = [modal EXCEPT !.settled = TRUE, !.phase = "closing"]
    /\ UNCHANGED <<disk, selected, call, listing, inbox, catalog, manage, stale>>

\* fnOnClose: Steam closes the modal itself.
ClosedOutside ==
    /\ modal.phase = "open"
    /\ modal' = Settles("cancelled")
    /\ CancelDownload
    /\ UNCHANGED <<disk, selected, model, owner, listing, inbox, catalog, manage, stale>>

\* Fault: the timer is not cleared.
UnmountedAlone ==
    /\ modal.phase = "closing"
    /\ modal' = [modal EXCEPT !.phase = "none"]
    /\ UNCHANGED <<disk, selected, call, listing, inbox, catalog, manage, stale>>

\* Its effects are cleaned up, the timer with them.
Unmounted ==
    /\ modal.phase = "closing"
    /\ modal' = NoModal
    /\ UNCHANGED <<disk, selected, call, listing, inbox, catalog, manage, stale>>

-----------------------------------------------------------------------------
(* The manage-models modal *)

ManageOnly ==
    UNCHANGED <<disk, selected, call, inbox, catalog, modal, stale>>

OpenManage ==
    /\ NoDialog
    /\ loaded
    /\ manage' = [Closed EXCEPT !.at = "open"]
    /\ UNCHANGED listing
    /\ ManageOnly

Deletable == shown \ {selected}

\* One model, or all that can be deleted, after the confirmation.
ConfirmDelete ==
    /\ manage.at = "open"
    /\ \E S \in {{m} : m \in Deletable} \cup {Deletable} :
        /\ S # {}
        /\ manage' = [manage EXCEPT !.at = "deleting", !.todo = S]
    /\ UNCHANGED listing
    /\ ManageOnly

\* finally: the list is read again, whatever became of the loop.
Refresh(l) ==
    /\ manage.at = "deleting"
    /\ manage.todo = {}
    /\ manage' = [manage EXCEPT !.at = "refreshing", !.by = l]
    /\ ListModels(l)
    /\ ManageOnly

\* Nothing closes it while it is busy.
CloseManage ==
    /\ manage.at = "open"
    /\ manage' = Closed
    /\ UNCHANGED listing
    /\ ManageOnly

-----------------------------------------------------------------------------

Backend ==
    \/ \E c \in Calls :
        Progresses(c) \/ Completes(c) \/ Fails(c) \/ StopsComplete(c) \/ SetupDownloads(c)
    \/ \E l \in Lists : Answers(l) \/ \E m \in Models : Checks(l, m)
    \/ \E m \in Models : Deletes(m)

DownloadModal ==
    \/ FailureSeen \/ CompletionSeen \/ HoldEnds \/ DismissCompleted \/ CancelRequest
    \/ DismissError \/ ClosedOutside \/ Unmounted

ManageModal ==
    OpenManage \/ ConfirmDelete \/ CloseManage \/ \E l \in Lists : Refresh(l)

Next ==
    \/ Backend
    \/ Receive
    \/ \E l \in Lists : Load(l)
    \/ \E m \in Models : Select(m) \/ \E c \in Calls : SelectMissing(c, m)
    \/ DownloadModal
    \/ ManageModal

Spec == Init /\ [][Next]_vars

-----------------------------------------------------------------------------
(* Properties *)

\* A download modal tells its panel one thing, once: to select the model or to cancel
\* the download, however its timer, its buttons and Steam's own closing fall together.
SettlesOnce == Len(modal.told) <= 1

\* The error a modal shows came after the modal was opened: no download shows the
\* failure of an attempt that the player has already seen fail.
NoOldFailure == modal.failed => modal.news

\* Once the panel has received all there is, the catalogue agrees with the disk, save
\* for a model whose file came or went under the list that is shown, or came in spite
\* of a cancel, of the panel's download or of the setup run's.
CatalogueTrue == inbox = <<>> /\ loaded => \A m \in Models \ stale : m \in shown <=> m \in disk

InFlight == download # None

\* A progress that stays on show, and so blocks the reload of DeckySelfHeal, belongs
\* to a download under way, or came from the setup run: nothing clears that when the
\* run fails.
InFlightIsWork ==
    InFlight /\ inbox = <<>> =>
        \/ \E c \in Calls : place[c] # "idle"
        \/ download.by = "setup"

\* A model is selected when its file is there, save for what the catalogue has wrong,
\* or had wrong when a modal began to hold the model for downloaded.
SelectsInstalled ==
    [][selected' # selected => selected' \in disk \cup stale \/ modal.misled]_vars

=============================================================================
