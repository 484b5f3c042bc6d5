--------------------------- MODULE ModelDownloads ---------------------------
(***************************************************************************)
(* The speech models on disk: their download, its cancellation and their   *)
(* deletion (backend/application/model_service.py and                      *)
(* backend/infrastructure/model/model_store.py), with the parts of the     *)
(* application that use them (backend/composition.py): the run of setup    *)
(* steps that downloads a missing model, the choice of a model and the     *)
(* guard of a deletion.                                                    *)
(*                                                                         *)
(* A call of download_model is named c.  Its store task is suspended at a  *)
(* place: the download lock, the opening of the connection, the stream,    *)
(* the end of the heartbeat, the closing of the stream, the last progress  *)
(* report.  The service waits for the task and then returns.  Files are    *)
(* unlinked by worker threads, at any time after the decision.             *)
(*                                                                         *)
(* Only a verified file gets its final name, so an installed model is a    *)
(* member of a set.  The calls' time limit of an hour is left out, and so  *)
(* is the order in which the lock is handed over.                          *)
(***************************************************************************)
EXTENDS Naturals, FiniteSets

CONSTANTS
    Models,         \* identifiers of the manifest
    Calls,          \* bound: calls of download_model under way at a time
    Deletions,      \* bound: calls of delete_model under way at a time
    None,           \* Python's None, where a call or a model is expected
    MaxRetries      \* length of MODEL_DOWNLOAD_RETRY_DELAYS_S

ASSUME NoneAssumption == None \notin Calls /\ None \notin Models

ASSUME RetriesAssumption == MaxRetries \in Nat

VARIABLES
    selected,       \* settings.model_id
    installed,      \* models that have a file
    parts,          \* models that have a partial file
    model,          \* the model a call is about
    owner,          \* who called: the panel or the setup run
    place,          \* where the store task of a call is suspended
    outcome,        \* how it ends, as far as that is decided
    holder,         \* _download_lock, the store's _download_task and _downloading_id
    latest,         \* the service's _download_task
    removing,       \* the model each deletion has decided to remove
    deleted,        \* history: calls whose model was removed before they returned
    startup,        \* where the setup run is suspended
    wanted,         \* the model the setup run is about
    attempts,       \* downloads tried in the setup run
    setup           \* whether the panel was told the end of the last setup run,
                    \* or the run is "lost" in an exception that is no SpeechError

task == <<place, outcome>>
call == <<model, owner>>
files == <<installed, parts>>
run == <<startup, wanted, attempts, setup>>

vars == <<selected, files, call, task, holder, latest, removing, deleted, run>>

-----------------------------------------------------------------------------

\* Inside "async with self._download_lock".
BusyPlaces == {"opening", "streaming", "settling", "closing", "reporting"}

Places == {"idle", "waiting", "done"} \cup BusyPlaces

\* "escaped": an exception that is no SpeechError, which nobody catches.
Outcomes == {"none", "complete", "cancelled", "transient", "failed", "escaped"}

StartupPlaces == {"idle", "verifying", "checking", "ensuring", "downloading", "awaiting",
                  "backoff", "spawning"}

TypeOK ==
    /\ selected \in Models
    /\ installed \subseteq Models
    /\ parts \subseteq Models
    /\ model \in [Calls -> Models \cup {None}]
    /\ owner \in [Calls -> {"panel", "setup"}]
    /\ place \in [Calls -> Places]
    /\ outcome \in [Calls -> Outcomes]
    /\ holder \in Calls \cup {None}
    /\ latest \in Calls \cup {None}
    /\ removing \in [Deletions -> Models \cup {None}]
    /\ deleted \subseteq Calls
    /\ startup \in StartupPlaces
    /\ wanted \in Models \cup {None}
    /\ attempts \in 0 .. MaxRetries + 1
    /\ setup \in {"running", "over", "lost"}

\* A model may have been installed by an earlier run of the plugin.
Init ==
    /\ selected \in Models
    /\ installed \in SUBSET Models
    /\ parts = {}
    /\ model = [c \in Calls |-> None]
    /\ owner = [c \in Calls |-> "panel"]
    /\ place = [c \in Calls |-> "idle"]
    /\ outcome = [c \in Calls |-> "none"]
    /\ holder = None
    /\ latest = None
    /\ removing = [x \in Deletions |-> None]
    /\ deleted = {}
    /\ startup = "idle"
    /\ wanted = None
    /\ attempts = 0
    /\ setup = "over"

\* Leaving the lock with an outcome.
Ends(c, as) ==
    /\ place' = [place EXCEPT ![c] = "done"]
    /\ outcome' = [outcome EXCEPT ![c] = as]
    /\ holder' = None

Moves(c, to, as) ==
    /\ place' = [place EXCEPT ![c] = to]
    /\ outcome' = [outcome EXCEPT ![c] = as]
    /\ UNCHANGED holder

\* Fault: the partial file survives an error.
KeepPart(c) == c \in Calls /\ UNCHANGED files

\* "except BaseException" of the download.
DropPart(c) ==
    /\ parts' = parts \ {model[c]}
    /\ UNCHANGED installed

-----------------------------------------------------------------------------
(* The store's download task *)

\* The lock is free, and the task finds the file or starts from nothing.
Begin(c) ==
    /\ place[c] = "waiting"
    /\ holder = None
    /\ \/ /\ model[c] \in installed
          /\ Moves(c, "done", "complete")
          /\ UNCHANGED files
       \/ /\ model[c] \notin installed
          /\ place' = [place EXCEPT ![c] = "opening"]
          /\ holder' = c
          /\ DropPart(c)
          /\ UNCHANGED outcome
    /\ UNCHANGED <<selected, call, latest, removing, deleted, run>>

\* The connection is open, and so is the partial file.
Opened(c) ==
    /\ place[c] = "opening"
    /\ Moves(c, "streaming", "none")
    /\ parts' = parts \cup {model[c]}
    /\ UNCHANGED <<selected, installed, call, latest, removing, deleted, run>>

\* An answer that is no HTTP passes by the handlers.
OpenFails(c) ==
    /\ place[c] = "opening"
    /\ \E as \in {"transient", "failed", "escaped"} : Ends(c, as)
    /\ DropPart(c)
    /\ UNCHANGED <<selected, call, latest, removing, deleted, run>>

\* The stream ends, breaks, or the disk is full.
StreamEnds(c) ==
    /\ place[c] = "streaming"
    /\ \E as \in {"none", "transient", "escaped"} : Moves(c, "settling", as)
    /\ UNCHANGED <<selected, files, call, latest, removing, deleted, run>>

\* The cancelled heartbeat has ended.
Settled(c) ==
    /\ place[c] = "settling"
    /\ Moves(c, "closing", outcome[c])
    /\ UNCHANGED <<selected, files, call, latest, removing, deleted, run>>

\* Fault: an error of the stream is taken for its end, after the clean-up.
ClosedIgnoringErrors(c) ==
    /\ place[c] = "closing"
    /\ Ends(c, "complete")
    /\ DropPart(c)
    /\ UNCHANGED <<selected, call, latest, removing, deleted, run>>

\* The stream is closed.  Without an error the digest decides; the file may have
\* been removed under the download.
Closed(c) ==
    /\ place[c] = "closing"
    /\ \/ /\ outcome[c] # "none"
          /\ Ends(c, outcome[c])
          /\ DropPart(c)
       \/ /\ outcome[c] = "none"
          /\ Ends(c, "failed")
          /\ DropPart(c)
       \/ /\ outcome[c] = "none"
          /\ model[c] \notin parts
          /\ Ends(c, "escaped")
          /\ DropPart(c)
       \/ /\ outcome[c] = "none"
          /\ model[c] \in parts
          /\ Moves(c, "reporting", "none")
          /\ installed' = installed \cup {model[c]}
          /\ parts' = parts \ {model[c]}
    /\ UNCHANGED <<selected, call, latest, removing, deleted, run>>

Reported(c) ==
    /\ place[c] = "reporting"
    /\ Ends(c, "complete")
    /\ UNCHANGED <<selected, files, call, latest, removing, deleted, run>>

-----------------------------------------------------------------------------
(* The service *)

\* download_model up to the wait for the task it creates.
Called(c, m, by) ==
    /\ place[c] = "idle"
    /\ place' = [place EXCEPT ![c] = "waiting"]
    /\ model' = [model EXCEPT ![c] = m]
    /\ owner' = [owner EXCEPT ![c] = by]
    /\ latest' = c
    /\ UNCHANGED <<selected, files, outcome, holder, removing, deleted>>

PanelDownloads(c, m) == Called(c, m, "panel") /\ UNCHANGED run

\* The end of a setup run.
SetupOver == startup' = "idle" /\ wanted' = None /\ attempts' = 0

\* Fault: the retries are not counted.
SetupRetries(result) ==
    /\ startup' = IF result = "transient" THEN "backoff" ELSE "spawning"
    /\ UNCHANGED <<wanted, attempts, setup>>

\* Fault: a download that fails ends the run without a word.
SetupSilent(result) ==
    \/ /\ result = "complete"
       /\ startup' = "spawning"
       /\ UNCHANGED <<wanted, attempts, setup>>
    \/ /\ result # "complete"
       /\ SetupOver
       /\ UNCHANGED setup

\* What follows a download of the setup run: the next step, another attempt, a
\* failure that is reported, or nothing at all.
SetupResumes(result) ==
    \/ /\ result = "complete"
       /\ startup' = "spawning"
       /\ UNCHANGED <<wanted, attempts, setup>>
    \/ /\ result = "transient"
       /\ attempts <= MaxRetries
       /\ startup' = "backoff"
       /\ UNCHANGED <<wanted, attempts, setup>>
    \/ /\ result \in {"cancelled", "failed", "transient"}
       /\ result = "transient" => attempts > MaxRetries
       /\ SetupOver
       /\ setup' = "over"
    \/ /\ result = "escaped"
       /\ SetupOver
       /\ setup' = "lost"

\* The call resumes: it forgets its task, unless a later call has replaced it, and
\* announces a model that is complete or raises.
Returns(c) ==
    /\ place[c] = "done"
    /\ place' = [place EXCEPT ![c] = "idle"]
    /\ outcome' = [outcome EXCEPT ![c] = "none"]
    /\ model' = [model EXCEPT ![c] = None]
    /\ deleted' = deleted \ {c}
    /\ latest' = IF latest = c THEN None ELSE latest
    /\ IF owner[c] = "setup" THEN SetupResumes(outcome[c]) ELSE UNCHANGED run
    /\ owner' = [owner EXCEPT ![c] = "panel"]
    /\ UNCHANGED <<selected, files, holder, removing>>

-----------------------------------------------------------------------------
(* Cancellation *)

\* The task of the latest call, or else the one the store works on.
CancelTarget ==
    IF latest # None /\ place[latest] # "done" THEN latest ELSE holder

\* Fault: a stream is told to stop when its next chunk has come.
CancelledLater(c) ==
    /\ place[c] = "streaming"
    /\ Moves(c, "streaming", "cancelled")
    /\ UNCHANGED files

\* task.cancel() and what the task makes of it.  While it waits for the lock the
\* exception passes by the handler; while it waits for its heartbeat the
\* exception is taken for the heartbeat's.
Cancelled(c) ==
    \/ /\ place[c] = "waiting"
       /\ Moves(c, "done", "escaped")
       /\ UNCHANGED files
    \/ /\ place[c] \in {"opening", "closing"}
       /\ Ends(c, "cancelled")
       /\ DropPart(c)
    \/ /\ place[c] = "streaming"
       /\ Moves(c, "settling", "cancelled")
       /\ UNCHANGED files
    \/ /\ place[c] = "settling"
       /\ UNCHANGED <<task, holder, files>>
    \/ /\ place[c] = "reporting"
       /\ Ends(c, "cancelled")
       /\ UNCHANGED files

CancelModelDownload ==
    /\ CancelTarget # None
    /\ Cancelled(CancelTarget)
    /\ UNCHANGED <<selected, call, latest, removing, deleted, run>>

-----------------------------------------------------------------------------
(* The application *)

\* update_settings, under the lifecycle lock that a setup run holds.
SelectModel(m) ==
    /\ startup = "idle"
    /\ selected' = m
    /\ UNCHANGED <<files, call, task, holder, latest, removing, deleted, run>>

\* delete_model up to the worker thread: neither the selected model nor the one
\* that downloads.
DeletionDecided(x, m) ==
    /\ removing[x] = None
    /\ m # selected
    /\ holder # None => model[holder] # m
    /\ removing' = [removing EXCEPT ![x] = m]
    /\ UNCHANGED <<selected, files, call, task, holder, latest, deleted, run>>

\* The file of the call has its final name.
Installed(c) ==
    place[c] = "reporting" \/ (place[c] = "done" /\ outcome[c] = "complete")

Removed(x) ==
    /\ removing[x] # None
    /\ installed' = installed \ {removing[x]}
    /\ parts' = parts \ {removing[x]}
    /\ deleted' = deleted \cup {c \in Calls : model[c] = removing[x] /\ Installed(c)}
    /\ removing' = [removing EXCEPT ![x] = None]
    /\ UNCHANGED <<selected, call, task, holder, latest, run>>

\* _start_daemon, by whatever enables or restarts the runtime.
SetupBegins ==
    /\ startup = "idle"
    /\ startup' = "verifying"
    /\ wanted' = selected
    /\ setup' = "running"
    /\ UNCHANGED <<selected, files, call, task, holder, latest, removing, deleted, attempts>>

\* The steps that do not wait for a download.
SetupMoves(from, to) ==
    /\ startup = from
    /\ startup' = to
    /\ UNCHANGED <<selected, files, call, task, holder, latest, removing, deleted, wanted,
                   attempts, setup>>

RuntimeVerified == SetupMoves("verifying", "checking")

ModelChecked ==
    SetupMoves("checking", IF wanted \in installed THEN "ensuring" ELSE "downloading")

ModelEnsured == wanted \in installed /\ SetupMoves("ensuring", "spawning")

SetupDownloads(c) ==
    /\ startup \in {"downloading", "backoff"}
    /\ Called(c, wanted, "setup")
    /\ startup' = "awaiting"
    /\ attempts' = attempts + 1
    /\ UNCHANGED <<wanted, setup>>

\* The binary does not verify, the model has gone, or the daemon does not start;
\* or the daemon reports idle.
SetupEnds ==
    /\ startup \in {"verifying", "ensuring", "spawning"}
    /\ SetupOver
    /\ setup' = "over"
    /\ UNCHANGED <<selected, files, call, task, holder, latest, removing, deleted>>

\* An OSError of one of these steps passes by the handlers: also when the model is
\* deleted after ensure_model found its file and before it reads it.
SetupEscapes ==
    /\ startup \in {"verifying", "checking", "ensuring", "spawning"}
    /\ SetupOver
    /\ setup' = "lost"
    /\ UNCHANGED <<selected, files, call, task, holder, latest, removing, deleted>>

-----------------------------------------------------------------------------

StoreStep(c) ==
    \/ Begin(c) \/ Opened(c) \/ OpenFails(c) \/ StreamEnds(c) \/ Settled(c) \/ Closed(c)
    \/ Reported(c)

Setup ==
    \/ SetupBegins \/ RuntimeVerified \/ ModelChecked \/ ModelEnsured
    \/ SetupEnds \/ SetupEscapes
    \/ \E c \in Calls : SetupDownloads(c)

Next ==
    \/ \E c \in Calls : StoreStep(c) \/ Returns(c) \/ \E m \in Models : PanelDownloads(c, m)
    \/ CancelModelDownload
    \/ \E m \in Models : SelectModel(m) \/ \E x \in Deletions : DeletionDecided(x, m)
    \/ \E x \in Deletions : Removed(x)
    \/ Setup

Spec == Init /\ [][Next]_vars

\* The event loop runs what can run, and a connection can be closed.  Nothing
\* obliges a server to answer or a stream to end.
FairSpec ==
    /\ Spec
    /\ WF_vars(\E c \in Calls : Settled(c) \/ Closed(c))
    /\ \A c \in Calls : WF_vars(Returns(c))

-----------------------------------------------------------------------------
(* Safety *)

\* At most one download works at a time, whatever is cancelled or queued
\* (test_downloads_are_serialized_by_single_lock).
Serialized ==
    \A c, d \in Calls : place[c] \in BusyPlaces /\ place[d] \in BusyPlaces => c = d

\* A partial file belongs to the download that is writing it: no error, cancel or
\* deletion leaves one behind, and no other download finds one.
PartsOwned ==
    \A m \in parts :
        holder # None /\ model[holder] = m
            /\ place[holder] \in {"streaming", "settling", "closing"}

\* A model that is announced as downloaded is there, unless it was deleted while
\* the call was under way.
CompleteIsInstalled ==
    \A c \in Calls :
        place[c] = "done" /\ outcome[c] = "complete" => model[c] \in installed \/ c \in deleted

\* A setup run that is over has told the panel how it ended, whatever was cancelled,
\* deleted or retried meanwhile, unless it ended in an exception that is no
\* SpeechError; and one that waits for its download has one under way.
SetupConcludes ==
    /\ startup = "idle" => setup # "running"
    /\ startup = "awaiting" => \E c \in Calls : owner[c] = "setup" /\ place[c] # "idle"

-----------------------------------------------------------------------------
(* Liveness *)

\* A download that is told to stop ends and its call returns, also when the
\* stream has just ended or broken.
CancelEnds == \A c \in Calls : outcome[c] = "cancelled" ~> outcome[c] = "none"

=============================================================================
