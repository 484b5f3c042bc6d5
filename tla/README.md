# SpeechToDeck: verification

SpeechToDeck is a Decky plugin for push-to-talk dictation: a TypeScript panel
in the Steam client, a Python backend on one asyncio loop, and a native speech
runtime (voxtype) that the backend starts and supervises. This directory holds
TLA+ models of it, their TLC configurations and TLAPS proofs. Paths below are
relative to `src/`, the repository.

    tlc -workers 2 -config SpeechServiceSafety.cfg MCSpeechService
    tlapm SpeechServiceProofs.tla

`PROJECT.json` lists every component, run, mutant, theorem and hazard, and maps
each definition to the lines it models.

## 1. The system

### Components, their state and their operations

| Component | Source | State | Operations |
|---|---|---|---|
| SpeechApplicationService | `backend/application/speech_service.py` | active id, pending delivery (a future), operation lock, shutting down, counters | start, stop, cancel a recording; on_transcript, on_transcript_error; notify_runtime_lost; shutdown, resume |
| SpeechSessionCoordinator | `backend/domain/session.py` | the one active session and its phase | begin, advance, require, clear |
| VoxtypeClient | `backend/infrastructure/process/voxtype_client.py` | delivery task, output file | record start/stop/cancel commands, delivery of a transcript |
| SpeechDaemonSupervisor | `backend/infrastructure/process/daemon_supervisor.py` | process, exit watcher, log drain, restarts used, stopping | verify, start, stop, restart; exit watcher with automatic restart |
| StatusMonitor, StatusFileWatcher | `backend/infrastructure/process/status_monitor.py` | inotify watch, waiters, last published snapshot | start, close, subscribe, wait_until; publication of changes |
| LevelSocketClient | `backend/infrastructure/process/level_socket_client.py` | one reading task | start, stop, reconnect |
| ModelService, ModelStore | `backend/application/model_service.py`, `backend/infrastructure/model/model_store.py` | download lock, download tasks, files and partial files | list, ensure, download, cancel, delete |
| SetupProgressReporter | `backend/application/setup_progress.py` | run number, step, percent | begin_run, step, ready, fail |
| JsonSettingsRepository | `backend/infrastructure/settings/json_settings_repository.py` | the settings file | load, save, migrate |
| Application | `backend/composition.py` | lifecycle lock, started, disposed, last failure | start, dispose, restart_runtime, update_settings, recording and model calls |
| Plugin | `main.py` | the application, disposed | load, unload, calls with time budgets |
| DictationStateMachine | `src/application/DictationStateMachine.ts` | none (a pure transition function over states) | one transition per event, with effects |
| DictationController | `src/application/DictationController.ts` | machine state, mutex, watchdog, disposed | start, press, cancel, dismiss, backend events, dispose |
| DeckySpeechAdapter | `src/infrastructure/decky/DeckySpeechAdapter.ts` | subscriptions, last status | calls of the backend, translation of its events, hydration from get_status |
| ModelCatalogStore, ModelSelect, ManageModels | `src/application/ports/ModelCatalogPort.ts`, `src/presentation/settings/` | models, the download and the failure shown; settled, failed and the hold timer of a modal | list, select, download, cancel, delete a run of models |
| SettingsPanel, DeckySelfHeal, SetupProgressStore | `src/presentation/settings/SettingsPanel.tsx`, `src/infrastructure/decky/DeckySelfHeal.ts`, `src/application/ports/SetupProgressPort.ts` | settings shown, save and load errors, the load's timer, loads that timed out, whether a reload was asked for, the setup snapshot | load, retry, change and save, reload the backend, retry the setup |
| DictationCard, LevelMeterStore, PanelTranscriptStore, clipboards | `src/presentation/settings/DictationCard.tsx`, `src/application/ports/`, `src/infrastructure/clipboard/` | bars, the last transcript, the state of its copy | show levels, copy by itself or by the button |
| PluginLifecycle, drawing | `src/index.tsx`, `src/presentation` | started, disposed | activation, teardown, drawing |

### How they interact

A press of the microphone reaches `DictationController`, which runs one
transition at a time under a mutex, and makes the effects' calls of the backend
outside it. A call passes `DeckySpeechAdapter`, the loader's channel, `Plugin`
(with a time budget) and `Application`, and ends in `SpeechApplicationService`.
The service commands the daemon through `VoxtypeClient`; the transcript comes
back through the client's delivery task, a callback that names no session.
Events (`recording_state`, `transcript_ready`, `error`, `runtime_status`,
`setup_progress`, `model_download_*`) travel the other way and race with the
answers to calls. The supervisor tells the service that the daemon is gone and
asks it whether work is pending before it restarts it. The panel shows copies of
the backend's state (the settings, the models, the setup run, the last
transcript) that answers and events of one ordered channel keep up to date,
while its calls run side by side in the backend; it unmounts and mounts at the
user's whim, and its timers and unanswered calls outlive it unless an effect
cleans them up. Whatever starts, stops
or restarts the daemon holds the application's lifecycle lock, possibly for the
whole of a model download; recording calls, model calls and the exit watcher do
not take it.

### What is hard, and what makes each part correct

| Part | Hard behaviour | Correct when |
|---|---|---|
| Speech service | three kinds of call, a crash and a shutdown interleave at every await; deliveries carry no session | every call returns, no wake-up is lost, the slot and the pending work are released, a stop emits its own text, events keep their order |
| Supervisor | stop() races a watcher that relaunches; SIGTERM ignored; restart budget | one watched daemon at most, none after stop(), every operation returns, a crash is followed up |
| Controller | events overtake answers; startup against its watchdog; dispose at any time | each call made once and in order, the backend is told of each session that is left, no wait lasts for ever |
| Models | cancel at any await, also in the queue; a deletion by a worker thread; retries in the setup run | one download at a time, no partial file without a writer, what is announced is there, the setup run is concluded |
| Status watcher | stale content of the file, waiters against closing | a status belongs to the daemon that wrote it |
| Level stream, card | the stream is started by one call and stopped in the `finally` of another; copies whose answers come late | a recording on show has a stream, and only its own levels; none is left; a status speaks of the text beside it |
| Models in the panel | a list put together beside downloads and deletions; a modal ended by a timer, buttons, a late failure or Steam | the catalogue agrees with the disk, a modal settles once, only what is there is selected |
| Settings in the panel | changes shown before they are stored; loads that time out and are answered after all; a run that ends unheard | what is shown is stored or said to be unsaved, one reload at most, no setup is shown that is over |
| Application, Plugin | lifecycle lock against time limits; migration outside the lock | no update is lost, unload leaves no daemon |

The hazards in `PROJECT.json` name the line where each of these bites.

## 2. What is modelled

### SpeechService

`SpeechService.tla` models the speech service, its coordinator and the delivery
task of the client. The code between two awaits is one action; a program
counter per call (`startPc`, `stopPc`, `cancelPc`, `lossPc`) says at which await
it is suspended: the operation lock, the runtime's acknowledgement, the
publication of an event, the future, the settings load, the clipboard. Futures
are named by the stop that creates them. `Fail`, `Abandon`, `Publish`,
`Release` and `AbortDelivery` are the service's helpers, each a relation on the
variables it assigns. Which outcome a runtime command or a delivery has is free.

`SpeechContract.tla` is what all this is for: one session at a time, each begun
once, with its events in order, its transcript at most once, and no event that
brings a session back. `KeepsContract` says that the service implements it, with
`active` the coordinator's session, `decided` the sessions whose start has had
its answer from the coordinator, and `told` how often each event has gone out: a
second publication of a transcript is a step the contract does not have. `TypeOK`
includes what `stop_recording` asserts of its outcome (`OutcomeTyped`): what it goes
on to emit is a transcript, never an error or the sentinel of a cancel.

* `SpeechServiceSafety` (2 sessions, 1 crash, 1 shutdown, sessions symmetric,
  870,826 states): `TypeOK`, `StatusTruthful`, `NoLostWakeup`,
  `PendingReleased`, `SessionReleased`, `TranscriptOwned` and the refinement
  `KeepsContract`. Two sessions give every interleaving of an old and a new
  one; a session is never handled with regard to two others, since the
  coordinator has one slot and the client one delivery task. One crash and one
  shutdown meet at every await.
* `SpeechServiceCallsReturn` (379,034 states): every call returns or raises. Fairness: the event
  loop runs what can run, and every wait is bounded by a time limit in the code
  (2 s acknowledgements, 6 s clipboard, a watchdog of 90 s at least). Nothing is
  assumed of the runtime's answers.
  No shutdown here: it only adds ways to be woken, and its interleavings are in
  the safety run.
* `SpeechServiceLossLeavesWork`, `SpeechServiceCancelRace`: section 5.

### DictationStateMachine and DictationController

`DictationStateMachine.tla` has one operator per transition of the pure function,
giving the next state and the effects. `DictationController.tla` composes it with
the controller: `Adopt` applies a result and makes its calls, `calls` are those
under way, and answers (`CallSucceeds`, `CallFails`), events, errors, presses,
the startup and its watchdog, and dispose come at any time. The mutex is held
for a transition only, so a transition is one action. The history variables
`starts`, `stops`, `inserts`, `cancels` and `heard` count what the backend saw.

* `DictationController` (2 sessions, 3,108 states): `TypeOK`, `CallsMadeOnce`,
  `SessionsClosed`, the action property `OldAnswersIgnored`, and the liveness
  properties `WaitsEnd` and `StartupEnds`. A panel has one session at a time, so
  an old and a new one are all there are to confuse. Fairness: every call is
  answered, since the adapter and the backend bound each by a time limit, and
  the watchdog expires. Nothing obliges a user to press or an event to come.
* `DictationRestart`: section 5.

### DaemonSupervisor

`DaemonSupervisor.tla` models the supervisor with the operations of the
application that use it. `pc` is where the operation that holds the lifecycle
lock is suspended, `watch[p]` where the exit watcher of daemon `p` is. A daemon
may exit or ignore SIGTERM at any time; verification and the spawn may fail, with a
`SpeechError`, which the code reports, or with any other exception, which it does not
catch. Such an exception ends a watcher (`watch` is "failed") without a restart or a
report (`RelaunchRaises`), a stop() that joins this watcher (`JoinRaises`), or the
operation that verifies or starts (`StartRaises`, `raised`). `CrashFollowedUp`
excepts these, by name: any other crash of an enabled runtime is restarted or
reported.

* `DaemonSupervisor` (2 restarts as a policy, 4 spawns, 4 commands, 401,996
  states): `TypeOK`, `Supervised`, `LifecycleReturns`, `CrashFollowedUp` and the
  refinement `KeepsContract`. Four spawns use up the policy and leave one more for
  an explicit restart. Fairness: the
  tasks run; a process that was sent SIGKILL exits; a wait for a process or a
  task has a time limit. Nothing obliges a daemon to exit otherwise.
* `SupervisorOrphan`: section 5.

`SupervisorContract.tla` is what the application may count on: a start launches one
daemon, on a clean slate; any other launch is a restart that the policy granted
after the daemon exited; none is granted or made during a stop; a stop returns
when no daemon runs and no restart is left; a daemon that exited never returns.
`KeepsContract` says that the supervisor implements it: `mode` is where the
lifecycle operation is (`Mode`), `running` and `used` are the processes that run
and that were ever created, `retries` are the watchers between the grant of a
restart and its spawn, `attempts` is `_restarts_used`.

`overtaken` is a history variable: a stop() began while a watcher was past its
last check and before its spawn. That is exactly the interleaving in which a
daemon escapes, so `Supervised` says that there is no other. The contract has it as
`escaped`, and lets it become true only at the beginning of a stop with a restart
granted and nothing running; from then on only the restart policy is promised.
A stop ends without having stopped anything (`StopRaises`) only then: the watcher
whose exception it raises was relaunching when it began.

### ModelDownloads

`ModelDownloads.tla` models the model service and store, with the setup run,
the choice of a model and the guard of a deletion in `composition.py`. `place[c]`
is where the store's task of a call is suspended; `outcome[c]` how it will end.
`Cancelled` says what a cancel does at each place: in the queue it passes the
handler by, while the heartbeat is awaited it is taken for the heartbeat's own.
A deletion is two steps, the decision on the loop and the unlinking in a thread.
The setup run keeps the lifecycle lock, so the selected model changes only
between runs. Progress events are left out, but for the await of the last one.
A setup run ends with a word to the panel, or in an exception that is no
`SpeechError`, of the download or of any other step (`SetupEscapes`: an `OSError`, or
a model that is deleted between the check for its file and its digest); then
`setup` is "lost". `SetupConcludes` says that it is never left in another way, by a
cancel, a deletion or a retry, and that a run that waits has a download to wait for.

* `ModelDownloads` (2 models, 2 downloads and 1 deletion at a time, 1 retry,
  346,712 states): `TypeOK`, `PartsOwned`, `CompleteIsInstalled`,
  `SetupConcludes`, `CancelEnds`. Two concurrent calls are one that works and
  one that queues; the slots are reused, so the history is unbounded. The code
  has two retries, which take the same path. Fairness is weak on the steps
  that follow a cancel: the heartbeat ends, the stream is closed, the call
  resumes. Nothing obliges a server to answer or a stream to end.

### ModelPanel

`ModelPanel.tla` models the same models as the panel shows them: the catalogue
store, the adapter's events that fill it, the choice of a model with its
download modal, and the modal that deletes models one after the other. The
backend is here as the panel sees it (`disk`, `place`, `listing`): downloads of
the panel and of the setup run, and a `list_models` that checks one model after
the other, so that a file can come or go under it. `inbox` carries answers and
events in order. `modal` is one record, whose timer (`hold`) and effects go on
until it is unmounted: `FailureSeen` and `CompletionSeen` are its two effects,
`Settles` what the ref `settled` guards. `stale` is a history variable: models
whose file changed after a list that is shown had checked them, or came although
their download, the panel's or the setup run's (`OnSetupStopped`), was cancelled: a
cancel in the last progress report. The code shows
them wrongly until the next list, and the properties say so. The field `misled`
of the modal is another: its model was among them when the hold began. A newer
list may set the catalogue right during the hold; the modal does not look again
and selects the model that is not there.

* `ModelPanel` (2 models, 2 downloads and 1 list at a time, 1 message under
  way, models and calls symmetric, 3,586,059 states): `TypeOK`,
  `SettlesOnce`, `NoOldFailure`, `CatalogueTrue`, `InFlightIsWork`,
  `SelectsInstalled`. One model is selected and cannot be deleted; the other is
  what modals, downloads and deletions are about. Two downloads are an attempt
  that was given up and still works beside the next one, or the setup run's
  beside the panel's. One message under way is enough for one to be late: the
  panel acts between its sending and its arrival, and whatever follows waits.

### SettingsPanel

`SettingsPanel.tla` models the settings view with `DeckySelfHeal`, the setup
progress and the part of `composition.py` they meet: the lifecycle lock, which a
start, a save or a restart holds for a whole setup run, `update_settings`,
`get_status`, `restart_runtime` and the host's reload of the plugin. Saves wait
for the lock in `saves`, in the order of asyncio's lock. A document is whether the
plugin is enabled and a choice that stands for the other fields, since a change
sends the whole document. An attempt to load is its answer (`loading`) and its
timer (`wakeup`); what belongs to an earlier attempt or an earlier mount is
marked as no longer current, as the effects' clean-ups do. `retries` are the calls
of `restart_runtime` that wait, of which the setup panel that is mounted disables
only its own (`retrying`). A run may fail, or escape at any step. `late` and `lost` are
history variables: the document was read while a save waited for the lock, or a
reload ended the save; a run or a restart ended without an event.

* `SettingsPanel` (2 choices, 2 saves and retries that wait, 1 message under way, choices
  symmetric, 5,602,522 states): `TypeOK`, `SavedOrSaid`, `SetupNotStuck`,
  `FailureShownIsTrue`. Two saves are one that holds the lock and
  one that waits with a newer document; two choices make them differ also when
  both leave the plugin enabled. Timeouts, retries, mounts and runs are not
  bounded; the count of timeouts stops at the limit, where only "at least two"
  matters.

### DictationCard

`DictationCard.tla` composes the state machine of `DictationStateMachine`
with the card that draws it, the recording calls as `composition.py` wraps them,
the level stream and the stores. `handlers` are the calls that run in the
backend, with the stage each has reached; the `finally` that stops the stream is
a step of its own (`StopEnds`), so a new session can begin before it. A frame of
levels is the session it was recorded in, in `buffer` until it is flushed, in
`channel` until it arrives and in `meter` while it is shown. A start is two steps,
under the operation lock (`LockFree`), with the publication between them that a loss
can fall into. A loss gives up the session and then stops the stream (`losing`,
`LossEnds`); the supervisor awaits both before it restarts the daemon, so no start is
acknowledged in between. A cancel that the daemon refuses or lets time out gives
up the session all the same and answers with an error. A copy is its text,
who asked for it and whether its answer still reaches the card (`live`). React
runs the effects of a change before the next task, so `AutoCopy` and
`MeterReset` belong to the action that causes the change. `overlap` is a history
variable: the active session began before the stop of the one before it had
returned.

* `DictationCard` (2 sessions, 2 messages under way, 882,428 states): `TypeOK`,
  `LevelsOwn`, `RecordingHasLevels`, `StreamReleased`, `StatusOfShown` and the
  liveness property `StatusSettles`. Two sessions are the old one, whose calls,
  levels and copies come late, and the new one; two messages are an event and
  the answer of the call that sent it, which go out in one step. Fairness: the
  browser settles the promise of a clipboard write (the other mechanism, a copy
  command, answers at once). Nothing obliges a user, the backend or the channel.

### Deadlock

Deadlock is checked where the system never stops: `ModelDownloads`,
`ModelPanel`, `SettingsPanel` and `DictationCard`. The speech service, the
controller and the supervisor stop by design, when every session has ended, the
panel is disposed, or the bounds on spawns and commands are reached; there the
liveness properties say that what stops is finished.

## 3. What is proved

TLAPS proves the following for all values of the constants, from the named
assumptions of the modules (the sentinels are no sessions, calls or models; the
bounds are natural numbers).

| Module | Argument |
|---|---|
| `SpeechServiceProofs` | `ServiceInvariant` is inductive. The safety properties are not: they need to know who holds the operation lock at each await (`LockHeld`, `HolderOwnsSlot`), that a listened-to future is the pending one (`ListenerPending`), that a cancel has captured it (`CancelSeesListener`), what a woken stop may find (`WokenSlot`) and how far events have got (`Announced`). Types, the five safety properties and the order of events follow. `ServiceKeepsContract` proves the refinement: the initial states agree, and each action is a step of `SpeechContract` or a stutter, one lemma per kind of call (`StartKeepsContract`, `StopKeepsContract`, `CancelKeepsContract`, `LossKeepsContract`). Events are counted, so it needs to know what a step adds (`EventsCounted`, `PublishCounts`) and one fact more, `ToldOnce`: what a session has told is bounded by where its calls are. |
| `DictationControllerProofs` | One lemma per transition gives its result; each action is one of eleven moves of a session; `ControllerInvariant` is restated per session and shown to be kept by each move. The proof needed two facts the first version lacked: an armed watchdog means booting, and an inserting session was heard. Types, five safety properties and the action property `OldAnswersIgnored` follow. |
| `DaemonSupervisorProofs` | `SupervisorInvariant` is inductive: `Supervised` depends on how far stop() has got (`StopProgress`), on watchers that may still restart (`Watched`), on a clean slate before a launch (`CleanLaunch`) and on the settings agreeing with the operation (`Intent`), all unless `overtaken`. `SupervisorKeepsContract` proves the refinement, one lemma per kind of step; it needs one fact more, `WatchersBorn`: a watcher exists from its daemon's creation on, also after a stop was overtaken. A stop that raises is a step of the contract only when overtaken, which `StopProgress` gives: the watcher it joined was relaunching. |
| `ModelDownloadsProofs` | `DownloadInvariant` is inductive: whoever works holds the lock (`LockOwned`), what has been decided at each place (`Decided`), the one download a setup run waits for and its attempts (`SetupAwaits`). Every step is one of five kinds (`Steps`), and each part is shown for each kind. Types and four safety properties follow. |
| `ModelPanelProofs` | `PanelInvariant` has four parts. A modal that is not settled has told nothing and only an open one can be closed (`ModalUnsettled`), which gives `ModalsSettleOnce`; a failure of the model a modal is about came while it was there (`FailureIsNews`), which gives `NoFailureIsOld`. `CatalogueIsTrue` rests on the last message under way about each model: it is right, or the list in it knows what it has wrong (`ListingsRight`, `LastRight`), and without one the catalogue is (`ShownRight`). `InstalledAreSelected` rests on what a claim that a model is installed is backed by: its file, or the answer to a deletion that follows in the channel (`ClaimsBacked`, `ShownBacked`), which only the modal that deletes waits for (`DeletionHeld`), and no modal that selects is open beside it (`OneDialog`). `ProgressIsWork` rests on the end that follows every progress of a download that is over (`ProgressEnds`, `ShownEnds`). |
| `SettingsPanelProofs` | `SettingsSavedOrSaid` rests on `LastSaveShown`: unless a failure is shown or on its way, the last save has what is shown, and without one the backend has it. That needs to know that a save keeps the lock until its call returns (`SaveHeld`), that only an earlier panel leaves saves whose failure is not shown (`SavesCurrent`), and that a load has one answer and nothing left when it is over (`AnswerOnce`, `LoadOver`). `SetupEndIsShown` rests on `EndFollows`: after a run that was not lost, every event that goes on is followed by one that ends it. `FailureShownIsLast` rests on `FailureFollows`: the last message under way that speaks of the setup has the backend's last failure, and without one the snapshot shown. `ReloadsOnce` is an action property of the next-state relation alone. |
| `DictationCardProofs` | A copy that can still answer was asked for with the button or is of the transcript on show (`LiveIsShown`), and a busy state names a session (`SessionShown`); types and `StatusIsOfShown` follow. The levels need `StreamInvariant`, which says who may still touch the stream: sessions are numbered as the panel draws them and nothing under way is younger than the last (`Numbered`); a start that runs, and its answer, are all there is of their session (`StartAwaited`, `BegunAwaited`, `AnswerAwaited`); while a loss is handled there is no session (`LossAlone`); a stream is of the session the panel has, or a call that stops it runs (`StreamOwned`); no such call runs beside that session (`OwnStream`). Each handler of the panel is one of six moves (`AdoptMoves`), each step of the backend is quiet (`Quiet`), the end of a start (`StartEndKeeps`) or its beginning (`StartKeeps`): this one found the calls before it done, so there is no stream unless one of them is a stop, which is what `overlap` records. |

Every safety property and every action property of the runs is a theorem. The
inductive invariants stand at the head of the proof modules; a run's
configuration checks one on a small instance when its module is replaced by the
proof module and the invariant is added to its list, as was done before each was
proved. `EventsInOrder`, `DownloadsAreSerialized`, `WaitsHaveAnAnswer`,
`CallsKeepTheirOrder`, `TheStartupIsDecidedOnce` and `ReloadsOnce` are theorems about further
properties of the modules, which no run lists.

Two properties changed when they were proved. `SelectsInstalled` was false with two
lists at a time, beyond the run's bounds: hence `misled`, which TLC confirms with
two lists (8.9 million states). `FailureShownIsTrue` and `StreamReleased` held under
weaker conditions than they first had: the first also once the daemon is gone, the
second also when the last call is not a stop.

Only model-checked are the liveness properties (`CallsReturn`, `WaitsEnd`,
`StartupEnds`, `LifecycleReturns`, `CrashFollowedUp`, `CancelEnds`,
`StatusSettles`): fairness and ENABLED are beyond the prover.

## 4. Mutants

Every property of a passing run has a mutant, an operator whose comment begins
"Fault:". It stands before the definition it replaces and is what a plausible
bug there would make of it, e.g. `ForgetNothing`, `AbandonForgetsWaiter`,
`EmitDeliversTwice`, `FailureWithoutCancel`, `BackoffEndsUnchecked`,
`SuspendedUnmarked`, `KeepPart`, `CancelledLater`, `OnCompleteUnmarked`, `SelectsAlways`,
`OnUnsavedSilent`, `RunFailsSilently`, `CancelledAnswers`, `CancelsFound`. With it
in place TLC finds the property violated.

## 5. Where the code disagrees with its documents and tests

| Run | What it shows |
|---|---|
| `SpeechServiceLossLeavesWork` | A crash while stop_recording publishes "transcribing" leaves the pending delivery set for ever; the supervisor then skips its restarts. |
| `SpeechServiceCancelRace` | A cancel succeeds while the transcript is on its way to the clipboard, and the transcript is published after it. |
| `DictationRestart` | A fatal error is never left, although the runtime was restarted and reports ready. |
| `SupervisorOrphan` | A disable returns while a watcher relaunches; the daemon runs on, unknown to the supervisor. |

Each quotes its source in `PROJECT.json`. They are reachable, some in narrow
windows. The passing runs say what holds apart from these and from other
windows of the code, each named by a history variable that appears in the
properties: `losses` and `shutdowns` (speech service), `overtaken`
(supervisor), `deleted` (models), `stale` and `misled` (catalogue), `late` and `lost`
(settings and setup), `overlap` (levels), and by `raised`, "failed" and "lost" where an
exception that is no `SpeechError` passes the handlers. Two more disagreements are listed as
hazards: a modal that Steam closes during the hold cancels the download, where a
test wants a dismissal to complete it, and a deletion can meet a settings change
that selects the model.

## 6. Not modelled

The status watcher and its file; the plugin's bounded load and unload and the
application's dispose; the settings file's migration and its temporary file.
These are planned (section 7). The manifest, the runtime variants, the
clipboard program of the backend, contracts, messages and the drawing of the
microphone, the levels, the language picker and the hints keep no state that
two actors share. Payloads that a guard of the adapter drops, and second
subscriptions, are left out, as no backend of this version sends or makes them.
The retries and files of `VoxtypeClient`, the daemon's configuration, sizes,
percentages and wording are abstracted to success or failure.
Time limits are steps that may happen at any time; durations are not compared,
so a limit that is too short for the one it encloses is not seen.

## 7. Plan

In this order, the most important first:

1. `DictationSystem`: the controller, the channel and the speech service
   together. `DictationCard` has the controller's machine with a service reduced
   to its contract; the composition with `SpeechService` itself is to show that a
   panel that transcribes is ended by an event, using `SpeechContract` as the
   interface.
2. `Lifecycle`: `Application` and `Plugin`: start, dispose with its 4 s limit
   against the lifecycle lock, reload, `migrate_settings` outside the lock, and
   the status watcher with a stale idle status. It composes `DaemonSupervisor`
   through `SupervisorContract`, and `ModelDownloads` with the settings, for the deletion of a model
   that is just being selected (`composition.py:457`).
3. `SettingsRepository`: load, migrate and save by temporary file and rename,
   with a crash between any two steps.
4. Proofs: the theorems of the new modules, and `DictationSystem` through
   `SpeechContract`.
