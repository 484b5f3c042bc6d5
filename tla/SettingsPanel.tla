--------------------------- MODULE SettingsPanel ---------------------------
(***************************************************************************)
(* The settings panel between the player and the backend                   *)
(* (presentation/settings/SettingsPanel.tsx): the load of the settings     *)
(* with its time limit, the reload of a backend that does not answer       *)
(* (infrastructure/decky/DeckySelfHeal.ts), the changes that are shown     *)
(* before they are stored, and the progress of the setup run with its      *)
(* hydration (SetupProgressPort.ts, SetupProgressPanel.tsx,                *)
(* DeckySpeechAdapter.ts).                                                 *)
(*                                                                         *)
(* The backend is the part of backend/composition.py that these meet: the  *)
(* lifecycle lock, update_settings, the setup run with its events          *)
(* (backend/application/setup_progress.py), get_status and                 *)
(* restart_runtime.  One channel carries answers and events in order.      *)
(*                                                                         *)
(* A settings document is whether the plugin is enabled and a choice that  *)
(* stands for the other fields.  Percentages and wording are left out.     *)
(***************************************************************************)
EXTENDS Naturals, Sequences

CONSTANTS
    Choices,        \* values of the other fields
    None,           \* null
    MaxWaiting,     \* bound: saves and restarts that wait for the lifecycle lock
    MaxQueued       \* bound: messages under way at a time

VARIABLES
    stored,         \* backend: the settings document
    up,             \* backend: whether start() has got the lock since the process began
    lock,           \* backend: who has the lifecycle lock
    run,            \* backend: the step of the setup run
    daemon,         \* backend: supervisor.is_running()
    lastFailure,    \* backend: the step at which the last failed run failed
    saves,          \* update_settings calls that wait for the lock
    retries,        \* how many restart_runtime calls wait for the lock
    retrying,       \* whether the setup panel that is mounted has called it: restarting
    asking,         \* whether a get_status call of a hydration is out
    inbox,          \* answers and events under way to the panel
    loading,        \* whether the load of the current attempt is unanswered
    wakeup,         \* whether its timer is armed
    value,          \* the settings shown, or None
    saveError,
    loadFailed,
    reloadPending,
    streak,         \* consecutiveLoadTimeouts
    reload,         \* reloadTriggeredInSession, and what became of the call
    snapshot,       \* SetupProgressStore's snapshot
    lost,           \* history: the last run, the try to begin one or a restart since then
                    \* has ended without an event
    late            \* history: a save was under way when the settings shown were read, or
                    \* when the backend was reloaded

backend == <<stored, up, lock, run, daemon, lastFailure>>
calls == <<saves, retries, retrying, asking>>
load == <<loading, wakeup, loadFailed>>
heal == <<reloadPending, streak, reload>>
shown == <<value, saveError, late>>

vars == <<backend, calls, inbox, load, heal, shown, snapshot, lost>>

-----------------------------------------------------------------------------

Settings == [enabled : BOOLEAN, choice : Choices]

Steps == 0 .. 3

\* No run, and one that an exception has ended.
Idle == 4
Escaped == 5

\* isSetupProgressSnapshot lets pass what has a known step and a step index.
Snapshot == [step : {"running", "failed"}, index : Steps] \cup [step : {"ready"}, index : {4}]

\* current: whether the attempt, or the panel, that made the call is still there.
Message ==
    [kind : {"setup"}, snapshot : Snapshot]
        \cup [kind : {"status"}, failure : Steps \cup {None}]
        \cup [kind : {"loaded"}, current : BOOLEAN, value : Settings]
        \cup [kind : {"rejected", "unsaved"}, current : BOOLEAN]
        \cup [kind : {"import"}]

\* The setup run belongs to the holder of the lock, and a timer to its attempt.
TypeOK ==
    /\ stored \in Settings
    /\ up \in BOOLEAN
    /\ lock \in {"free", "start", "save", "restart"}
    /\ run \in Steps \cup {Idle, Escaped}
    /\ run # Idle => lock # "free"
    /\ daemon \in BOOLEAN
    /\ lastFailure \in Steps \cup {None}
    /\ saves \in Seq([value : Settings, current : BOOLEAN])
    /\ retries \in Nat /\ retrying \in BOOLEAN
    /\ asking \in BOOLEAN
    /\ inbox \in Seq(Message)
    /\ loading \in BOOLEAN /\ wakeup \in BOOLEAN
    /\ value \in Settings \cup {None}
    /\ wakeup => value = None
    /\ saveError \in BOOLEAN /\ late \in BOOLEAN
    /\ loadFailed \in BOOLEAN /\ reloadPending \in BOOLEAN
    /\ lost \in BOOLEAN
    /\ streak \in Nat
    /\ reload \in {"no", "called", "over"}
    /\ snapshot \in Snapshot \cup {None}

\* The panel is mounted while the plugin starts or after, so the store may have seen
\* no event at all.
Init ==
    /\ stored \in Settings
    /\ up = FALSE
    /\ lock = "free"
    /\ run = Idle
    /\ daemon = FALSE
    /\ lastFailure = None
    /\ saves = <<>>
    /\ retries = 0 /\ retrying = FALSE
    /\ asking = TRUE
    /\ inbox = <<>>
    /\ loading = TRUE /\ wakeup = TRUE
    /\ value = None
    /\ saveError = FALSE
    /\ loadFailed = FALSE
    /\ reloadPending = FALSE
    /\ streak = 0
    /\ reload = "no"
    /\ snapshot = None
    /\ lost = FALSE
    /\ late = FALSE

Send(m) == Len(inbox) < MaxQueued /\ inbox' = Append(inbox, m)

SendSetup(step, index) == Send([kind |-> "setup", snapshot |-> [step |-> step, index |-> index]])

-----------------------------------------------------------------------------
(* The setup run *)

\* _startup_runtime or start: the first step is announced, unless the status monitor
\* cannot start.
Begins ==
    \/ /\ run' = 0
       /\ lost' = FALSE
       /\ SendSetup("running", 0)
    \/ /\ run' = Idle
       /\ lost' = TRUE
       /\ UNCHANGED inbox

Start ==
    /\ ~up
    /\ lock = "free"
    /\ up' = TRUE
    /\ lock' = "start"
    /\ IF stored.enabled THEN Begins ELSE UNCHANGED <<run, lost, inbox>>
    /\ UNCHANGED <<stored, daemon, lastFailure, calls, load, heal, shown, snapshot>>

\* The daemon is spawned between the third step and the fourth.
RunSteps ==
    /\ run \in 0 .. 2
    /\ run' = run + 1
    /\ SendSetup("running", run + 1)
    /\ daemon' = (run = 2 \/ daemon)
    /\ UNCHANGED <<stored, up, lock, lastFailure, calls, load, heal, shown, snapshot, lost>>

RunReady ==
    /\ run = 3
    /\ run' = Idle
    /\ lastFailure' = None
    /\ SendSetup("ready", 4)
    /\ UNCHANGED <<stored, up, lock, daemon, calls, load, heal, shown, snapshot, lost>>

\* Fault: a failure is kept for get_status and not announced.
RunFailsSilently ==
    /\ run \in Steps
    /\ run' = Idle
    /\ lastFailure' = run
    /\ UNCHANGED <<stored, up, lock, daemon, calls, inbox, load, heal, shown, snapshot, lost>>

\* _fail_startup.  A daemon that does not warm up is left running.
RunFails ==
    /\ run \in Steps
    /\ run' = Idle
    /\ lastFailure' = run
    /\ SendSetup("failed", run)
    /\ UNCHANGED <<stored, up, lock, daemon, calls, load, heal, shown, snapshot, lost>>

\* An exception of any step that is no SpeechError.
RunEscapes ==
    /\ run \in Steps
    /\ run' = Escaped
    /\ lost' = TRUE
    /\ UNCHANGED <<stored, up, lock, daemon, lastFailure, calls, inbox, load, heal, shown, snapshot>>

DaemonDies ==
    /\ daemon
    /\ daemon' = FALSE
    /\ UNCHANGED <<stored, up, lock, run, lastFailure, calls, inbox, load, heal, shown, snapshot, lost>>

-----------------------------------------------------------------------------
(* update_settings and restart_runtime, which Decky calls after start() *)

\* The change cannot be stored, or is not valid.
SaveRefused ==
    /\ up /\ lock = "free"
    /\ saves # <<>>
    /\ saves' = Tail(saves)
    /\ Send([kind |-> "unsaved", current |-> Head(saves).current])
    /\ UNCHANGED <<backend, retries, retrying, asking, load, heal, shown, snapshot, lost>>

\* _restart_runtime forgets a failure and emits no setup event.
RuntimeRestarts ==
    \/ /\ lastFailure' = None
       /\ lost' = TRUE
       /\ UNCHANGED daemon
    \/ /\ daemon' \in BOOLEAN
       /\ UNCHANGED <<lastFailure, lost>>

\* _apply_runtime_lifecycle, under the lock.
Applies(before, after) ==
    \/ /\ before.enabled /\ ~after.enabled
       /\ daemon' = FALSE
       /\ UNCHANGED <<run, lost, inbox, lastFailure>>
    \/ /\ ~before.enabled /\ after.enabled
       /\ Begins
       /\ UNCHANGED <<daemon, lastFailure>>
    \/ /\ before.enabled /\ after.enabled /\ daemon /\ before # after
       /\ RuntimeRestarts
       /\ UNCHANGED <<run, inbox>>
    \/ /\ before.enabled = after.enabled
       /\ after.enabled /\ daemon => before = after
       /\ UNCHANGED <<run, lost, inbox, daemon, lastFailure>>

SaveApplied ==
    /\ up /\ lock = "free"
    /\ saves # <<>>
    /\ lock' = "save"
    /\ stored' = Head(saves).value
    /\ Applies(stored, stored')
    /\ UNCHANGED <<up, calls, load, heal, shown, snapshot>>

RestartBegins ==
    /\ up /\ lock = "free"
    /\ retries > 0
    /\ lock' = "restart"
    /\ retries' = retries - 1
    /\ IF stored.enabled
       THEN daemon' = FALSE /\ Begins
       ELSE UNCHANGED <<daemon, run, lost, inbox>>
    /\ UNCHANGED <<stored, up, lastFailure, saves, retrying, asking, load, heal, shown, snapshot>>

\* The call returns, or raises what escaped from the run.  The lock is handed over in
\* order, so the call of the setup panel that is mounted is the last restart.
Release ==
    /\ lock # "free"
    /\ run \in {Idle, Escaped}
    /\ lock' = "free"
    /\ run' = Idle
    /\ saves' = IF lock = "save" THEN Tail(saves) ELSE saves
    /\ retrying' = (retrying /\ ~(lock = "restart" /\ retries = 0))
    /\ IF lock = "save" /\ run = Escaped
       THEN Send([kind |-> "unsaved", current |-> Head(saves).current])
       ELSE UNCHANGED inbox
    /\ UNCHANGED <<stored, up, daemon, lastFailure, retries, asking, load, heal, shown, snapshot,
                   lost>>

-----------------------------------------------------------------------------
(* Answers that need no lock *)

\* get_settings.  It may also stay unanswered.
LoadAnswered ==
    /\ loading
    /\ loading' = FALSE
    /\ \/ Send([kind |-> "loaded", current |-> TRUE, value |-> stored])
       \/ Send([kind |-> "rejected", current |-> TRUE])
    /\ UNCHANGED <<backend, calls, wakeup, loadFailed, heal, shown, snapshot, lost>>

\* get_status, and what hydrateSetupFromStatus lets pass: a failure while nothing runs.
\* A download under way, the panel's own too, hides it.
StatusAnswered ==
    /\ asking
    /\ asking' = FALSE
    /\ \/ Send([kind |-> "status", failure |-> None])
       \/ /\ ~daemon /\ stored.enabled
          /\ Send([kind |-> "status", failure |-> lastFailure])
    /\ UNCHANGED <<backend, saves, retries, retrying, load, heal, shown, snapshot, lost>>

\* loader/reload_plugin ends the process and begins another, or fails.
LoaderReloads ==
    /\ reload = "called"
    /\ reload' = "over"
    /\ \/ /\ up' = FALSE
          /\ lock' = "free"
          /\ run' = Idle
          /\ daemon' = FALSE
          /\ lastFailure' = None
          /\ saves' = <<>>
          /\ retries' = 0 /\ retrying' = FALSE
          /\ asking' = FALSE
          /\ loading' = FALSE
          /\ lost' = TRUE
          /\ late' = (late \/ saves # <<>>)
          /\ Send([kind |-> "import"])
       \/ UNCHANGED <<up, lock, run, daemon, lastFailure, calls, loading, lost, late, inbox>>
    /\ UNCHANGED <<stored, wakeup, loadFailed, reloadPending, streak, value, saveError, snapshot>>

-----------------------------------------------------------------------------
(* The load of the settings *)

\* What has been called from an attempt or a panel that is no more is ignored.
Cancelled(s) == [i \in DOMAIN s |-> [s[i] EXCEPT !.current = FALSE]]

CancelledLoads(s) ==
    [i \in DOMAIN s |->
        IF s[i].kind \in {"loaded", "rejected"} THEN [s[i] EXCEPT !.current = FALSE] ELSE s[i]]

CancelledCalls(s) ==
    [i \in DOMAIN s |->
        IF s[i].kind = "unsaved" THEN [s[i] EXCEPT !.current = FALSE] ELSE s[i]]

\* The load effect: get_settings, its timer and a hydration, which asks only while
\* the store has seen nothing.
Loads ==
    /\ loading' = TRUE
    /\ wakeup' = TRUE
    /\ asking' = (asking \/ snapshot = None)

RetryLoad ==
    /\ value = None
    /\ loadFailed
    /\ loadFailed' = FALSE
    /\ inbox' = CancelledLoads(inbox)
    /\ Loads
    /\ UNCHANGED <<backend, saves, retries, retrying, heal, shown, snapshot, lost>>

\* The panel is closed and opened: its state begins anew, its calls go on.
Remount ==
    /\ value' = None
    /\ saveError' = FALSE
    /\ loadFailed' = FALSE
    /\ reloadPending' = FALSE
    /\ late' = FALSE
    /\ retrying' = FALSE
    /\ saves' = Cancelled(saves)
    /\ inbox' = CancelledCalls(CancelledLoads(inbox))
    /\ Loads
    /\ UNCHANGED <<backend, retries, streak, reload, snapshot, lost>>

\* reportLoadOutcome("timeout").  The gate is shut by a session or a download.
ReportTimeout ==
    \/ /\ streak + 1 >= 2
       /\ reload = "no"
       /\ reload' = "called"
       /\ streak' = 0
       /\ reloadPending' = TRUE
    \/ /\ streak' = IF streak < 2 THEN streak + 1 ELSE streak
       /\ UNCHANGED <<reload, reloadPending>>

\* The load is not given up: it may still be answered.  A timer that fires before the
\* deadline of the clock does nothing.
WakeupFires ==
    /\ wakeup
    /\ wakeup' = FALSE
    /\ \/ loadFailed' = TRUE /\ ReportTimeout
       \/ UNCHANGED <<loadFailed, heal>>
    /\ UNCHANGED <<backend, calls, inbox, loading, shown, snapshot, lost>>

-----------------------------------------------------------------------------
(* What the panel makes of a message *)

Received == inbox' = Tail(inbox)

\* Fault: the timer goes on after the answer.
OnLoadedTimer(m) ==
    /\ m.kind = "loaded"
    /\ Received
    /\ IF m.current
       THEN /\ loadFailed' = FALSE /\ reloadPending' = FALSE /\ streak' = 0
            /\ value' = m.value
            /\ late' = (saves # <<>> \/ m.value # stored)
       ELSE UNCHANGED <<loadFailed, reloadPending, streak, value, late>>
    /\ UNCHANGED <<loading, wakeup, reload, saveError, asking, snapshot, retrying>>

OnLoaded(m) ==
    /\ m.kind = "loaded"
    /\ Received
    /\ IF m.current
       THEN /\ wakeup' = FALSE /\ loadFailed' = FALSE /\ reloadPending' = FALSE /\ streak' = 0
            /\ value' = m.value
            /\ late' = (saves # <<>> \/ m.value # stored)
       ELSE UNCHANGED <<wakeup, loadFailed, reloadPending, streak, value, late>>
    /\ UNCHANGED <<loading, reload, saveError, asking, snapshot, retrying>>

\* A rejection leaves a reload announced that is under way.
OnRejected(m) ==
    /\ m.kind = "rejected"
    /\ Received
    /\ IF m.current
       THEN wakeup' = FALSE /\ loadFailed' = TRUE /\ streak' = 0
       ELSE UNCHANGED <<wakeup, loadFailed, streak>>
    /\ UNCHANGED <<loading, reloadPending, reload, shown, asking, snapshot, retrying>>

\* loader/import_plugin: a panel whose load failed loads again.
OnImport(m) ==
    /\ m.kind = "import"
    /\ streak' = 0
    /\ IF loadFailed
       THEN /\ loadFailed' = FALSE /\ reloadPending' = FALSE /\ Loads
            /\ inbox' = CancelledLoads(Tail(inbox))
       ELSE Received /\ UNCHANGED <<loadFailed, reloadPending, loading, wakeup, asking>>
    /\ UNCHANGED <<reload, shown, snapshot, retrying>>

\* Fault: a save that fails leaves no trace.
OnUnsavedSilent(m) ==
    /\ m.kind = "unsaved"
    /\ Received
    /\ UNCHANGED <<load, heal, shown, asking, snapshot, retrying>>

OnUnsaved(m) ==
    /\ m.kind = "unsaved"
    /\ Received
    /\ saveError' = (saveError \/ m.current)
    /\ UNCHANGED <<load, heal, value, late, asking, snapshot, retrying>>

\* setup_progress.  A run that is ready unmounts the setup panel.
OnSetup(m) ==
    /\ m.kind = "setup"
    /\ Received
    /\ snapshot' = m.snapshot
    /\ retrying' = (retrying /\ m.snapshot.step # "ready")
    /\ UNCHANGED <<load, heal, shown, asking>>

\* Fault: the failure of an earlier run is not told from the step it is shown for.
OnStatusFirstStep(m) ==
    /\ m.kind = "status"
    /\ Received
    /\ snapshot' = IF m.failure = None THEN snapshot ELSE [step |-> "failed", index |-> 0]
    /\ UNCHANGED <<load, heal, shown, asking, retrying>>

\* The rest of hydrateSetupFromStatus: what has come since is not looked at.
OnStatus(m) ==
    /\ m.kind = "status"
    /\ Received
    /\ snapshot' = IF m.failure = None THEN snapshot
                   ELSE [step |-> "failed", index |-> m.failure]
    /\ UNCHANGED <<load, heal, shown, asking, retrying>>

Receive ==
    /\ inbox # <<>>
    /\ LET m == Head(inbox) IN
        OnLoaded(m) \/ OnRejected(m) \/ OnImport(m) \/ OnUnsaved(m) \/ OnSetup(m) \/ OnStatus(m)
    /\ UNCHANGED <<backend, saves, retries, lost>>

-----------------------------------------------------------------------------
(* What the player does in the panel *)

\* update: the whole document is shown, and saved.  The setup panel of a plugin that
\* is not enabled is unmounted.
Update ==
    /\ value # None
    /\ Len(saves) + retries < MaxWaiting
    /\ \E v \in Settings :
        /\ v # value
        /\ v.enabled = value.enabled \/ v.choice = value.choice
        /\ value' = v
        /\ saves' = Append(saves, [value |-> v, current |-> TRUE])
        /\ retrying' = (retrying /\ v.enabled)
    /\ saveError' = FALSE
    /\ UNCHANGED <<backend, retries, asking, inbox, load, heal, late, snapshot, lost>>

\* showSetup, and the button of a failed run; disabled while its call is out.
SetupShown == value # None /\ value.enabled /\ snapshot # None /\ snapshot.step # "ready"

RetrySetup ==
    /\ SetupShown
    /\ snapshot.step = "failed"
    /\ ~retrying
    /\ Len(saves) + retries < MaxWaiting
    /\ retries' = retries + 1
    /\ retrying' = TRUE
    /\ UNCHANGED <<backend, saves, asking, inbox, load, heal, shown, snapshot, lost>>

-----------------------------------------------------------------------------

Run == RunSteps \/ RunReady \/ RunFails \/ RunEscapes

Backend ==
    \/ Start \/ Run \/ DaemonDies \/ SaveRefused \/ SaveApplied \/ RestartBegins \/ Release
    \/ LoadAnswered \/ StatusAnswered \/ LoaderReloads

Next ==
    \/ Backend
    \/ RetryLoad \/ Remount \/ WakeupFires
    \/ Receive
    \/ Update \/ RetrySetup

Spec == Init /\ [][Next]_vars

-----------------------------------------------------------------------------
(* Properties *)

Quiet == inbox = <<>> /\ saves = <<>>

\* The settings shown are the settings stored, or the panel says that a save failed,
\* whatever the order of changes, failures and loads; except when they were read
\* while a save was waiting for the lifecycle lock, or a reload ended such a save.
SavedOrSaid == Quiet /\ value # None => value = stored \/ saveError \/ late

\* Once a setup run has ended and its events have come, the panel does not show it as
\* running, unless it was lost.
SetupNotStuck ==
    run = Idle /\ inbox = <<>> /\ snapshot # None /\ snapshot.step = "running" => lost

\* The failure shown, and the step marked for it, is the last failure of the backend,
\* however the events of the runs and the answers of get_status came, as long as no run
\* is there to contradict it and no restart has made the backend forget it.
FailureShownIsTrue ==
    run = Idle /\ inbox = <<>> /\ snapshot # None /\ snapshot.step = "failed" =>
        lastFailure = snapshot.index \/ lost

=============================================================================
