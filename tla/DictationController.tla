------------------------- MODULE DictationController -------------------------
(***************************************************************************)
(* The panel's controller (src/application/DictationController.ts): it     *)
(* feeds presses, answers, backend events and the startup outcome to the   *)
(* state machine, adopts the next state and runs the effects.              *)
(*                                                                         *)
(* JavaScript runs to completion, so each handler is one action and an     *)
(* await is the boundary between two.  The body of a press runs in a       *)
(* microtask of the click's own task, before any other task: a press is    *)
(* one action too.  requestCancel and dismissError are public operations   *)
(* of the controller; the panel has no button for them.                    *)
(*                                                                         *)
(* The backend is the environment: a call is answered with success or      *)
(* failure at any time, and events of any session arrive at any time.      *)
(***************************************************************************)
EXTENDS Naturals, DictationStateMachine

VARIABLES
    state,          \* the state the panel shows
    calls,          \* effects that run: calls the controller awaits
    starts,         \* how often startRecording has been called, by session
    stops,          \* stopRecording
    inserts,        \* the clipboard write of the transcript
    cancels,        \* cancelRecording
    heard,          \* sessions whose transcript the controller accepted
    startPc,        \* where start() is suspended
    watchdog,       \* the startup watchdog: startupWatchdog, startupExpired
    disposePc       \* where dispose() is suspended; "idle" is ~disposed

issued == <<starts, stops, inserts, cancels>>

vars == <<state, calls, issued, heard, startPc, watchdog, disposePc>>

startup == <<startPc, watchdog>>

-----------------------------------------------------------------------------

TypeOK ==
    /\ state \in States
    /\ calls \subseteq Calls
    /\ starts \in [Sessions -> Nat]
    /\ stops \in [Sessions -> Nat]
    /\ inserts \in [Sessions -> Nat]
    /\ cancels \in [Sessions -> Nat]
    /\ heard \subseteq Sessions
    /\ startPc \in {"idle", "settings", "initialize", "done"}
    /\ watchdog \in {"off", "armed", "expired"}
    /\ disposePc \in {"idle", "cancelling", "done"}

Init ==
    /\ state = Plain("booting")
    /\ calls = {}
    /\ starts = [s \in Sessions |-> 0]
    /\ stops = [s \in Sessions |-> 0]
    /\ inserts = [s \in Sessions |-> 0]
    /\ cancels = [s \in Sessions |-> 0]
    /\ heard = {}
    /\ startPc = "idle"
    /\ watchdog = "off"
    /\ disposePc = "idle"

disposed == disposePc # "idle"

\* The controller listens to backend events from start() to the end of dispose().
subscribed == startPc # "idle" /\ disposePc # "done"

Counted(count, op, effects) ==
    [s \in Sessions |-> IF <<op, s>> \in effects THEN count[s] + 1 ELSE count[s]]

\* apply and adopt, with the calls that are under way besides the new effects.
Adopt(result, others) ==
    /\ state' = result.state
    /\ calls' = others \cup result.effects
    /\ starts' = Counted(starts, "start", result.effects)
    /\ stops' = Counted(stops, "stop", result.effects)
    /\ inserts' = Counted(inserts, "insert", result.effects)
    /\ cancels' = Counted(cancels, "cancel", result.effects)

-----------------------------------------------------------------------------
(* start *)

Start ==
    /\ startPc = "idle"
    /\ ~disposed
    /\ startPc' = "settings"
    /\ watchdog' = "armed"
    /\ UNCHANGED <<state, calls, issued, heard, disposePc>>

SettingsLoaded ==
    /\ startPc = "settings"
    /\ startPc' = "initialize"
    /\ UNCHANGED <<state, calls, issued, heard, watchdog, disposePc>>

\* applyStartupOutcome, and the "finally" that clears the watchdog.
StartupOutcome(result) ==
    /\ IF watchdog = "expired"
       THEN UNCHANGED <<state, calls, issued>>
       ELSE Adopt(result, calls)
    /\ startPc' = "done"
    /\ watchdog' = IF watchdog = "armed" THEN "off" ELSE watchdog

StartupFails ==
    /\ startPc \in {"settings", "initialize"}
    /\ StartupOutcome(StartupFailed(state))
    /\ UNCHANGED <<heard, disposePc>>

StartupCompletes(available) ==
    /\ startPc = "initialize"
    /\ StartupOutcome(StartupCompleted(state, available))
    /\ UNCHANGED <<heard, disposePc>>

\* Fault: the watchdog notes that it expired and reports nothing.
SilentWatchdog ==
    /\ watchdog = "armed"
    /\ watchdog' = "expired"
    /\ UNCHANGED <<state, calls, issued, heard, startPc, disposePc>>

WatchdogExpires ==
    /\ watchdog = "armed"
    /\ watchdog' = "expired"
    /\ Adopt(StartupFailed(state), calls)
    /\ UNCHANGED <<heard, startPc, disposePc>>

-----------------------------------------------------------------------------
(* What the user does *)

\* A press of a ready panel draws a fresh identifier.
Press ==
    /\ ~disposed
    /\ \/ \E s \in Sessions :
            /\ state.kind = "ready"
            /\ starts[s] = 0
            /\ Adopt(MicrophonePressed(state, s), calls)
       \/ /\ state.kind = "recording"
          /\ Adopt(MicrophonePressed(state, NoSession), calls)
    /\ UNCHANGED <<heard, startup, disposePc>>

RequestCancel ==
    /\ ~disposed
    /\ Adopt(CancelRequested(state), calls)
    /\ UNCHANGED <<heard, startup, disposePc>>

DismissError ==
    /\ Adopt(ErrorDismissed(state), calls)
    /\ UNCHANGED <<heard, startup, disposePc>>

-----------------------------------------------------------------------------
(* runEffects: the answers to its calls *)

\* Fault: the outcome of a clipboard write is dropped.
AnswerDroppingInsertion(op, s) ==
    CASE op = "start" -> RecordingStarted(state, s)
      [] op = "stop" -> RecordingStopped(state, s)
      [] op \in {"cancel", "insert"} -> Unchanged(state)

SuccessOf(op, s) ==
    CASE op = "start" -> RecordingStarted(state, s)
      [] op = "stop" -> RecordingStopped(state, s)
      [] op = "insert" -> InsertionSucceeded(state, s)
      [] op = "cancel" -> Unchanged(state)

\* A failed cancel is only logged; a failed clipboard write is an insertion
\* that failed.
FailureOf(op, s, fatal) ==
    CASE op \in {"start", "stop"} -> SpeechFailed(state, s, fatal)
      [] op = "insert" -> InsertionFailed(state, s)
      [] op = "cancel" -> Unchanged(state)

CallSucceeds(op, s) ==
    /\ <<op, s>> \in calls
    /\ Adopt(SuccessOf(op, s), calls \ {<<op, s>>})
    /\ UNCHANGED <<heard, startup, disposePc>>

CallFails(op, s, fatal) ==
    /\ <<op, s>> \in calls
    /\ Adopt(FailureOf(op, s, fatal), calls \ {<<op, s>>})
    /\ UNCHANGED <<heard, startup, disposePc>>

-----------------------------------------------------------------------------
(* Events of the backend *)

\* onTranscriptReady: a transcript of another session is stale.
TranscriptArrives(s, text) ==
    /\ subscribed
    /\ state.session = s
    /\ Adopt(TranscriptReady(state, s, text), calls)
    /\ heard' = IF state' # state THEN heard \cup {s} ELSE heard
    /\ UNCHANGED <<startup, disposePc>>

\* onSpeechError: an error that names no session is taken for the session of
\* the panel, an error of another session is stale.
ErrorArrives(s, fatal) ==
    /\ subscribed
    /\ state.session # NoSession
    /\ s \in {NoSession, state.session}
    /\ Adopt(SpeechFailed(state, state.session, fatal), calls)
    /\ UNCHANGED <<heard, startup, disposePc>>

\* onRuntimeStatus: RUNTIME_CRASHED is fatal; the other statuses are logged.
RuntimeCrashes ==
    /\ subscribed
    /\ state.session # NoSession
    /\ Adopt(SpeechFailed(state, state.session, TRUE), calls)
    /\ UNCHANGED <<heard, startup, disposePc>>

RuntimeReady ==
    /\ subscribed
    /\ state.kind = "error"
    /\ Adopt(ErrorDismissed(state), calls)
    /\ UNCHANGED <<heard, startup, disposePc>>

-----------------------------------------------------------------------------
(* dispose *)

\* The cancel of the active session is awaited before the listener goes.
Dispose ==
    /\ ~disposed
    /\ watchdog' = IF watchdog = "armed" THEN "off" ELSE watchdog
    /\ IF state.session = NoSession
       THEN disposePc' = "done" /\ UNCHANGED cancels
       ELSE /\ disposePc' = "cancelling"
            /\ cancels' = [cancels EXCEPT ![state.session] = @ + 1]
    /\ UNCHANGED <<state, calls, starts, stops, inserts, heard, startPc>>

DisposeReturns ==
    /\ disposePc = "cancelling"
    /\ disposePc' = "done"
    /\ UNCHANGED <<state, calls, issued, heard, startup>>

-----------------------------------------------------------------------------

CallAnswered(op, s) ==
    CallSucceeds(op, s) \/ \E fatal \in BOOLEAN : CallFails(op, s, fatal)

Next ==
    \/ Start \/ SettingsLoaded \/ StartupFails \/ WatchdogExpires
    \/ \E available \in BOOLEAN : StartupCompletes(available)
    \/ Press \/ RequestCancel \/ DismissError
    \/ \E c \in Calls : CallAnswered(c[1], c[2])
    \/ \E s \in Sessions, text \in Texts : TranscriptArrives(s, text)
    \/ \E s \in MaybeSession, fatal \in BOOLEAN : ErrorArrives(s, fatal)
    \/ RuntimeCrashes \/ RuntimeReady
    \/ Dispose \/ DisposeReturns

Spec == Init /\ [][Next]_vars

\* Calls are answered: the backend gives each route a time budget, and the
\* clipboard write is the browser's.  The timer fires.  Nothing obliges the
\* backend to send an event or to answer the calls of start().
FairSpec ==
    /\ Spec
    /\ WF_vars(WatchdogExpires)
    /\ \A c \in Calls : WF_vars(CallAnswered(c[1], c[2]))

-----------------------------------------------------------------------------
(* Safety *)

\* The call that will end the wait of a starting, stopping or inserting panel
\* is under way.
WaitsForAnswer ==
    /\ state.kind = "starting" => <<"start", state.session>> \in calls
    /\ state.kind = "stopping" => <<"stop", state.session>> \in calls
    /\ state.kind = "inserting" => <<"insert", state.session>> \in calls

\* A session is started, stopped and inserted at most once, whatever the order
\* of answers and events; it is cancelled twice only when its failure arrives
\* while dispose waits for the first cancel.
CallsMadeOnce ==
    \A s \in Sessions :
        /\ starts[s] <= 1 /\ stops[s] <= 1 /\ inserts[s] <= 1
        /\ cancels[s] <= IF disposed THEN 2 ELSE 1

\* A stop is sent only when the start has been answered, and a text inserted
\* only in a session that has been asked to stop.
CallsInOrder ==
    \A s \in Sessions :
        /\ stops[s] > 0 => <<"start", s>> \notin calls
        /\ inserts[s] > 0 => stops[s] > 0

\* The backend hears of every session the panel leaves: it has delivered the
\* transcript or is told to cancel.
SessionsClosed ==
    \A s \in Sessions :
        starts[s] > 0 /\ state.session # s => s \in heard \/ cancels[s] > 0

\* The startup is decided once: by its outcome or, for good, by the watchdog.
StartupDecidedOnce ==
    /\ watchdog = "expired" => state = Plain("unavailable")
    /\ startPc = "done" => state.kind # "booting"

\* The answer to a call of a session the panel has left changes nothing.
OldAnswersIgnored ==
    [][\A c \in calls \ calls' :
            c[2] # state.session => state' = state]_vars

-----------------------------------------------------------------------------
(* Liveness *)

\* A panel that waits for an answer does not wait for ever.
WaitsEnd ==
    \A s \in Sessions, kind \in {"starting", "stopping", "inserting"} :
        state = Active(kind, s) ~> state # Active(kind, s)

\* The panel does not stay booting, even if the backend never answers.
StartupEnds == startPc # "idle" ~> (state.kind # "booting" \/ disposed)

-----------------------------------------------------------------------------
(* What a test of the repository says and the controller does not do *)

\* A fatal error needs the restart action: tests/frontend/DictationState-
\* Machine.test.ts, "a fresh startup report recovers from error (restart path)".
\* After a restart the runtime reports ready again and again.
RestartSpec == FairSpec /\ WF_vars(RuntimeReady) /\ WF_vars(DismissError)

RestartRecovers == state.kind = "error" ~> (state.kind # "error" \/ disposed)

=============================================================================
