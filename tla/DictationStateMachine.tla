------------------------ MODULE DictationStateMachine ------------------------
(***************************************************************************)
(* The pure state machine of the panel: transition() of                    *)
(* src/application/DictationStateMachine.ts, one operator per event type.  *)
(* An event takes a state to a result: the next state and the effects the  *)
(* controller has to run.  An effect is the call it makes, named by the    *)
(* operation and the session.  Where the code answers "unchanged(current)" *)
(* the result is the same state without effects.                           *)
(*                                                                         *)
(* Of the data of a state only what decides a later transition is kept:    *)
(* the session and whether an error may be dismissed.  The reason of       *)
(* "unavailable", the text and the error itself are shown, never compared. *)
(***************************************************************************)

CONSTANTS
    Sessions,       \* session identifiers
    NoSession       \* no session: null or an absent field

ASSUME NoSessionAssumption == NoSession \notin Sessions

MaybeSession == Sessions \cup {NoSession}

\* The kinds of state that carry a session (extractSession).
Busy == {"starting", "recording", "stopping", "transcribing", "inserting"}

Kinds == {"booting", "unavailable", "ready", "error"} \cup Busy

States == [kind : Kinds, session : MaybeSession, recoverable : BOOLEAN]

Operations == {"start", "stop", "cancel", "insert"}

Calls == Operations \X Sessions

\* What a transcript is for validateTranscript: empty after trimming, with NUL
\* or too large, or fit to insert.
Texts == {"text", "empty", "invalid"}

Plain(kind) == [kind |-> kind, session |-> NoSession, recoverable |-> FALSE]

Active(kind, s) == [kind |-> kind, session |-> s, recoverable |-> FALSE]

Failed(recoverable) ==
    [kind |-> "error", session |-> NoSession, recoverable |-> recoverable]

Result(state, effects) == [state |-> state, effects |-> effects]

Unchanged(state) == Result(state, {})

-----------------------------------------------------------------------------

Undecided == {"booting", "unavailable", "error"}

\* available: the plugin is enabled and the backend reports a runtime, a
\* microphone and the model (unavailableReasonFor).
StartupCompleted(state, available) ==
    IF state.kind \in Undecided
    THEN Result(Plain(IF available THEN "ready" ELSE "unavailable"), {})
    ELSE Unchanged(state)

StartupFailed(state) ==
    IF state.kind \in Undecided
    THEN Result(Plain("unavailable"), {})
    ELSE Unchanged(state)

\* s is the new session the controller offers, NoSession when it offers none.
MicrophonePressed(state, s) ==
    CASE state.kind = "ready" /\ s # NoSession ->
            Result(Active("starting", s), {<<"start", s>>})
      [] state.kind = "recording" ->
            Result(Active("stopping", state.session), {<<"stop", state.session>>})
      [] OTHER -> Unchanged(state)

\* Fault: whichever start was answered, the panel shows a recording.
StartedAnySession(state, s) ==
    IF state.kind = "starting"
    THEN Result(Active("recording", state.session), {})
    ELSE Unchanged(state)

RecordingStarted(state, s) ==
    IF state.kind = "starting" /\ state.session = s
    THEN Result(Active("recording", s), {})
    ELSE Unchanged(state)

RecordingStopped(state, s) ==
    IF state.kind = "stopping" /\ state.session = s
    THEN Result(Active("transcribing", s), {})
    ELSE Unchanged(state)

\* Fault: a transcript that is delivered twice is taken twice.
TranscriptTwice(state, s, text) ==
    IF state.kind \in {"stopping", "transcribing", "inserting"} /\ state.session = s
    THEN CASE text = "text" -> Result(Active("inserting", s), {<<"insert", s>>})
           [] text = "empty" -> Result(Plain("ready"), {})
           [] text = "invalid" -> Result(Failed(TRUE), {})
    ELSE Unchanged(state)

TranscriptReady(state, s, text) ==
    IF state.kind \in {"stopping", "transcribing"} /\ state.session = s
    THEN CASE text = "text" -> Result(Active("inserting", s), {<<"insert", s>>})
           [] text = "empty" -> Result(Plain("ready"), {})
           [] text = "invalid" -> Result(Failed(TRUE), {})
    ELSE Unchanged(state)

InsertionSucceeded(state, s) ==
    IF state.kind = "inserting" /\ state.session = s
    THEN Result(Plain("ready"), {})
    ELSE Unchanged(state)

InsertionFailed(state, s) ==
    IF state.kind = "inserting" /\ state.session = s
    THEN Result(Failed(TRUE), {})
    ELSE Unchanged(state)

\* What a session can still be given up from: not while its text is inserted.
Cancellable == Busy \ {"inserting"}

\* Fault: the session is cleared before the cancel names it.
CancelAfterClear(state) ==
    IF state.kind \in Cancellable
    THEN Result(Plain("ready"), {<<"cancel", Plain("ready").session>>})
    ELSE Unchanged(state)

CancelRequested(state) ==
    IF state.kind \in Cancellable
    THEN Result(Plain("ready"), {<<"cancel", state.session>>})
    ELSE Unchanged(state)

\* Fault: the session is given up without telling the backend.
FailureWithoutCancel(state, s, fatal) ==
    IF state.kind \in Cancellable /\ s \in {NoSession, state.session}
    THEN Result(Failed(~fatal), {})
    ELSE Unchanged(state)

\* An error without a session concerns whatever session there is.
SpeechFailed(state, s, fatal) ==
    IF state.kind \in Cancellable /\ s \in {NoSession, state.session}
    THEN Result(Failed(~fatal), {<<"cancel", state.session>>})
    ELSE Unchanged(state)

ErrorDismissed(state) ==
    IF state.kind = "error" /\ state.recoverable
    THEN Result(Plain("ready"), {})
    ELSE Unchanged(state)

=============================================================================
