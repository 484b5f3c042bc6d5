---------------------------- MODULE DictationCard ----------------------------
(***************************************************************************)
(* A dictation as the panel shows it (presentation/settings/               *)
(* DictationCard.tsx): the strip of levels while it records, and the       *)
(* transcript with the status of its copy.  The card is composed with what *)
(* feeds it: the state machine of the panel, the recording calls of        *)
(* backend/composition.py and the level stream they start and stop, the    *)
(* channel that carries answers and events in order, the adapter and its   *)
(* stores.                                                                 *)
(*                                                                         *)
(* SpeechService has the inside of the recording calls and                 *)
(* DictationController the startup and the disposal of the panel: here a   *)
(* call does its work in one or two steps and the panel is ready.  React   *)
(* runs the effects of a store's change before the next task, so they      *)
(* belong to the action that causes them.                                  *)
(***************************************************************************)
EXTENDS Naturals, Sequences, FiniteSets, DictationStateMachine

CONSTANT MaxEvents      \* bound: answers and events under way at a time

\* Sessions are numbered in the order in which the panel draws them.
ASSUME SessionsAssumption == Sessions \subseteq Nat \ {0}

VARIABLES
    state,          \* the controller's state
    drawn,          \* the last identifier that the panel has drawn
    handlers,       \* the backend's handlers of the panel's calls that run
    session,        \* the backend's active session
    stream,         \* whether LevelSocketClient has a task
    buffer,         \* sessions whose frames it has read and not yet sent
    losing,         \* whether on_runtime_lost has still to stop the stream
    channel,        \* answers and events under way to the panel
    meter,          \* sessions whose levels are in LevelMeterStore's bars
    transcript,     \* PanelTranscriptStore's snapshot
    mounted,        \* whether the panel is open
    status,         \* copyState of the card
    copies,         \* copies whose outcome is awaited
    about,          \* history: the copy that status speaks of
    overlap         \* history: the active session began under the stop of another

backend == <<handlers, session, stream, buffer, losing>>
card == <<mounted, status, copies, about>>

vars == <<state, drawn, backend, channel, meter, transcript, card, overlap>>

-----------------------------------------------------------------------------

\* "begun": a start that publishes its state, with the operation lock.
\* "over" and "failed": what is left of a stop is its "finally".
Stages == {"sent", "begun", "transcribing", "over", "failed"}

Message ==
    ({"answer"} \X Operations \X Sessions \X BOOLEAN)
        \cup ({"transcript"} \X Sessions \X {"text", "empty"} \X {"ok", "failed", "skipped"})
        \cup ({"error"} \X Sessions \X BOOLEAN)
        \cup ({"levels"} \X SUBSET Sessions)
        \cup {<<"ready">>}

NoTranscript == [session |-> NoSession, clipboard |-> "skipped"]

NoCopy == [text |-> NoSession, by |-> "effect", live |-> FALSE]

\* live: the answer still reaches the card that asked.
Copy == [text : Sessions, by : {"effect", "button"}, live : BOOLEAN]

TypeOK ==
    /\ state \in States
    /\ drawn \in Nat
    /\ handlers \subseteq {"start", "stop", "cancel"} \X Sessions \X Stages
    /\ session \in MaybeSession
    /\ stream \in BOOLEAN
    /\ buffer \subseteq Sessions
    /\ losing \in BOOLEAN
    /\ channel \in Seq(Message)
    /\ meter \subseteq Sessions
    /\ transcript \in [session : MaybeSession, clipboard : {"ok", "failed", "skipped"}]
    /\ mounted \in BOOLEAN
    /\ status \in {"none", "copying", "copied", "failed"}
    /\ copies \subseteq Copy
    /\ about \in Copy \cup {NoCopy}
    /\ overlap \in BOOLEAN
    /\ Cardinality({c \in copies : c.by = "effect" /\ c.live}) <= 1

Init ==
    /\ state = Plain("ready")
    /\ drawn = 0
    /\ handlers = {}
    /\ session = NoSession
    /\ stream = FALSE
    /\ buffer = {}
    /\ losing = FALSE
    /\ channel = <<>>
    /\ meter = {}
    /\ transcript = NoTranscript
    /\ mounted = FALSE
    /\ status = "none"
    /\ copies = {}
    /\ about = NoCopy
    /\ overlap = FALSE

-----------------------------------------------------------------------------
(* The card: what it shows, and its effects *)

Recording == mounted /\ state.kind = "recording"

\* transcriptVisible
Shown ==
    /\ mounted
    /\ state.kind \in {"ready", "error", "unavailable", "booting"}
    /\ transcript.session # NoSession

\* Fault: the meter is cleared for a card that opens, not for one that is open.
MeterResetOnOpen(levels) == meter' = IF Recording' /\ ~mounted THEN {} ELSE levels

\* The effect that clears the meter when the card enters a recording, or opens
\* in one.
MeterReset(levels) == meter' = IF Recording' /\ ~Recording THEN {} ELSE levels

\* Fault: the effect has no clean-up.
Uncancelled(requests) == requests

\* The clean-up of the copying effect.
Cancelled(requests) ==
    {[c EXCEPT !.live = c.live /\ c.by = "button"] : c \in requests}

\* Fault: a text the card has asked to copy is not copied again.
CopiedOnce(requests) ==
    LET copy == [text |-> transcript'.session, by |-> "effect", live |-> TRUE]
        begins == Shown' /\ transcript'.clipboard # "ok" /\ about.text # transcript'.session
    IN IF Shown' = Shown /\ transcript' = transcript
       THEN UNCHANGED <<status, about>> /\ copies' = requests
       ELSE /\ copies' = Cancelled(requests) \cup (IF begins THEN {copy} ELSE {})
            /\ status' = IF begins THEN "copying" ELSE status
            /\ about' = IF begins THEN copy ELSE about

\* The copying effect: it runs when a transcript comes on show and when another
\* takes its place.
AutoCopy(requests) ==
    LET copy == [text |-> transcript'.session, by |-> "effect", live |-> TRUE]
        begins == Shown' /\ transcript'.clipboard # "ok"
    IN IF Shown' = Shown /\ transcript' = transcript
       THEN UNCHANGED <<status, about>> /\ copies' = requests
       ELSE /\ copies' = Cancelled(requests) \cup (IF begins THEN {copy} ELSE {})
            /\ status' = IF begins THEN "copying" ELSE status
            /\ about' = IF begins THEN copy ELSE about

\* adopt: the next state, the effects of the controller, those of the card.
Adopt(result) ==
    /\ state' = result.state
    /\ handlers' = handlers \cup {<<c[1], c[2], "sent">> :
                                    c \in {e \in result.effects : e[1] # "insert"}}
    /\ AutoCopy(copies)

-----------------------------------------------------------------------------
(* The panel opens and closes; the user presses *)

\* The quick access menu shows the panel: its effects run for the first time.
Open ==
    /\ ~mounted
    /\ mounted' = TRUE
    /\ UNCHANGED <<state, drawn, backend, channel, transcript, overlap>>
    /\ MeterReset(meter)
    /\ AutoCopy(copies)

\* Nothing answers a card that is gone.
Close ==
    /\ mounted
    /\ mounted' = FALSE
    /\ status' = "none"
    /\ about' = NoCopy
    /\ copies' = {[c EXCEPT !.live = FALSE] : c \in copies}
    /\ UNCHANGED <<state, drawn, backend, channel, meter, transcript, overlap>>

\* handlePanelMicrophonePressed; the identifier is new.
Press ==
    /\ mounted
    /\ UNCHANGED <<session, stream, buffer, losing, channel, meter, transcript, mounted, overlap>>
    /\ \/ /\ state.kind = "recording"
          /\ UNCHANGED drawn
          /\ Adopt(MicrophonePressed(state, NoSession))
       \/ /\ state.kind = "ready"
          /\ drawn + 1 \in Sessions
          /\ drawn' = drawn + 1
          /\ Adopt(MicrophonePressed(state, drawn + 1))

\* copyAgain
CopyAgain ==
    LET copy == [text |-> transcript.session, by |-> "button", live |-> TRUE] IN
    /\ Shown
    /\ status' = "copying"
    /\ about' = copy
    /\ copies' = copies \cup {copy}
    /\ UNCHANGED <<state, drawn, backend, channel, meter, transcript, mounted, overlap>>

\* Fault: the flag of a cancelled copy is never read.
CancelledAnswers(copy, ok) ==
    /\ copy \in copies
    /\ copies' = copies \ {copy}
    /\ status' = (IF ok THEN "copied" ELSE "failed")
    /\ about' = copy
    /\ UNCHANGED <<state, drawn, backend, channel, meter, transcript, mounted, overlap>>

\* copyTextToClipboard never rejects: it answers whether the text was copied.
CopyAnswers(copy, ok) ==
    /\ copy \in copies
    /\ copies' = copies \ {copy}
    /\ IF copy.live
       THEN status' = (IF ok THEN "copied" ELSE "failed") /\ about' = copy
       ELSE UNCHANGED <<status, about>>
    /\ UNCHANGED <<state, drawn, backend, channel, meter, transcript, mounted, overlap>>

\* copyTranscriptToClipboard, SteamClipboardAdapter.writeText
InsertAnswers(ok) ==
    /\ state.kind = "inserting"
    /\ UNCHANGED <<drawn, session, stream, buffer, losing, channel, meter, transcript, mounted,
                   overlap>>
    /\ Adopt(IF ok THEN InsertionSucceeded(state, state.session)
                   ELSE InsertionFailed(state, state.session))

-----------------------------------------------------------------------------
(* The backend's side of the recording calls *)

Send(messages) ==
    /\ Len(channel) + Len(messages) <= MaxEvents
    /\ channel' = channel \o messages

UnchangedPanel == UNCHANGED <<state, drawn, meter, transcript, card>>

\* _start_level_stream: a task that runs goes on.
StartLevelStream == stream' = TRUE /\ UNCHANGED buffer

\* Fault: only the stream's flag is cleared, its task goes on reading.
ForgetLevelStream == UNCHANGED <<stream, buffer>>

\* _stop_level_stream: the task is cancelled with what it has read.
StopLevelStream == stream' = FALSE /\ buffer' = {}

\* The operation lock; a call waits for a start that publishes.
LockFree == \A h \in handlers : h[3] # "begun"

\* Fault: a start does not wait for the operation lock.
StartUnordered(s) ==
    /\ <<"start", s, "sent">> \in handlers
    /\ session = NoSession
    /\ ~losing
    /\ session' = s
    /\ handlers' = (handlers \ {<<"start", s, "sent">>}) \cup {<<"start", s, "begun">>}
    /\ overlap' = \E h \in handlers : h[1] = "stop"
    /\ UNCHANGED <<stream, buffer, losing, channel>>
    /\ UnchangedPanel

\* start_recording reads the settings and the disk before it waits for the
\* operation lock, so the calls made earlier have had it.  While a loss is handled
\* there is no daemon to acknowledge.
StartBegins(s) ==
    /\ <<"start", s, "sent">> \in handlers
    /\ session = NoSession
    /\ LockFree /\ ~losing
    /\ \A h \in handlers : h[3] = "sent" => h[2] >= s
    /\ session' = s
    /\ handlers' = (handlers \ {<<"start", s, "sent">>}) \cup {<<"start", s, "begun">>}
    /\ overlap' = \E h \in handlers : h[1] = "stop"
    /\ UNCHANGED <<stream, buffer, losing, channel>>
    /\ UnchangedPanel

\* The state is published, whatever has become of the session.
StartEnds(s) ==
    /\ <<"start", s, "begun">> \in handlers
    /\ StartLevelStream
    /\ handlers' = handlers \ {<<"start", s, "begun">>}
    /\ Send(<<<<"answer", "start", s, TRUE>>>>)
    /\ UNCHANGED <<session, losing, overlap>>
    /\ UnchangedPanel

\* Refused before the lock, or failed under it, which is also published.
StartFails(s, fatal) ==
    /\ <<"start", s, "sent">> \in handlers
    /\ handlers' = handlers \ {<<"start", s, "sent">>}
    /\ \/ Send(<<<<"answer", "start", s, FALSE>>>>)
       \/ LockFree /\ Send(<<<<"error", s, fatal>>, <<"answer", "start", s, FALSE>>>>)
    /\ UNCHANGED <<session, stream, buffer, losing, overlap>>
    /\ UnchangedPanel

\* The daemon acknowledges the stop; the call waits for the transcript.
StopBegins(s) ==
    /\ <<"stop", s, "sent">> \in handlers
    /\ session = s
    /\ LockFree
    /\ handlers' = (handlers \ {<<"stop", s, "sent">>}) \cup {<<"stop", s, "transcribing">>}
    /\ UNCHANGED <<session, stream, buffer, losing, channel, overlap>>
    /\ UnchangedPanel

\* _emit_transcript: the session is given up before the event goes out.
StopDelivers(s, text, clipboard) ==
    /\ <<"stop", s, "transcribing">> \in handlers
    /\ session = s
    /\ session' = NoSession
    /\ handlers' = (handlers \ {<<"stop", s, "transcribing">>}) \cup {<<"stop", s, "over">>}
    /\ Send(<<<<"transcript", s, text, clipboard>>>>)
    /\ UNCHANGED <<stream, buffer, losing, overlap>>
    /\ UnchangedPanel

\* The session is gone, the daemon refuses, or no transcript comes of it.
StopFails(s, fatal) ==
    \E at \in {"sent", "transcribing"} :
        /\ <<"stop", s, at>> \in handlers
        /\ at = "sent" => LockFree
        /\ session' = IF session = s THEN NoSession ELSE session
        /\ handlers' = (handlers \ {<<"stop", s, at>>}) \cup {<<"stop", s, "failed">>}
        /\ Send(<<<<"error", s, fatal>>>>)
        /\ UNCHANGED <<stream, buffer, losing, overlap>>
        /\ UnchangedPanel

\* The "finally" of stop_recording: it stops the stream there is.
StopEnds(s) ==
    \E at \in {"over", "failed"} :
        /\ <<"stop", s, at>> \in handlers
        /\ StopLevelStream
        /\ handlers' = handlers \ {<<"stop", s, at>>}
        /\ Send(<<<<"answer", "stop", s, at = "over">>>>)
        /\ UNCHANGED <<session, losing, overlap>>
        /\ UnchangedPanel

\* Fault: the stream is stopped only when there was a session to cancel.
CancelsFound(s) ==
    /\ <<"cancel", s, "sent">> \in handlers
    /\ LockFree
    /\ IF session = s THEN StopLevelStream ELSE ForgetLevelStream
    /\ session' = IF session = s THEN NoSession ELSE session
    /\ handlers' = {IF h = <<"stop", s, "transcribing">> THEN <<"stop", s, "over">> ELSE h :
                        h \in handlers \ {<<"cancel", s, "sent">>}}
    /\ \/ session = s /\ Send(<<<<"answer", "cancel", s, TRUE>>>>)
       \/ \E fatal \in BOOLEAN :
            /\ fatal => session = s
            /\ Send(<<<<"error", s, fatal>>, <<"answer", "cancel", s, FALSE>>>>)
    /\ UNCHANGED <<losing, overlap>>
    /\ UnchangedPanel

\* cancel_recording ends the session's stop, if one waits, and the stream, whether or
\* not there was a session and the daemon has done what it was told.
Cancels(s) ==
    /\ <<"cancel", s, "sent">> \in handlers
    /\ LockFree
    /\ StopLevelStream
    /\ session' = IF session = s THEN NoSession ELSE session
    /\ handlers' = {IF h = <<"stop", s, "transcribing">> THEN <<"stop", s, "over">> ELSE h :
                        h \in handlers \ {<<"cancel", s, "sent">>}}
    /\ \/ session = s /\ Send(<<<<"answer", "cancel", s, TRUE>>>>)
       \/ \E fatal \in BOOLEAN :
            /\ fatal => session = s
            /\ Send(<<<<"error", s, fatal>>, <<"answer", "cancel", s, FALSE>>>>)
    /\ UNCHANGED <<losing, overlap>>
    /\ UnchangedPanel

\* notify_runtime_lost: a stop that waits reports the failure itself.
RuntimeLost ==
    /\ ~losing
    /\ losing' = TRUE
    /\ session' = NoSession
    /\ IF session = NoSession \/ <<"stop", session, "transcribing">> \in handlers
       THEN UNCHANGED channel
       ELSE Send(<<<<"error", session, TRUE>>>>)
    /\ UNCHANGED <<handlers, stream, buffer, overlap>>
    /\ UnchangedPanel

\* The rest of on_runtime_lost, before the daemon is started again.
LossEnds ==
    /\ losing
    /\ losing' = FALSE
    /\ StopLevelStream
    /\ UNCHANGED <<handlers, session, channel, overlap>>
    /\ UnchangedPanel

RuntimeReady ==
    /\ state.kind = "error"
    /\ ~losing
    /\ Send(<<<<"ready">>>>)
    /\ UNCHANGED <<backend, overlap>>
    /\ UnchangedPanel

\* _read_loop: a frame of the recording under way; it may fill the event that
\* takes all that has been read along.
Frame(flush) ==
    /\ stream
    /\ session # NoSession
    /\ \A h \in handlers : h[1] = "stop" => h[3] # "transcribing"
    /\ IF flush
       THEN buffer' = {} /\ Send(<<<<"levels", buffer \cup {session}>>>>)
       ELSE buffer' = buffer \cup {session} /\ UNCHANGED channel
    /\ UNCHANGED <<handlers, session, stream, losing, overlap>>
    /\ UnchangedPanel

\* The daemon closes the socket: what has been read is dropped, and the task
\* connects again.
Reconnect ==
    /\ buffer # {}
    /\ buffer' = {}
    /\ UNCHANGED <<handlers, session, stream, losing, channel, overlap>>
    /\ UnchangedPanel

-----------------------------------------------------------------------------
(* The panel takes what arrives *)

\* What an answer means to runEffects; a cancel's is only logged.
Answered(op, s, ok, fatal) ==
    CASE op = "start" /\ ok -> RecordingStarted(state, s)
      [] op = "stop" /\ ok -> RecordingStopped(state, s)
      [] op \in {"start", "stop"} /\ ~ok -> SpeechFailed(state, s, fatal)
      [] OTHER -> Unchanged(state)

OnAnswer(m, fatal) ==
    /\ m[1] = "answer"
    /\ UNCHANGED transcript
    /\ Adopt(Answered(m[2], m[3], m[4], fatal))
    /\ MeterReset(meter)

\* onTranscriptReady: a text is published to the panel, then dispatched to the
\* controller, which drops one of another session.
OnTranscript(m) ==
    /\ m[1] = "transcript"
    /\ transcript' = IF m[3] = "text" THEN [session |-> m[2], clipboard |-> m[4]]
                                      ELSE transcript
    /\ Adopt(IF state.session = m[2] THEN TranscriptReady(state, m[2], m[3])
                                     ELSE Unchanged(state))
    /\ MeterReset(meter)

\* onSpeechError
OnError(m) ==
    /\ m[1] = "error"
    /\ UNCHANGED transcript
    /\ Adopt(IF state.session = m[2] THEN SpeechFailed(state, m[2], m[3])
                                     ELSE Unchanged(state))
    /\ MeterReset(meter)

\* onRuntimeStatus
OnReady(m) ==
    /\ m[1] = "ready"
    /\ UNCHANGED transcript
    /\ Adopt(ErrorDismissed(state))
    /\ MeterReset(meter)

\* LevelMeterStore.publish: the newest frames push the oldest out.
OnLevels(m) ==
    /\ m[1] = "levels"
    /\ \E oldest \in Sessions : meter' = {s \in meter \cup m[2] : s >= oldest \/ s \in m[2]}
    /\ UNCHANGED <<state, handlers, transcript, status, copies, about>>

Receive ==
    /\ channel # <<>>
    /\ UNCHANGED <<drawn, session, stream, buffer, losing, mounted, overlap>>
    /\ channel' = Tail(channel)
    /\ LET m == Head(channel) IN
        \/ \E fatal \in BOOLEAN : OnAnswer(m, fatal)
        \/ OnTranscript(m)
        \/ OnError(m)
        \/ OnReady(m)
        \/ OnLevels(m)

-----------------------------------------------------------------------------

Backend ==
    \/ \E s \in Sessions :
        \/ StartBegins(s) \/ StartEnds(s) \/ StopBegins(s) \/ StopEnds(s) \/ Cancels(s)
        \/ \E fatal \in BOOLEAN : StartFails(s, fatal) \/ StopFails(s, fatal)
        \/ \E text \in {"text", "empty"}, clipboard \in {"ok", "failed", "skipped"} :
                StopDelivers(s, text, clipboard)
    \/ RuntimeLost \/ LossEnds \/ RuntimeReady
    \/ \E flush \in BOOLEAN : Frame(flush)
    \/ Reconnect

CopyEnds(copy) == \E ok \in BOOLEAN : CopyAnswers(copy, ok)

Next ==
    \/ Open \/ Close \/ Press \/ CopyAgain
    \/ \E copy \in Copy : CopyEnds(copy)
    \/ \E ok \in BOOLEAN : InsertAnswers(ok)
    \/ Backend
    \/ Receive

Spec == Init /\ [][Next]_vars

\* The browser settles the promise of a copy.
FairSpec == Spec /\ \A copy \in Copy : WF_vars(CopyEnds(copy))

-----------------------------------------------------------------------------
(* Properties *)

\* The strip that is on show has no levels of another recording, unless this one
\* began before the stop of that one had returned.
LevelsOwn == Recording /\ ~overlap => meter \subseteq {state.session}

\* With the same exception, a recording that the panel shows and the backend has
\* not lost has its stream of levels: no late call of an older session stops it.
RecordingHasLevels ==
    state.kind = "recording" /\ session = state.session /\ ~overlap => stream

\* However a session ended, no stream is left once every call has returned to a panel
\* that has no session.
StreamReleased == handlers = {} /\ state.session = NoSession => ~stream

\* The status beside a transcript speaks of its own copy, never of the copy of a
\* text that was shown before, unless that one was asked for with the button.
StatusOfShown ==
    Shown /\ transcript.clipboard # "ok" =>
        about.text = transcript.session \/ about.by = "button"

\* A card does not say "copying" for ever: hiding and showing a transcript
\* cancels its copy and begins another.
StatusSettles ==
    Shown /\ status = "copying" /\ transcript.clipboard # "ok"
        ~> ~(Shown /\ status = "copying" /\ transcript.clipboard # "ok")

=============================================================================
