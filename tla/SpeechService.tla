---------------------------- MODULE SpeechService ----------------------------
(***************************************************************************)
(* The speech application service of the backend                           *)
(* (backend/application/speech_service.py) with the session coordinator it *)
(* owns (backend/domain/session.py) and the part of the native client it   *)
(* talks to: the delivery task that brings a transcript back               *)
(* (backend/infrastructure/process/voxtype_client.py).                     *)
(*                                                                         *)
(* Everything runs on one asyncio loop, so the code between two awaits is  *)
(* one action.  A program counter per call says which await the call is    *)
(* suspended at: the operation lock, the acknowledgement of a runtime      *)
(* command, the publication of an event, the future a stop waits for, the  *)
(* settings load and the clipboard write of a transcript.  The             *)
(* coordinator's own lock is never held across an await, so its four       *)
(* methods are parts of the actions that call them.                        *)
(*                                                                         *)
(* The callers give every session a fresh identifier, start it once and    *)
(* stop and cancel it at most once, so a call is named by its operation    *)
(* and its session and a future by the session whose stop created it.      *)
(***************************************************************************)
EXTENDS Naturals, FiniteSets

CONSTANTS
    Sessions,       \* session identifiers
    NoSession,      \* Python's None, where a session is expected
    MaxLosses,      \* bound on unexpected exits of the native runtime
    MaxShutdowns    \* bound on disable, restart and unload requests

ASSUME NoSessionAssumption == NoSession \notin Sessions

ASSUME BoundsAssumption == MaxLosses \in Nat /\ MaxShutdowns \in Nat

VARIABLES
    session,        \* the coordinator's active session
    activeId,       \* _active_session_id, what get_status reports
    pending,        \* _pending_delivery, named by the stop that created it
    lock,           \* holder of _operation_lock
    shuttingDown,   \* _shutting_down
    startPc,        \* where start_recording of a session is suspended
    stopPc,         \* where stop_recording of a session is suspended
    cancelPc,       \* where cancel_recording of a session is suspended
    captured,       \* the future cancel_recording read before its await
    lossPc,         \* where notify_runtime_lost is suspended
    future,         \* state of the future each stop created
    result,         \* whose text it holds, or the session its error names
    delivery,       \* the client's delivery task of each stop
    clientTask,     \* the client's _delivery_task
    clientStopped,  \* the client has been stopped since the last shutdown
    started,        \* counters.recordings_started
    completed,      \* counters.recordings_completed
    cancelled,      \* counters.recordings_cancelled
    losses,         \* counters.runtime_crashes
    shutdowns,      \* shutdown calls so far
    published       \* how often each event has gone out, by the session it names

futures == <<future, result>>
client == <<delivery, clientTask, clientStopped>>
counters == <<started, completed, cancelled>>
runtime == <<lossPc, losses>>
teardown == <<shuttingDown, shutdowns>>

slot == <<session, activeId, pending>>
outside == <<client, counters, runtime, teardown>>
elsewhere == <<futures, outside>>

vars == <<slot, lock, startPc, stopPc, cancelPc, captured, published, elsewhere>>

-----------------------------------------------------------------------------
(* Types *)

MaybeSession == Sessions \cup {NoSession}

NoCall == <<"none", NoSession>>

Holders == ({"start", "stop", "cancel"} \X Sessions) \cup {NoCall}

StartPcs == {"idle", "queued", "ack", "publishing", "raising", "ok", "error"}

StopPcs == {"idle", "queued", "ack", "publishing", "waiting", "settings",
            "clipboard", "delivering", "announcing", "raising", "ok", "error"}

CancelPcs == {"idle", "queued", "ack", "publishing", "raising", "ok", "error"}

\* "cancelled" is the _CANCELLED sentinel, "abandoned" a future its own watchdog
\* cancelled.
FutureStates == {"absent", "waiting", "transcript", "error", "cancelled",
                 "abandoned"}

Events == {"recording", "transcribing", "transcript_ready", "error"}

Publications == [Sessions -> [Events -> Nat]]

\* What stop_recording asserts of its outcome: what it goes on to emit is a
\* TranscriptResult.
OutcomeTyped ==
    \A s \in Sessions :
        stopPc[s] \in {"settings", "clipboard", "delivering"} =>
            future[s] = "transcript"

TypeOK ==
    /\ session \in MaybeSession
    /\ activeId \in MaybeSession
    /\ pending \in MaybeSession
    /\ lock \in Holders
    /\ shuttingDown \in BOOLEAN
    /\ startPc \in [Sessions -> StartPcs]
    /\ stopPc \in [Sessions -> StopPcs]
    /\ cancelPc \in [Sessions -> CancelPcs]
    /\ captured \in [Sessions -> MaybeSession]
    /\ lossPc \in {"idle", "publishing"}
    /\ future \in [Sessions -> FutureStates]
    /\ result \in [Sessions -> MaybeSession]
    /\ delivery \in [Sessions -> {"none", "running", "done"}]
    /\ clientTask \in MaybeSession
    /\ clientStopped \in BOOLEAN
    /\ started \in Nat
    /\ completed \in Nat
    /\ cancelled \in Nat
    /\ losses \in 0..MaxLosses
    /\ shutdowns \in 0..MaxShutdowns
    /\ published \in Publications
    /\ OutcomeTyped

Init ==
    /\ session = NoSession
    /\ activeId = NoSession
    /\ pending = NoSession
    /\ lock = NoCall
    /\ shuttingDown = FALSE
    /\ startPc = [s \in Sessions |-> "idle"]
    /\ stopPc = [s \in Sessions |-> "idle"]
    /\ cancelPc = [s \in Sessions |-> "idle"]
    /\ captured = [s \in Sessions |-> NoSession]
    /\ lossPc = "idle"
    /\ future = [s \in Sessions |-> "absent"]
    /\ result = [s \in Sessions |-> NoSession]
    /\ delivery = [s \in Sessions |-> "none"]
    /\ clientTask = NoSession
    /\ clientStopped = FALSE
    /\ started = 0
    /\ completed = 0
    /\ cancelled = 0
    /\ losses = 0
    /\ shutdowns = 0
    /\ published = [s \in Sessions |-> [e \in Events |-> 0]]

-----------------------------------------------------------------------------
(* The session coordinator and the helpers the calls share *)

\* SpeechSessionCoordinator.clear(s) leaves another session alone.
Cleared(s) == IF session = s THEN NoSession ELSE session

\* future.set_result(value) on a future that is still waiting.
Resolved(p, value) ==
    IF p # NoSession /\ future[p] = "waiting"
    THEN [future EXCEPT ![p] = value]
    ELSE future

Publish(s, event) == published' = [published EXCEPT ![s][event] = @ + 1]

\* Leaving "async with self._operation_lock" at the end of a call.
Release(call) == lock' = IF lock = call THEN NoCall ELSE lock

\* Fault: the error is reported but the session is not cleared.
FailKeepsSession(id) ==
    /\ future' = Resolved(pending, "cancelled")
    /\ pending' = NoSession
    /\ activeId' = NoSession
    /\ UNCHANGED session
    /\ IF id = NoSession THEN UNCHANGED published ELSE Publish(id, "error")

\* _fail: clear the session the error names (any session when it names none),
\* cancel whatever delivery is pending, publish the error; the raise follows.
Fail(id) ==
    /\ session' = IF id = NoSession THEN NoSession ELSE Cleared(id)
    /\ future' = Resolved(pending, "cancelled")
    /\ pending' = NoSession
    /\ activeId' = NoSession
    /\ IF id = NoSession THEN UNCHANGED published ELSE Publish(id, "error")

\* Fault: the future is forgotten but nobody resolves it.
AbandonForgetsWaiter(s) ==
    /\ session' = Cleared(s)
    /\ pending' = IF pending = captured[s] THEN NoSession ELSE pending
    /\ activeId' = NoSession
    /\ UNCHANGED future

\* Fault: the status still names the cancelled session.
AbandonKeepsStatus(s) ==
    /\ session' = Cleared(s)
    /\ future' = Resolved(captured[s], "cancelled")
    /\ pending' = IF pending = captured[s] THEN NoSession ELSE pending
    /\ UNCHANGED activeId

\* _abandon: the end of a cancel, with the future the cancel captured.
Abandon(s) ==
    /\ session' = Cleared(s)
    /\ future' = Resolved(captured[s], "cancelled")
    /\ pending' = IF pending = captured[s] THEN NoSession ELSE pending
    /\ activeId' = NoSession

\* Fault: the handle is dropped but the delivery task runs on.
AbortForgetsTask == clientTask' = NoSession /\ UNCHANGED delivery

\* VoxtypeClient._abort_delivery: the latest delivery task, if it still runs.
AbortDelivery ==
    /\ delivery' = IF clientTask # NoSession /\ delivery[clientTask] = "running"
                   THEN [delivery EXCEPT ![clientTask] = "done"]
                   ELSE delivery
    /\ clientTask' = NoSession

\* A stop whose future is resolved runs again within a few iterations of the
\* loop: before any process the runtime client has to spawn can acknowledge.
Woken == \E s \in Sessions : stopPc[s] = "waiting" /\ future[s] # "waiting"

-----------------------------------------------------------------------------
(* start_recording *)

InvokeStart(s) ==
    /\ startPc[s] = "idle"
    /\ startPc' = [startPc EXCEPT ![s] = "queued"]
    /\ UNCHANGED <<slot, lock, stopPc, cancelPc, captured, published, elsewhere>>

\* _ensure_accepting raises before anything is published.
StartRefused(s) ==
    /\ startPc[s] = "queued"
    /\ lock = NoCall
    /\ shuttingDown
    /\ startPc' = [startPc EXCEPT ![s] = "error"]
    /\ UNCHANGED <<slot, lock, stopPc, cancelPc, captured, published, elsewhere>>

StartConflicts(s) ==
    /\ startPc[s] = "queued"
    /\ lock = NoCall
    /\ ~shuttingDown
    /\ session # NoSession
    /\ lock' = <<"start", s>>
    /\ startPc' = [startPc EXCEPT ![s] = "raising"]
    /\ Publish(s, "error")
    /\ UNCHANGED <<slot, stopPc, cancelPc, captured, elsewhere>>

StartBegins(s) ==
    /\ startPc[s] = "queued"
    /\ lock = NoCall
    /\ ~shuttingDown
    /\ session = NoSession
    /\ lock' = <<"start", s>>
    /\ session' = s
    /\ activeId' = s
    /\ startPc' = [startPc EXCEPT ![s] = "ack"]
    /\ UNCHANGED <<pending, stopPc, cancelPc, captured, published, elsewhere>>

StartAcked(s) ==
    /\ startPc[s] = "ack"
    /\ ~Woken
    /\ started' = started + 1
    /\ Publish(s, "recording")
    /\ startPc' = [startPc EXCEPT ![s] = "publishing"]
    /\ UNCHANGED <<slot, lock, stopPc, cancelPc, captured, completed, cancelled,
                   futures, client, runtime, teardown>>

\* The command times out, is refused or raises: all three end in _fail.
StartFails(s) ==
    /\ startPc[s] = "ack"
    /\ Fail(s)
    /\ startPc' = [startPc EXCEPT ![s] = "raising"]
    /\ UNCHANGED <<lock, stopPc, cancelPc, captured, result, outside>>

StartReturns(s) ==
    /\ startPc[s] \in {"publishing", "raising"}
    /\ startPc' = [startPc EXCEPT ![s] =
                        IF @ = "publishing" THEN "ok" ELSE "error"]
    /\ Release(<<"start", s>>)
    /\ UNCHANGED <<slot, stopPc, cancelPc, captured, published, elsewhere>>

-----------------------------------------------------------------------------
(* stop_recording *)

InvokeStop(s) ==
    /\ startPc[s] # "idle"
    /\ stopPc[s] = "idle"
    /\ stopPc' = [stopPc EXCEPT ![s] = "queued"]
    /\ UNCHANGED <<slot, lock, startPc, cancelPc, captured, published, elsewhere>>

\* _require_session publishes the stale-session error with the lock held.
StopStale(s) ==
    /\ stopPc[s] = "queued"
    /\ lock = NoCall
    /\ session # s
    /\ lock' = <<"stop", s>>
    /\ stopPc' = [stopPc EXCEPT ![s] = "raising"]
    /\ Publish(s, "error")
    /\ UNCHANGED <<slot, startPc, cancelPc, captured, elsewhere>>

StopBegins(s) ==
    /\ stopPc[s] = "queued"
    /\ lock = NoCall
    /\ session = s
    /\ lock' = <<"stop", s>>
    /\ stopPc' = [stopPc EXCEPT ![s] = "ack"]
    /\ UNCHANGED <<slot, startPc, cancelPc, captured, published, elsewhere>>

\* The runtime refuses or does not acknowledge: nothing is delivered.
StopFails(s) ==
    /\ stopPc[s] = "ack"
    /\ Fail(s)
    /\ stopPc' = [stopPc EXCEPT ![s] = "raising"]
    /\ UNCHANGED <<lock, startPc, cancelPc, captured, result, outside>>

\* The client's stop_recording has created the delivery task, in place of the
\* one it held before, and returned; the service creates the future.
StopAcked(s) ==
    /\ stopPc[s] = "ack"
    /\ delivery' = [delivery EXCEPT ![s] = "running"]
    /\ clientTask' = s
    /\ future' = [future EXCEPT ![s] = "waiting"]
    /\ pending' = s
    /\ Publish(s, "transcribing")
    /\ stopPc' = [stopPc EXCEPT ![s] = "publishing"]
    /\ UNCHANGED <<session, activeId, lock, startPc, cancelPc, captured, result,
                   clientStopped, counters, runtime, teardown>>

\* The lock is released; without an active session the call returns and leaves
\* _pending_delivery as it is.
StopListens(s) ==
    /\ stopPc[s] = "publishing"
    /\ Release(<<"stop", s>>)
    /\ stopPc' = [stopPc EXCEPT ![s] =
                        IF session = NoSession THEN "ok" ELSE "waiting"]
    /\ UNCHANGED <<slot, startPc, cancelPc, captured, published, elsewhere>>

\* Fault: the wait for the transcript has no time limit.
NoWatchdog(s) == stopPc[s] = "watched" /\ UNCHANGED vars

\* The watchdog of wait_for expires first: the future is cancelled, then _fail.
WatchdogFires(s) ==
    /\ stopPc[s] = "waiting"
    /\ future[s] = "waiting"
    /\ session' = Cleared(s)
    /\ future' = [Resolved(pending, "cancelled") EXCEPT ![s] = "abandoned"]
    /\ pending' = NoSession
    /\ activeId' = NoSession
    /\ Publish(s, "error")
    /\ stopPc' = [stopPc EXCEPT ![s] = "raising"]
    /\ UNCHANGED <<lock, startPc, cancelPc, captured, result, outside>>

\* Fault: the "finally" is missing.
ForgetNothing(s) == pending' = IF s = NoSession THEN s ELSE pending

\* The "finally" of the wait: forget the future unless it was replaced.
Forget(s) == pending' = IF pending = s THEN NoSession ELSE pending

\* Fault: the sentinel is not looked at, and goes to _emit_transcript.
StopEmitsSentinel(s) ==
    /\ stopPc[s] = "waiting"
    /\ future[s] = "cancelled"
    /\ Forget(s)
    /\ stopPc' = [stopPc EXCEPT ![s] = "settings"]
    /\ UNCHANGED <<session, activeId, lock, startPc, cancelPc, captured, published,
                   elsewhere>>

\* A cancel or a shutdown resolved the future: return without an event.
StopCancelled(s) ==
    /\ stopPc[s] = "waiting"
    /\ future[s] = "cancelled"
    /\ Forget(s)
    /\ stopPc' = [stopPc EXCEPT ![s] = "ok"]
    /\ UNCHANGED <<session, activeId, lock, startPc, cancelPc, captured, published,
                   elsewhere>>

\* A client or crash error resolved it: _fail with the session it names.
StopGetsError(s) ==
    /\ stopPc[s] = "waiting"
    /\ future[s] = "error"
    /\ Fail(result[s])
    /\ stopPc' = [stopPc EXCEPT ![s] = "raising"]
    /\ UNCHANGED <<lock, startPc, cancelPc, captured, result, outside>>

\* A transcript resolved it: _emit_transcript starts with the settings load.
StopGetsTranscript(s) ==
    /\ stopPc[s] = "waiting"
    /\ future[s] = "transcript"
    /\ Forget(s)
    /\ stopPc' = [stopPc EXCEPT ![s] = "settings"]
    /\ UNCHANGED <<session, activeId, lock, startPc, cancelPc, captured, published,
                   elsewhere>>

\* The settings file is unreadable: the error escapes, nothing is published and
\* the session stays active.
EmitLosesSettings(s) ==
    /\ stopPc[s] = "settings"
    /\ stopPc' = [stopPc EXCEPT ![s] = "error"]
    /\ UNCHANGED <<slot, lock, startPc, cancelPc, captured, published, elsewhere>>

\* The text contains NUL or is too large.
EmitRejects(s) ==
    /\ stopPc[s] = "settings"
    /\ Fail(s)
    /\ stopPc' = [stopPc EXCEPT ![s] = "raising"]
    /\ UNCHANGED <<lock, startPc, cancelPc, captured, result, outside>>

\* The text is not empty: it goes to the clipboard first.
EmitCopies(s) ==
    /\ stopPc[s] = "settings"
    /\ stopPc' = [stopPc EXCEPT ![s] = "clipboard"]
    /\ UNCHANGED <<slot, lock, startPc, cancelPc, captured, published, elsewhere>>

\* Fault: the branch of the empty text does not return, and the code after it
\* copies and publishes the transcript once more.
EmitDeliversTwice(s) ==
    /\ stopPc[s] \in {"settings", "clipboard"}
    /\ session' = Cleared(s)
    /\ activeId' = NoSession
    /\ completed' = completed + 1
    /\ Publish(s, "transcript_ready")
    /\ stopPc' = [stopPc EXCEPT ![s] =
                        IF @ = "settings" THEN "clipboard" ELSE "delivering"]
    /\ UNCHANGED <<pending, lock, startPc, cancelPc, captured, started, cancelled,
                   futures, client, runtime, teardown>>

\* An empty text, or the clipboard write has ended, whatever its status.
EmitDelivers(s) ==
    /\ stopPc[s] \in {"settings", "clipboard"}
    /\ session' = Cleared(s)
    /\ activeId' = NoSession
    /\ completed' = completed + 1
    /\ Publish(s, "transcript_ready")
    /\ stopPc' = [stopPc EXCEPT ![s] = "delivering"]
    /\ UNCHANGED <<pending, lock, startPc, cancelPc, captured, started, cancelled,
                   futures, client, runtime, teardown>>

\* The session-less "ready" status follows the transcript.
EmitAnnounces(s) ==
    /\ stopPc[s] = "delivering"
    /\ stopPc' = [stopPc EXCEPT ![s] = "announcing"]
    /\ UNCHANGED <<slot, lock, startPc, cancelPc, captured, published, elsewhere>>

\* A stop that failed under the lock releases it, one that failed later has not
\* got it any more.
StopReturns(s) ==
    /\ stopPc[s] \in {"announcing", "raising"}
    /\ stopPc' = [stopPc EXCEPT ![s] =
                        IF @ = "announcing" THEN "ok" ELSE "error"]
    /\ Release(<<"stop", s>>)
    /\ UNCHANGED <<slot, startPc, cancelPc, captured, published, elsewhere>>

-----------------------------------------------------------------------------
(* cancel_recording *)

InvokeCancel(s) ==
    /\ startPc[s] # "idle"
    /\ cancelPc[s] = "idle"
    /\ cancelPc' = [cancelPc EXCEPT ![s] = "queued"]
    /\ UNCHANGED <<slot, lock, startPc, stopPc, captured, published, elsewhere>>

CancelStale(s) ==
    /\ cancelPc[s] = "queued"
    /\ lock = NoCall
    /\ session # s
    /\ lock' = <<"cancel", s>>
    /\ cancelPc' = [cancelPc EXCEPT ![s] = "raising"]
    /\ Publish(s, "error")
    /\ UNCHANGED <<slot, startPc, stopPc, captured, elsewhere>>

CancelBegins(s) ==
    /\ cancelPc[s] = "queued"
    /\ lock = NoCall
    /\ session = s
    /\ lock' = <<"cancel", s>>
    /\ captured' = [captured EXCEPT ![s] = pending]
    /\ cancelPc' = [cancelPc EXCEPT ![s] = "ack"]
    /\ UNCHANGED <<slot, startPc, stopPc, published, elsewhere>>

CancelAcked(s) ==
    /\ cancelPc[s] = "ack"
    /\ AbortDelivery
    /\ Abandon(s)
    /\ cancelled' = cancelled + 1
    /\ cancelPc' = [cancelPc EXCEPT ![s] = "publishing"]
    /\ UNCHANGED <<lock, startPc, stopPc, captured, result, clientStopped, started,
                   completed, published, runtime, teardown>>

\* The client aborts the delivery whether or not the daemon acknowledges.
CancelFails(s) ==
    /\ cancelPc[s] = "ack"
    /\ AbortDelivery
    /\ Abandon(s)
    /\ Publish(s, "error")
    /\ cancelPc' = [cancelPc EXCEPT ![s] = "raising"]
    /\ UNCHANGED <<lock, startPc, stopPc, captured, result, clientStopped, counters,
                   runtime, teardown>>

CancelReturns(s) ==
    /\ cancelPc[s] \in {"publishing", "raising"}
    /\ cancelPc' = [cancelPc EXCEPT ![s] =
                        IF @ = "publishing" THEN "ok" ELSE "error"]
    /\ Release(<<"cancel", s>>)
    /\ UNCHANGED <<slot, startPc, stopPc, captured, published, elsewhere>>

-----------------------------------------------------------------------------
(* What the delivery tasks, the supervisor and the application do *)

\* on_transcript and on_transcript_error: the delivery task of stop d hands its
\* outcome to whatever future is pending, or to nobody.  A client error names
\* no session.
Deliver(d, outcome) ==
    /\ delivery[d] = "running"
    /\ delivery' = [delivery EXCEPT ![d] = "done"]
    /\ future' = Resolved(pending, outcome)
    /\ result' = IF pending # NoSession /\ future[pending] = "waiting"
                 THEN [result EXCEPT ![pending] =
                            IF outcome = "transcript" THEN d ELSE NoSession]
                 ELSE result
    /\ UNCHANGED <<slot, lock, startPc, stopPc, cancelPc, captured, clientTask,
                   clientStopped, published, counters, runtime, teardown>>

\* notify_runtime_lost up to its only await: a waiting stop gets the crash
\* error, otherwise it is published here.
RuntimeLost ==
    /\ losses < MaxLosses
    /\ lossPc = "idle"
    /\ losses' = losses + 1
    /\ session' = NoSession
    /\ IF pending # NoSession /\ future[pending] = "waiting"
       THEN /\ future' = [future EXCEPT ![pending] = "error"]
            /\ result' = [result EXCEPT ![pending] = session]
            /\ activeId' = NoSession
            /\ UNCHANGED <<lossPc, published>>
       ELSE IF session # NoSession
       THEN /\ Publish(session, "error")
            /\ lossPc' = "publishing"
            /\ UNCHANGED <<activeId, futures>>
       ELSE /\ activeId' = NoSession
            /\ UNCHANGED <<lossPc, published, futures>>
    /\ UNCHANGED <<pending, lock, startPc, stopPc, cancelPc, captured, client, counters,
                   teardown>>

RuntimeLostReturns ==
    /\ lossPc = "publishing"
    /\ lossPc' = "idle"
    /\ activeId' = NoSession
    /\ UNCHANGED <<session, pending, lock, startPc, stopPc, cancelPc, captured, losses,
                   published, futures, client, counters, teardown>>

\* shutdown: disable, runtime restart and unload, without the operation lock.
Shutdown ==
    /\ shutdowns < MaxShutdowns
    /\ shutdowns' = shutdowns + 1
    /\ shuttingDown' = TRUE
    /\ clientStopped' = FALSE
    /\ future' = Resolved(pending, "cancelled")
    /\ session' = NoSession
    /\ activeId' = NoSession
    /\ UNCHANGED <<pending, lock, startPc, stopPc, cancelPc, captured, result, delivery,
                   clientTask, published, counters, runtime>>

\* After shutdown the application cancels at the client and stops it.
ClientStops ==
    /\ shuttingDown
    /\ ~clientStopped
    /\ ~Woken
    /\ clientStopped' = TRUE
    /\ AbortDelivery
    /\ UNCHANGED <<slot, lock, startPc, stopPc, cancelPc, captured, published, futures,
                   counters, runtime, teardown>>

Resume ==
    /\ shuttingDown
    /\ clientStopped
    /\ shuttingDown' = FALSE
    /\ UNCHANGED <<slot, lock, startPc, stopPc, cancelPc, captured, shutdowns,
                   published, futures, client, counters, runtime>>

-----------------------------------------------------------------------------

StartStep(s) ==
    \/ StartRefused(s) \/ StartConflicts(s) \/ StartBegins(s)
    \/ StartAcked(s) \/ StartFails(s) \/ StartReturns(s)

StopStep(s) ==
    \/ StopStale(s) \/ StopBegins(s) \/ StopFails(s) \/ StopAcked(s)
    \/ StopListens(s) \/ WatchdogFires(s) \/ StopCancelled(s)
    \/ StopGetsError(s) \/ StopGetsTranscript(s) \/ EmitLosesSettings(s)
    \/ EmitRejects(s) \/ EmitCopies(s) \/ EmitDelivers(s) \/ EmitAnnounces(s)
    \/ StopReturns(s)

CancelStep(s) ==
    \/ CancelStale(s) \/ CancelBegins(s) \/ CancelAcked(s) \/ CancelFails(s)
    \/ CancelReturns(s)

Next ==
    \/ \E s \in Sessions :
        \/ InvokeStart(s) \/ InvokeStop(s) \/ InvokeCancel(s)
        \/ StartStep(s) \/ StopStep(s) \/ CancelStep(s)
        \/ \E outcome \in {"transcript", "error"} : Deliver(s, outcome)
    \/ RuntimeLost \/ RuntimeLostReturns
    \/ Shutdown \/ ClientStops \/ Resume

Spec == Init /\ [][Next]_vars

\* Every await of a call ends: acknowledgements, the wait for a transcript and
\* the clipboard write have time limits, publishing and the settings load only
\* wait for the host, and the operation lock is handed over in arrival order.
\* Nothing obliges the user to call, the runtime to answer or to crash.
FairSpec ==
    /\ Spec
    /\ \A s \in Sessions :
        /\ WF_vars(StartStep(s))
        /\ WF_vars(StopStep(s))
        /\ WF_vars(CancelStep(s))
    /\ WF_vars(RuntimeLostReturns)

-----------------------------------------------------------------------------
(* Safety *)

Recorded == {s \in Sessions : published[s]["recording"] > 0}

Transcribed == {s \in Sessions : published[s]["transcribing"] > 0}

Delivered == {s \in Sessions : published[s]["transcript_ready"] > 0}

\* get_status never names a session the coordinator does not hold, except while
\* a crash of the runtime is being published.
StatusTruthful ==
    activeId # NoSession => session = activeId \/ lossPc = "publishing"

\* A stop that still waits is the one whose future is pending: no cancel, crash,
\* shutdown, failure or later stop leaves it listening to a future that nothing
\* but its own watchdog can end.
NoLostWakeup ==
    \A s \in Sessions :
        stopPc[s] = "waiting" /\ future[s] = "waiting" => pending = s

\* While the runtime neither crashes nor is shut down, pending work is the work
\* of a stop that is still under way, so has_pending_work() never sticks.
PendingReleased ==
    pending # NoSession =>
        \/ stopPc[pending] \in {"publishing", "waiting"}
        \/ losses + shutdowns > 0

\* Another session's transcript was rejected, which cancels whatever delivery
\* is pending at that moment (_fail does not look whose it is).
RejectedElsewhere(s) ==
    \E r \in Sessions \ {s} :
        future[r] = "transcript" /\ stopPc[r] \in {"raising", "error"}

\* A session whose start failed, whose stop or cancel returned normally or
\* whose transcript went out is not active any more, so it blocks no later
\* start; the only exception is a stop that another session's rejected
\* transcript cut short.
SessionReleased ==
    \A s \in Sessions :
        session = s =>
            /\ startPc[s] # "error"
            /\ cancelPc[s] # "ok"
            /\ stopPc[s] = "ok" => RejectedElsewhere(s)
            /\ s \notin Delivered

\* Deliveries carry no session identifier, yet as long as no watchdog fires and
\* the runtime neither crashes nor is shut down, the text a stop emits is that
\* of its own recording.
TranscriptOwned ==
    \A s \in Sessions :
        stopPc[s] \in {"settings", "clipboard", "delivering"} =>
            \/ result[s] = s
            \/ \E r \in Sessions : future[r] = "abandoned"
            \/ losses + shutdowns > 0

\* The frontend sees the events of a session in order: transcribing only after
\* recording, a transcript only after transcribing, whatever overtakes.
EventOrder == Delivered \subseteq Transcribed /\ Transcribed \subseteq Recorded

-----------------------------------------------------------------------------
(* The promise to the panel, and how the service keeps it *)

Contract == INSTANCE SpeechContract WITH
    active <- session,
    decided <- {s \in Sessions : startPc[s] \notin {"idle", "queued"}},
    told <- published

\* Every step of the service is a step of the contract or concerns nothing in it:
\* no interleaving of calls, deliveries, crashes and shutdowns lets a session
\* replace another, return, get its events out of order, or have its recording, its
\* transcribing or its transcript published twice.
KeepsContract == Contract!Spec

\* Why no event goes out twice: what a session has told is bounded by where its
\* calls are.
ToldOnce ==
    \A s \in Sessions :
        /\ startPc[s] \in {"idle", "queued", "ack"} =>
                s \notin Recorded \cup Transcribed
        /\ stopPc[s] \in {"idle", "queued", "ack"} => s \notin Transcribed
        /\ s \in Delivered => stopPc[s] \in {"delivering", "announcing", "ok"}

-----------------------------------------------------------------------------
(* Liveness *)

\* Every call returns or raises: no order of calls, crashes, shutdowns, late or
\* missing answers leaves one suspended.  The calls are finitely many, so from
\* some time on none is under way.
CallsReturn ==
    <>[](\A s \in Sessions :
            /\ startPc[s] \in {"idle", "ok", "error"}
            /\ stopPc[s] \in {"idle", "ok", "error"}
            /\ cancelPc[s] \in {"idle", "ok", "error"})

-----------------------------------------------------------------------------
(* What the tests of the repository say and these interleavings refute *)

HasPendingWork == activeId # NoSession \/ pending # NoSession

\* Once a crash has been handled and no call is under way, nothing is pending
\* (tests/backend/test_speech_service.py: after notify_runtime_lost,
\* "assert not harness.service.has_pending_work()").
NoWorkAfterLoss ==
    /\ losses > 0
    /\ session = NoSession
    /\ lock = NoCall
    /\ lossPc = "idle"
    /\ \A s \in Sessions : stopPc[s] \in {"idle", "queued", "ok", "error"}
    => ~HasPendingWork

\* A cancel that succeeded suppresses the transcript (test_cancel_discards_result
\* _and_emits_no_transcript: "assert harness.publisher.payloads(READY) == []").
CancelSuppressesTranscript ==
    \A s \in Sessions :
        cancelPc[s] = "ok" => s \notin Delivered

=============================================================================
