------------------------- MODULE SpeechServiceProofs -------------------------
(***************************************************************************)
(* Proofs about SpeechService for any set of sessions and any bounds.      *)
(***************************************************************************)
EXTENDS SpeechService, TLAPS

USE NoSessionAssumption
    DEF MaybeSession, StartPcs, StopPcs, CancelPcs, FutureStates, NoCall,
        vars, slot, outside, elsewhere, futures, client, counters, runtime, teardown,
        Cleared, Resolved, Release, Fail, Abandon, AbortDelivery, Forget, OutcomeTyped

-----------------------------------------------------------------------------
(* The inductive invariant *)

Calm == losses + shutdowns = 0

\* The awaits under the operation lock are awaited by its holder.
LockHeld ==
    \A s \in Sessions :
        /\ startPc[s] \in {"ack", "publishing"} => lock = <<"start", s>>
        /\ stopPc[s] \in {"ack", "publishing"} => lock = <<"stop", s>>
        /\ cancelPc[s] \in {"ack", "publishing"} => lock = <<"cancel", s>>

\* A call under the lock sees its own session or none: no other can begin.  A
\* stop sees its own as long as nothing takes the runtime away.
HolderOwnsSlot ==
    \A s \in Sessions :
        /\ \/ startPc[s] \in {"ack", "publishing"}
           \/ stopPc[s] \in {"ack", "publishing"}
           \/ cancelPc[s] = "ack"
           => session \in {s, NoSession}
        /\ Calm /\ stopPc[s] \in {"ack", "publishing"} => session = s

\* Until its start has returned, a session has no future, no delivery, no
\* cancel that succeeded and no transcript.
NothingBeforeStart ==
    \A s \in Sessions :
        startPc[s] \in {"idle", "queued", "ack", "publishing"} =>
            /\ stopPc[s] \in {"idle", "queued", "raising", "error"}
            /\ cancelPc[s] \in {"idle", "queued", "raising", "error"}
            /\ future[s] = "absent"
            /\ delivery[s] = "none"
            /\ s \notin Delivered

\* A stop creates its delivery and its future when the runtime acknowledges.
NothingBeforeStop ==
    \A s \in Sessions :
        stopPc[s] \in {"idle", "queued", "ack"} =>
            future[s] = "absent" /\ delivery[s] = "none"

\* A future that may still be listened to is the pending one, and once the stop
\* listens its session is active, so that no other stop can replace it.
ListenerPending ==
    /\ pending # NoSession => future[pending] # "absent"
    /\ \A s \in Sessions :
        /\ stopPc[s] = "publishing" /\ future[s] = "waiting" => pending = s
        /\ stopPc[s] = "waiting" /\ future[s] = "waiting" =>
                pending = s /\ session = s

\* A cancel that awaits the runtime has captured the future its session's stop
\* listens to.
CancelSeesListener ==
    \A s \in Sessions :
        /\ cancelPc[s] = "ack"
        /\ stopPc[s] = "waiting"
        /\ future[s] = "waiting"
        => captured[s] = s

\* Before a woken stop runs again, another session has got no further than its
\* first command.
WokenSlot ==
    \A s \in Sessions :
        stopPc[s] = "waiting" /\ future[s] # "waiting" =>
            session \in {s, NoSession} \/ startPc[session] = "ack"

\* How far the events of a session have got, by where its calls are.
Announced ==
    \A s \in Sessions :
        /\ session = s =>
                startPc[s] = "ack" \/ s \in Recorded
        /\ stopPc[s] = "ack" => s \in Recorded
        /\ stopPc[s] \in {"publishing", "waiting", "settings", "clipboard"} =>
                s \in Transcribed
        /\ stopPc[s] \in {"delivering", "announcing"} =>
                s \in Delivered
        /\ stopPc[s] \in {"settings", "clipboard", "delivering"} =>
                future[s] = "transcript"

\* SessionReleased, call by call.
ActiveUnfinished ==
    \A s \in Sessions :
        session = s =>
            /\ startPc[s] \in {"ack", "publishing", "ok"}
            /\ cancelPc[s] \notin {"publishing", "ok"}
            /\ stopPc[s] = "ok" => RejectedElsewhere(s)
            /\ future[s] = "cancelled" => RejectedElsewhere(s)
            /\ s \notin Delivered

\* A delivery that runs is the client's latest, for the active session, whose
\* stop has had nothing delivered.
OwnDelivery ==
    Calm /\ (\A r \in Sessions : future[r] # "abandoned") =>
        \A d \in Sessions :
            /\ delivery[d] = "running" =>
                    /\ clientTask = d
                    /\ session = d
                    /\ future[d] \in {"waiting", "cancelled"}
            /\ future[d] = "transcript" => result[d] = d

ServiceInvariant ==
    /\ TypeOK
    /\ StatusTruthful
    /\ LockHeld
    /\ HolderOwnsSlot
    /\ NothingBeforeStart
    /\ NothingBeforeStop
    /\ ListenerPending
    /\ CancelSeesListener
    /\ WokenSlot
    /\ Announced
    /\ EventOrder
    /\ ActiveUnfinished
    /\ PendingReleased
    /\ OwnDelivery

-----------------------------------------------------------------------------
(* Which steps publish what *)

\* What is published is counted once, for the session and the event it names.
LEMMA PublishCounts ==
    ASSUME NEW s \in Sessions, NEW event \in Events,
           published \in Publications, Publish(s, event)
    PROVE  /\ published' \in Publications
           /\ published'[s][event] > 0
           /\ \A r \in Sessions, e \in Events :
                r # s \/ e # event => published'[r][e] = published[r][e]
<1> DEFINE counted == [published[s] EXCEPT ![event] = @ + 1]
<1>1. published' = [published EXCEPT ![s] = counted]
  BY DEF Publish
<1>2. published[s] \in [Events -> Nat] /\ counted \in [Events -> Nat]
  BY DEF Publications
<1>3. /\ counted[event] > 0
      /\ \A e \in Events : e # event => counted[e] = published[s][e]
  BY <1>2
<1> HIDE DEF counted
<1>4. /\ published'[s] = counted
      /\ \A r \in Sessions : r # s => published'[r] = published[r]
  BY <1>1 DEF Publications
<1>5. published' \in Publications
  BY <1>1, <1>2 DEF Publications
<1> QED
  BY <1>3, <1>4, <1>5

\* What a session has not told was published zero times.
LEMMA ZeroOrPositive ==
    ASSUME published \in Publications, NEW s \in Sessions
    PROVE  /\ IF s \in Recorded THEN published[s]["recording"] > 0
                                ELSE published[s]["recording"] = 0
           /\ IF s \in Transcribed THEN published[s]["transcribing"] > 0
                                   ELSE published[s]["transcribing"] = 0
           /\ IF s \in Delivered THEN published[s]["transcript_ready"] > 0
                                 ELSE published[s]["transcript_ready"] = 0
<1>1. /\ "recording" \in Events
      /\ "transcribing" \in Events
      /\ "transcript_ready" \in Events
  BY DEF Events
<1>2. \A e \in Events : published[s][e] \in Nat
  BY DEF Publications
<1>3. /\ published[s]["recording"] \in Nat
      /\ published[s]["transcribing"] \in Nat
      /\ published[s]["transcript_ready"] \in Nat
  BY <1>1, <1>2
<1> QED
  BY <1>3 DEF Recorded, Transcribed, Delivered

\* The progress of a session is published by the steps that move its calls.
EventsCounted ==
    /\ published' \in Publications
    /\ \A s \in Sessions :
        /\ s \in Recorded' <=>
            \/ s \in Recorded
            \/ startPc[s] = "ack" /\ startPc'[s] = "publishing"
        /\ s \in Transcribed' <=>
            \/ s \in Transcribed
            \/ stopPc[s] = "ack" /\ stopPc'[s] = "publishing"
        /\ s \in Delivered' <=>
            \/ s \in Delivered
            \/ stopPc[s] \in {"settings", "clipboard"} /\ stopPc'[s] = "delivering"

\* Of the steps that move a call that far, each publishes its own event, and no
\* other step publishes one of the three.
LEMMA EventsCountedStep == TypeOK /\ [Next]_vars => EventsCounted
<1> SUFFICES ASSUME TypeOK, [Next]_vars PROVE EventsCounted
  OBVIOUS
<1> USE DEF TypeOK
<1>1. /\ "recording" \in Events
      /\ "transcribing" \in Events
      /\ "transcript_ready" \in Events
      /\ "error" \in Events
  BY DEF Events
<1> DEFINE Settled ==
            \A s \in Sessions :
                /\ ~(startPc[s] = "ack" /\ startPc'[s] = "publishing")
                /\ ~(stopPc[s] = "ack" /\ stopPc'[s] = "publishing")
                /\ ~(stopPc[s] \in {"settings", "clipboard"} /\ stopPc'[s] = "delivering")
<1>2. ASSUME Settled, published' = published PROVE EventsCounted
  BY <1>1, <1>2 DEF EventsCounted, Recorded, Transcribed, Delivered
<1>3. ASSUME Settled, NEW r \in Sessions, Publish(r, "error") PROVE EventsCounted
  BY <1>1, <1>3, PublishCounts
     DEF EventsCounted, Recorded, Transcribed, Delivered
<1>4. ASSUME NEW r \in Sessions, StartStep(r) PROVE EventsCounted
  <2>1. CASE StartAcked(r)
    <3>1. Publish(r, "recording")
      BY <2>1 DEF StartAcked
    <3>2. /\ startPc[r] = "ack" /\ startPc'[r] = "publishing"
          /\ \A s \in Sessions : s # r => startPc'[s] = startPc[s]
          /\ UNCHANGED stopPc
      BY <2>1 DEF StartAcked
    <3> QED
      BY <1>1, <3>1, <3>2, PublishCounts
     DEF EventsCounted, Recorded, Transcribed, Delivered
  <2>2. CASE StartConflicts(r)
    BY <1>3, <2>2 DEF StartConflicts
  <2>3. CASE StartFails(r)
    BY <1>3, <2>3 DEF StartFails
  <2>4. CASE StartRefused(r) \/ StartBegins(r) \/ StartReturns(r)
    BY <1>2, <2>4 DEF StartRefused, StartBegins, StartReturns
  <2> QED
    BY <1>4, <2>1, <2>2, <2>3, <2>4 DEF StartStep
<1>5. ASSUME NEW r \in Sessions, StopStep(r) PROVE EventsCounted
  <2>1. CASE StopAcked(r)
    <3>1. Publish(r, "transcribing")
      BY <2>1 DEF StopAcked
    <3>2. /\ stopPc[r] = "ack" /\ stopPc'[r] = "publishing"
          /\ \A s \in Sessions : s # r => stopPc'[s] = stopPc[s]
          /\ UNCHANGED startPc
      BY <2>1 DEF StopAcked
    <3> QED
      BY <1>1, <3>1, <3>2, PublishCounts
     DEF EventsCounted, Recorded, Transcribed, Delivered
  <2>2. CASE EmitDelivers(r)
    <3>1. Publish(r, "transcript_ready")
      BY <2>2 DEF EmitDelivers
    <3>2. /\ stopPc[r] \in {"settings", "clipboard"} /\ stopPc'[r] = "delivering"
          /\ \A s \in Sessions : s # r => stopPc'[s] = stopPc[s]
          /\ UNCHANGED startPc
      BY <2>2 DEF EmitDelivers
    <3> QED
      BY <1>1, <3>1, <3>2, PublishCounts
     DEF EventsCounted, Recorded, Transcribed, Delivered
  <2>3. CASE StopStale(r) \/ StopFails(r) \/ WatchdogFires(r) \/ EmitRejects(r)
    BY <1>3, <2>3 DEF StopStale, StopFails, WatchdogFires, EmitRejects
  <2>4. CASE StopGetsError(r)
    BY <1>2, <1>3, <2>4 DEF StopGetsError
  <2>5. CASE \/ StopBegins(r) \/ StopListens(r) \/ StopCancelled(r)
             \/ StopGetsTranscript(r) \/ EmitLosesSettings(r) \/ EmitCopies(r)
             \/ EmitAnnounces(r) \/ StopReturns(r)
    BY <1>2, <2>5 DEF StopBegins, StopListens, StopCancelled, StopGetsTranscript,
             EmitLosesSettings, EmitCopies, EmitAnnounces, StopReturns
  <2> QED
    BY <1>5, <2>1, <2>2, <2>3, <2>4, <2>5 DEF StopStep
<1>6. ASSUME NEW r \in Sessions, CancelStep(r) PROVE EventsCounted
  <2>1. CASE CancelStale(r) \/ CancelFails(r)
    BY <1>3, <2>1 DEF CancelStale, CancelFails
  <2>2. CASE CancelBegins(r) \/ CancelAcked(r) \/ CancelReturns(r)
    BY <1>2, <2>2 DEF CancelBegins, CancelAcked, CancelReturns
  <2> QED
    BY <1>6, <2>1, <2>2 DEF CancelStep
<1>7. CASE RuntimeLost
  BY <1>2, <1>3, <1>7 DEF RuntimeLost
<1>8. ASSUME NEW r \in Sessions,
             \/ InvokeStart(r) \/ InvokeStop(r) \/ InvokeCancel(r)
             \/ \E o \in {"transcript", "error"} : Deliver(r, o)
      PROVE  EventsCounted
  BY <1>2, <1>8 DEF InvokeStart, InvokeStop, InvokeCancel, Deliver
<1>9. CASE RuntimeLostReturns \/ Shutdown \/ ClientStops \/ Resume \/ UNCHANGED vars
  BY <1>2, <1>9 DEF RuntimeLostReturns, Shutdown, ClientStops, Resume
<1> QED
  BY <1>4, <1>5, <1>6, <1>7, <1>8, <1>9 DEF Next

-----------------------------------------------------------------------------

\* What the first state of the service satisfies.
LEMMA InitTypes == Init => TypeOK
<1> SUFFICES ASSUME Init PROVE TypeOK
  OBVIOUS
<1>1. lock \in Holders
  BY DEF Init, Holders
<1>2. losses \in 0..MaxLosses /\ shutdowns \in 0..MaxShutdowns
  BY BoundsAssumption DEF Init
<1>3. published \in Publications
  BY DEF Init, Publications
<1> QED
  BY <1>1, <1>2, <1>3 DEF Init, TypeOK

\* Nothing has been published at the start.
LEMMA InitUntold == Init => Recorded = {} /\ Transcribed = {} /\ Delivered = {}
<1> SUFFICES ASSUME Init PROVE Recorded = {} /\ Transcribed = {} /\ Delivered = {}
  OBVIOUS
<1>1. /\ "recording" \in Events
      /\ "transcribing" \in Events
      /\ "transcript_ready" \in Events
  BY DEF Events
<1>2. \A s \in Sessions, e \in Events : published[s][e] = 0
  BY DEF Init
<1>3. \A s \in Sessions :
        /\ published[s]["recording"] = 0
        /\ published[s]["transcribing"] = 0
        /\ published[s]["transcript_ready"] = 0
  BY <1>1, <1>2
<1> QED
  BY <1>3 DEF Recorded, Transcribed, Delivered

\* Every call, delivery, crash and shutdown keeps the types.
LEMMA TypeStep == TypeOK /\ [Next]_vars => TypeOK'
<1> SUFFICES ASSUME TypeOK, [Next]_vars PROVE TypeOK'
  OBVIOUS
<1>0. published' \in Publications
  BY EventsCountedStep DEF EventsCounted
<1> USE BoundsAssumption DEF TypeOK, Holders
<1>1. ASSUME NEW s \in Sessions,
             InvokeStart(s) \/ InvokeStop(s) \/ InvokeCancel(s)
      PROVE  TypeOK'
  BY <1>0, <1>1 DEF InvokeStart, InvokeStop, InvokeCancel
<1>2. ASSUME NEW s \in Sessions, StartStep(s) PROVE TypeOK'
  BY <1>0, <1>2 DEF StartStep, StartRefused, StartConflicts, StartBegins,
           StartAcked, StartFails, StartReturns
<1>3. ASSUME NEW s \in Sessions, StopStep(s) PROVE TypeOK'
  BY <1>0, <1>3 DEF StopStep, StopStale, StopBegins, StopFails, StopAcked, StopListens,
           WatchdogFires, StopCancelled, StopGetsError, StopGetsTranscript,
           EmitLosesSettings, EmitRejects, EmitCopies, EmitDelivers,
           EmitAnnounces, StopReturns
<1>4. ASSUME NEW s \in Sessions, CancelStep(s) PROVE TypeOK'
  BY <1>0, <1>4 DEF CancelStep, CancelStale, CancelBegins, CancelAcked, CancelFails,
           CancelReturns
<1>5. ASSUME NEW s \in Sessions, NEW o \in {"transcript", "error"},
             Deliver(s, o)
      PROVE  TypeOK'
  BY <1>0, <1>5 DEF Deliver
<1>6. CASE RuntimeLost
  <2>1. losses' \in 0..MaxLosses
    <3>1. losses \in 0..MaxLosses /\ losses < MaxLosses /\ losses' = losses + 1
      BY <1>0, <1>6 DEF RuntimeLost
    <3> QED
      BY <3>1
  <2>2. /\ future' \in [Sessions -> FutureStates]
        /\ result' \in [Sessions -> MaybeSession]
        /\ published' \in Publications
    BY <1>0, <1>6 DEF RuntimeLost
  <2>3. activeId' \in MaybeSession /\ lossPc' \in {"idle", "publishing"}
    BY <1>0, <1>6 DEF RuntimeLost
  <2> QED
    BY <1>6, <2>1, <2>2, <2>3 DEF RuntimeLost
<1>7. CASE Shutdown
  <2>1. shutdowns' \in 0..MaxShutdowns
    <3>1. /\ shutdowns \in 0..MaxShutdowns
          /\ shutdowns < MaxShutdowns
          /\ shutdowns' = shutdowns + 1
      BY <1>0, <1>7 DEF Shutdown
    <3> QED
      BY <3>1
  <2> QED
    BY <1>7, <2>1 DEF Shutdown
<1>8. CASE RuntimeLostReturns \/ ClientStops \/ Resume
  BY <1>0, <1>8 DEF RuntimeLostReturns, ClientStops, Resume
<1>9. CASE UNCHANGED vars
  BY <1>0, <1>9
<1> QED
  BY <1>1, <1>2, <1>3, <1>4, <1>5, <1>6, <1>7, <1>8, <1>9 DEF Next

\* The variables keep their types: every call, delivery, crash and shutdown
\* leaves the service, the client and the counters in their declared ranges.
THEOREM TypeCorrect == Spec => []TypeOK
<1> QED
  BY InitTypes, TypeStep, PTL DEF Spec

-----------------------------------------------------------------------------
(* ServiceInvariant is inductive: one lemma for each of its parts *)

\* Whatever changes the session also resets the status, or is a crash.
LEMMA StatusStep == ServiceInvariant /\ [Next]_vars => StatusTruthful'
<1> SUFFICES ASSUME ServiceInvariant, [Next]_vars PROVE StatusTruthful'
  OBVIOUS
<1> USE DEF ServiceInvariant, StatusTruthful, TypeOK
<1>1. ASSUME NEW r \in Sessions,
             InvokeStart(r) \/ InvokeStop(r) \/ InvokeCancel(r)
      PROVE  StatusTruthful'
  BY <1>1 DEF InvokeStart, InvokeStop, InvokeCancel
<1>2. ASSUME NEW r \in Sessions, StartStep(r) PROVE StatusTruthful'
  BY <1>2 DEF StartStep, StartRefused, StartConflicts, StartBegins,
           StartAcked, StartFails, StartReturns
<1>3. ASSUME NEW r \in Sessions, StopStep(r) PROVE StatusTruthful'
  BY <1>3 DEF StopStep, StopStale, StopBegins, StopFails, StopAcked, StopListens,
           WatchdogFires, StopCancelled, StopGetsError, StopGetsTranscript,
           EmitLosesSettings, EmitRejects, EmitCopies, EmitDelivers,
           EmitAnnounces, StopReturns
<1>4. ASSUME NEW r \in Sessions, CancelStep(r) PROVE StatusTruthful'
  BY <1>4 DEF CancelStep, CancelStale, CancelBegins, CancelAcked, CancelFails,
           CancelReturns
<1>5. ASSUME NEW r \in Sessions, NEW o \in {"transcript", "error"},
             Deliver(r, o)
      PROVE  StatusTruthful'
  BY <1>5 DEF Deliver
<1>6. CASE RuntimeLost \/ RuntimeLostReturns
  BY <1>6 DEF RuntimeLost, RuntimeLostReturns
<1>7. CASE Shutdown \/ ClientStops \/ Resume
  BY <1>7 DEF Shutdown, ClientStops, Resume
<1>8. CASE UNCHANGED vars
  BY <1>8
<1> QED
  BY <1>1, <1>2, <1>3, <1>4, <1>5, <1>6, <1>7, <1>8 DEF Next

\* Only the holder of the lock passes the awaits under it.
LEMMA LockStep == ServiceInvariant /\ [Next]_vars => LockHeld'
<1> SUFFICES ASSUME ServiceInvariant, [Next]_vars PROVE LockHeld'
  OBVIOUS
<1> USE DEF ServiceInvariant, LockHeld, TypeOK
<1>1. ASSUME NEW r \in Sessions,
             InvokeStart(r) \/ InvokeStop(r) \/ InvokeCancel(r)
      PROVE  LockHeld'
  BY <1>1 DEF InvokeStart, InvokeStop, InvokeCancel
<1>2. ASSUME NEW r \in Sessions, StartStep(r) PROVE LockHeld'
  BY <1>2 DEF StartStep, StartRefused, StartConflicts, StartBegins,
           StartAcked, StartFails, StartReturns
<1>3. ASSUME NEW r \in Sessions, StopStep(r) PROVE LockHeld'
  BY <1>3 DEF StopStep, StopStale, StopBegins, StopFails, StopAcked, StopListens,
           WatchdogFires, StopCancelled, StopGetsError, StopGetsTranscript,
           EmitLosesSettings, EmitRejects, EmitCopies, EmitDelivers,
           EmitAnnounces, StopReturns
<1>4. ASSUME NEW r \in Sessions, CancelStep(r) PROVE LockHeld'
  BY <1>4 DEF CancelStep, CancelStale, CancelBegins, CancelAcked, CancelFails,
           CancelReturns
<1>5. ASSUME NEW r \in Sessions, NEW o \in {"transcript", "error"},
             Deliver(r, o)
      PROVE  LockHeld'
  BY <1>5 DEF Deliver
<1>6. CASE RuntimeLost \/ RuntimeLostReturns
  BY <1>6 DEF RuntimeLost, RuntimeLostReturns
<1>7. CASE Shutdown \/ ClientStops \/ Resume
  BY <1>7 DEF Shutdown, ClientStops, Resume
<1>8. CASE UNCHANGED vars
  BY <1>8
<1> QED
  BY <1>1, <1>2, <1>3, <1>4, <1>5, <1>6, <1>7, <1>8 DEF Next

\* A session begins only with the lock free.
LEMMA SlotStep == ServiceInvariant /\ [Next]_vars => HolderOwnsSlot'
<1> SUFFICES ASSUME ServiceInvariant, [Next]_vars PROVE HolderOwnsSlot'
  OBVIOUS
<1> USE DEF ServiceInvariant, LockHeld, HolderOwnsSlot, NothingBeforeStart,
            WokenSlot, Calm, TypeOK
<1>1. ASSUME NEW r \in Sessions,
             InvokeStart(r) \/ InvokeStop(r) \/ InvokeCancel(r)
      PROVE  HolderOwnsSlot'
  BY <1>1 DEF InvokeStart, InvokeStop, InvokeCancel
<1>2. ASSUME NEW r \in Sessions, StartStep(r) PROVE HolderOwnsSlot'
  BY <1>2 DEF StartStep, StartRefused, StartConflicts, StartBegins,
           StartAcked, StartFails, StartReturns
<1>3. ASSUME NEW r \in Sessions, StopStep(r) PROVE HolderOwnsSlot'
  BY <1>3 DEF StopStep, StopStale, StopBegins, StopFails, StopAcked, StopListens,
           WatchdogFires, StopCancelled, StopGetsError, StopGetsTranscript,
           EmitLosesSettings, EmitRejects, EmitCopies, EmitDelivers,
           EmitAnnounces, StopReturns
<1>4. ASSUME NEW r \in Sessions, CancelStep(r) PROVE HolderOwnsSlot'
  BY <1>4 DEF CancelStep, CancelStale, CancelBegins, CancelAcked, CancelFails,
           CancelReturns
<1>5. ASSUME NEW r \in Sessions, NEW o \in {"transcript", "error"},
             Deliver(r, o)
      PROVE  HolderOwnsSlot'
  BY <1>5 DEF Deliver
<1>6. CASE RuntimeLost \/ RuntimeLostReturns
  BY <1>6 DEF RuntimeLost, RuntimeLostReturns
<1>7. CASE Shutdown \/ ClientStops \/ Resume
  BY <1>7 DEF Shutdown, ClientStops, Resume
<1>8. CASE UNCHANGED vars
  BY <1>8
<1> QED
  BY <1>1, <1>2, <1>3, <1>4, <1>5, <1>6, <1>7, <1>8 DEF Next

\* Stops and cancels of a session that has not begun are stale.
LEMMA BeforeStartStep == ServiceInvariant /\ [Next]_vars => NothingBeforeStart'
<1> SUFFICES ASSUME ServiceInvariant, [Next]_vars PROVE NothingBeforeStart'
  OBVIOUS
<1>0. EventsCounted
  BY EventsCountedStep DEF ServiceInvariant
<1> USE DEF ServiceInvariant, LockHeld, HolderOwnsSlot, NothingBeforeStart,
            ActiveUnfinished, TypeOK
<1>1. ASSUME NEW r \in Sessions,
             InvokeStart(r) \/ InvokeStop(r) \/ InvokeCancel(r)
      PROVE  NothingBeforeStart'
  BY <1>0, <1>1 DEF EventsCounted, InvokeStart, InvokeStop, InvokeCancel
<1>2. ASSUME NEW r \in Sessions, StartStep(r) PROVE NothingBeforeStart'
  BY <1>0, <1>2 DEF EventsCounted, StartStep, StartRefused, StartConflicts, StartBegins,
           StartAcked, StartFails, StartReturns
<1>3. ASSUME NEW r \in Sessions, StopStep(r) PROVE NothingBeforeStart'
  BY <1>0, <1>3 DEF EventsCounted, StopStep, StopStale, StopBegins, StopFails, StopAcked, StopListens,
           WatchdogFires, StopCancelled, StopGetsError, StopGetsTranscript,
           EmitLosesSettings, EmitRejects, EmitCopies, EmitDelivers,
           EmitAnnounces, StopReturns
<1>4. ASSUME NEW r \in Sessions, CancelStep(r) PROVE NothingBeforeStart'
  BY <1>0, <1>4 DEF EventsCounted, CancelStep, CancelStale, CancelBegins, CancelAcked, CancelFails,
           CancelReturns
<1>5. ASSUME NEW r \in Sessions, NEW o \in {"transcript", "error"},
             Deliver(r, o)
      PROVE  NothingBeforeStart'
  BY <1>0, <1>5 DEF EventsCounted, Deliver
<1>6. CASE RuntimeLost \/ RuntimeLostReturns
  BY <1>0, <1>6 DEF EventsCounted, RuntimeLost, RuntimeLostReturns
<1>7. CASE Shutdown \/ ClientStops \/ Resume
  BY <1>0, <1>7 DEF EventsCounted, Shutdown, ClientStops, Resume
<1>8. CASE UNCHANGED vars
  BY <1>0, <1>8 DEF EventsCounted
<1> QED
  BY <1>1, <1>2, <1>3, <1>4, <1>5, <1>6, <1>7, <1>8 DEF Next

\* Only a pending future is resolved, and no future is pending unacknowledged.
LEMMA BeforeStopStep == ServiceInvariant /\ [Next]_vars => NothingBeforeStop'
<1> SUFFICES ASSUME ServiceInvariant, [Next]_vars PROVE NothingBeforeStop'
  OBVIOUS
<1> USE DEF ServiceInvariant, LockHeld, HolderOwnsSlot, NothingBeforeStart,
            NothingBeforeStop, ListenerPending, CancelSeesListener, TypeOK
<1>1. ASSUME NEW r \in Sessions,
             InvokeStart(r) \/ InvokeStop(r) \/ InvokeCancel(r)
      PROVE  NothingBeforeStop'
  BY <1>1 DEF InvokeStart, InvokeStop, InvokeCancel
<1>2. ASSUME NEW r \in Sessions, StartStep(r) PROVE NothingBeforeStop'
  BY <1>2 DEF StartStep, StartRefused, StartConflicts, StartBegins,
           StartAcked, StartFails, StartReturns
<1>3. ASSUME NEW r \in Sessions, StopStep(r) PROVE NothingBeforeStop'
  BY <1>3 DEF StopStep, StopStale, StopBegins, StopFails, StopAcked, StopListens,
           WatchdogFires, StopCancelled, StopGetsError, StopGetsTranscript,
           EmitLosesSettings, EmitRejects, EmitCopies, EmitDelivers,
           EmitAnnounces, StopReturns
<1>4. ASSUME NEW r \in Sessions, CancelStep(r) PROVE NothingBeforeStop'
  BY <1>4 DEF CancelStep, CancelStale, CancelBegins, CancelAcked, CancelFails,
           CancelReturns
<1>5. ASSUME NEW r \in Sessions, NEW o \in {"transcript", "error"},
             Deliver(r, o)
      PROVE  NothingBeforeStop'
  BY <1>5 DEF Deliver
<1>6. CASE RuntimeLost \/ RuntimeLostReturns
  BY <1>6 DEF RuntimeLost, RuntimeLostReturns
<1>7. CASE Shutdown \/ ClientStops \/ Resume
  BY <1>7 DEF Shutdown, ClientStops, Resume
<1>8. CASE UNCHANGED vars
  BY <1>8
<1> QED
  BY <1>1, <1>2, <1>3, <1>4, <1>5, <1>6, <1>7, <1>8 DEF Next

\* A future leaves _pending_delivery resolved or unheard.
LEMMA ListenerStep == ServiceInvariant /\ [Next]_vars => ListenerPending'
<1> SUFFICES ASSUME ServiceInvariant, [Next]_vars PROVE ListenerPending'
  OBVIOUS
<1> USE DEF ServiceInvariant, LockHeld, HolderOwnsSlot, NothingBeforeStart,
            ListenerPending, CancelSeesListener, TypeOK
<1>1. ASSUME NEW r \in Sessions,
             InvokeStart(r) \/ InvokeStop(r) \/ InvokeCancel(r)
      PROVE  ListenerPending'
  BY <1>1 DEF InvokeStart, InvokeStop, InvokeCancel
<1>2. ASSUME NEW r \in Sessions, StartStep(r) PROVE ListenerPending'
  BY <1>2 DEF StartStep, StartRefused, StartConflicts, StartBegins,
           StartAcked, StartFails, StartReturns
<1>3. ASSUME NEW r \in Sessions, StopStep(r) PROVE ListenerPending'
  BY <1>3 DEF StopStep, StopStale, StopBegins, StopFails, StopAcked, StopListens,
           WatchdogFires, StopCancelled, StopGetsError, StopGetsTranscript,
           EmitLosesSettings, EmitRejects, EmitCopies, EmitDelivers,
           EmitAnnounces, StopReturns
<1>4. ASSUME NEW r \in Sessions, CancelStep(r) PROVE ListenerPending'
  BY <1>4 DEF CancelStep, CancelStale, CancelBegins, CancelAcked, CancelFails,
           CancelReturns
<1>5. ASSUME NEW r \in Sessions, NEW o \in {"transcript", "error"},
             Deliver(r, o)
      PROVE  ListenerPending'
  BY <1>5 DEF Deliver
<1>6. CASE RuntimeLost \/ RuntimeLostReturns
  BY <1>6 DEF RuntimeLost, RuntimeLostReturns
<1>7. CASE Shutdown \/ ClientStops \/ Resume
  BY <1>7 DEF Shutdown, ClientStops, Resume
<1>8. CASE UNCHANGED vars
  BY <1>8
<1> QED
  BY <1>1, <1>2, <1>3, <1>4, <1>5, <1>6, <1>7, <1>8 DEF Next

\* Nothing begins to listen while a cancel holds the lock.
LEMMA CancelListenerStep == ServiceInvariant /\ [Next]_vars => CancelSeesListener'
<1> SUFFICES ASSUME ServiceInvariant, [Next]_vars PROVE CancelSeesListener'
  OBVIOUS
<1> USE DEF ServiceInvariant, LockHeld, HolderOwnsSlot, NothingBeforeStart,
            ListenerPending, CancelSeesListener, TypeOK
<1>1. ASSUME NEW r \in Sessions,
             InvokeStart(r) \/ InvokeStop(r) \/ InvokeCancel(r)
      PROVE  CancelSeesListener'
  BY <1>1 DEF InvokeStart, InvokeStop, InvokeCancel
<1>2. ASSUME NEW r \in Sessions, StartStep(r) PROVE CancelSeesListener'
  BY <1>2 DEF StartStep, StartRefused, StartConflicts, StartBegins,
           StartAcked, StartFails, StartReturns
<1>3. ASSUME NEW r \in Sessions, StopStep(r) PROVE CancelSeesListener'
  BY <1>3 DEF StopStep, StopStale, StopBegins, StopFails, StopAcked, StopListens,
           WatchdogFires, StopCancelled, StopGetsError, StopGetsTranscript,
           EmitLosesSettings, EmitRejects, EmitCopies, EmitDelivers,
           EmitAnnounces, StopReturns
<1>4. ASSUME NEW r \in Sessions, CancelStep(r) PROVE CancelSeesListener'
  BY <1>4 DEF CancelStep, CancelStale, CancelBegins, CancelAcked, CancelFails,
           CancelReturns
<1>5. ASSUME NEW r \in Sessions, NEW o \in {"transcript", "error"},
             Deliver(r, o)
      PROVE  CancelSeesListener'
  BY <1>5 DEF Deliver
<1>6. CASE RuntimeLost \/ RuntimeLostReturns
  BY <1>6 DEF RuntimeLost, RuntimeLostReturns
<1>7. CASE Shutdown \/ ClientStops \/ Resume
  BY <1>7 DEF Shutdown, ClientStops, Resume
<1>8. CASE UNCHANGED vars
  BY <1>8
<1> QED
  BY <1>1, <1>2, <1>3, <1>4, <1>5, <1>6, <1>7, <1>8 DEF Next

\* A woken stop runs before the next acknowledgement.
LEMMA WokenStep == ServiceInvariant /\ [Next]_vars => WokenSlot'
<1> SUFFICES ASSUME ServiceInvariant, [Next]_vars PROVE WokenSlot'
  OBVIOUS
<1> USE DEF ServiceInvariant, LockHeld, HolderOwnsSlot, NothingBeforeStart,
            ListenerPending, WokenSlot, Woken, TypeOK
<1>1. ASSUME NEW r \in Sessions,
             InvokeStart(r) \/ InvokeStop(r) \/ InvokeCancel(r)
      PROVE  WokenSlot'
  BY <1>1 DEF InvokeStart, InvokeStop, InvokeCancel
<1>2. ASSUME NEW r \in Sessions, StartStep(r) PROVE WokenSlot'
  BY <1>2 DEF StartStep, StartRefused, StartConflicts, StartBegins,
           StartAcked, StartFails, StartReturns
<1>3. ASSUME NEW r \in Sessions, StopStep(r) PROVE WokenSlot'
  BY <1>3 DEF StopStep, StopStale, StopBegins, StopFails, StopAcked, StopListens,
           WatchdogFires, StopCancelled, StopGetsError, StopGetsTranscript,
           EmitLosesSettings, EmitRejects, EmitCopies, EmitDelivers,
           EmitAnnounces, StopReturns
<1>4. ASSUME NEW r \in Sessions, CancelStep(r) PROVE WokenSlot'
  BY <1>4 DEF CancelStep, CancelStale, CancelBegins, CancelAcked, CancelFails,
           CancelReturns
<1>5. ASSUME NEW r \in Sessions, NEW o \in {"transcript", "error"},
             Deliver(r, o)
      PROVE  WokenSlot'
  BY <1>5 DEF Deliver
<1>6. CASE RuntimeLost \/ RuntimeLostReturns
  BY <1>6 DEF RuntimeLost, RuntimeLostReturns
<1>7. CASE Shutdown \/ ClientStops \/ Resume
  BY <1>7 DEF Shutdown, ClientStops, Resume
<1>8. CASE UNCHANGED vars
  BY <1>8
<1> QED
  BY <1>1, <1>2, <1>3, <1>4, <1>5, <1>6, <1>7, <1>8 DEF Next

\* Each call publishes before it goes on.
LEMMA AnnouncedStep == ServiceInvariant /\ [Next]_vars => Announced'
<1> SUFFICES ASSUME ServiceInvariant, [Next]_vars PROVE Announced'
  OBVIOUS
<1>0. EventsCounted
  BY EventsCountedStep DEF ServiceInvariant
<1> USE DEF ServiceInvariant, LockHeld, HolderOwnsSlot, NothingBeforeStart,
            Announced, TypeOK
<1>1. ASSUME NEW r \in Sessions,
             InvokeStart(r) \/ InvokeStop(r) \/ InvokeCancel(r)
      PROVE  Announced'
  BY <1>0, <1>1 DEF EventsCounted, InvokeStart, InvokeStop, InvokeCancel
<1>2. ASSUME NEW r \in Sessions, StartStep(r) PROVE Announced'
  BY <1>0, <1>2 DEF EventsCounted, StartStep, StartRefused, StartConflicts, StartBegins,
           StartAcked, StartFails, StartReturns
<1>3. ASSUME NEW r \in Sessions, StopStep(r) PROVE Announced'
  BY <1>0, <1>3 DEF EventsCounted, StopStep, StopStale, StopBegins, StopFails, StopAcked, StopListens,
           WatchdogFires, StopCancelled, StopGetsError, StopGetsTranscript,
           EmitLosesSettings, EmitRejects, EmitCopies, EmitDelivers,
           EmitAnnounces, StopReturns
<1>4. ASSUME NEW r \in Sessions, CancelStep(r) PROVE Announced'
  BY <1>0, <1>4 DEF EventsCounted, CancelStep, CancelStale, CancelBegins, CancelAcked, CancelFails,
           CancelReturns
<1>5. ASSUME NEW r \in Sessions, NEW o \in {"transcript", "error"},
             Deliver(r, o)
      PROVE  Announced'
  BY <1>0, <1>5 DEF EventsCounted, Deliver
<1>6. CASE RuntimeLost \/ RuntimeLostReturns
  BY <1>0, <1>6 DEF EventsCounted, RuntimeLost, RuntimeLostReturns
<1>7. CASE Shutdown \/ ClientStops \/ Resume
  BY <1>0, <1>7 DEF EventsCounted, Shutdown, ClientStops, Resume
<1>8. CASE UNCHANGED vars
  BY <1>0, <1>8 DEF EventsCounted
<1> QED
  BY <1>1, <1>2, <1>3, <1>4, <1>5, <1>6, <1>7, <1>8 DEF Next

\* So the events of a session come in order.
LEMMA EventOrderStep == ServiceInvariant /\ [Next]_vars => EventOrder'
<1> SUFFICES ASSUME ServiceInvariant, [Next]_vars PROVE EventOrder'
  OBVIOUS
<1>1. EventsCounted
  BY EventsCountedStep DEF ServiceInvariant
<1>2. EventOrder /\ Announced
  BY DEF ServiceInvariant
<1>3. ASSUME NEW s \in Sessions, s \in Delivered' PROVE s \in Transcribed'
  BY <1>1, <1>2, <1>3 DEF EventsCounted, EventOrder, Announced
<1>4. ASSUME NEW s \in Sessions, s \in Transcribed' PROVE s \in Recorded'
  BY <1>1, <1>2, <1>4 DEF EventsCounted, EventOrder, Announced
<1>5. Delivered' \subseteq Sessions /\ Transcribed' \subseteq Sessions
  BY DEF Delivered, Transcribed
<1> QED
  BY <1>3, <1>4, <1>5 DEF EventOrder

\* Whatever finishes a session clears it.
LEMMA ActiveStep == ServiceInvariant /\ [Next]_vars => ActiveUnfinished'
<1> SUFFICES ASSUME ServiceInvariant, [Next]_vars PROVE ActiveUnfinished'
  OBVIOUS
<1>0. EventsCounted
  BY EventsCountedStep DEF ServiceInvariant
<1> USE DEF ServiceInvariant, LockHeld, HolderOwnsSlot, NothingBeforeStart,
            ListenerPending, WokenSlot, CancelSeesListener, Announced,
            EventOrder, ActiveUnfinished, RejectedElsewhere, TypeOK
<1>1. ASSUME NEW r \in Sessions,
             InvokeStart(r) \/ InvokeStop(r) \/ InvokeCancel(r)
      PROVE  ActiveUnfinished'
  BY <1>0, <1>1 DEF EventsCounted, InvokeStart, InvokeStop, InvokeCancel
<1>2. ASSUME NEW r \in Sessions, StartStep(r) PROVE ActiveUnfinished'
  BY <1>0, <1>2 DEF EventsCounted, StartStep, StartRefused, StartConflicts, StartBegins,
           StartAcked, StartFails, StartReturns
<1>3. ASSUME NEW r \in Sessions, StopStep(r) PROVE ActiveUnfinished'
  BY <1>0, <1>3 DEF EventsCounted, StopStep, StopStale, StopBegins, StopFails, StopAcked, StopListens,
           WatchdogFires, StopCancelled, StopGetsError, StopGetsTranscript,
           EmitLosesSettings, EmitRejects, EmitCopies, EmitDelivers,
           EmitAnnounces, StopReturns
<1>4. ASSUME NEW r \in Sessions, CancelStep(r) PROVE ActiveUnfinished'
  BY <1>0, <1>4 DEF EventsCounted, CancelStep, CancelStale, CancelBegins, CancelAcked, CancelFails,
           CancelReturns
<1>5. ASSUME NEW r \in Sessions, NEW o \in {"transcript", "error"},
             Deliver(r, o)
      PROVE  ActiveUnfinished'
  BY <1>0, <1>5 DEF EventsCounted, Deliver
<1>6. CASE RuntimeLost \/ RuntimeLostReturns
  BY <1>0, <1>6 DEF EventsCounted, RuntimeLost, RuntimeLostReturns
<1>7. CASE Shutdown \/ ClientStops \/ Resume
  BY <1>0, <1>7 DEF EventsCounted, Shutdown, ClientStops, Resume
<1>8. CASE UNCHANGED vars
  BY <1>0, <1>8 DEF EventsCounted
<1> QED
  BY <1>1, <1>2, <1>3, <1>4, <1>5, <1>6, <1>7, <1>8 DEF Next

\* Without crash or shutdown a stop always reaches its "finally".
LEMMA PendingStep == ServiceInvariant /\ [Next]_vars => PendingReleased'
<1> SUFFICES ASSUME ServiceInvariant, [Next]_vars PROVE PendingReleased'
  OBVIOUS
<1> USE DEF ServiceInvariant, LockHeld, HolderOwnsSlot, NothingBeforeStart,
            ListenerPending, Calm, PendingReleased, TypeOK
<1>1. ASSUME NEW r \in Sessions,
             InvokeStart(r) \/ InvokeStop(r) \/ InvokeCancel(r)
      PROVE  PendingReleased'
  BY <1>1 DEF InvokeStart, InvokeStop, InvokeCancel
<1>2. ASSUME NEW r \in Sessions, StartStep(r) PROVE PendingReleased'
  BY <1>2 DEF StartStep, StartRefused, StartConflicts, StartBegins,
           StartAcked, StartFails, StartReturns
<1>3. ASSUME NEW r \in Sessions, StopStep(r) PROVE PendingReleased'
  BY <1>3 DEF StopStep, StopStale, StopBegins, StopFails, StopAcked, StopListens,
           WatchdogFires, StopCancelled, StopGetsError, StopGetsTranscript,
           EmitLosesSettings, EmitRejects, EmitCopies, EmitDelivers,
           EmitAnnounces, StopReturns
<1>4. ASSUME NEW r \in Sessions, CancelStep(r) PROVE PendingReleased'
  BY <1>4 DEF CancelStep, CancelStale, CancelBegins, CancelAcked, CancelFails,
           CancelReturns
<1>5. ASSUME NEW r \in Sessions, NEW o \in {"transcript", "error"},
             Deliver(r, o)
      PROVE  PendingReleased'
  BY <1>5 DEF Deliver
<1>6. CASE RuntimeLost \/ RuntimeLostReturns
  BY <1>6 DEF RuntimeLost, RuntimeLostReturns
<1>7. CASE Shutdown \/ ClientStops \/ Resume
  BY <1>7 DEF Shutdown, ClientStops, Resume
<1>8. CASE UNCHANGED vars
  BY <1>8
<1> QED
  BY <1>1, <1>2, <1>3, <1>4, <1>5, <1>6, <1>7, <1>8 DEF Next

\* Without a watchdog, crash or shutdown no delivery outlasts its session.
LEMMA DeliveryStep == ServiceInvariant /\ [Next]_vars => OwnDelivery'
<1> SUFFICES ASSUME ServiceInvariant, [Next]_vars PROVE OwnDelivery'
  OBVIOUS
<1> USE DEF ServiceInvariant, LockHeld, HolderOwnsSlot, NothingBeforeStart,
            ListenerPending, WokenSlot, Announced, Calm, PendingReleased,
            OwnDelivery, NothingBeforeStop, TypeOK
<1>1. ASSUME NEW r \in Sessions,
             InvokeStart(r) \/ InvokeStop(r) \/ InvokeCancel(r)
      PROVE  OwnDelivery'
  BY <1>1 DEF InvokeStart, InvokeStop, InvokeCancel
<1>2. ASSUME NEW r \in Sessions, StartStep(r) PROVE OwnDelivery'
  BY <1>2 DEF StartStep, StartRefused, StartConflicts, StartBegins,
           StartAcked, StartFails, StartReturns
<1>3. ASSUME NEW r \in Sessions, StopStep(r) PROVE OwnDelivery'
  BY <1>3 DEF StopStep, StopStale, StopBegins, StopFails, StopAcked, StopListens,
           WatchdogFires, StopCancelled, StopGetsError, StopGetsTranscript,
           EmitLosesSettings, EmitRejects, EmitCopies, EmitDelivers,
           EmitAnnounces, StopReturns
<1>4. ASSUME NEW r \in Sessions, CancelStep(r) PROVE OwnDelivery'
  BY <1>4 DEF CancelStep, CancelStale, CancelBegins, CancelAcked, CancelFails,
           CancelReturns
<1>5. ASSUME NEW r \in Sessions, NEW o \in {"transcript", "error"},
             Deliver(r, o)
      PROVE  OwnDelivery'
  BY <1>5 DEF Deliver
<1>6. CASE RuntimeLost \/ RuntimeLostReturns
  BY <1>6 DEF RuntimeLost, RuntimeLostReturns
<1>7. CASE Shutdown \/ ClientStops \/ Resume
  BY <1>7 DEF Shutdown, ClientStops, Resume
<1>8. CASE UNCHANGED vars
  BY <1>8
<1> QED
  BY <1>1, <1>2, <1>3, <1>4, <1>5, <1>6, <1>7, <1>8 DEF Next

-----------------------------------------------------------------------------
(* The safety properties of the service *)

\* Every part of the invariant holds at the start and survives every step.
LEMMA InvariantHolds == Spec => []ServiceInvariant
<1>1. Init => ServiceInvariant
  <2> SUFFICES ASSUME Init PROVE ServiceInvariant
    OBVIOUS
  <2>1. TypeOK
    BY InitTypes
  <2>2. OwnDelivery /\ PendingReleased /\ StatusTruthful /\ ActiveUnfinished
    BY InitUntold DEF Init, OwnDelivery, PendingReleased, StatusTruthful, ActiveUnfinished
  <2>3. LockHeld /\ HolderOwnsSlot /\ ListenerPending /\ CancelSeesListener
    BY DEF Init, LockHeld, HolderOwnsSlot, ListenerPending, CancelSeesListener
  <2>4. NothingBeforeStart /\ NothingBeforeStop /\ WokenSlot
    BY InitUntold DEF Init, NothingBeforeStart, NothingBeforeStop, WokenSlot
  <2>5. Announced /\ EventOrder
    BY InitUntold DEF Init, Announced, EventOrder
  <2> QED
    BY <2>1, <2>2, <2>3, <2>4, <2>5 DEF ServiceInvariant
<1>2. ServiceInvariant /\ [Next]_vars => TypeOK'
  BY TypeStep DEF ServiceInvariant
<1>3. ServiceInvariant /\ [Next]_vars => ServiceInvariant'
  BY <1>2, StatusStep, LockStep, SlotStep, BeforeStartStep, BeforeStopStep,
     ListenerStep, CancelListenerStep, WokenStep, AnnouncedStep,
     EventOrderStep, ActiveStep, PendingStep, DeliveryStep
     DEF ServiceInvariant
<1> QED
  BY <1>1, <1>3, PTL DEF Spec

\* get_status never names a session the coordinator does not hold, except
\* while a crash is being published.
THEOREM StatusIsTruthful == Spec => []StatusTruthful
<1>1. ServiceInvariant => StatusTruthful
  BY DEF ServiceInvariant
<1> QED
  BY <1>1, InvariantHolds, PTL

\* A waiting stop listens to the pending future, so whatever ends the session
\* reaches it.
THEOREM NoWakeupLost == Spec => []NoLostWakeup
<1>1. ServiceInvariant => NoLostWakeup
  BY DEF ServiceInvariant, ListenerPending, NoLostWakeup
<1> QED
  BY <1>1, InvariantHolds, PTL

\* A finished session is released, whatever calls, crashes and shutdowns
\* overlapped with it.
THEOREM SessionsAreReleased == Spec => []SessionReleased
<1>1. ServiceInvariant => SessionReleased
  BY DEF ServiceInvariant, ActiveUnfinished, SessionReleased
<1> QED
  BY <1>1, InvariantHolds, PTL

\* Without crash or shutdown has_pending_work() never sticks.
THEOREM PendingIsReleased == Spec => []PendingReleased
<1>1. ServiceInvariant => PendingReleased
  BY DEF ServiceInvariant
<1> QED
  BY <1>1, InvariantHolds, PTL

\* Without a watchdog, a crash or a shutdown, nobody gets another session's text.
THEOREM TranscriptsAreOwned == Spec => []TranscriptOwned
<1>1. ServiceInvariant => TranscriptOwned
  BY DEF ServiceInvariant, OwnDelivery, Announced, Calm, TypeOK,
         TranscriptOwned
<1> QED
  BY <1>1, InvariantHolds, PTL

\* The events of a session reach the frontend in order.
THEOREM EventsInOrder == Spec => []EventOrder
<1>1. ServiceInvariant => EventOrder
  BY DEF ServiceInvariant
<1> QED
  BY <1>1, InvariantHolds, PTL

-----------------------------------------------------------------------------
(* The service keeps its contract *)

\* Only the emitting stop tells a transcript, and only once.
LEMMA ToldOnceStep ==
    ServiceInvariant /\ ToldOnce /\ [Next]_vars => ToldOnce'
<1> SUFFICES ASSUME ServiceInvariant, ToldOnce, [Next]_vars PROVE ToldOnce'
  OBVIOUS
<1>0. EventsCounted
  BY EventsCountedStep DEF ServiceInvariant
<1> USE DEF ServiceInvariant, NothingBeforeStart, ToldOnce, TypeOK
<1>1. ASSUME NEW r \in Sessions,
             InvokeStart(r) \/ InvokeStop(r) \/ InvokeCancel(r)
      PROVE  ToldOnce'
  BY <1>0, <1>1 DEF EventsCounted, InvokeStart, InvokeStop, InvokeCancel
<1>2. ASSUME NEW r \in Sessions, StartStep(r) PROVE ToldOnce'
  BY <1>0, <1>2 DEF EventsCounted, StartStep, StartRefused, StartConflicts, StartBegins,
           StartAcked, StartFails, StartReturns
<1>3. ASSUME NEW r \in Sessions, StopStep(r) PROVE ToldOnce'
  BY <1>0, <1>3 DEF EventsCounted, StopStep, StopStale, StopBegins, StopFails, StopAcked, StopListens,
           WatchdogFires, StopCancelled, StopGetsError, StopGetsTranscript,
           EmitLosesSettings, EmitRejects, EmitCopies, EmitDelivers,
           EmitAnnounces, StopReturns
<1>4. ASSUME NEW r \in Sessions, CancelStep(r) PROVE ToldOnce'
  BY <1>0, <1>4 DEF EventsCounted, CancelStep, CancelStale, CancelBegins, CancelAcked, CancelFails,
           CancelReturns
<1>5. ASSUME NEW r \in Sessions, NEW o \in {"transcript", "error"},
             Deliver(r, o)
      PROVE  ToldOnce'
  BY <1>0, <1>5 DEF EventsCounted, Deliver
<1>6. CASE RuntimeLost \/ RuntimeLostReturns
  BY <1>0, <1>6 DEF EventsCounted, RuntimeLost, RuntimeLostReturns
<1>7. CASE Shutdown \/ ClientStops \/ Resume
  BY <1>0, <1>7 DEF EventsCounted, Shutdown, ClientStops, Resume
<1>8. CASE UNCHANGED vars
  BY <1>0, <1>8 DEF EventsCounted
<1> QED
  BY <1>1, <1>2, <1>3, <1>4, <1>5, <1>6, <1>7, <1>8 DEF Next

\* A publication is what the contract counts.
LEMMA PublishTells ==
    ASSUME NEW s, NEW event, Publish(s, event)
    PROVE  Contract!Tells(s, event)
<1> QED
  BY DEF Publish, Contract!Tells

\* An error that goes out names a session that is over, whoever sends it.
LEMMA ErrorIsFailure ==
    ASSUME NEW s \in Sessions, TypeOK,
           session' = Cleared(s), Publish(s, "error"), UNCHANGED startPc
    PROVE  Contract!Next
<1>1. Contract!Fail(s)
  BY PublishTells DEF Contract!Fail, Contract!GivesUp
<1> QED
  BY <1>1 DEF Contract!Next

\* Every step of start_recording begins, refuses, records or fails its session.
LEMMA StartKeepsContract ==
    ASSUME ServiceInvariant, ToldOnce, NEW s \in Sessions, StartStep(s)
    PROVE  [Contract!Next]_(Contract!contract)
<1> USE DEF ServiceInvariant, TypeOK
<1>1. CASE StartRefused(s) \/ StartConflicts(s)
  <2>1. Contract!Refuse(s)
    BY <1>1, PublishTells DEF StartRefused, StartConflicts, Contract!Refuse
  <2> QED
    BY <2>1 DEF Contract!Next
<1>2. CASE StartBegins(s)
  <2>1. Contract!Begin(s)
    BY <1>2 DEF StartBegins, Contract!Begin
  <2> QED
    BY <2>1 DEF Contract!Next
<1>3. CASE StartAcked(s)
  <2>1. Contract!Record(s)
    <3>1. published[s]["recording"] = 0 /\ published[s]["transcribing"] = 0
      BY <1>3, ZeroOrPositive DEF StartAcked, ToldOnce
    <3> QED
      BY <1>3, <3>1, PublishTells DEF StartAcked, Contract!Record
  <2> QED
    BY <2>1 DEF Contract!Next
<1>4. CASE StartFails(s)
  <2>1. Contract!Fail(s)
    BY <1>4, PublishTells DEF StartFails, Contract!Fail, Contract!GivesUp
  <2> QED
    BY <2>1 DEF Contract!Next
<1>5. CASE StartReturns(s)
  BY <1>5 DEF StartReturns, Contract!contract
<1> QED
  BY <1>1, <1>2, <1>3, <1>4, <1>5 DEF StartStep

\* Every step of stop_recording transcribes, delivers or fails its session, or
\* gives up whatever session there is when the error it got names none.
LEMMA StopKeepsContract ==
    ASSUME ServiceInvariant, ToldOnce, NEW s \in Sessions, StopStep(s)
    PROVE  [Contract!Next]_(Contract!contract)
<1> USE DEF ServiceInvariant, TypeOK
<1>1. CASE StopAcked(s)
  <2>1. Contract!Transcribe(s)
    <3>1. /\ published[s]["recording"] > 0
          /\ published[s]["transcribing"] = 0
          /\ published[s]["transcript_ready"] = 0
      BY <1>1, ZeroOrPositive DEF StopAcked, ToldOnce, Announced
    <3> QED
      BY <1>1, <3>1, PublishTells DEF StopAcked, Contract!Transcribe
  <2> QED
    BY <2>1 DEF Contract!Next
<1>2. CASE EmitDelivers(s)
  <2>1. Contract!Deliver(s)
    <3>1. published[s]["transcribing"] > 0 /\ published[s]["transcript_ready"] = 0
      BY <1>2, ZeroOrPositive DEF EmitDelivers, ToldOnce, Announced
    <3> QED
      BY <1>2, <3>1, PublishTells DEF EmitDelivers, Contract!Deliver, Contract!GivesUp
  <2> QED
    BY <2>1 DEF Contract!Next
<1>3. CASE StopGetsError(s)
  <2>1. CASE result[s] = NoSession
    <3>1. Contract!Release
      BY <1>3, <2>1 DEF StopGetsError, Contract!Release
    <3> QED
      BY <3>1 DEF Contract!Next
  <2>2. CASE result[s] # NoSession
    <3>1. result[s] \in Sessions
      BY <2>2
    <3> QED
      BY <1>3, <2>2, <3>1, ErrorIsFailure DEF StopGetsError
  <2> QED
    BY <2>1, <2>2
<1>4. CASE StopStale(s)
  BY <1>4, ErrorIsFailure DEF StopStale
<1>5. CASE StopFails(s) \/ WatchdogFires(s) \/ EmitRejects(s)
  BY <1>5, ErrorIsFailure DEF StopFails, WatchdogFires, EmitRejects
<1>6. CASE \/ StopBegins(s) \/ StopListens(s) \/ StopCancelled(s)
           \/ StopGetsTranscript(s) \/ EmitLosesSettings(s) \/ EmitCopies(s)
           \/ EmitAnnounces(s) \/ StopReturns(s)
  BY <1>6 DEF StopBegins, StopListens, StopCancelled, StopGetsTranscript,
              EmitLosesSettings, EmitCopies, EmitAnnounces, StopReturns,
              Contract!contract
<1> QED
  BY <1>1, <1>2, <1>3, <1>4, <1>5, <1>6 DEF StopStep

\* Every step of cancel_recording gives up or fails its session.
LEMMA CancelKeepsContract ==
    ASSUME ServiceInvariant, NEW s \in Sessions, CancelStep(s)
    PROVE  [Contract!Next]_(Contract!contract)
<1> USE DEF ServiceInvariant, TypeOK
<1>1. CASE CancelAcked(s)
  <2>1. Contract!Release
    BY <1>1 DEF CancelAcked, HolderOwnsSlot, Contract!Release
  <2> QED
    BY <2>1 DEF Contract!Next
<1>2. CASE CancelStale(s)
  BY <1>2, ErrorIsFailure DEF CancelStale
<1>3. CASE CancelFails(s)
  BY <1>3, ErrorIsFailure DEF CancelFails
<1>4. CASE CancelBegins(s) \/ CancelReturns(s)
  BY <1>4 DEF CancelBegins, CancelReturns, Contract!contract
<1> QED
  BY <1>1, <1>2, <1>3, <1>4 DEF CancelStep

\* A crash fails the session it finds; a shutdown gives it up.
LEMMA LossKeepsContract ==
    ASSUME ServiceInvariant, RuntimeLost \/ Shutdown
    PROVE  [Contract!Next]_(Contract!contract)
<1> USE DEF ServiceInvariant, TypeOK
<1>1. CASE session' = NoSession /\ UNCHANGED <<startPc, published>>
  <2>1. Contract!Release
    BY <1>1 DEF Contract!Release
  <2> QED
    BY <2>1 DEF Contract!Next
<1>2. CASE session # NoSession /\ Publish(session, "error") /\ RuntimeLost
  <2>1. session \in Sessions /\ session' = Cleared(session) /\ UNCHANGED startPc
    BY <1>2 DEF RuntimeLost
  <2> QED
    BY <1>2, <2>1, ErrorIsFailure
<1> QED
  BY <1>1, <1>2 DEF RuntimeLost, Shutdown

\* Every step of the service is a step of the contract or a stutter.
LEMMA StepKeepsContract ==
    ServiceInvariant /\ ToldOnce /\ [Next]_vars => [Contract!Next]_(Contract!contract)
<1> SUFFICES ASSUME ServiceInvariant, ToldOnce, [Next]_vars
             PROVE  [Contract!Next]_(Contract!contract)
  OBVIOUS
<1>1. ASSUME NEW s \in Sessions,
             InvokeStart(s) \/ InvokeStop(s) \/ InvokeCancel(s)
      PROVE  [Contract!Next]_(Contract!contract)
  BY <1>1 DEF InvokeStart, InvokeStop, InvokeCancel, ServiceInvariant, TypeOK,
              Contract!contract
<1>2. ASSUME NEW s \in Sessions, NEW o \in {"transcript", "error"}, Deliver(s, o)
      PROVE  [Contract!Next]_(Contract!contract)
  BY <1>2 DEF Deliver, Contract!contract
<1>3. CASE RuntimeLostReturns \/ ClientStops \/ Resume
  BY <1>3 DEF RuntimeLostReturns, ClientStops, Resume, Contract!contract
<1>4. CASE UNCHANGED vars
  BY <1>4 DEF Contract!contract
<1> QED
  BY <1>1, <1>2, <1>3, <1>4, StartKeepsContract, StopKeepsContract,
     CancelKeepsContract, LossKeepsContract DEF Next

\* The service implements the contract it owes the panel, for any set of
\* sessions: no session replaces another or returns, and its recording, its
\* transcribing and its transcript go out in this order and at most once each,
\* whatever overlaps.
THEOREM ServiceKeepsContract == Spec => KeepsContract
<1>1. Init => Contract!Init /\ ToldOnce
  BY InitUntold DEF Init, Contract!Init, Events, Contract!Events, ToldOnce
<1>2. ServiceInvariant /\ ToldOnce /\ [Next]_vars =>
          ToldOnce' /\ [Contract!Next]_(Contract!contract)
  BY ToldOnceStep, StepKeepsContract
<1> QED
  BY <1>1, <1>2, InvariantHolds, PTL DEF Spec, KeepsContract, Contract!Spec

=============================================================================
