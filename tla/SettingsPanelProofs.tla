------------------------- MODULE SettingsPanelProofs -------------------------
(***************************************************************************)
(* Proofs about SettingsPanel for any set of choices and any number of     *)
(* saves and messages under way.                                           *)
(***************************************************************************)
EXTENDS SettingsPanel, TLAPS

USE DEF vars, backend, calls, load, heal, shown

-----------------------------------------------------------------------------
(* The inductive invariant *)

IsAnswer(m) == m.kind \in {"loaded", "rejected"} /\ m.current

\* A load has one answer, and one that is over has none, nor a timer.
AnswerOnce ==
    \A i \in 1 .. Len(inbox) : IsAnswer(inbox[i]) =>
        ~loading /\ \A j \in 1 .. Len(inbox) : IsAnswer(inbox[j]) => i = j

LoadOver ==
    value # None =>
        /\ ~loading /\ ~loadFailed /\ ~wakeup
        /\ \A i \in 1 .. Len(inbox) : ~IsAnswer(inbox[i])

LoadInvariant == AnswerOnce /\ LoadOver

\* A save has the lock until its call returns.
SaveHeld == lock = "save" => saves # <<>>

NoNews == \A i \in 1 .. Len(inbox) : inbox[i].kind = "unsaved" => ~inbox[i].current

\* Saves whose failure would not be shown are left only by an earlier panel.
SavesCurrent ==
    value # None /\ ~late => \A i \in 1 .. Len(saves) : saves[i].current

\* While no failure is shown or on its way, the last save has what is shown, and
\* without one the backend has it.
LastSaveShown ==
    value # None /\ ~late /\ ~saveError /\ NoNews =>
        IF saves = <<>> THEN value = stored
        ELSE /\ saves[Len(saves)].value = value
             /\ lock = "save" /\ Len(saves) = 1 => stored = value

SaveInvariant == SaveHeld /\ SavesCurrent /\ LastSaveShown

EscapeIsLost == run = Escaped => lost

GoesOn(m) == m.kind = "setup" /\ m.snapshot.step = "running"

Concludes(m) == m.kind = "setup" /\ m.snapshot.step # "running"

\* Every event of a run that goes on is followed by one that ends it.
Followed(s) ==
    \A i \in 1 .. Len(s) : GoesOn(s[i]) => \E j \in i + 1 .. Len(s) : Concludes(s[j])

Ended(s) == \E j \in 1 .. Len(s) : Concludes(s[j])

\* After a run, unless its end was lost, what the panel shows or will show as
\* running it will also be told the end of.
EndFollows ==
    run = Idle /\ ~lost =>
        /\ Followed(inbox)
        /\ snapshot # None /\ snapshot.step = "running" => Ended(inbox)

SetupInvariant == EscapeIsLost /\ EndFollows

\* What the panel makes a snapshot of.
Speaks(m) == m.kind = "setup" \/ (m.kind = "status" /\ m.failure # None)

Silent(s) == \A i \in 1 .. Len(s) : ~Speaks(s[i])

\* A failure it shows would be that of step f.
Tells(m, f) ==
    /\ m.kind = "setup" /\ m.snapshot.step = "failed" => m.snapshot.index = f
    /\ m.kind = "status" => m.failure = f

LastTells(s, f) ==
    \A i \in 1 .. Len(s) :
        Speaks(s[i]) /\ (\A j \in i + 1 .. Len(s) : ~Speaks(s[j])) => Tells(s[i], f)

\* After a run the last snapshot under way has the last failure, and without one the
\* snapshot that is shown.
FailureFollows ==
    run = Idle /\ ~lost =>
        /\ LastTells(inbox, lastFailure)
        /\ Silent(inbox) /\ snapshot # None /\ snapshot.step = "failed" =>
                lastFailure = snapshot.index

PanelInvariant == TypeOK /\ LoadInvariant /\ SaveInvariant /\ SetupInvariant /\ FailureFollows

-----------------------------------------------------------------------------

Save == [value : Settings, current : BOOLEAN]

-----------------------------------------------------------------------------
(* Types *)

LEMMA SnapshotTypes ==
    ASSUME NEW i \in Steps
    PROVE  /\ [step |-> "running", index |-> i] \in Snapshot
           /\ [step |-> "failed", index |-> i] \in Snapshot
           /\ [step |-> "ready", index |-> 4] \in Snapshot
  BY DEF Snapshot, Steps

LEMMA MessageTypes ==
    /\ \A s \in Snapshot : [kind |-> "setup", snapshot |-> s] \in Message
    /\ \A f \in Steps \cup {None} : [kind |-> "status", failure |-> f] \in Message
    /\ \A b \in BOOLEAN, v \in Settings :
        [kind |-> "loaded", current |-> b, value |-> v] \in Message
    /\ \A b \in BOOLEAN : /\ [kind |-> "rejected", current |-> b] \in Message
                          /\ [kind |-> "unsaved", current |-> b] \in Message
    /\ [kind |-> "import"] \in Message
<1>1. \A s \in Snapshot : [kind |-> "setup", snapshot |-> s] \in Message
  BY DEF Message
<1>2. \A f \in Steps \cup {None} : [kind |-> "status", failure |-> f] \in Message
  BY DEF Message
<1>3. \A b \in BOOLEAN, v \in Settings :
        [kind |-> "loaded", current |-> b, value |-> v] \in Message
  BY DEF Message
<1>4. \A b \in BOOLEAN : /\ [kind |-> "rejected", current |-> b] \in Message
                         /\ [kind |-> "unsaved", current |-> b] \in Message
  BY DEF Message
<1>5. [kind |-> "import"] \in Message
  BY DEF Message
<1> QED
  BY <1>1, <1>2, <1>3, <1>4, <1>5

\* A message that is sent is one of the channel's.
LEMMA SendType ==
    ASSUME NEW m \in Message, inbox \in Seq(Message), Send(m)
    PROVE  inbox' \in Seq(Message)
  BY DEF Send

LEMMA SendSetupType ==
    ASSUME inbox \in Seq(Message), NEW i \in Steps,
           \/ SendSetup("running", i) \/ SendSetup("failed", i) \/ SendSetup("ready", 4)
    PROVE  inbox' \in Seq(Message)
  BY SnapshotTypes, MessageTypes, SendType DEF SendSetup

\* To begin a run keeps the types.
LEMMA BeginsTypes ==
    ASSUME TypeOK, Begins
    PROVE  /\ inbox' \in Seq(Message) /\ lost' \in BOOLEAN
           /\ run' \in Steps \cup {Idle, Escaped}
<1>1. /\ inbox \in Seq(Message) /\ 0 \in Steps
  BY DEF TypeOK, Steps
<1>2. inbox' \in Seq(Message)
  BY <1>1, SendSetupType DEF Begins
<1>3. lost' \in BOOLEAN
  BY DEF Begins
<1>4. run' \in Steps \cup {Idle, Escaped}
  BY <1>1 DEF Begins
<1> QED
  BY <1>2, <1>3, <1>4

LEMMA InitTypes == Init => TypeOK
<1> SUFFICES ASSUME Init PROVE TypeOK
  OBVIOUS
<1>1. /\ stored \in Settings /\ up \in BOOLEAN /\ daemon \in BOOLEAN /\ asking \in BOOLEAN
      /\ loading \in BOOLEAN /\ wakeup \in BOOLEAN /\ saveError \in BOOLEAN /\ late \in BOOLEAN
      /\ loadFailed \in BOOLEAN /\ reloadPending \in BOOLEAN /\ lost \in BOOLEAN
      /\ retrying \in BOOLEAN
  BY DEF Init
<1>2. /\ run = Idle /\ inbox = <<>> /\ saves = <<>> /\ lock = "free" /\ lastFailure = None
      /\ retries = 0 /\ value = None /\ streak = 0 /\ reload = "no" /\ snapshot = None
  BY DEF Init
<1> QED
  BY <1>1, <1>2 DEF TypeOK

\* The setup run keeps the types.
LEMMA RunTypes ==
    ASSUME TypeOK, Start \/ Run \/ DaemonDies
    PROVE  TypeOK'
<1> USE DEF TypeOK, Steps, Idle, Escaped
<1>1. CASE Start
  <2>1. /\ inbox' \in Seq(Message) /\ run' \in Steps \cup {Idle, Escaped} /\ lost' \in BOOLEAN
        /\ lock' = "start"
    BY <1>1, BeginsTypes DEF Start
  <2> QED
    BY <1>1, <2>1 DEF Start
<1>2. CASE RunSteps
  <2>1. run + 1 \in Steps
    BY <1>2 DEF RunSteps
  <2>2. inbox' \in Seq(Message)
    BY <1>2, <2>1, SendSetupType DEF RunSteps
  <2>3. daemon' \in BOOLEAN
    BY <1>2 DEF RunSteps
  <2> QED
    BY <1>2, <2>1, <2>2, <2>3 DEF RunSteps
<1>3. CASE RunReady
  <2>1. inbox' \in Seq(Message)
    BY <1>3, SendSetupType DEF RunReady
  <2> QED
    BY <1>3, <2>1 DEF RunReady
<1>4. CASE RunFails
  <2>1. inbox' \in Seq(Message)
    BY <1>4, SendSetupType DEF RunFails
  <2> QED
    BY <1>4, <2>1 DEF RunFails
<1>5. CASE RunEscapes
  BY <1>5 DEF RunEscapes
<1>6. CASE DaemonDies
  <2>1. /\ daemon' \in BOOLEAN
        /\ UNCHANGED <<stored, up, lock, run, lastFailure, calls, inbox, load, heal, shown,
                       snapshot, lost>>
    BY <1>6 DEF DaemonDies
  <2> QED
    BY <2>1
<1> QED
  BY <1>1, <1>2, <1>3, <1>4, <1>5, <1>6 DEF Run

\* A save that leaves the queue.
LEMMA HeadOfSaves ==
    ASSUME saves \in Seq(Save), saves # <<>>
    PROVE  Head(saves) \in Save /\ Tail(saves) \in Seq(Save)
           /\ Head(saves).value \in Settings /\ Head(saves).current \in BOOLEAN
<1>1. Head(saves) \in Save /\ Tail(saves) \in Seq(Save)
  OBVIOUS
<1> QED
  BY <1>1 DEF Save

\* The calls that hold the lifecycle lock keep the types.
LEMMA CallTypes ==
    ASSUME TypeOK, SaveHeld, SaveRefused \/ SaveApplied \/ RestartBegins \/ Release
    PROVE  TypeOK'
<1> USE DEF TypeOK, Steps, Idle, Escaped
<1>0. saves \in Seq(Save)
  BY DEF Save
<1>1. CASE SaveRefused
  <2>1. inbox' \in Seq(Message) /\ saves' \in Seq(Save)
    BY <1>0, <1>1, HeadOfSaves, MessageTypes, SendType DEF SaveRefused
  <2> QED
    BY <1>1, <2>1 DEF SaveRefused, Save
<1>2. CASE SaveApplied
  <2>1. stored' \in Settings
    BY <1>0, <1>2, HeadOfSaves DEF SaveApplied
  <2>2. /\ inbox' \in Seq(Message) /\ run' \in Steps \cup {Idle, Escaped}
        /\ lost' \in BOOLEAN
    BY <1>2, BeginsTypes DEF SaveApplied, Applies, RuntimeRestarts
  <2>3. daemon' \in BOOLEAN /\ lastFailure' \in Steps \cup {None}
    BY <1>2 DEF SaveApplied, Applies, RuntimeRestarts
  <2> QED
    BY <1>2, <2>1, <2>2, <2>3 DEF SaveApplied
<1>3. CASE RestartBegins
  <2>1. /\ inbox' \in Seq(Message) /\ run' \in Steps \cup {Idle, Escaped}
        /\ lost' \in BOOLEAN
    BY <1>3, BeginsTypes DEF RestartBegins
  <2>2. daemon' \in BOOLEAN
    BY <1>3 DEF RestartBegins
  <2>3. retries' \in Nat
    <3>1. retries \in Nat /\ retries > 0 /\ retries' = retries - 1
      BY <1>3 DEF RestartBegins
    <3> QED
      BY <3>1
  <2> QED
    BY <1>3, <2>1, <2>2, <2>3 DEF RestartBegins
<1>4. CASE Release
  <2>1. CASE lock = "save"
    <3>1. saves # <<>>
      BY <2>1 DEF SaveHeld
    <3>2. inbox' \in Seq(Message) /\ saves' \in Seq(Save)
      BY <1>0, <1>4, <2>1, <3>1, HeadOfSaves, MessageTypes, SendType DEF Release
    <3> QED
      BY <1>4, <3>2 DEF Release, Save
  <2>2. CASE lock # "save"
    BY <1>4, <2>2 DEF Release
  <2> QED
    BY <2>1, <2>2
<1> QED
  BY <1>1, <1>2, <1>3, <1>4

\* The answers that need no lock keep the types.
LEMMA AnswerTypes ==
    ASSUME TypeOK, LoadAnswered \/ StatusAnswered \/ LoaderReloads
    PROVE  TypeOK'
<1> USE DEF TypeOK
<1>1. CASE LoadAnswered
  <2>1. inbox' \in Seq(Message)
    BY <1>1, MessageTypes, SendType DEF LoadAnswered
  <2>2. /\ loading' \in BOOLEAN
        /\ UNCHANGED <<backend, calls, wakeup, loadFailed, heal, shown, snapshot, lost>>
    BY <1>1 DEF LoadAnswered
  <2> QED
    BY <2>1, <2>2
<1>2. CASE StatusAnswered
  <2>1. inbox' \in Seq(Message)
    BY <1>2, MessageTypes, SendType DEF StatusAnswered
  <2>2. /\ asking' \in BOOLEAN
        /\ UNCHANGED <<backend, saves, retries, retrying, load, heal, shown, snapshot, lost>>
    BY <1>2 DEF StatusAnswered
  <2> QED
    BY <2>1, <2>2
<1>3. CASE LoaderReloads
  <2>1. inbox' \in Seq(Message)
    BY <1>3, MessageTypes, SendType DEF LoaderReloads
  <2>2. late' \in BOOLEAN /\ lost' \in BOOLEAN
    BY <1>3 DEF LoaderReloads
  <2>3. /\ up' \in BOOLEAN /\ daemon' \in BOOLEAN
        /\ asking' \in BOOLEAN /\ loading' \in BOOLEAN
    BY <1>3 DEF LoaderReloads
  <2>4. /\ \/ lock' = "free" /\ run' = Idle /\ saves' = <<>> /\ lastFailure' = None
              /\ retries' = 0 /\ retrying' = FALSE
           \/ UNCHANGED <<lock, run, saves, lastFailure, retries, retrying>>
    BY <1>3 DEF LoaderReloads
  <2>5. UNCHANGED <<stored, wakeup, loadFailed, reloadPending, streak, value, saveError, snapshot>>
        /\ reload' = "over"
    BY <1>3 DEF LoaderReloads
  <2>10. retries' \in Nat
    BY <2>4
  <2>11. retrying' \in BOOLEAN
    BY <2>4
  <2>6. /\ lock' \in {"free", "start", "save", "restart"}
        /\ run' \in Steps \cup {Idle, Escaped} /\ (run' # Idle => lock' # "free")
    BY <2>4
  <2>7. saves' \in Seq([value : Settings, current : BOOLEAN])
    <3>1. saves' = <<>> \/ saves' = saves
      BY <2>4
    <3>2. <<>> \in Seq([value : Settings, current : BOOLEAN])
      OBVIOUS
    <3> QED
      BY <3>1, <3>2, Zenon
  <2>9. lastFailure' \in Steps \cup {None}
    BY <2>4
  <2>8. reload' \in {"no", "called", "over"} /\ (wakeup' => value' = None)
    BY <2>5
  <2> QED
    BY <2>1, <2>2, <2>3, <2>5, <2>6, <2>7, <2>8, <2>9, <2>10, <2>11
<1> QED
  BY <1>1, <1>2, <1>3

\* To cancel what is under way keeps its type and its order.
LEMMA CancelTypes ==
    ASSUME NEW s \in Seq(Message)
    PROVE  /\ CancelledLoads(s) \in Seq(Message) /\ Len(CancelledLoads(s)) = Len(s)
           /\ CancelledCalls(s) \in Seq(Message) /\ Len(CancelledCalls(s)) = Len(s)
<1>1. \A m \in Message :
        m.kind \in {"loaded", "rejected", "unsaved"} => [m EXCEPT !.current = FALSE] \in Message
  BY DEF Message
<1>2. \A i \in DOMAIN s : s[i] \in Message
  OBVIOUS
<1>3. DOMAIN s = 1 .. Len(s) /\ Len(s) \in Nat
  OBVIOUS
<1>4. \A i \in DOMAIN s : CancelledLoads(s)[i] \in Message
  BY <1>1, <1>2 DEF CancelledLoads
<1>5. \A i \in DOMAIN s : CancelledCalls(s)[i] \in Message
  BY <1>1, <1>2 DEF CancelledCalls
<1> QED
  BY <1>3, <1>4, <1>5 DEF CancelledLoads, CancelledCalls

LEMMA CancelledSaves ==
    ASSUME saves \in Seq(Save)
    PROVE  Cancelled(saves) \in Seq(Save) /\ Len(Cancelled(saves)) = Len(saves)
<1>1. \A s \in Save : [s EXCEPT !.current = FALSE] \in Save
  BY DEF Save
<1>2. \A i \in DOMAIN saves : Cancelled(saves)[i] \in Save
  BY <1>1 DEF Cancelled
<1>3. DOMAIN saves = 1 .. Len(saves) /\ Len(saves) \in Nat
  OBVIOUS
<1> QED
  BY <1>2, <1>3 DEF Cancelled

\* The load, its timer and the player keep the types.
LEMMA PanelTypes ==
    ASSUME TypeOK, RetryLoad \/ Remount \/ WakeupFires \/ Update \/ RetrySetup
    PROVE  TypeOK'
<1> USE DEF TypeOK
<1>1. CASE RetryLoad
  <2>1. inbox' \in Seq(Message)
    BY <1>1, CancelTypes DEF RetryLoad
  <2>2. asking' \in BOOLEAN /\ loading' \in BOOLEAN /\ wakeup' \in BOOLEAN /\ loadFailed' \in BOOLEAN
    BY <1>1 DEF RetryLoad, Loads
  <2>3. value' = None
    BY <1>1 DEF RetryLoad
  <2> QED
    BY <1>1, <2>1, <2>2, <2>3 DEF RetryLoad
<1>2. CASE Remount
  <2>1. inbox' \in Seq(Message)
    <3>1. CancelledLoads(inbox) \in Seq(Message)
      BY CancelTypes
    <3> QED
      BY <1>2, <3>1, CancelTypes DEF Remount
  <2>2. saves' \in Seq(Save)
    BY <1>2, CancelledSaves DEF Remount, Save
  <2>3. /\ asking' \in BOOLEAN /\ loading' \in BOOLEAN /\ wakeup' \in BOOLEAN
        /\ saveError' \in BOOLEAN /\ loadFailed' \in BOOLEAN /\ reloadPending' \in BOOLEAN
        /\ late' \in BOOLEAN /\ retrying' \in BOOLEAN
    BY <1>2 DEF Remount, Loads
  <2>4. /\ value' = None
        /\ UNCHANGED <<backend, retries, streak, reload, snapshot, lost>>
    BY <1>2 DEF Remount
  <2> QED
    BY <2>1, <2>2, <2>3, <2>4 DEF Save
<1>3. CASE WakeupFires
  <2>1. streak' \in Nat /\ reload' \in {"no", "called", "over"}
    BY <1>3 DEF WakeupFires, ReportTimeout
  <2>2. reloadPending' \in BOOLEAN
    BY <1>3 DEF WakeupFires, ReportTimeout
  <2>3. /\ ~wakeup' /\ wakeup' \in BOOLEAN /\ loadFailed' \in BOOLEAN
        /\ UNCHANGED <<backend, calls, inbox, loading, shown, snapshot, lost>>
    BY <1>3 DEF WakeupFires
  <2> QED
    BY <2>1, <2>2, <2>3
<1>4. CASE Update
  <2>1. PICK v \in Settings :
          value' = v /\ saves' = Append(saves, [value |-> v, current |-> TRUE])
    BY <1>4 DEF Update
  <2>2. [value |-> v, current |-> TRUE] \in [value : Settings, current : BOOLEAN]
    OBVIOUS
  <2>3. saves' \in Seq([value : Settings, current : BOOLEAN])
    BY <2>1, <2>2
  <2>4. /\ saveError' \in BOOLEAN /\ ~wakeup' /\ retrying' \in BOOLEAN
        /\ UNCHANGED <<backend, retries, asking, inbox, load, heal, late, snapshot, lost>>
    BY <1>4 DEF Update
  <2> QED
    BY <2>1, <2>3, <2>4
<1>5. CASE RetrySetup
  BY <1>5 DEF RetrySetup
<1> QED
  BY <1>1, <1>2, <1>3, <1>4, <1>5

\* What the panel makes of a message keeps the types.
LEMMA ReceiveTypes ==
    ASSUME TypeOK, LoadOver, Receive
    PROVE  TypeOK'
<1> USE DEF TypeOK
<1> DEFINE m == Head(inbox)
<1>1. /\ m \in Message /\ Tail(inbox) \in Seq(Message)
  BY DEF Receive
<1>2. /\ UNCHANGED <<stored, up, lock, run, daemon, lastFailure, saves, retries, lost>>
      /\ OnLoaded(m) \/ OnRejected(m) \/ OnImport(m) \/ OnUnsaved(m) \/ OnSetup(m) \/ OnStatus(m)
  BY DEF Receive
<1>11. retrying' \in BOOLEAN
  BY <1>2 DEF OnLoaded, OnRejected, OnImport, OnUnsaved, OnSetup, OnStatus
<1>3. /\ m.kind = "loaded" => m.value \in Settings
      /\ m.kind = "setup" => m.snapshot \in Snapshot
      /\ m.kind = "status" => m.failure \in Steps \cup {None}
  BY <1>1 DEF Message
<1>4. \A f \in Steps : [step |-> "failed", index |-> f] \in Snapshot
  BY SnapshotTypes
<1> HIDE DEF m
<1>5. CASE OnLoaded(m)
  <2>1. CASE m.current
    <3>0. value' \in Settings /\ streak' \in Nat
      BY <1>3, <1>5, <2>1 DEF OnLoaded
    <3>1. wakeup' \in BOOLEAN /\ loadFailed' \in BOOLEAN /\ reloadPending' \in BOOLEAN
      BY <1>5, <2>1, Zenon DEF OnLoaded
    <3>2. late' \in BOOLEAN
      BY <1>5, <2>1 DEF OnLoaded
    <3>4. ~wakeup'
      BY <1>5, <2>1 DEF OnLoaded
    <3>3. UNCHANGED <<loading, reload, saveError, asking, snapshot>> /\ inbox' = Tail(inbox)
      BY <1>5 DEF OnLoaded, Received
    <3> QED
      BY <1>1, <1>2, <1>11, <3>0, <3>1, <3>2, <3>3, <3>4
  <2>2. CASE ~m.current
    BY <1>1, <1>2, <1>11, <1>5, <2>2 DEF OnLoaded, Received
  <2> QED
    BY <2>1, <2>2
<1>6. CASE OnRejected(m)
  <2>1. UNCHANGED <<loading, reloadPending, reload, shown, asking, snapshot>> /\ inbox' = Tail(inbox)
    BY <1>6 DEF OnRejected, Received
  <2>2. CASE m.current
    <3>1. wakeup' \in BOOLEAN /\ loadFailed' \in BOOLEAN
      BY <1>6, <2>2, Zenon DEF OnRejected
    <3>2. ~wakeup' /\ streak' = 0
      BY <1>6, <2>2 DEF OnRejected
    <3> QED
      BY <1>1, <1>2, <1>11, <2>1, <3>1, <3>2
  <2>3. CASE ~m.current
    <3>1. UNCHANGED <<wakeup, loadFailed, streak>>
      BY <1>6, <2>3 DEF OnRejected
    <3> QED
      BY <1>1, <1>2, <1>11, <2>1, <3>1
  <2> QED
    BY <2>2, <2>3
<1>7. CASE OnImport(m)
  <2>1. inbox' \in Seq(Message)
    BY <1>1, <1>7, CancelTypes DEF OnImport, Received, m
  <2>2. /\ wakeup' \in BOOLEAN /\ loadFailed' \in BOOLEAN /\ reloadPending' \in BOOLEAN
        /\ loading' \in BOOLEAN /\ asking' \in BOOLEAN /\ streak' = 0
    BY <1>7 DEF OnImport, Loads
  <2>3. UNCHANGED <<reload, shown, snapshot>> /\ (wakeup' => value' = None)
    BY <1>7 DEF OnImport, LoadOver
  <2> QED
    BY <1>2, <1>11, <2>1, <2>2, <2>3
<1>8. CASE OnUnsaved(m)
  <2>1. saveError' \in BOOLEAN
    BY <1>8 DEF OnUnsaved
  <2> QED
    BY <1>1, <1>2, <1>11, <1>8, <2>1 DEF OnUnsaved, Received, m
<1>9. CASE OnSetup(m)
  BY <1>1, <1>2, <1>11, <1>3, <1>9 DEF OnSetup, Received, m
<1>10. CASE OnStatus(m)
  <2>1. snapshot' \in Snapshot \cup {None}
    BY <1>3, <1>4, <1>10 DEF OnStatus
  <2> QED
    BY <1>1, <1>2, <1>11, <1>10, <2>1 DEF OnStatus, Received, m
<1> QED
  BY <1>2, <1>5, <1>6, <1>7, <1>8, <1>9, <1>10

LEMMA TypeStep ==
    ASSUME TypeOK, LoadOver, SaveHeld, [Next]_vars
    PROVE  TypeOK'
<1>1. CASE UNCHANGED vars
  BY <1>1 DEF TypeOK
<1> QED
  BY <1>1, RunTypes, CallTypes, AnswerTypes, PanelTypes, ReceiveTypes DEF Next, Backend

-----------------------------------------------------------------------------
(* The channel *)

\* A message of one of these kinds is sent, or none.
Adds(kinds) ==
    \/ UNCHANGED inbox
    \/ \E m \in Message : m.kind \in kinds /\ inbox' = Append(inbox, m)

LEMMA AppendIsLast ==
    ASSUME inbox \in Seq(Message), NEW m \in Message, inbox' = Append(inbox, m)
    PROVE  /\ Len(inbox) \in Nat /\ Len(inbox') = Len(inbox) + 1
           /\ \A i \in 1 .. Len(inbox) : inbox'[i] = inbox[i]
           /\ inbox'[Len(inbox) + 1] = m
  OBVIOUS

LEMMA TailIsRest ==
    ASSUME NEW s \in Seq(Message), s # <<>>
    PROVE  /\ Tail(s) \in Seq(Message) /\ Len(s) \in Nat \ {0} /\ Len(Tail(s)) = Len(s) - 1
           /\ Head(s) = s[1]
           /\ \A i \in 1 .. Len(Tail(s)) : Tail(s)[i] = s[i + 1]
  OBVIOUS

\* To cancel changes no kind, no snapshot, and no answer to a save.
LEMMA CancelKeeps ==
    ASSUME NEW s \in Seq(Message), NEW i \in 1 .. Len(s)
    PROVE  /\ CancelledLoads(s)[i].kind = s[i].kind
           /\ s[i].kind \notin {"loaded", "rejected"} => CancelledLoads(s)[i] = s[i]
           /\ CancelledCalls(s)[i].kind = s[i].kind
           /\ s[i].kind # "unsaved" => CancelledCalls(s)[i] = s[i]
           /\ ~IsAnswer(CancelledLoads(s)[i])
<1>1. i \in DOMAIN s /\ s[i] \in Message
  OBVIOUS
<1>2. \A m \in Message :
        /\ [m EXCEPT !.current = FALSE].kind = m.kind
        /\ m.kind \in {"loaded", "rejected"} => ~[m EXCEPT !.current = FALSE].current
  BY DEF Message
<1>3. /\ CancelledLoads(s)[i] = IF s[i].kind \in {"loaded", "rejected"}
                                THEN [s[i] EXCEPT !.current = FALSE] ELSE s[i]
      /\ CancelledCalls(s)[i] = IF s[i].kind = "unsaved"
                                THEN [s[i] EXCEPT !.current = FALSE] ELSE s[i]
  BY <1>1 DEF CancelledLoads, CancelledCalls
<1> QED
  BY <1>1, <1>2, <1>3 DEF IsAnswer

\* What the backend sends.
LEMMA BackendSends ==
    ASSUME TypeOK, SaveHeld, Backend
    PROVE  \/ LoadAnswered
           \/ LoaderReloads /\ Adds({"import"})
           \/ SaveRefused /\ Adds({"unsaved"})
           \/ Release /\ Adds({"unsaved"})
           \/ StatusAnswered /\ Adds({"status"})
           \/ (Start \/ Run \/ DaemonDies \/ SaveApplied \/ RestartBegins) /\ Adds({"setup"})
<1>1. CASE LoaderReloads
  BY <1>1, MessageTypes DEF LoaderReloads, Send, Adds
<1>2. CASE SaveRefused
  <2>1. Head(saves).current \in BOOLEAN
    BY <1>2, HeadOfSaves DEF SaveRefused, TypeOK, Save
  <2> QED
    BY <1>2, <2>1, MessageTypes DEF SaveRefused, Send, Adds
<1>3. CASE Release
  <2>1. CASE lock = "save"
    <3>1. Head(saves).current \in BOOLEAN
      BY <2>1, HeadOfSaves DEF SaveHeld, TypeOK, Save
    <3> QED
      BY <1>3, <3>1, MessageTypes DEF Release, Send, Adds
  <2>2. CASE lock # "save"
    BY <1>3, <2>2 DEF Release, Adds
  <2> QED
    BY <2>1, <2>2
<1>4. CASE StatusAnswered
  <2>1. None \in Steps \cup {None} /\ lastFailure \in Steps \cup {None}
    BY DEF TypeOK
  <2> QED
    BY <1>4, <2>1, MessageTypes DEF StatusAnswered, Send, Adds
<1>5. ASSUME Begins PROVE Adds({"setup"})
  <2>1. 0 \in Steps
    BY DEF Steps
  <2> QED
    BY <1>5, <2>1, SnapshotTypes, MessageTypes DEF Begins, SendSetup, Send, Adds
<1>6. CASE Start \/ SaveApplied \/ RestartBegins
  BY <1>5, <1>6 DEF Start, SaveApplied, RestartBegins, Applies, Adds
<1>7. CASE Run
  <2>1. /\ run \in 0 .. 2 => run + 1 \in Steps
        /\ run \in Steps => run \in 0 .. 3
    BY DEF Steps
  <2>2. 0 \in Steps
    BY DEF Steps
  <2> QED
    BY <1>7, <2>1, <2>2, SnapshotTypes, MessageTypes
       DEF Run, RunSteps, RunReady, RunFails, RunEscapes, SendSetup, Send, Adds
<1>8. CASE DaemonDies
  BY <1>8 DEF DaemonDies, Adds
<1> QED
  BY <1>1, <1>2, <1>3, <1>4, <1>6, <1>7, <1>8 DEF Backend

-----------------------------------------------------------------------------
(* The load of the settings has one answer *)

\* What leaves the load alone, and sends it no answer.
LEMMA LoadAside ==
    ASSUME TypeOK, LoadInvariant,
           Adds({"setup", "status", "unsaved", "import"}),
           loading' => loading, UNCHANGED <<wakeup, loadFailed>>,
           value' # None => value # None
    PROVE  LoadInvariant'
<1> USE DEF LoadInvariant, AnswerOnce, LoadOver
<1>1. CASE UNCHANGED inbox
  BY <1>1 DEF IsAnswer
<1>2. ASSUME NEW m \in Message, m.kind \in {"setup", "status", "unsaved", "import"},
             inbox' = Append(inbox, m)
      PROVE  LoadInvariant'
  <2>1. /\ Len(inbox) \in Nat /\ Len(inbox') = Len(inbox) + 1
        /\ \A i \in 1 .. Len(inbox) : inbox'[i] = inbox[i]
        /\ inbox'[Len(inbox) + 1] = m
    BY <1>2, AppendIsLast DEF TypeOK
  <2>2. ~IsAnswer(m)
    BY <1>2 DEF IsAnswer
  <2>3. \A i \in 1 .. Len(inbox') :
          IsAnswer(inbox'[i]) => i \in 1 .. Len(inbox) /\ IsAnswer(inbox[i])
    BY <2>1, <2>2
  <2> HIDE DEF LoadInvariant, AnswerOnce, LoadOver
  <2>4. AnswerOnce'
    BY <2>3 DEF LoadInvariant, AnswerOnce, IsAnswer
  <2>5. LoadOver'
    BY <2>3 DEF LoadInvariant, LoadOver, IsAnswer
  <2> QED
    BY <2>4, <2>5 DEF LoadInvariant
<1> QED
  BY <1>1, <1>2 DEF Adds

LEMMA LoadReceived ==
    ASSUME TypeOK, LoadInvariant, Receive
    PROVE  LoadInvariant'
<1> DEFINE m == Head(inbox)
<1>1. /\ Tail(inbox) \in Seq(Message) /\ Len(Tail(inbox)) = Len(inbox) - 1 /\ Len(inbox) \in Nat \ {0}
      /\ m = inbox[1]
      /\ \A i \in 1 .. Len(Tail(inbox)) : Tail(inbox)[i] = inbox[i + 1]
  BY TailIsRest DEF TypeOK, Receive
<1>2. OnLoaded(m) \/ OnRejected(m) \/ OnImport(m) \/ OnUnsaved(m) \/ OnSetup(m) \/ OnStatus(m)
  BY DEF Receive
<1>3. \A i \in 1 .. Len(Tail(inbox)) : i + 1 \in 1 .. Len(inbox)
  BY <1>1
<1> HIDE DEF m
<1>4. CASE inbox' = Tail(inbox) /\ UNCHANGED <<loading, wakeup, loadFailed, value>>
  <2>1. \A i \in 1 .. Len(inbox') : IsAnswer(inbox'[i]) => IsAnswer(inbox[i + 1])
    BY <1>1, <1>4
  <2>2. AnswerOnce'
    BY <1>3, <1>4, <2>1 DEF LoadInvariant, AnswerOnce, IsAnswer
  <2>3. LoadOver'
    BY <1>3, <1>4, <2>1 DEF LoadInvariant, LoadOver, IsAnswer
  <2> QED
    BY <2>2, <2>3 DEF LoadInvariant
<1>5. ASSUME inbox' = Tail(inbox), UNCHANGED loading, IsAnswer(m), ~wakeup'
      PROVE  /\ AnswerOnce' /\ ~loading'
             /\ \A i \in 1 .. Len(inbox') : ~IsAnswer(inbox'[i])
  <2>1. 1 \in 1 .. Len(inbox)
    BY <1>1
  <2>2. ~loading /\ \A j \in 1 .. Len(inbox) : IsAnswer(inbox[j]) => j = 1
    BY <1>1, <1>5, <2>1 DEF LoadInvariant, AnswerOnce
  <2>3. \A i \in 1 .. Len(inbox') : ~IsAnswer(inbox'[i])
    BY <1>1, <1>3, <1>5, <2>2
  <2> QED
    BY <1>5, <2>2, <2>3 DEF AnswerOnce, IsAnswer
<1>6. CASE OnLoaded(m)
  <2>1. CASE m.current
    <3>1. inbox' = Tail(inbox) /\ UNCHANGED loading /\ ~wakeup' /\ ~loadFailed'
      BY <1>6, <2>1 DEF OnLoaded, Received, m
    <3>2. IsAnswer(m)
      BY <1>6, <2>1 DEF OnLoaded, IsAnswer
    <3> QED
      BY <1>5, <3>1, <3>2 DEF LoadInvariant, LoadOver, IsAnswer
  <2>2. CASE ~m.current
    BY <1>4, <1>6, <2>2 DEF OnLoaded, Received
  <2> QED
    BY <2>1, <2>2
<1>7. CASE OnRejected(m)
  <2>1. CASE m.current
    <3>1. inbox' = Tail(inbox) /\ UNCHANGED <<loading, value>> /\ ~wakeup'
      BY <1>7, <2>1 DEF OnRejected, Received, m
    <3>2. IsAnswer(m)
      BY <1>7, <2>1 DEF OnRejected, IsAnswer
    <3>3. value = None
      BY <1>1, <3>2 DEF LoadInvariant, LoadOver
    <3> QED
      BY <1>5, <3>1, <3>2, <3>3 DEF LoadInvariant, LoadOver
  <2>2. CASE ~m.current
    BY <1>4, <1>7, <2>2 DEF OnRejected, Received
  <2> QED
    BY <2>1, <2>2
<1>8. CASE OnImport(m)
  <2>1. CASE loadFailed
    <3>1. inbox' = CancelledLoads(Tail(inbox)) /\ UNCHANGED value
      BY <1>8, <2>1 DEF OnImport, m
    <3>2. value = None
      BY <2>1 DEF LoadInvariant, LoadOver
    <3>3. \A i \in 1 .. Len(inbox') : ~IsAnswer(inbox'[i])
      BY <1>1, <3>1, CancelKeeps, CancelTypes
    <3> QED
      BY <3>1, <3>2, <3>3 DEF LoadInvariant, AnswerOnce, LoadOver, IsAnswer
  <2>2. CASE ~loadFailed
    BY <1>4, <1>8, <2>2 DEF OnImport, Received
  <2> QED
    BY <2>1, <2>2
<1>9. CASE OnUnsaved(m) \/ OnSetup(m) \/ OnStatus(m)
  BY <1>4, <1>9 DEF OnUnsaved, OnSetup, OnStatus, Received
<1> QED
  BY <1>2, <1>6, <1>7, <1>8, <1>9

LEMMA LoadStep ==
    ASSUME TypeOK, SaveHeld, LoadInvariant, [Next]_vars
    PROVE  LoadInvariant'
<1>1. CASE LoadAnswered
  <2>1. PICK m \in Message : inbox' = Append(inbox, m)
    BY <1>1, MessageTypes DEF LoadAnswered, Send, TypeOK
  <2>2. /\ Len(inbox) \in Nat /\ Len(inbox') = Len(inbox) + 1
        /\ \A i \in 1 .. Len(inbox) : inbox'[i] = inbox[i]
    BY <2>1, AppendIsLast DEF TypeOK
  <2>3. loading /\ ~loading' /\ UNCHANGED value
    BY <1>1 DEF LoadAnswered
  <2>4. value = None
    BY <2>3 DEF LoadInvariant, LoadOver
  <2>5. \A i \in 1 .. Len(inbox) : ~IsAnswer(inbox[i])
    BY <2>3 DEF LoadInvariant, AnswerOnce
  <2>6. \A i \in 1 .. Len(inbox') : IsAnswer(inbox'[i]) => i = Len(inbox')
    BY <2>2, <2>5
  <2> QED
    BY <2>3, <2>4, <2>6 DEF LoadInvariant, AnswerOnce, LoadOver, IsAnswer
<1>2. CASE Backend /\ ~LoadAnswered
  <2>1. Adds({"setup", "status", "unsaved", "import"})
    BY <1>2, BackendSends DEF LoadInvariant, Adds
  <2>2. /\ loading' => loading
        /\ UNCHANGED <<wakeup, loadFailed, value>>
    BY <1>2 DEF Backend, Start, Run, RunSteps, RunReady, RunFails, RunEscapes, DaemonDies,
                SaveRefused, SaveApplied, RestartBegins, Release, StatusAnswered, LoaderReloads
  <2> QED
    BY <2>1, <2>2, LoadAside
<1>3. CASE RetryLoad
  <2>1. /\ inbox' = CancelledLoads(inbox) /\ value = None /\ UNCHANGED value
    BY <1>3 DEF RetryLoad
  <2>2. \A i \in 1 .. Len(inbox') : ~IsAnswer(inbox'[i])
    BY <2>1, CancelKeeps, CancelTypes DEF TypeOK
  <2> QED
    BY <2>1, <2>2 DEF LoadInvariant, AnswerOnce, LoadOver, IsAnswer
<1>4. CASE Remount
  <2>1. inbox' = CancelledCalls(CancelledLoads(inbox)) /\ value' = None
    BY <1>4 DEF Remount
  <2>2. /\ CancelledLoads(inbox) \in Seq(Message)
        /\ \A i \in 1 .. Len(CancelledLoads(inbox)) : ~IsAnswer(CancelledLoads(inbox)[i])
    BY CancelKeeps, CancelTypes DEF TypeOK
  <2>3. \A i \in 1 .. Len(inbox') : ~IsAnswer(inbox'[i])
    BY <2>1, <2>2, CancelKeeps, CancelTypes DEF IsAnswer
  <2> QED
    BY <2>1, <2>3 DEF LoadInvariant, AnswerOnce, LoadOver, IsAnswer
<1>5. CASE WakeupFires
  <2>1. value = None /\ UNCHANGED <<inbox, loading, value>>
    BY <1>5 DEF WakeupFires, LoadInvariant, LoadOver
  <2> QED
    BY <2>1 DEF LoadInvariant, AnswerOnce, LoadOver, IsAnswer
<1>6. CASE Update \/ RetrySetup \/ UNCHANGED vars
  <2>1. /\ UNCHANGED <<inbox, loading, wakeup, loadFailed>>
        /\ value' # None => value # None
    BY <1>6 DEF Update, RetrySetup
  <2> QED
    BY <2>1, LoadAside DEF Adds
<1>7. CASE Receive
  BY <1>7, LoadReceived
<1> QED
  BY <1>1, <1>2, <1>3, <1>4, <1>5, <1>6, <1>7 DEF Next

-----------------------------------------------------------------------------
(* The settings shown are stored, or a failure is told *)

\* A failure on its way stays so when another message is sent.
LEMMA NewsStays ==
    ASSUME inbox \in Seq(Message), NEW K, Adds(K), NoNews'
    PROVE  NoNews
<1>1. ASSUME NEW m \in Message, inbox' = Append(inbox, m)
      PROVE  NoNews
  BY <1>1, AppendIsLast DEF NoNews
<1> QED
  BY <1>1 DEF Adds, NoNews

\* What leaves the settings, their saves and the failures on their way alone.
LEMMA SaveAside ==
    ASSUME SaveInvariant, UNCHANGED <<stored, saves, value, saveError, late>>,
           lock' = "save" => lock = "save", NoNews' => NoNews
    PROVE  SaveInvariant'
<1>1. SaveHeld' /\ SavesCurrent'
  BY DEF SaveInvariant, SaveHeld, SavesCurrent
<1>2. LastSaveShown'
  BY DEF SaveInvariant, LastSaveShown
<1> QED
  BY <1>1, <1>2 DEF SaveInvariant

\* A save that leaves the queue.
LEMMA SaveLeaves ==
    ASSUME NEW s \in Seq(Save), s # <<>>
    PROVE  /\ Len(s) \in Nat \ {0} /\ Tail(s) \in Seq(Save) /\ Len(Tail(s)) = Len(s) - 1
           /\ Head(s) = s[1]
           /\ \A i \in 1 .. Len(Tail(s)) : Tail(s)[i] = s[i + 1] /\ i + 1 \in 1 .. Len(s)
           /\ Tail(s) # <<>> => Tail(s)[Len(Tail(s))] = s[Len(s)] /\ Len(s) # 1
           /\ Tail(s) = <<>> => Len(s) = 1
<1>1. /\ Len(s) \in Nat \ {0} /\ Tail(s) \in Seq(Save) /\ Len(Tail(s)) = Len(s) - 1
      /\ Head(s) = s[1]
      /\ \A i \in 1 .. Len(Tail(s)) : Tail(s)[i] = s[i + 1]
  OBVIOUS
<1>2. Tail(s) = <<>> <=> Len(Tail(s)) = 0
  BY <1>1
<1> QED
  BY <1>1, <1>2

\* The answer that tells of a failure is news, unless its panel is gone.
LEMMA RefusalIsNews ==
    ASSUME TypeOK, SavesCurrent, saves # <<>>, value # None, ~late,
           Send([kind |-> "unsaved", current |-> Head(saves).current])
    PROVE  ~NoNews'
<1> DEFINE m == [kind |-> "unsaved", current |-> Head(saves).current]
<1>0. saves \in Seq(Save)
  BY DEF TypeOK, Save
<1>1. Head(saves).current
  BY <1>0, SaveLeaves DEF SavesCurrent
<1>2. m \in Message
  BY <1>0, HeadOfSaves, MessageTypes
<1>3. inbox' = Append(inbox, m) /\ m.kind = "unsaved" /\ m.current
  BY <1>1 DEF Send
<1> HIDE DEF m
<1>4. /\ Len(inbox') = Len(inbox) + 1 /\ Len(inbox) \in Nat
      /\ inbox'[Len(inbox) + 1] = m
  BY <1>2, <1>3, AppendIsLast DEF TypeOK
<1> QED
  BY <1>3, <1>4 DEF NoNews

LEMMA SaveEnds ==
    ASSUME TypeOK, SaveInvariant, SaveRefused \/ (Release /\ lock = "save")
    PROVE  SaveInvariant'
<1>0. saves \in Seq(Save) /\ saves # <<>> /\ saves' = Tail(saves) /\ lock' # "save"
      /\ UNCHANGED <<stored, value, saveError, late>>
  BY DEF TypeOK, Save, SaveInvariant, SaveHeld, SaveRefused, Release
<1>1. SaveHeld'
  BY <1>0 DEF SaveHeld
<1>2. SavesCurrent'
  BY <1>0, SaveLeaves DEF SaveInvariant, SavesCurrent
<1>3. ASSUME value # None, ~late, ~saveError, NoNews'
      PROVE  IF saves' = <<>> THEN value' = stored' ELSE saves'[Len(saves')].value = value'
  <2>1. ~Send([kind |-> "unsaved", current |-> Head(saves).current])
    BY <1>0, <1>3, RefusalIsNews DEF SaveInvariant
  <2>2. lock = "save" /\ UNCHANGED inbox
    BY <2>1 DEF SaveRefused, Release
  <2>3. NoNews
    BY <1>3, <2>2 DEF NoNews
  <2>4. /\ saves[Len(saves)].value = value
        /\ Len(saves) = 1 => stored = value
    BY <1>0, <1>3, <2>2, <2>3 DEF SaveInvariant, LastSaveShown
  <2> QED
    BY <1>0, <2>4, SaveLeaves
<1>4. LastSaveShown'
  BY <1>0, <1>3 DEF LastSaveShown
<1> QED
  BY <1>1, <1>2, <1>4 DEF SaveInvariant

LEMMA SaveStarts ==
    ASSUME TypeOK, SaveInvariant, SaveApplied
    PROVE  SaveInvariant'
<1>0. saves \in Seq(Save) /\ saves # <<>> /\ stored' = Head(saves).value
      /\ UNCHANGED <<saves, value, saveError, late>>
  BY DEF TypeOK, Save, SaveApplied
<1>1. NoNews' => NoNews
  <2>1. 0 \in Steps
    BY DEF Steps
  <2>2. Adds({"setup"})
    BY <2>1, SnapshotTypes, MessageTypes DEF SaveApplied, Applies, Begins, SendSetup, Send, Adds
  <2> QED
    BY <2>2, NewsStays DEF TypeOK
<1>2. SaveHeld' /\ SavesCurrent'
  BY <1>0 DEF SaveHeld, SaveInvariant, SavesCurrent
<1>3. Len(saves) = 1 => stored' = saves[Len(saves)].value
  BY <1>0
<1>4. LastSaveShown'
  BY <1>0, <1>1, <1>3 DEF SaveInvariant, LastSaveShown
<1> QED
  BY <1>2, <1>4 DEF SaveInvariant

LEMMA SaveAdded ==
    ASSUME TypeOK, SaveInvariant, Update
    PROVE  SaveInvariant'
<1>1. PICK v \in Settings :
        value' = v /\ saves' = Append(saves, [value |-> v, current |-> TRUE])
  BY DEF Update
<1>2. saves \in Seq(Save) /\ [value |-> v, current |-> TRUE] \in Save
  BY DEF TypeOK, Save
<1>3. /\ Len(saves) \in Nat /\ Len(saves') = Len(saves) + 1 /\ saves' # <<>>
      /\ \A i \in 1 .. Len(saves) : saves'[i] = saves[i]
      /\ saves'[Len(saves) + 1].value = v /\ saves'[Len(saves) + 1].current
  BY <1>1, <1>2
<1>4. UNCHANGED <<late, lock>> /\ value # None
  BY DEF Update
<1>5. SaveHeld'
  BY <1>3 DEF SaveHeld
<1>6. SavesCurrent'
  BY <1>3, <1>4 DEF SaveInvariant, SavesCurrent
<1>7. lock = "save" => Len(saves') # 1
  BY <1>2, <1>3 DEF SaveInvariant, SaveHeld
<1>8. LastSaveShown'
  BY <1>1, <1>3, <1>4, <1>7 DEF LastSaveShown
<1> QED
  BY <1>5, <1>6, <1>8 DEF SaveInvariant

LEMMA SaveReceived ==
    ASSUME TypeOK, SaveInvariant, Receive
    PROVE  SaveInvariant'
<1> DEFINE m == Head(inbox)
<1>1. /\ inbox # <<>> /\ Tail(inbox) \in Seq(Message) /\ Len(Tail(inbox)) = Len(inbox) - 1
      /\ Len(inbox) \in Nat \ {0} /\ m = inbox[1] /\ m \in Message
      /\ \A i \in 1 .. Len(Tail(inbox)) : Tail(inbox)[i] = inbox[i + 1]
  BY TailIsRest DEF TypeOK, Receive
<1>2. /\ OnLoaded(m) \/ OnRejected(m) \/ OnImport(m) \/ OnUnsaved(m) \/ OnSetup(m) \/ OnStatus(m)
      /\ UNCHANGED <<stored, lock, saves>>
  BY DEF Receive
<1> HIDE DEF m
<1>3. ASSUME inbox' = Tail(inbox), m.kind # "unsaved" \/ ~m.current, NoNews'
      PROVE  NoNews
  <2>1. ASSUME NEW i \in 1 .. Len(inbox), inbox[i].kind = "unsaved"
        PROVE  ~inbox[i].current
    <3>1. CASE i = 1
      BY <1>1, <1>3, <2>1, <3>1
    <3>2. CASE i # 1
      <4>1. i - 1 \in 1 .. Len(inbox') /\ inbox'[i - 1] = inbox[i]
        BY <1>1, <1>3, <3>2
      <4> QED
        BY <1>3, <2>1, <4>1 DEF NoNews
    <3> QED
      BY <3>1, <3>2
  <2> QED
    BY <2>1 DEF NoNews
<1>4. CASE OnLoaded(m)
  <2>1. CASE m.current
    <3>1. /\ value' = m.value /\ UNCHANGED saveError
          /\ late' = (saves # <<>> \/ m.value # stored)
      BY <1>4, <2>1 DEF OnLoaded
    <3>2. ~late' => saves = <<>> /\ value' = stored
      BY <3>1
    <3> QED
      BY <1>2, <3>2 DEF SaveInvariant, SaveHeld, SavesCurrent, LastSaveShown
  <2>2. CASE ~m.current
    <3>1. UNCHANGED <<value, late, saveError>> /\ inbox' = Tail(inbox) /\ m.kind = "loaded"
      BY <1>4, <2>2 DEF OnLoaded, Received
    <3> QED
      BY <1>2, <1>3, <3>1, SaveAside
  <2> QED
    BY <2>1, <2>2
<1>5. CASE OnImport(m)
  <2>1. UNCHANGED shown /\ m.kind = "import"
        /\ (inbox' = Tail(inbox) \/ inbox' = CancelledLoads(Tail(inbox)))
    BY <1>5 DEF OnImport, Received, m
  <2>2. CASE inbox' = Tail(inbox)
    BY <1>2, <1>3, <2>1, <2>2, SaveAside
  <2>3. CASE inbox' = CancelledLoads(Tail(inbox))
    <3>1. ASSUME NoNews' PROVE NoNews
      <4>1. ASSUME NEW i \in 1 .. Len(inbox), inbox[i].kind = "unsaved"
            PROVE  ~inbox[i].current
        <5>1. i # 1
          BY <1>1, <2>1, <4>1
        <5>2. i - 1 \in 1 .. Len(Tail(inbox)) /\ Tail(inbox)[i - 1] = inbox[i]
          BY <1>1, <5>1
        <5>3. inbox'[i - 1] = inbox[i] /\ Len(inbox') = Len(Tail(inbox))
          BY <1>1, <2>3, <4>1, <5>2, CancelKeeps, CancelTypes
        <5> QED
          BY <3>1, <4>1, <5>2, <5>3 DEF NoNews
      <4> QED
        BY <4>1 DEF NoNews
    <3> QED
      BY <1>2, <2>1, <3>1, SaveAside
  <2> QED
    BY <2>1, <2>2, <2>3
<1>6. CASE OnUnsaved(m)
  <2>1. UNCHANGED <<value, late>> /\ inbox' = Tail(inbox) /\ saveError' = (saveError \/ m.current)
    BY <1>6 DEF OnUnsaved, Received
  <2>2. SaveHeld' /\ SavesCurrent'
    BY <1>2, <2>1 DEF SaveInvariant, SaveHeld, SavesCurrent
  <2>3. ASSUME ~saveError', NoNews' PROVE ~saveError /\ NoNews
    BY <1>3, <2>1, <2>3
  <2>4. LastSaveShown'
    BY <1>2, <2>1, <2>3 DEF SaveInvariant, LastSaveShown
  <2> QED
    BY <2>2, <2>4 DEF SaveInvariant
<1>7. CASE OnRejected(m) \/ OnSetup(m) \/ OnStatus(m)
  <2>1. UNCHANGED shown /\ m.kind # "unsaved" /\ inbox' = Tail(inbox)
    BY <1>7 DEF OnRejected, OnSetup, OnStatus, Received
  <2> QED
    BY <1>2, <1>3, <2>1, SaveAside
<1> QED
  BY <1>2, <1>4, <1>5, <1>6, <1>7

LEMMA SaveStep ==
    ASSUME TypeOK, SaveInvariant, [Next]_vars
    PROVE  SaveInvariant'
<1> DEFINE reloaded == LoaderReloads /\ lock' = "free" /\ saves' = <<>>
           saved == SaveApplied \/ SaveRefused \/ (Release /\ lock = "save")
<1>1. CASE Backend /\ ~saved /\ ~reloaded
  <2>1. \E K : Adds(K)
    <3>1. ASSUME LoadAnswered PROVE Adds({"loaded", "rejected"})
      BY <3>1, MessageTypes DEF LoadAnswered, Send, Adds, TypeOK
    <3> QED
      BY <1>1, <3>1, BackendSends DEF SaveInvariant
  <2>2. NoNews' => NoNews
    BY <2>1, NewsStays DEF TypeOK
  <2>3. CASE LoaderReloads
    <3>1. /\ UNCHANGED <<stored, value, saveError>>
          /\ (lock' = "free" /\ saves' = <<>>) \/ UNCHANGED <<saves, lock, late>>
      BY <2>3 DEF LoaderReloads
    <3>2. UNCHANGED <<saves, lock, late>>
      BY <1>1, <2>3, <3>1
    <3> QED
      BY <2>2, <3>1, <3>2, SaveAside
  <2>4. CASE Start \/ Run \/ DaemonDies \/ RestartBegins \/ LoadAnswered \/ StatusAnswered
    <3>1. UNCHANGED <<stored, saves, value, saveError, late>> /\ (lock' = "save" => lock = "save")
      BY <2>4 DEF Start, Run, RunSteps, RunReady, RunFails, RunEscapes, DaemonDies,
                  RestartBegins, LoadAnswered, StatusAnswered
    <3> QED
      BY <2>2, <3>1, SaveAside
  <2>5. CASE Release /\ lock # "save"
    <3>1. UNCHANGED <<stored, saves, value, saveError, late>> /\ lock' # "save"
      BY <2>5 DEF Release
    <3> QED
      BY <2>2, <3>1, SaveAside
  <2> HIDE DEF reloaded
  <2> QED
    BY <1>1, <2>3, <2>4, <2>5 DEF Backend
<1>2. CASE reloaded
  <2>1. late' = (late \/ saves # <<>>) \/ UNCHANGED <<late, saves, lock, inbox>>
    BY <1>2 DEF LoaderReloads
  <2>2. UNCHANGED <<stored, value, saveError>>
    BY <1>2 DEF LoaderReloads
  <2>3. ~late' => saves = <<>> /\ ~late
    BY <1>2, <2>1
  <2>4. NoNews' => NoNews
    <3>1. Adds({"import"})
      BY <1>2, MessageTypes DEF LoaderReloads, Send, Adds
    <3> QED
      BY <3>1, NewsStays DEF TypeOK
  <2>5. LastSaveShown'
    BY <1>2, <2>2, <2>3, <2>4 DEF SaveInvariant, LastSaveShown
  <2> QED
    BY <1>2, <2>5 DEF SaveInvariant, SaveHeld, SavesCurrent
<1>3. CASE RetryLoad
  <2>1. /\ inbox' = CancelledLoads(inbox)
        /\ UNCHANGED <<stored, saves, value, saveError, late, lock>>
    BY <1>3 DEF RetryLoad
  <2>2. ASSUME NoNews' PROVE NoNews
    BY <2>1, <2>2, CancelKeeps, CancelTypes DEF NoNews, TypeOK
  <2> QED
    BY <2>1, <2>2, SaveAside
<1>4. CASE Remount
  <2>1. value' = None /\ saves' = Cancelled(saves) /\ UNCHANGED lock
    BY <1>4 DEF Remount
  <2>2. SaveHeld'
    BY <2>1, CancelledSaves DEF SaveInvariant, SaveHeld, TypeOK, Save
  <2> QED
    BY <2>1, <2>2 DEF SaveInvariant, SavesCurrent, LastSaveShown
<1>5. CASE WakeupFires \/ RetrySetup \/ UNCHANGED vars
  <2>1. UNCHANGED <<stored, saves, value, saveError, late, lock, inbox>>
    BY <1>5 DEF WakeupFires, RetrySetup
  <2>2. NoNews' => NoNews
    BY <2>1 DEF NoNews
  <2> QED
    BY <2>1, <2>2, SaveAside
<1>6. CASE Backend
  <2>1. CASE saved
    BY <2>1, SaveEnds, SaveStarts
  <2> HIDE DEF saved, reloaded
  <2> QED
    BY <1>1, <1>2, <1>6, <2>1
<1>7. CASE Update
  BY <1>7, SaveAdded
<1>8. CASE Receive
  BY <1>8, SaveReceived
<1> QED
  BY <1>3, <1>4, <1>5, <1>6, <1>7, <1>8 DEF Next

-----------------------------------------------------------------------------
(* The end of a setup run is told *)

\* What a further message does to the order of the setup events.
LEMMA AppendFollowed ==
    ASSUME NEW s \in Seq(Message), NEW m \in Message
    PROVE  /\ Ended(s) => Ended(Append(s, m))
           /\ Followed(s) /\ ~GoesOn(m) => Followed(Append(s, m))
           /\ Concludes(m) => Followed(Append(s, m)) /\ Ended(Append(s, m))
<1> DEFINE t == Append(s, m)
<1>1. /\ Len(s) \in Nat /\ Len(t) = Len(s) + 1 /\ t[Len(s) + 1] = m
      /\ \A i \in 1 .. Len(s) : t[i] = s[i]
  OBVIOUS
<1> HIDE DEF t
<1>2. Ended(s) => Ended(t)
  BY <1>1 DEF Ended
<1>3. ASSUME Followed(s), ~GoesOn(m) PROVE Followed(t)
  <2>1. ASSUME NEW i \in 1 .. Len(t), GoesOn(t[i])
        PROVE  \E j \in i + 1 .. Len(t) : Concludes(t[j])
    <3>1. i \in 1 .. Len(s) /\ GoesOn(s[i])
      BY <1>1, <1>3, <2>1
    <3>2. PICK j \in i + 1 .. Len(s) : Concludes(s[j])
      BY <1>3, <3>1 DEF Followed
    <3>3. j \in i + 1 .. Len(t) /\ t[j] = s[j]
      BY <1>1, <3>1
    <3> QED
      BY <3>2, <3>3
  <2> QED
    BY <2>1 DEF Followed
<1>4. ASSUME Concludes(m) PROVE Followed(t) /\ Ended(t)
  <2>1. ASSUME NEW i \in 1 .. Len(t), GoesOn(t[i])
        PROVE  Len(t) \in i + 1 .. Len(t)
    <3>1. ~GoesOn(m)
      BY <1>4 DEF GoesOn, Concludes
    <3> QED
      BY <1>1, <2>1, <3>1
  <2>2. Len(t) \in 1 .. Len(t) /\ Concludes(t[Len(t)])
    BY <1>1, <1>4
  <2> QED
    BY <2>1, <2>2 DEF Followed, Ended
<1> QED
  BY <1>2, <1>3, <1>4 DEF t

\* What receiving a message does to it.
LEMMA TailFollowed ==
    ASSUME NEW s \in Seq(Message), s # <<>>
    PROVE  /\ Followed(s) => Followed(Tail(s))
           /\ Followed(s) /\ GoesOn(Head(s)) => Ended(Tail(s))
           /\ Ended(s) /\ ~Concludes(Head(s)) => Ended(Tail(s))
<1>1. /\ Len(s) \in Nat \ {0} /\ Len(Tail(s)) = Len(s) - 1 /\ Head(s) = s[1]
      /\ \A i \in 1 .. Len(Tail(s)) : Tail(s)[i] = s[i + 1]
  BY TailIsRest
<1>2. \A j \in 2 .. Len(s) : j - 1 \in 1 .. Len(Tail(s)) /\ Tail(s)[j - 1] = s[j]
  BY <1>1
<1>3. ASSUME Followed(s) PROVE Followed(Tail(s))
  <2>1. ASSUME NEW i \in 1 .. Len(Tail(s)), GoesOn(Tail(s)[i])
        PROVE  \E j \in i + 1 .. Len(Tail(s)) : Concludes(Tail(s)[j])
    <3>1. i + 1 \in 1 .. Len(s) /\ GoesOn(s[i + 1])
      BY <1>1, <2>1
    <3>2. PICK j \in i + 2 .. Len(s) : Concludes(s[j])
      BY <1>3, <3>1 DEF Followed
    <3>3. j - 1 \in i + 1 .. Len(Tail(s)) /\ Concludes(Tail(s)[j - 1])
      BY <1>1, <1>2, <3>1, <3>2
    <3> QED
      BY <3>3
  <2> QED
    BY <2>1 DEF Followed
<1>4. ASSUME NEW j \in 2 .. Len(s), Concludes(s[j]) PROVE Ended(Tail(s))
  BY <1>2, <1>4 DEF Ended
<1>5. ASSUME Followed(s), GoesOn(Head(s)) PROVE Ended(Tail(s))
  <2>1. 1 \in 1 .. Len(s) /\ GoesOn(s[1])
    BY <1>1, <1>5
  <2> QED
    BY <1>4, <1>5, <2>1 DEF Followed
<1>6. ASSUME Ended(s), ~Concludes(Head(s)) PROVE Ended(Tail(s))
  <2>1. PICK j \in 1 .. Len(s) : Concludes(s[j])
    BY <1>6 DEF Ended
  <2>2. j # 1
    BY <1>1, <1>6, <2>1
  <2> QED
    BY <1>1, <1>4, <2>1, <2>2
<1> QED
  BY <1>3, <1>5, <1>6

\* To cancel a load or a save changes nothing of it.
LEMMA CancelFollowed ==
    ASSUME NEW s \in Seq(Message)
    PROVE  /\ Followed(s) => Followed(CancelledLoads(s))
           /\ Ended(s) => Ended(CancelledLoads(s))
           /\ Followed(s) => Followed(CancelledCalls(s))
           /\ Ended(s) => Ended(CancelledCalls(s))
<1>1. ASSUME NEW t, Len(t) = Len(s),
             \A i \in 1 .. Len(s) : t[i].kind = s[i].kind /\ (s[i].kind = "setup" => t[i] = s[i])
      PROVE  /\ Followed(s) => Followed(t)
             /\ Ended(s) => Ended(t)
  <2>1. Len(s) \in Nat
    OBVIOUS
  <2>2. \A i \in 1 .. Len(s) :
          (GoesOn(t[i]) <=> GoesOn(s[i])) /\ (Concludes(t[i]) <=> Concludes(s[i]))
    BY <1>1 DEF GoesOn, Concludes
  <2>3. \A i \in 1 .. Len(s) : i + 1 .. Len(s) \subseteq 1 .. Len(s)
    BY <2>1
  <2> QED
    BY <1>1, <2>2, <2>3 DEF Followed, Ended
<1>2. /\ Len(CancelledLoads(s)) = Len(s)
      /\ \A i \in 1 .. Len(s) :
          /\ CancelledLoads(s)[i].kind = s[i].kind
          /\ s[i].kind = "setup" => CancelledLoads(s)[i] = s[i]
  BY CancelTypes, CancelKeeps
<1>3. /\ Len(CancelledCalls(s)) = Len(s)
      /\ \A i \in 1 .. Len(s) :
          /\ CancelledCalls(s)[i].kind = s[i].kind
          /\ s[i].kind = "setup" => CancelledCalls(s)[i] = s[i]
  BY CancelTypes, CancelKeeps
<1> QED
  BY <1>1, <1>2, <1>3

\* What leaves the setup run and its events alone.
LEMMA SetupAside ==
    ASSUME TypeOK, SetupInvariant, UNCHANGED snapshot,
           \/ UNCHANGED <<run, lost>>
           \/ run' # Escaped /\ (run' = Idle => lost')
           \/ UNCHANGED run /\ lost'
           \/ run' = Idle /\ UNCHANGED lost /\ run \in {Idle, Escaped},
           Followed(inbox) => Followed(inbox'),
           Ended(inbox) => Ended(inbox')
    PROVE  SetupInvariant'
<1>1. EscapeIsLost'
  BY DEF SetupInvariant, EscapeIsLost, Idle, Escaped
<1>2. run' = Idle /\ ~lost' => run = Idle /\ ~lost
  BY DEF SetupInvariant, EscapeIsLost
<1>3. EndFollows'
  BY <1>2 DEF SetupInvariant, EndFollows, Followed, Ended
<1> QED
  BY <1>1, <1>3 DEF SetupInvariant

\* A message that is no setup event.
LEMMA AsideSent ==
    ASSUME TypeOK, NEW K, "setup" \notin K, Adds(K)
    PROVE  /\ Followed(inbox) => Followed(inbox')
           /\ Ended(inbox) => Ended(inbox')
<1>1. ASSUME NEW m \in Message, m.kind \in K, inbox' = Append(inbox, m)
      PROVE  /\ Followed(inbox) => Followed(inbox')
             /\ Ended(inbox) => Ended(inbox')
  <2>1. ~GoesOn(m)
    BY <1>1 DEF GoesOn
  <2> QED
    BY <1>1, <2>1, AppendFollowed DEF TypeOK
<1> QED
  BY <1>1 DEF Adds

\* A run that begins, or does not.
LEMMA SetupBegins ==
    ASSUME TypeOK, SetupInvariant, Begins, UNCHANGED snapshot
    PROVE  SetupInvariant'
<1>1. run' # Escaped /\ (run' = Idle => lost')
  BY DEF Begins, Idle, Escaped
<1> QED
  BY <1>1 DEF SetupInvariant, EscapeIsLost, EndFollows

\* A run that ends.
LEMMA SetupEnds ==
    ASSUME TypeOK, SetupInvariant, RunReady \/ RunFails
    PROVE  SetupInvariant'
<1>1. PICK m \in Message : inbox' = Append(inbox, m) /\ Concludes(m)
  <2>1. CASE RunReady
    <3> DEFINE m == [kind |-> "setup", snapshot |-> [step |-> "ready", index |-> 4]]
    <3>1. m \in Message
      BY SnapshotTypes, MessageTypes DEF Steps
    <3>2. inbox' = Append(inbox, m)
      BY <2>1 DEF RunReady, SendSetup, Send
    <3> QED
      BY <3>1, <3>2 DEF Concludes
  <2>2. CASE RunFails
    <3> DEFINE m == [kind |-> "setup", snapshot |-> [step |-> "failed", index |-> run]]
    <3>1. m \in Message
      BY <2>2, SnapshotTypes, MessageTypes DEF RunFails
    <3>2. inbox' = Append(inbox, m)
      BY <2>2 DEF RunFails, SendSetup, Send
    <3> QED
      BY <3>1, <3>2 DEF Concludes
  <2> QED
    BY <2>1, <2>2
<1>2. Followed(inbox') /\ Ended(inbox')
  BY <1>1, AppendFollowed DEF TypeOK
<1>3. run' = Idle
  BY DEF RunReady, RunFails
<1> QED
  BY <1>2, <1>3 DEF SetupInvariant, EscapeIsLost, EndFollows, Followed, Ended, Idle, Escaped

LEMMA SetupReceived ==
    ASSUME TypeOK, SetupInvariant, Receive
    PROVE  SetupInvariant'
<1> DEFINE m == Head(inbox)
<1>1. /\ inbox # <<>> /\ UNCHANGED <<run, lost>>
      /\ OnLoaded(m) \/ OnRejected(m) \/ OnImport(m) \/ OnUnsaved(m) \/ OnSetup(m) \/ OnStatus(m)
  BY DEF Receive
<1>2. /\ Followed(inbox) => Followed(Tail(inbox))
      /\ Followed(inbox) /\ GoesOn(m) => Ended(Tail(inbox))
      /\ Ended(inbox) /\ ~Concludes(m) => Ended(Tail(inbox))
  BY <1>1, TailFollowed DEF TypeOK
<1>3. Tail(inbox) \in Seq(Message)
  BY <1>1 DEF TypeOK
<1> HIDE DEF m
<1>4. CASE OnSetup(m)
  <2>1. /\ m.kind = "setup" /\ snapshot' = m.snapshot /\ inbox' = Tail(inbox)
    BY <1>4 DEF OnSetup, Received
  <2>2. Followed(inbox) => Followed(inbox')
    BY <1>2, <2>1
  <2>3. Followed(inbox) /\ snapshot'.step = "running" => Ended(inbox')
    BY <1>2, <2>1 DEF GoesOn
  <2> QED
    BY <1>1, <2>2, <2>3 DEF SetupInvariant, EscapeIsLost, EndFollows, Followed, Ended
<1>5. CASE OnStatus(m)
  <2>1. /\ m.kind = "status" /\ inbox' = Tail(inbox)
        /\ snapshot' = snapshot \/ snapshot'.step = "failed"
    BY <1>5 DEF OnStatus, Received
  <2>2. /\ Followed(inbox) => Followed(inbox')
        /\ Ended(inbox) => Ended(inbox')
    BY <1>2, <2>1 DEF Concludes
  <2> QED
    BY <1>1, <2>1, <2>2 DEF SetupInvariant, EscapeIsLost, EndFollows, Followed, Ended
<1>6. CASE OnLoaded(m) \/ OnRejected(m) \/ OnImport(m) \/ OnUnsaved(m)
  <2>1. /\ UNCHANGED snapshot /\ m.kind # "setup"
        /\ inbox' = Tail(inbox) \/ inbox' = CancelledLoads(Tail(inbox))
    BY <1>6 DEF OnLoaded, OnRejected, OnImport, OnUnsaved, Received, m
  <2>2. /\ Followed(inbox) => Followed(Tail(inbox))
        /\ Ended(inbox) => Ended(Tail(inbox))
    BY <1>2, <2>1 DEF Concludes
  <2>3. /\ Followed(inbox) => Followed(inbox')
        /\ Ended(inbox) => Ended(inbox')
    BY <1>3, <2>1, <2>2, CancelFollowed
  <2> QED
    BY <1>1, <2>1, <2>3, SetupAside
<1> QED
  BY <1>1, <1>4, <1>5, <1>6

LEMMA SetupStep ==
    ASSUME TypeOK, SaveHeld, SetupInvariant, [Next]_vars
    PROVE  SetupInvariant'
<1>1. CASE Start
  <2>1. Begins \/ UNCHANGED <<run, lost, inbox>>
    BY <1>1 DEF Start
  <2>2. UNCHANGED snapshot
    BY <1>1 DEF Start
  <2> QED
    BY <2>1, <2>2, SetupBegins, SetupAside
<1>2. CASE SaveApplied
  <2>1. Begins \/ (UNCHANGED <<run, inbox>> /\ (UNCHANGED lost \/ lost'))
    BY <1>2 DEF SaveApplied, Applies, RuntimeRestarts
  <2>2. UNCHANGED snapshot
    BY <1>2 DEF SaveApplied
  <2> QED
    BY <2>1, <2>2, SetupBegins, SetupAside
<1>3. CASE RestartBegins
  <2>1. Begins \/ UNCHANGED <<run, lost, inbox>>
    BY <1>3 DEF RestartBegins
  <2>2. UNCHANGED snapshot
    BY <1>3 DEF RestartBegins
  <2> QED
    BY <2>1, <2>2, SetupBegins, SetupAside
<1>4. CASE RunSteps
  <2>1. run' # Idle /\ run' # Escaped
    BY <1>4 DEF RunSteps, Idle, Escaped
  <2> QED
    BY <2>1 DEF SetupInvariant, EscapeIsLost, EndFollows
<1>5. CASE RunReady \/ RunFails
  BY <1>5, SetupEnds
<1>6. CASE RunEscapes
  BY <1>6 DEF RunEscapes, SetupInvariant, EscapeIsLost, EndFollows
<1>7. CASE DaemonDies \/ WakeupFires \/ Update \/ RetrySetup \/ UNCHANGED vars
  <2>1. UNCHANGED <<run, lost, inbox, snapshot>>
    BY <1>7 DEF DaemonDies, WakeupFires, Update, RetrySetup
  <2> QED
    BY <2>1, SetupAside
<1>8. CASE SaveRefused \/ Release \/ LoadAnswered \/ StatusAnswered \/ LoaderReloads
  <2>1. Adds({"unsaved", "status", "import", "loaded", "rejected"})
    <3>1. CASE LoadAnswered
      BY <3>1, MessageTypes DEF LoadAnswered, Send, Adds, TypeOK
    <3>2. CASE StatusAnswered \/ LoaderReloads
      <4>1. None \in Steps \cup {None} /\ lastFailure \in Steps \cup {None}
        BY DEF TypeOK
      <4> QED
        BY <3>2, <4>1, MessageTypes DEF StatusAnswered, LoaderReloads, Send, Adds
    <3>3. CASE SaveRefused \/ (Release /\ lock = "save")
      <4>1. Head(saves).current \in BOOLEAN
        BY <3>3, HeadOfSaves DEF SaveRefused, SaveHeld, TypeOK, Save
      <4> QED
        BY <3>3, <4>1, MessageTypes DEF SaveRefused, Release, Send, Adds
    <3>4. CASE Release /\ lock # "save"
      BY <3>4 DEF Release, Adds
    <3> QED
      BY <1>8, <3>1, <3>2, <3>3, <3>4
  <2>2. /\ UNCHANGED snapshot
        /\ \/ UNCHANGED <<run, lost>>
           \/ UNCHANGED lost /\ run' = Idle /\ run \in {Idle, Escaped}
           \/ run' = Idle /\ lost'
    BY <1>8 DEF SaveRefused, Release, LoadAnswered, StatusAnswered, LoaderReloads
  <2>3. Idle # Escaped
    BY DEF Idle, Escaped
  <2> QED
    BY <2>1, <2>2, <2>3, AsideSent, SetupAside
<1>9. CASE RetryLoad \/ Remount
  <2>1. /\ UNCHANGED <<run, lost, snapshot>>
        /\ inbox' = CancelledLoads(inbox) \/ inbox' = CancelledCalls(CancelledLoads(inbox))
    BY <1>9 DEF RetryLoad, Remount
  <2>2. inbox \in Seq(Message) /\ CancelledLoads(inbox) \in Seq(Message)
    BY CancelTypes DEF TypeOK
  <2>3. /\ Followed(inbox) => Followed(inbox')
        /\ Ended(inbox) => Ended(inbox')
    BY <2>1, <2>2, CancelFollowed
  <2> QED
    BY <2>1, <2>3, SetupAside
<1>10. CASE Receive
  BY <1>10, SetupReceived
<1> QED
  BY <1>1, <1>2, <1>3, <1>4, <1>5, <1>6, <1>7, <1>8, <1>9, <1>10 DEF Next, Backend, Run

-----------------------------------------------------------------------------
(* The last snapshot has the last failure *)

\* What a further message does to the last snapshot under way.
LEMMA AppendSpeaks ==
    ASSUME NEW s \in Seq(Message), NEW m \in Message, NEW f
    PROVE  /\ LastTells(s, f) /\ ~Speaks(m) => LastTells(Append(s, m), f)
           /\ Tells(m, f) => LastTells(Append(s, m), f) \/ ~Speaks(m)
           /\ Silent(Append(s, m)) => Silent(s) /\ ~Speaks(m)
<1> DEFINE t == Append(s, m)
<1>1. /\ Len(s) \in Nat /\ Len(t) = Len(s) + 1 /\ t[Len(s) + 1] = m
      /\ \A i \in 1 .. Len(s) : t[i] = s[i]
  OBVIOUS
<1> HIDE DEF t
<1>2. ASSUME LastTells(s, f), ~Speaks(m) PROVE LastTells(t, f)
  <2> SUFFICES ASSUME NEW i \in 1 .. Len(t), Speaks(t[i]),
                      \A j \in i + 1 .. Len(t) : ~Speaks(t[j])
               PROVE  Tells(t[i], f)
    BY DEF LastTells
  <2>1. i \in 1 .. Len(s) /\ t[i] = s[i]
    BY <1>1, <1>2
  <2>2. \A j \in i + 1 .. Len(s) : ~Speaks(s[j])
    <3> SUFFICES ASSUME NEW j \in i + 1 .. Len(s) PROVE ~Speaks(s[j])
      OBVIOUS
    <3>1. j \in i + 1 .. Len(t) /\ t[j] = s[j]
      BY <1>1, <2>1
    <3> QED
      BY <3>1
  <2> QED
    BY <1>2, <2>1, <2>2 DEF LastTells
<1>3. ASSUME Tells(m, f), Speaks(m) PROVE LastTells(t, f)
  <2> SUFFICES ASSUME NEW i \in 1 .. Len(t), \A j \in i + 1 .. Len(t) : ~Speaks(t[j])
               PROVE  Tells(t[i], f)
    BY DEF LastTells
  <2>1. i = Len(t)
    <3>1. Len(t) \in i + 1 .. Len(t) \/ i = Len(t)
      BY <1>1
    <3> QED
      BY <1>1, <1>3, <3>1
  <2> QED
    BY <1>1, <1>3, <2>1
<1>4. ASSUME Silent(t) PROVE Silent(s) /\ ~Speaks(m)
  <2>1. Len(t) \in 1 .. Len(t) /\ t[Len(t)] = m /\ 1 .. Len(s) \subseteq 1 .. Len(t)
    BY <1>1
  <2> QED
    BY <1>1, <1>4, <2>1 DEF Silent
<1> QED
  BY <1>2, <1>3, <1>4 DEF t

\* What receiving a message does to it.
LEMMA TailSpeaks ==
    ASSUME NEW s \in Seq(Message), s # <<>>, NEW f
    PROVE  /\ LastTells(s, f) => LastTells(Tail(s), f)
           /\ LastTells(s, f) /\ Silent(Tail(s)) /\ Speaks(Head(s)) => Tells(Head(s), f)
           /\ Silent(Tail(s)) /\ ~Speaks(Head(s)) => Silent(s)
<1>1. /\ Len(s) \in Nat \ {0} /\ Len(Tail(s)) = Len(s) - 1 /\ Head(s) = s[1]
      /\ \A i \in 1 .. Len(Tail(s)) : Tail(s)[i] = s[i + 1]
  BY TailIsRest
<1>2. \A j \in 2 .. Len(s) : j - 1 \in 1 .. Len(Tail(s)) /\ Tail(s)[j - 1] = s[j]
  BY <1>1
<1>3. ASSUME LastTells(s, f) PROVE LastTells(Tail(s), f)
  <2> SUFFICES ASSUME NEW i \in 1 .. Len(Tail(s)), Speaks(Tail(s)[i]),
                      \A j \in i + 1 .. Len(Tail(s)) : ~Speaks(Tail(s)[j])
               PROVE  Tells(Tail(s)[i], f)
    BY DEF LastTells
  <2>1. i + 1 \in 1 .. Len(s) /\ Tail(s)[i] = s[i + 1]
    BY <1>1
  <2>2. \A j \in (i + 1) + 1 .. Len(s) : ~Speaks(s[j])
    <3> SUFFICES ASSUME NEW j \in (i + 1) + 1 .. Len(s) PROVE ~Speaks(s[j])
      OBVIOUS
    <3>1. j \in 2 .. Len(s) /\ j - 1 \in i + 1 .. Len(Tail(s))
      BY <1>1
    <3> QED
      BY <1>2, <3>1
  <2> QED
    BY <1>3, <2>1, <2>2 DEF LastTells
<1>4. ASSUME Silent(Tail(s)) PROVE \A j \in 2 .. Len(s) : ~Speaks(s[j])
  BY <1>2, <1>4 DEF Silent
<1>5. 1 \in 1 .. Len(s) /\ 1 + 1 .. Len(s) = 2 .. Len(s)
      /\ \A i \in 1 .. Len(s) : i = 1 \/ i \in 2 .. Len(s)
  BY <1>1
<1> QED
  BY <1>1, <1>3, <1>4, <1>5 DEF LastTells, Silent

\* To cancel a load or a save changes nothing of it.
LEMMA CancelSpeaks ==
    ASSUME NEW s \in Seq(Message), NEW f
    PROVE  /\ LastTells(s, f) => LastTells(CancelledLoads(s), f)
           /\ Silent(CancelledLoads(s)) => Silent(s)
           /\ LastTells(s, f) => LastTells(CancelledCalls(s), f)
           /\ Silent(CancelledCalls(s)) => Silent(s)
<1>1. ASSUME NEW t, Len(t) = Len(s),
             \A i \in 1 .. Len(s) :
                /\ t[i].kind = s[i].kind
                /\ s[i].kind \in {"setup", "status"} => t[i] = s[i]
      PROVE  /\ LastTells(s, f) => LastTells(t, f)
             /\ Silent(t) => Silent(s)
  <2>1. Len(s) \in Nat
    OBVIOUS
  <2>2. \A i \in 1 .. Len(s) :
          (Speaks(t[i]) <=> Speaks(s[i])) /\ (Tells(s[i], f) => Tells(t[i], f))
    BY <1>1 DEF Speaks, Tells
  <2>3. \A i \in 1 .. Len(s) : i + 1 .. Len(s) \subseteq 1 .. Len(s)
    BY <2>1
  <2> QED
    BY <1>1, <2>2, <2>3 DEF LastTells, Silent
<1>2. /\ Len(CancelledLoads(s)) = Len(s)
      /\ \A i \in 1 .. Len(s) :
          /\ CancelledLoads(s)[i].kind = s[i].kind
          /\ s[i].kind \in {"setup", "status"} => CancelledLoads(s)[i] = s[i]
  BY CancelTypes, CancelKeeps
<1>3. /\ Len(CancelledCalls(s)) = Len(s)
      /\ \A i \in 1 .. Len(s) :
          /\ CancelledCalls(s)[i].kind = s[i].kind
          /\ s[i].kind \in {"setup", "status"} => CancelledCalls(s)[i] = s[i]
  BY CancelTypes, CancelKeeps
<1> QED
  BY <1>1, <1>2, <1>3

\* What leaves the last failure and the snapshots alone, or loses the run.
LEMMA FailureAside ==
    ASSUME FailureFollows, UNCHANGED snapshot,
           run' = Idle /\ ~lost' => run = Idle /\ ~lost /\ UNCHANGED lastFailure,
           LastTells(inbox, lastFailure) => LastTells(inbox', lastFailure),
           Silent(inbox') => Silent(inbox)
    PROVE  FailureFollows'
<1>1. CASE run' = Idle /\ ~lost'
  <2>1. run = Idle /\ ~lost /\ lastFailure' = lastFailure
    BY <1>1
  <2>2. LastTells(inbox', lastFailure')
    BY <2>1 DEF FailureFollows
  <2>3. Silent(inbox') /\ snapshot # None /\ snapshot.step = "failed"
        => lastFailure' = snapshot.index
    BY <2>1 DEF FailureFollows
  <2> QED
    BY <2>2, <2>3 DEF FailureFollows, LastTells, Silent
<1>2. CASE ~(run' = Idle /\ ~lost')
  BY <1>2 DEF FailureFollows
<1> QED
  BY <1>1, <1>2

\* A message that is no snapshot.
LEMMA AsideSpeaks ==
    ASSUME TypeOK, NEW K, "setup" \notin K, "status" \notin K, Adds(K)
    PROVE  /\ LastTells(inbox, lastFailure) => LastTells(inbox', lastFailure)
           /\ Silent(inbox') => Silent(inbox)
<1>1. ASSUME NEW m \in Message, m.kind \in K, inbox' = Append(inbox, m)
      PROVE  /\ LastTells(inbox, lastFailure) => LastTells(inbox', lastFailure)
             /\ Silent(inbox') => Silent(inbox)
  <2>1. ~Speaks(m)
    BY <1>1 DEF Speaks
  <2> QED
    BY <1>1, <2>1, AppendSpeaks DEF TypeOK
<1> QED
  BY <1>1 DEF Adds

\* A run that ends, and the answer of get_status, tell the last failure.
LEMMA FailureTold ==
    ASSUME TypeOK, FailureFollows, RunReady \/ RunFails \/ StatusAnswered
    PROVE  FailureFollows'
<1>1. ASSUME NEW m \in Message, inbox' = Append(inbox, m), Tells(m, lastFailure'), Speaks(m)
      PROVE  FailureFollows'
  <2>1. LastTells(inbox', lastFailure') /\ ~Silent(inbox')
    BY <1>1, AppendSpeaks DEF TypeOK
  <2> QED
    BY <2>1 DEF FailureFollows, LastTells, Silent
<1>2. CASE RunReady
  <2> DEFINE m == [kind |-> "setup", snapshot |-> [step |-> "ready", index |-> 4]]
  <2>1. m \in Message
    BY SnapshotTypes, MessageTypes DEF Steps
  <2>2. inbox' = Append(inbox, m)
    BY <1>2 DEF RunReady, SendSetup, Send
  <2>3. \A f : Tells(m, f) /\ Speaks(m)
    BY DEF Tells, Speaks
  <2> HIDE DEF m
  <2> QED
    BY <1>1, <2>1, <2>2, <2>3
<1>3. CASE RunFails
  <2> DEFINE m == [kind |-> "setup", snapshot |-> [step |-> "failed", index |-> run]]
  <2>1. m \in Message
    BY <1>3, SnapshotTypes, MessageTypes DEF RunFails
  <2>2. inbox' = Append(inbox, m) /\ lastFailure' = run
    BY <1>3 DEF RunFails, SendSetup, Send
  <2>3. Tells(m, run) /\ Speaks(m)
    BY DEF Tells, Speaks
  <2> HIDE DEF m
  <2> QED
    BY <1>1, <2>1, <2>2, <2>3
<1>4. CASE StatusAnswered
  <2>1. UNCHANGED <<run, lost, lastFailure, snapshot>>
    BY <1>4 DEF StatusAnswered
  <2>2. PICK f \in {None, lastFailure} :
            inbox' = Append(inbox, [kind |-> "status", failure |-> f])
    BY <1>4 DEF StatusAnswered, Send
  <2> DEFINE m == [kind |-> "status", failure |-> f]
  <2>3. m \in Message
    BY MessageTypes DEF TypeOK
  <2>4. CASE f = None
    <3>1. ~Speaks(m)
      BY <2>4 DEF Speaks
    <3> HIDE DEF m
    <3>2. /\ LastTells(inbox, lastFailure) => LastTells(inbox', lastFailure)
          /\ Silent(inbox') => Silent(inbox)
      BY <2>2, <2>3, <3>1, AppendSpeaks DEF TypeOK, m
    <3> QED
      BY <2>1, <3>2, FailureAside
  <2>5. CASE f # None
    <3>1. Speaks(m) /\ Tells(m, lastFailure')
      BY <2>1, <2>2, <2>5 DEF Speaks, Tells
    <3> QED
      BY <1>1, <2>2, <2>3, <3>1
  <2> QED
    BY <2>4, <2>5
<1> QED
  BY <1>2, <1>3, <1>4

LEMMA FailureReceived ==
    ASSUME TypeOK, FailureFollows, Receive
    PROVE  FailureFollows'
<1> DEFINE m == Head(inbox)
<1>1. /\ inbox # <<>> /\ UNCHANGED <<run, lost, lastFailure>>
      /\ OnLoaded(m) \/ OnRejected(m) \/ OnImport(m) \/ OnUnsaved(m) \/ OnSetup(m) \/ OnStatus(m)
  BY DEF Receive
<1>2. /\ LastTells(inbox, lastFailure) => LastTells(Tail(inbox), lastFailure)
      /\ LastTells(inbox, lastFailure) /\ Silent(Tail(inbox)) /\ Speaks(m) => Tells(m, lastFailure)
      /\ Silent(Tail(inbox)) /\ ~Speaks(m) => Silent(inbox)
  BY <1>1, TailSpeaks DEF TypeOK
<1>3. Tail(inbox) \in Seq(Message)
  BY <1>1 DEF TypeOK
<1> HIDE DEF m
<1>4. ASSUME inbox' = Tail(inbox), Speaks(m),
             Tells(m, lastFailure) =>
                 (snapshot'.step = "failed" => lastFailure = snapshot'.index)
      PROVE  FailureFollows'
  <2>1. CASE run = Idle /\ ~lost
    <3>1. LastTells(inbox', lastFailure')
      BY <1>1, <1>2, <1>4, <2>1 DEF FailureFollows
    <3>2. Silent(inbox') /\ snapshot'.step = "failed" => lastFailure' = snapshot'.index
      BY <1>1, <1>2, <1>4, <2>1 DEF FailureFollows
    <3> QED
      BY <3>1, <3>2 DEF FailureFollows, LastTells, Silent
  <2>2. CASE ~(run = Idle /\ ~lost)
    BY <1>1, <2>2 DEF FailureFollows
  <2> QED
    BY <2>1, <2>2
<1>5. CASE OnSetup(m)
  BY <1>4, <1>5 DEF OnSetup, Received, Speaks, Tells
<1>6. CASE OnStatus(m) /\ m.failure # None
  <2>1. snapshot' = [step |-> "failed", index |-> m.failure] /\ m.kind = "status"
        /\ inbox' = Tail(inbox)
    BY <1>6 DEF OnStatus, Received
  <2>2. snapshot'.index = m.failure
    BY <2>1
  <2> QED
    BY <1>4, <1>6, <2>1, <2>2 DEF Speaks, Tells
<1>7. CASE ~Speaks(m)
  <2>1. UNCHANGED snapshot /\ (inbox' = Tail(inbox) \/ inbox' = CancelledLoads(Tail(inbox)))
    BY <1>1, <1>7 DEF OnLoaded, OnRejected, OnImport, OnUnsaved, OnSetup, OnStatus, Received,
                      Speaks, m
  <2>2. /\ LastTells(inbox, lastFailure) => LastTells(inbox', lastFailure)
        /\ Silent(inbox') => Silent(inbox)
    BY <1>2, <1>3, <1>7, <2>1, CancelSpeaks
  <2> QED
    BY <1>1, <2>1, <2>2, FailureAside
<1> QED
  BY <1>1, <1>5, <1>6, <1>7 DEF OnLoaded, OnRejected, OnImport, OnUnsaved, OnStatus, Speaks

LEMMA FailureStep ==
    ASSUME TypeOK, SaveHeld, SetupInvariant, FailureFollows, [Next]_vars
    PROVE  FailureFollows'
<1>1. ASSUME Begins PROVE run' # Idle \/ lost'
  BY <1>1 DEF Begins, Idle
<1>2. ASSUME run' # Idle \/ lost' PROVE FailureFollows'
  BY <1>2 DEF FailureFollows
<1>3. ASSUME UNCHANGED <<run, lost, lastFailure, snapshot, inbox>> PROVE FailureFollows'
  BY <1>3, FailureAside
<1>4. CASE Start
  <2>1. UNCHANGED <<lastFailure, snapshot>> /\ (Begins \/ UNCHANGED <<run, lost, inbox>>)
    BY <1>4 DEF Start
  <2> QED
    BY <1>1, <1>2, <1>3, <2>1
<1>5. CASE RestartBegins
  <2>1. UNCHANGED <<lastFailure, snapshot>> /\ (Begins \/ UNCHANGED <<run, lost, inbox>>)
    BY <1>5 DEF RestartBegins
  <2> QED
    BY <1>1, <1>2, <1>3, <2>1
<1>6. CASE SaveApplied
  <2>1. /\ UNCHANGED snapshot
        /\ Begins \/ lost' \/ UNCHANGED <<run, lost, lastFailure, inbox>>
    BY <1>6 DEF SaveApplied, Applies, RuntimeRestarts
  <2> QED
    BY <1>1, <1>2, <1>3, <2>1
<1>7. CASE RunSteps \/ RunEscapes
  <2>1. run' # Idle
    BY <1>7 DEF RunSteps, RunEscapes, Idle, Escaped
  <2> QED
    BY <1>2, <2>1
<1>8. CASE RunReady \/ RunFails \/ StatusAnswered
  BY <1>8, FailureTold
<1>9. CASE DaemonDies \/ WakeupFires \/ Update \/ RetrySetup \/ UNCHANGED vars
  <2>1. UNCHANGED <<run, lost, lastFailure, snapshot, inbox>>
    BY <1>9 DEF DaemonDies, WakeupFires, Update, RetrySetup
  <2> QED
    BY <1>3, <2>1
<1>10. CASE SaveRefused \/ Release \/ LoadAnswered \/ LoaderReloads
  <2>1. Adds({"unsaved", "import", "loaded", "rejected"})
    <3>1. CASE LoadAnswered
      BY <3>1, MessageTypes DEF LoadAnswered, Send, Adds, TypeOK
    <3>2. CASE LoaderReloads
      BY <3>2, MessageTypes DEF LoaderReloads, Send, Adds
    <3>3. CASE SaveRefused \/ (Release /\ lock = "save")
      <4>1. Head(saves).current \in BOOLEAN
        BY <3>3, HeadOfSaves DEF SaveRefused, SaveHeld, TypeOK, Save
      <4> QED
        BY <3>3, <4>1, MessageTypes DEF SaveRefused, Release, Send, Adds
    <3>4. CASE Release /\ lock # "save"
      BY <3>4 DEF Release, Adds
    <3> QED
      BY <1>10, <3>1, <3>2, <3>3, <3>4
  <2>2. UNCHANGED snapshot
    BY <1>10 DEF SaveRefused, Release, LoadAnswered, LoaderReloads
  <2>3. run' = Idle /\ ~lost' => run = Idle /\ ~lost /\ UNCHANGED lastFailure
    BY <1>10 DEF SaveRefused, Release, LoadAnswered, LoaderReloads, SetupInvariant, EscapeIsLost
  <2> QED
    BY <2>1, <2>2, <2>3, AsideSpeaks, FailureAside
<1>11. CASE RetryLoad \/ Remount
  <2>1. /\ UNCHANGED <<run, lost, lastFailure, snapshot>>
        /\ inbox' = CancelledLoads(inbox) \/ inbox' = CancelledCalls(CancelledLoads(inbox))
    BY <1>11 DEF RetryLoad, Remount
  <2>2. inbox \in Seq(Message) /\ CancelledLoads(inbox) \in Seq(Message)
    BY CancelTypes DEF TypeOK
  <2>3. /\ LastTells(inbox, lastFailure) => LastTells(inbox', lastFailure)
        /\ Silent(inbox') => Silent(inbox)
    BY <2>1, <2>2, CancelSpeaks
  <2> QED
    BY <2>1, <2>3, FailureAside
<1>12. CASE Receive
  BY <1>12, FailureReceived
<1> QED
  BY <1>4, <1>5, <1>6, <1>7, <1>8, <1>9, <1>10, <1>11, <1>12 DEF Next, Backend, Run

-----------------------------------------------------------------------------
(* The theorems *)

LEMMA InvariantInit == Init => PanelInvariant
<1> SUFFICES ASSUME Init PROVE PanelInvariant
  OBVIOUS
<1>1. inbox = <<>> /\ saves = <<>> /\ value = None /\ snapshot = None /\ run = Idle /\ lock = "free"
  BY DEF Init
<1>2. LoadInvariant /\ SaveInvariant
  BY <1>1 DEF LoadInvariant, AnswerOnce, LoadOver, SaveInvariant, SaveHeld, SavesCurrent,
              LastSaveShown
<1>3. SetupInvariant
  BY <1>1 DEF SetupInvariant, EscapeIsLost, EndFollows, Followed, Idle, Escaped
<1>4. FailureFollows
  BY <1>1 DEF FailureFollows, LastTells
<1> QED
  BY <1>2, <1>3, <1>4, InitTypes DEF PanelInvariant

\* The invariant is inductive.
LEMMA InvariantStep == PanelInvariant /\ [Next]_vars => PanelInvariant'
  BY TypeStep, LoadStep, SaveStep, SetupStep, FailureStep
     DEF PanelInvariant, LoadInvariant, SaveInvariant

THEOREM InvariantHolds == Spec => []PanelInvariant
  BY InvariantInit, InvariantStep, PTL DEF Spec

\* The variables keep their types, and the timer of a load does not outlive the load
\* (SettingsPanel.tsx, the load effect).
THEOREM TypesAreKept == Spec => []TypeOK
  BY InvariantHolds, PTL DEF PanelInvariant

\* The settings shown are stored, or a failure is told, once the saves are through
\* (SettingsPanel.update and composition.update_settings).
THEOREM SettingsSavedOrSaid == Spec => []SavedOrSaid
<1>1. PanelInvariant => SavedOrSaid
  BY DEF PanelInvariant, SaveInvariant, LastSaveShown, NoNews, SavedOrSaid, Quiet
<1> QED
  BY <1>1, InvariantHolds, PTL

\* A run that has ended is not shown as running, unless its end was lost
\* (composition's setup progress and SetupProgressStore).
THEOREM SetupEndIsShown == Spec => []SetupNotStuck
<1>1. PanelInvariant => SetupNotStuck
  BY DEF PanelInvariant, SetupInvariant, EndFollows, Ended, SetupNotStuck
<1> QED
  BY <1>1, InvariantHolds, PTL

\* The failure that is shown is the last one, whether a run's event or the answer of
\* get_status brought it (composition._fail_startup, hydrateSetupFromStatus).
THEOREM FailureShownIsLast == Spec => []FailureShownIsTrue
<1>1. PanelInvariant => FailureShownIsTrue
  BY DEF PanelInvariant, FailureFollows, Silent, FailureShownIsTrue
<1> QED
  BY <1>1, InvariantHolds, PTL

\* The backend is reloaded once in a session, however often loads time out, are retried
\* or the panel is opened.
ReloadOnce == [][reload = "over" => reload' = "over"]_vars

\* The plugin is reloaded once in a session (DeckySelfHeal).
THEOREM ReloadsOnce == Spec => ReloadOnce
<1>1. [Next]_vars => [reload = "over" => reload' = "over"]_vars
  BY DEF Next, Backend, Start, Run, RunSteps, RunReady, RunFails, RunEscapes, DaemonDies,
         SaveRefused, SaveApplied, RestartBegins, Release, LoadAnswered, StatusAnswered,
         LoaderReloads, RetryLoad, Remount, WakeupFires, ReportTimeout, Update, RetrySetup,
         Receive, OnLoaded, OnRejected, OnImport, OnUnsaved, OnSetup, OnStatus
<1> QED
  BY <1>1, PTL DEF Spec, ReloadOnce

=============================================================================
