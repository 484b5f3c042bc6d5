------------------------ MODULE ModelDownloadsProofs ------------------------
(***************************************************************************)
(* Proofs about ModelDownloads for any sets of models, calls and deletions *)
(* and any number of retries: downloads do not overlap, a partial file has *)
(* a writer, what is announced is there, and a setup run is concluded.     *)
(***************************************************************************)
EXTENDS ModelDownloads, TLAPS

USE NoneAssumption, RetriesAssumption
    DEF vars, files, call, task, run

-----------------------------------------------------------------------------
(* The inductive invariant *)

\* The lock is held by the task that works.
LockOwned == \A c \in Calls : place[c] \in BusyPlaces <=> holder = c

\* What has been decided where.
Decided ==
    \A c \in Calls :
        /\ place[c] \in {"idle", "waiting", "opening", "streaming", "reporting"} =>
                outcome[c] = "none"
        /\ place[c] \in {"settling", "closing"} => outcome[c] # "complete"
        /\ place[c] = "done" => outcome[c] # "none"
        /\ place[c] = "idle" <=> model[c] = None
        /\ place[c] = "reporting" => model[c] \in installed \/ c \in deleted

\* The setup run waits for one download of its own, and retries it often enough.
SetupAwaits ==
    /\ startup = "idle" <=> wanted = None
    /\ startup # "idle" => setup = "running"
    /\ startup \in {"idle", "verifying", "checking", "downloading"} => attempts = 0
    /\ startup = "backoff" => attempts <= MaxRetries
    /\ \A c \in Calls :
        owner[c] = "setup" /\ place[c] # "idle" =>
            /\ startup = "awaiting"
            /\ \A d \in Calls : owner[d] = "setup" /\ place[d] # "idle" => d = c

DownloadInvariant ==
    /\ TypeOK
    /\ LockOwned
    /\ Decided
    /\ SetupAwaits
    /\ PartsOwned
    /\ CompleteIsInstalled
    /\ SetupConcludes

-----------------------------------------------------------------------------

\* A step of the store's task, of its own accord or because it is cancelled.
Works(c) ==
    /\ StoreStep(c) \/ Cancelled(c)
    /\ UNCHANGED <<selected, call, latest, removing, deleted, run>>

\* Steps outside the calls: the setup run's, a choice and a decision.
Quiet == UNCHANGED <<files, call, task, holder, deleted>>

LEMMA WorkDefined ==
    ASSUME NEW c \in Calls, StoreStep(c)
    PROVE  Works(c)
BY DEF StoreStep, Works, Begin, Opened, OpenFails, StreamEnds, Settled, Closed, Reported,
       Moves, Ends, DropPart

LEMMA CancelWorks == TypeOK /\ CancelModelDownload => CancelTarget \in Calls /\ Works(CancelTarget)
BY DEF TypeOK, CancelModelDownload, CancelTarget, Works

\* Every step is one of five.
LEMMA Steps ==
    ASSUME TypeOK, Next
    PROVE  \/ \E c \in Calls : Works(c) \/ Returns(c)
           \/ \E c \in Calls, m \in Models : PanelDownloads(c, m)
           \/ \E c \in Calls : SetupDownloads(c)
           \/ \E x \in Deletions : Removed(x)
           \/ Quiet
<1>1. CASE \E c \in Calls : StoreStep(c)
  BY <1>1, WorkDefined
<1>2. CASE CancelModelDownload
  BY <1>2, CancelWorks
<1>3. CASE \E m \in Models : SelectModel(m) \/ \E x \in Deletions : DeletionDecided(x, m)
  BY <1>3 DEF SelectModel, DeletionDecided, Quiet
<1>4. CASE SetupBegins \/ RuntimeVerified \/ ModelChecked \/ ModelEnsured \/ SetupEnds
            \/ SetupEscapes
  BY <1>4 DEF SetupBegins, RuntimeVerified, ModelChecked, ModelEnsured, SetupEnds,
              SetupEscapes, SetupMoves,
              Quiet
<1> QED
  BY <1>1, <1>2, <1>3, <1>4 DEF Next, Setup

-----------------------------------------------------------------------------
(* Types *)

LEMMA WorkTypes ==
    ASSUME TypeOK, Decided, NEW c \in Calls, Works(c)
    PROVE  TypeOK'
<1>1. /\ place' \in [Calls -> Places]
      /\ outcome' \in [Calls -> Outcomes]
  BY DEF TypeOK, Works, StoreStep, Begin, Opened, OpenFails, StreamEnds, Settled, Closed,
         Reported, Cancelled, Moves, Ends, Places, BusyPlaces, Outcomes
<1>2. holder' \in Calls \cup {None}
  BY DEF TypeOK, Works, StoreStep, Begin, Opened, OpenFails, StreamEnds, Settled, Closed,
         Reported, Cancelled, Moves, Ends
<1>3. place[c] # "idle" => model[c] \in Models
  BY DEF TypeOK, Decided
<1>4. installed' \subseteq Models /\ parts' \subseteq Models
  <2>1. CASE UNCHANGED files \/ DropPart(c)
    BY <2>1 DEF TypeOK, DropPart
  <2>2. CASE Opened(c)
    BY <2>2, <1>3 DEF TypeOK, Opened
  <2>3. CASE Closed(c) /\ ~DropPart(c)
    BY <2>3, <1>3 DEF TypeOK, Closed
  <2> QED
    BY <2>1, <2>2, <2>3
       DEF Works, StoreStep, Begin, OpenFails, StreamEnds, Settled, Reported, Cancelled
<1> QED
  BY <1>1, <1>2, <1>4 DEF TypeOK, Works

LEMMA ReturnTypes ==
    ASSUME TypeOK, SetupAwaits, NEW c \in Calls, Returns(c)
    PROVE  TypeOK'
BY DEF TypeOK, Returns, SetupResumes, SetupOver, Places, Outcomes, StartupPlaces

LEMMA SetupTypes ==
    ASSUME TypeOK, Setup, SetupAwaits
    PROVE  TypeOK'
BY DEF TypeOK, Setup, SetupBegins, RuntimeVerified, ModelChecked, ModelEnsured, SetupEnds,
       SetupEscapes, SetupDownloads, SetupMoves, SetupOver, SetupAwaits, Called, Places, StartupPlaces

LEMMA TypeStep == TypeOK /\ Decided /\ SetupAwaits /\ [Next]_vars => TypeOK'
<1> SUFFICES ASSUME TypeOK, Decided, SetupAwaits, [Next]_vars PROVE TypeOK'
  OBVIOUS
<1>1. CASE CancelModelDownload
  BY <1>1, CancelWorks, WorkTypes
<1>2. ASSUME NEW c \in Calls, NEW m \in Models, PanelDownloads(c, m)
      PROVE  TypeOK'
  BY <1>2 DEF PanelDownloads, Called, TypeOK, Places
<1>3. ASSUME NEW m \in Models, SelectModel(m) \/ \E x \in Deletions : DeletionDecided(x, m)
      PROVE  TypeOK'
  BY <1>3 DEF SelectModel, DeletionDecided, TypeOK
<1>4. ASSUME NEW x \in Deletions, Removed(x)
      PROVE  TypeOK'
  BY <1>4 DEF Removed, TypeOK
<1>5. CASE UNCHANGED vars
  BY <1>5 DEF TypeOK
<1> QED
  BY <1>1, <1>2, <1>3, <1>4, <1>5, WorkDefined, WorkTypes, ReturnTypes, SetupTypes DEF Next

-----------------------------------------------------------------------------
(* The lock, the outcomes and the files *)

LEMMA LockStep ==
    ASSUME TypeOK, LockOwned, Next
    PROVE  LockOwned'
<1>1. ASSUME NEW c \in Calls, Works(c)
      PROVE  LockOwned'
  BY <1>1 DEF TypeOK, LockOwned, Works, StoreStep, Begin, Opened, OpenFails, StreamEnds,
              Settled, Closed, Reported, Cancelled, Moves, Ends, BusyPlaces
<1>2. ASSUME NEW c \in Calls, Returns(c)
      PROVE  LockOwned'
  BY <1>2 DEF TypeOK, LockOwned, Returns, BusyPlaces
<1>3. ASSUME NEW c \in Calls, NEW m \in Models, PanelDownloads(c, m) \/ SetupDownloads(c)
      PROVE  LockOwned'
  BY <1>3 DEF TypeOK, LockOwned, PanelDownloads, SetupDownloads, Called, BusyPlaces
<1>4. ASSUME NEW x \in Deletions, Removed(x)
      PROVE  LockOwned'
  BY <1>4 DEF LockOwned, Removed
<1>5. CASE Quiet
  BY <1>5 DEF LockOwned, Quiet
<1>6. Models # {}
  BY DEF TypeOK
<1> QED
  BY <1>1, <1>2, <1>3, <1>4, <1>5, <1>6, Steps

LEMMA DecidedStep ==
    ASSUME TypeOK, Decided, SetupAwaits, Next
    PROVE  Decided'
<1>1. ASSUME NEW c \in Calls, Works(c)
      PROVE  Decided'
  BY <1>1 DEF TypeOK, Decided, Works, StoreStep, Begin, Opened, OpenFails, StreamEnds,
              Settled, Closed, Reported, Cancelled, Moves, Ends, DropPart
<1>2. ASSUME NEW c \in Calls, Returns(c)
      PROVE  Decided'
  BY <1>2 DEF TypeOK, Decided, Returns
<1>3. ASSUME NEW c \in Calls, NEW m \in Models, NEW by, Called(c, m, by), UNCHANGED deleted
      PROVE  Decided'
  BY <1>3 DEF TypeOK, Decided, Called
<1>4. ASSUME NEW c \in Calls, SetupDownloads(c)
      PROVE  wanted \in Models /\ Called(c, wanted, "setup")
  BY <1>4 DEF TypeOK, SetupAwaits, SetupDownloads
<1>5. ASSUME NEW x \in Deletions, Removed(x)
      PROVE  Decided'
  BY <1>5 DEF TypeOK, Decided, Removed, Installed
<1>6. CASE Quiet
  BY <1>6 DEF Decided, Quiet
<1> QED
  BY <1>1, <1>2, <1>3, <1>4, <1>5, <1>6, Steps DEF PanelDownloads, Called

LEMMA PartsStep ==
    ASSUME TypeOK, LockOwned, Decided, PartsOwned, Next
    PROVE  PartsOwned'
<1>1. ASSUME NEW c \in Calls, Works(c)
      PROVE  PartsOwned'
  BY <1>1 DEF TypeOK, LockOwned, PartsOwned, Works, StoreStep, Begin, Opened, OpenFails,
              StreamEnds, Settled, Closed, Reported, Cancelled, Moves, Ends, DropPart,
              BusyPlaces
<1>2. ASSUME NEW c \in Calls, Returns(c)
      PROVE  PartsOwned'
  BY <1>2 DEF TypeOK, LockOwned, PartsOwned, Returns, BusyPlaces
<1>3. ASSUME NEW c \in Calls, NEW m, NEW by, Called(c, m, by)
      PROVE  PartsOwned'
  BY <1>3 DEF TypeOK, LockOwned, PartsOwned, Called, BusyPlaces
<1>4. ASSUME NEW x \in Deletions, Removed(x)
      PROVE  PartsOwned'
  BY <1>4 DEF PartsOwned, Removed
<1>5. CASE Quiet
  BY <1>5 DEF PartsOwned, Quiet
<1> QED
  BY <1>1, <1>2, <1>3, <1>4, <1>5, Steps DEF PanelDownloads, SetupDownloads

LEMMA CompleteStep ==
    ASSUME TypeOK, Decided, CompleteIsInstalled, Next
    PROVE  CompleteIsInstalled'
<1>1. ASSUME NEW c \in Calls, Works(c)
      PROVE  CompleteIsInstalled'
  <2>1. installed \subseteq installed'
    BY <1>1 DEF Works, StoreStep, Begin, Opened, OpenFails, StreamEnds, Settled, Closed,
                Reported, Cancelled, DropPart
  <2>2. \A d \in Calls \ {c} : place'[d] = place[d] /\ outcome'[d] = outcome[d]
    BY <1>1 DEF TypeOK, Works, StoreStep, Begin, Opened, OpenFails, StreamEnds, Settled,
                Closed, Reported, Cancelled, Moves, Ends
  <2>3. place'[c] = "done" /\ outcome'[c] = "complete" => model[c] \in installed \/ c \in deleted
    <3>1. CASE StoreStep(c)
      BY <1>1, <3>1 DEF TypeOK, Decided, CompleteIsInstalled, StoreStep, Begin, Opened,
                        OpenFails, StreamEnds, Settled, Closed, Reported, Moves, Ends
    <3>2. CASE Cancelled(c)
      BY <1>1, <3>2 DEF TypeOK, Cancelled, Moves, Ends
    <3> QED
      BY <1>1, <3>1, <3>2 DEF Works
  <2>4. UNCHANGED <<model, deleted>>
    BY <1>1 DEF Works
  <2> QED
    BY <2>1, <2>2, <2>3, <2>4 DEF CompleteIsInstalled
<1>2. ASSUME NEW c \in Calls, Returns(c)
      PROVE  CompleteIsInstalled'
  BY <1>2 DEF TypeOK, CompleteIsInstalled, Returns
<1>3. ASSUME NEW c \in Calls, NEW m, NEW by, Called(c, m, by)
      PROVE  CompleteIsInstalled'
  BY <1>3 DEF TypeOK, CompleteIsInstalled, Called
<1>4. ASSUME NEW x \in Deletions, Removed(x)
      PROVE  CompleteIsInstalled'
  BY <1>4 DEF TypeOK, CompleteIsInstalled, Removed, Installed
<1>5. CASE Quiet
  BY <1>5 DEF CompleteIsInstalled, Quiet
<1> QED
  BY <1>1, <1>2, <1>3, <1>4, <1>5, Steps DEF PanelDownloads, SetupDownloads

-----------------------------------------------------------------------------
(* The setup run *)

LEMMA SetupStep ==
    ASSUME TypeOK, Decided, SetupAwaits, SetupConcludes, Next
    PROVE  SetupAwaits' /\ SetupConcludes'
<1>1. ASSUME NEW c \in Calls, Works(c)
      PROVE  SetupAwaits'
  <2>1. \A d \in Calls : place[d] = "idle" <=> place'[d] = "idle"
    BY <1>1 DEF TypeOK, Works, StoreStep, Begin, Opened, OpenFails, StreamEnds, Settled,
                Closed, Reported, Cancelled, Moves, Ends
  <2> QED
    BY <1>1, <2>1 DEF SetupAwaits, Works
<1>2. ASSUME NEW c \in Calls, Returns(c)
      PROVE  SetupAwaits'
  <2>1. CASE owner[c] = "setup"
    BY <1>2, <2>1 DEF TypeOK, Decided, SetupAwaits, Returns, SetupResumes, SetupOver
  <2>2. CASE owner[c] # "setup"
    BY <1>2, <2>2 DEF TypeOK, SetupAwaits, Returns
  <2> QED
    BY <2>1, <2>2
<1>3. ASSUME NEW c \in Calls, NEW m \in Models, PanelDownloads(c, m)
      PROVE  SetupAwaits'
  BY <1>3 DEF TypeOK, SetupAwaits, PanelDownloads, Called
<1>4. ASSUME NEW c \in Calls, SetupDownloads(c)
      PROVE  SetupAwaits'
  BY <1>4 DEF TypeOK, SetupAwaits, SetupDownloads, Called
<1>5. ASSUME NEW x \in Deletions, Removed(x)
      PROVE  SetupAwaits'
  BY <1>5 DEF SetupAwaits, Removed
<1>6. ASSUME NEW m \in Models, SelectModel(m) \/ \E x \in Deletions : DeletionDecided(x, m)
      PROVE  SetupAwaits'
  BY <1>6 DEF SetupAwaits, SelectModel, DeletionDecided
<1>7. ASSUME SetupBegins \/ RuntimeVerified \/ ModelChecked \/ ModelEnsured \/ SetupEnds
            \/ SetupEscapes
      PROVE  SetupAwaits'
  <2>1. startup # "awaiting"
    BY <1>7 DEF SetupBegins, RuntimeVerified, ModelChecked, ModelEnsured, SetupEnds,
                SetupEscapes, SetupMoves
  <2>2. \A c \in Calls : ~(owner'[c] = "setup" /\ place'[c] # "idle")
    BY <1>7, <2>1 DEF SetupAwaits, SetupBegins, RuntimeVerified, ModelChecked, ModelEnsured,
                      SetupEnds, SetupEscapes, SetupMoves
  <2>3. /\ startup' = "idle" <=> wanted' = None
        /\ startup' # "idle" => setup' = "running"
    BY <1>7 DEF TypeOK, SetupAwaits, SetupBegins, RuntimeVerified, ModelChecked, ModelEnsured,
                SetupEnds, SetupEscapes, SetupMoves, SetupOver
  <2>4. /\ startup' \in {"idle", "verifying", "checking", "downloading"} => attempts' = 0
        /\ startup' # "backoff"
    BY <1>7 DEF SetupAwaits, SetupBegins, RuntimeVerified, ModelChecked, ModelEnsured,
                SetupEnds, SetupEscapes, SetupMoves, SetupOver
  <2> QED
    BY <2>2, <2>3, <2>4 DEF SetupAwaits
<1>10. SetupAwaits'
  BY <1>1, <1>2, <1>3, <1>4, <1>5, <1>6, <1>7, WorkDefined, CancelWorks
     DEF Next, Setup
<1>11. SetupConcludes'
  <2>1. ASSUME NEW c \in Calls, Works(c)
        PROVE  SetupConcludes'
    <3>1. \A d \in Calls : place[d] = "idle" <=> place'[d] = "idle"
      BY <2>1 DEF TypeOK, Works, StoreStep, Begin, Opened, OpenFails, StreamEnds, Settled,
                  Closed, Reported, Cancelled, Moves, Ends
    <3> QED
      BY <2>1, <3>1 DEF SetupConcludes, Works
  <2>2. ASSUME NEW c \in Calls, Returns(c)
        PROVE  SetupConcludes'
    <3>1. CASE owner[c] = "setup"
      BY <2>2, <3>1 DEF TypeOK, Decided, SetupAwaits, SetupConcludes, Returns, SetupResumes,
                        SetupOver
    <3>2. CASE owner[c] # "setup"
      BY <2>2, <3>2 DEF TypeOK, SetupConcludes, Returns
    <3> QED
      BY <3>1, <3>2
  <2>3. ASSUME NEW c \in Calls, NEW m \in Models, PanelDownloads(c, m)
        PROVE  SetupConcludes'
    BY <2>3 DEF TypeOK, SetupConcludes, PanelDownloads, Called
  <2>4. ASSUME NEW c \in Calls, SetupDownloads(c)
        PROVE  SetupConcludes'
    BY <2>4 DEF TypeOK, SetupConcludes, SetupDownloads, Called
  <2>5. CASE UNCHANGED <<startup, setup, owner, place>>
    BY <2>5 DEF SetupConcludes
  <2>6. CASE SetupBegins \/ RuntimeVerified \/ ModelChecked \/ ModelEnsured
    BY <2>6 DEF SetupAwaits, SetupConcludes, SetupBegins, RuntimeVerified, ModelChecked,
                ModelEnsured, SetupMoves
  <2>7. CASE SetupEnds \/ SetupEscapes
    BY <2>7 DEF SetupConcludes, SetupEnds, SetupEscapes, SetupOver
  <2>8. ASSUME NEW x \in Deletions, Removed(x) \/ \E m \in Models : DeletionDecided(x, m)
        PROVE  UNCHANGED <<startup, setup, owner, place>>
    BY <2>8 DEF Removed, DeletionDecided
  <2>9. ASSUME NEW m \in Models, SelectModel(m)
        PROVE  UNCHANGED <<startup, setup, owner, place>>
    BY <2>9 DEF SelectModel
  <2> QED
    BY <2>1, <2>2, <2>3, <2>4, <2>5, <2>6, <2>7, <2>8, <2>9, WorkDefined, CancelWorks
       DEF Next, Setup
<1> QED
  BY <1>10, <1>11

-----------------------------------------------------------------------------
(* The invariant and what it gives *)

LEMMA InvariantInit == Init => DownloadInvariant
<1> SUFFICES ASSUME Init PROVE DownloadInvariant
  OBVIOUS
<1>1. TypeOK
  BY DEF Init, TypeOK, Places, Outcomes, StartupPlaces
<1>2. LockOwned /\ Decided /\ SetupAwaits
  BY DEF Init, LockOwned, Decided, SetupAwaits, BusyPlaces
<1>3. PartsOwned /\ CompleteIsInstalled /\ SetupConcludes
  BY DEF Init, PartsOwned, CompleteIsInstalled, SetupConcludes
<1> QED
  BY <1>1, <1>2, <1>3 DEF DownloadInvariant

LEMMA InvariantStep == DownloadInvariant /\ [Next]_vars => DownloadInvariant'
<1> SUFFICES ASSUME DownloadInvariant, [Next]_vars PROVE DownloadInvariant'
  OBVIOUS
<1>1. CASE Next
  BY <1>1, TypeStep, LockStep, DecidedStep, SetupStep, PartsStep, CompleteStep
     DEF DownloadInvariant
<1>2. CASE UNCHANGED vars
  BY <1>2 DEF DownloadInvariant, TypeOK, LockOwned, Decided, SetupAwaits, PartsOwned,
              CompleteIsInstalled, SetupConcludes
<1> QED
  BY <1>1, <1>2

THEOREM InvariantHolds == Spec => []DownloadInvariant
BY InvariantInit, InvariantStep, PTL DEF Spec

\* The variables keep their types; the retries of a setup run stay bounded.
THEOREM TypesAreKept == Spec => []TypeOK
<1>1. DownloadInvariant => TypeOK
  BY DEF DownloadInvariant
<1> QED
  BY <1>1, InvariantHolds, PTL

\* Two downloads never work at the same time: whoever works holds the lock.
THEOREM DownloadsAreSerialized == Spec => []Serialized
<1>1. DownloadInvariant => Serialized
  BY DEF DownloadInvariant, LockOwned, Serialized
<1> QED
  BY <1>1, InvariantHolds, PTL

\* A partial file belongs to the download that is writing it, whatever fails, is
\* cancelled or deletes meanwhile.
THEOREM PartsHaveAWriter == Spec => []PartsOwned
<1>1. DownloadInvariant => PartsOwned
  BY DEF DownloadInvariant
<1> QED
  BY <1>1, InvariantHolds, PTL

\* A download that is announced as complete left its model there, unless a deletion
\* took it before the call returned.
THEOREM CompleteModelsAreInstalled == Spec => []CompleteIsInstalled
<1>1. DownloadInvariant => CompleteIsInstalled
  BY DEF DownloadInvariant
<1> QED
  BY <1>1, InvariantHolds, PTL

\* A setup run that is over told the panel how it ended, or ended in an exception
\* that is no SpeechError: no cancel, deletion, retry or failed step loses it, and
\* none leaves it waiting for a download that is not under way.
THEOREM SetupIsConcluded == Spec => []SetupConcludes
<1>1. DownloadInvariant => SetupConcludes
  BY DEF DownloadInvariant
<1> QED
  BY <1>1, InvariantHolds, PTL

=============================================================================
