---------------------- MODULE DictationControllerProofs ----------------------
(***************************************************************************)
(* Proofs about DictationController for any set of sessions.               *)
(*                                                                         *)
(* The first part says what the transitions of the state machine return,   *)
(* the second that every handler of the controller makes one of eleven     *)
(* moves; the parts of the invariant are then proved move by move.         *)
(***************************************************************************)
EXTENDS DictationController, TLAPS

USE NoSessionAssumption
    DEF MaybeSession, Busy, Kinds, Undecided, Cancellable, vars, issued, startup, disposed

-----------------------------------------------------------------------------
(* The inductive invariant *)

\* How often the calls of the panel's session have been made.
SessionProgress ==
    \A s \in Sessions :
        state.session = s =>
            /\ starts[s] = 1
            /\ stops[s] = IF state.kind \in {"starting", "recording"} THEN 0 ELSE 1
            /\ inserts[s] = IF state.kind = "inserting" THEN 1 ELSE 0
            /\ cancels[s] <= IF disposed THEN 1 ELSE 0
            /\ <<"start", s>> \in calls => state.kind = "starting"
            /\ state.kind = "inserting" => s \in heard

\* A session that has not been started has no calls.
UnstartedUntouched ==
    \A s \in Sessions :
        starts[s] = 0 =>
            /\ stops[s] = 0 /\ inserts[s] = 0 /\ cancels[s] = 0
            /\ \A op \in Operations : <<op, s>> \notin calls

SessionShown == state.kind \in Busy <=> state.session # NoSession

BootingIsFirst ==
    /\ state.kind = "booting" => \A s \in Sessions : starts[s] = 0
    /\ startPc = "idle" => state.kind = "booting" /\ watchdog = "off"
    /\ watchdog = "armed" => state.kind = "booting"

ControllerInvariant ==
    /\ TypeOK
    /\ SessionShown
    /\ BootingIsFirst
    /\ WaitsForAnswer
    /\ SessionProgress
    /\ UnstartedUntouched
    /\ CallsMadeOnce
    /\ CallsInOrder
    /\ SessionsClosed
    /\ StartupDecidedOnce

-----------------------------------------------------------------------------

\* Calls are pairs of an operation and a session.
LEMMA CallPairs ==
    /\ \A op \in Operations, s \in Sessions : <<op, s>> \in Calls
    /\ \A c \in Calls :
            c[1] \in Operations /\ c[2] \in Sessions /\ c = <<c[1], c[2]>>
BY DEF Calls, Operations

\* The counts after one more call of operation op in session s.
Made(op, s) ==
    /\ starts' = IF op = "start" THEN [starts EXCEPT ![s] = @ + 1] ELSE starts
    /\ stops' = IF op = "stop" THEN [stops EXCEPT ![s] = @ + 1] ELSE stops
    /\ inserts' = IF op = "insert" THEN [inserts EXCEPT ![s] = @ + 1] ELSE inserts
    /\ cancels' = IF op = "cancel" THEN [cancels EXCEPT ![s] = @ + 1] ELSE cancels

\* Counting no effect changes no count, counting one effect adds one to its count.
LEMMA CountedOne ==
    ASSUME NEW count \in [Sessions -> Nat], NEW op \in Operations,
           NEW o \in Operations, NEW s \in Sessions
    PROVE  /\ Counted(count, op, {}) = count
           /\ Counted(count, op, {<<o, s>>})
                = IF o = op THEN [count EXCEPT ![s] = @ + 1] ELSE count
BY DEF Counted

LEMMA AdoptNone ==
    ASSUME TypeOK, NEW r, NEW others, Adopt(r, others), r.effects = {}
    PROVE  state' = r.state /\ calls' = others /\ UNCHANGED issued
<1>1. \A count \in [Sessions -> Nat], op \in Operations : Counted(count, op, {}) = count
  BY DEF Counted
<1> QED
  BY <1>1 DEF Adopt, TypeOK, issued, Operations

LEMMA AdoptOne ==
    ASSUME TypeOK, NEW r, NEW others, NEW o \in Operations, NEW s \in Sessions,
           Adopt(r, others), r.effects = {<<o, s>>}
    PROVE  state' = r.state /\ calls' = others \cup {<<o, s>>} /\ Made(o, s)
<1>1. ASSUME NEW op \in Operations, NEW count \in [Sessions -> Nat]
      PROVE  Counted(count, op, {<<o, s>>})
                = IF o = op THEN [count EXCEPT ![s] = @ + 1] ELSE count
  BY DEF Counted, Operations
<1> QED
  <2>1. /\ state' = r.state
        /\ calls' = others \cup {<<o, s>>}
        /\ starts' = Counted(starts, "start", {<<o, s>>})
        /\ stops' = Counted(stops, "stop", {<<o, s>>})
        /\ inserts' = Counted(inserts, "insert", {<<o, s>>})
        /\ cancels' = Counted(cancels, "cancel", {<<o, s>>})
    BY DEF Adopt
  <2> QED
    BY <1>1, <2>1 DEF Made, Operations, TypeOK

-----------------------------------------------------------------------------
(* What the transitions return *)

Same(result, st) == result.state = st /\ result.effects = {}

\* The panel without a session, ready or with something to tell.
Rests(result, kinds) ==
    /\ result.state.kind \in kinds
    /\ result.state.session = NoSession

UndecidedMove(st, result) ==
    \/ Same(result, st)
    \/ /\ st.kind \in Undecided
       /\ result.state \in States
       /\ Rests(result, {"ready", "unavailable"})
       /\ result.effects = {}

GivenUpMove(st, result) ==
    \/ Same(result, st)
    \/ /\ st.kind \in Cancellable
       /\ result.state \in States
       /\ Rests(result, {"ready", "error"})
       /\ result.effects = {<<"cancel", st.session>>}

InsertedMove(st, s, result) ==
    IF st.kind = "inserting" /\ st.session = s
    THEN /\ result.state \in States
         /\ Rests(result, {"ready", "error"})
         /\ result.effects = {}
    ELSE Same(result, st)

\* A startup outcome or a dismissal moves only a panel without a session.
LEMMA StartupFailedRests ==
    ASSUME NEW st \in States
    PROVE  UndecidedMove(st, StartupFailed(st))
BY DEF StartupFailed, UndecidedMove, States, Plain, Result, Unchanged, Same, Rests

LEMMA StartupCompletedRests ==
    ASSUME NEW st \in States, NEW available \in BOOLEAN
    PROVE  UndecidedMove(st, StartupCompleted(st, available))
BY DEF StartupCompleted, UndecidedMove, States, Plain, Result, Unchanged, Same, Rests

LEMMA ErrorDismissedRests ==
    ASSUME NEW st \in States
    PROVE  UndecidedMove(st, ErrorDismissed(st))
BY DEF ErrorDismissed, UndecidedMove, States, Plain, Result, Unchanged, Same, Rests

\* The watchdog leaves the panel unavailable, if it was without an outcome.
LEMMA StartupFailedResult ==
    ASSUME NEW st \in States, st.kind \in Undecided
    PROVE  StartupFailed(st).state = Plain("unavailable")
BY DEF StartupFailed, Result

\* A press starts the session it offers or stops the recording.
LEMMA PressResults ==
    ASSUME NEW st \in States, NEW s \in MaybeSession
    PROVE  LET r == MicrophonePressed(st, s) IN
           \/ Same(r, st)
           \/ /\ st.kind = "ready"
              /\ s \in Sessions
              /\ r.state \in States
              /\ r.state.kind = "starting"
              /\ r.state.session = s
              /\ r.effects = {<<"start", s>>}
           \/ /\ st.kind = "recording"
              /\ r.state \in States
              /\ r.state.kind = "stopping"
              /\ r.state.session = st.session
              /\ r.effects = {<<"stop", st.session>>}
BY DEF MicrophonePressed, States, Active, Result, Unchanged, Same

\* A start or a stop that succeeds moves the panel that waits for it.
LEMMA ProgressResults ==
    ASSUME NEW st \in States, NEW s \in Sessions
    PROVE  /\ LET r == RecordingStarted(st, s) IN
              IF st.kind = "starting" /\ st.session = s
              THEN /\ r.state \in States
                   /\ r.state.kind = "recording"
                   /\ r.state.session = s
                   /\ r.effects = {}
              ELSE Same(r, st)
           /\ LET r == RecordingStopped(st, s) IN
              IF st.kind = "stopping" /\ st.session = s
              THEN /\ r.state \in States
                   /\ r.state.kind = "transcribing"
                   /\ r.state.session = s
                   /\ r.effects = {}
              ELSE Same(r, st)
BY DEF RecordingStarted, RecordingStopped, States, Active, Result, Unchanged, Same

\* A transcript is inserted or ends the session at once.
LEMMA TranscriptResults ==
    ASSUME NEW st \in States, NEW s \in Sessions, NEW text \in Texts
    PROVE  LET r == TranscriptReady(st, s, text) IN
           IF st.kind \in {"stopping", "transcribing"} /\ st.session = s
           THEN /\ r.state \in States
                /\ \/ /\ r.state.kind = "inserting"
                      /\ r.state.session = s
                      /\ r.effects = {<<"insert", s>>}
                   \/ Rests(r, {"ready", "error"}) /\ r.effects = {}
           ELSE Same(r, st)
BY DEF TranscriptReady, Texts, States, Active, Plain, Failed, Result, Unchanged,
       Same, Rests

\* The outcome of an insertion ends the session it belongs to.
LEMMA InsertionSucceededRests ==
    ASSUME NEW st \in States, NEW s \in Sessions
    PROVE  InsertedMove(st, s, InsertionSucceeded(st, s))
BY DEF InsertionSucceeded, InsertedMove, States, Plain, Result, Unchanged, Same, Rests

LEMMA InsertionFailedRests ==
    ASSUME NEW st \in States, NEW s \in Sessions
    PROVE  InsertedMove(st, s, InsertionFailed(st, s))
BY DEF InsertionFailed, InsertedMove, States, Failed, Result, Unchanged, Same, Rests

\* A cancel request or a failure gives the session up and cancels it.
LEMMA CancelRequestedRests ==
    ASSUME NEW st \in States
    PROVE  GivenUpMove(st, CancelRequested(st))
BY DEF CancelRequested, GivenUpMove, States, Plain, Result, Unchanged, Same, Rests

LEMMA SpeechFailedRests ==
    ASSUME NEW st \in States, NEW s \in MaybeSession, NEW fatal \in BOOLEAN
    PROVE  /\ GivenUpMove(st, SpeechFailed(st, s, fatal))
           /\ s \notin {NoSession, st.session} => Same(SpeechFailed(st, s, fatal), st)
BY DEF SpeechFailed, GivenUpMove, States, Failed, Result, Unchanged, Same, Rests

-----------------------------------------------------------------------------
(* The moves of the controller *)

\* The answer the panel waits for.
Awaits(c) ==
    /\ c[2] = state.session
    /\ <<state.kind, c[1]>> \in
            {<<"starting", "start">>, <<"stopping", "stop">>, <<"inserting", "insert">>}

\* Nothing the panel shows changes; an answer nobody waits for may go.
Quiet ==
    /\ state' = state
    /\ UNCHANGED issued
    /\ heard' = heard
    /\ calls' \subseteq calls
    /\ \A c \in calls \ calls' : ~Awaits(c)

\* A startup outcome, or an error that is dismissed.
Settles ==
    /\ state.kind \in Undecided
    /\ state'.kind \in {"ready", "unavailable"}
    /\ state'.session = NoSession
    /\ UNCHANGED <<calls, issued, heard>>

Begins(s) ==
    /\ state.kind = "ready"
    /\ starts[s] = 0
    /\ state'.kind = "starting"
    /\ state'.session = s
    /\ calls' = calls \cup {<<"start", s>>}
    /\ Made("start", s)
    /\ heard' = heard

Begun(s) ==
    /\ state.kind = "starting"
    /\ state.session = s
    /\ state'.kind = "recording"
    /\ state'.session = s
    /\ calls' = calls \ {<<"start", s>>}
    /\ UNCHANGED <<issued, heard>>

Stops(s) ==
    /\ state.kind = "recording"
    /\ state.session = s
    /\ state'.kind = "stopping"
    /\ state'.session = s
    /\ calls' = calls \cup {<<"stop", s>>}
    /\ Made("stop", s)
    /\ heard' = heard

Stopped(s) ==
    /\ state.kind = "stopping"
    /\ state.session = s
    /\ state'.kind = "transcribing"
    /\ state'.session = s
    /\ calls' = calls \ {<<"stop", s>>}
    /\ UNCHANGED <<issued, heard>>

Inserts(s) ==
    /\ state.kind \in {"stopping", "transcribing"}
    /\ state.session = s
    /\ state'.kind = "inserting"
    /\ state'.session = s
    /\ calls' = calls \cup {<<"insert", s>>}
    /\ Made("insert", s)
    /\ heard' = heard \cup {s}

\* A transcript with nothing to insert.
Finishes(s) ==
    /\ state.kind \in {"stopping", "transcribing"}
    /\ state.session = s
    /\ state'.kind \in {"ready", "error"}
    /\ state'.session = NoSession
    /\ heard' = heard \cup {s}
    /\ UNCHANGED <<calls, issued>>

Inserted(s) ==
    /\ state.kind = "inserting"
    /\ state.session = s
    /\ state'.kind \in {"ready", "error"}
    /\ state'.session = NoSession
    /\ calls' = calls \ {<<"insert", s>>}
    /\ UNCHANGED <<issued, heard>>

\* A cancel request, an error event, or the failure of the awaited call.
GivesUp(s) ==
    /\ state.kind \in Cancellable
    /\ state.session = s
    /\ state'.kind \in {"ready", "error"}
    /\ state'.session = NoSession
    /\ \E answered \in {{}, {<<"start", s>>}, {<<"stop", s>>}} :
            calls' = (calls \ answered) \cup {<<"cancel", s>>}
    /\ Made("cancel", s)
    /\ heard' = heard

\* dispose cancels what the panel still shows.
Closes(s) ==
    /\ state.session = s
    /\ ~disposed
    /\ disposed'
    /\ Made("cancel", s)
    /\ UNCHANGED <<state, calls, heard>>

SessionMove(s) ==
    \/ Begins(s) \/ Begun(s) \/ Stops(s) \/ Stopped(s) \/ Inserts(s)
    \/ Finishes(s) \/ Inserted(s) \/ GivesUp(s) \/ Closes(s)

Move ==
    /\ Quiet \/ Settles \/ \E s \in Sessions : SessionMove(s)
    /\ state' \in States
    /\ disposed => disposed'

\* What every handler leaves true besides its move.
Kept == disposed => disposed'

LEMMA SameMoves ==
    ASSUME TypeOK, NEW r, NEW others, Same(r, state), Adopt(r, others),
           others \subseteq calls, \A c \in calls \ others : ~Awaits(c),
           heard' = heard, Kept
    PROVE  Move
<1>1. state' = state /\ calls' = others /\ UNCHANGED issued
  BY AdoptNone DEF Same
<1>2. Quiet
  BY <1>1 DEF Quiet
<1> QED
  BY <1>1, <1>2 DEF TypeOK, Kept, Move

LEMMA UndecidedMoves ==
    ASSUME TypeOK, NEW r, UndecidedMove(state, r), Adopt(r, calls),
           heard' = heard, Kept
    PROVE  Move
<1>1. CASE Same(r, state)
  BY <1>1, SameMoves
<1>2. CASE ~Same(r, state)
  <2>1. state' = r.state /\ calls' = calls /\ UNCHANGED issued
    BY <1>2, AdoptNone DEF UndecidedMove
  <2>2. Settles /\ state' \in States
    BY <1>2, <2>1 DEF UndecidedMove, Rests, Settles
  <2> QED
    BY <2>2 DEF Kept, Move
<1> QED
  BY <1>1, <1>2

LEMMA GivenUpMoves ==
    ASSUME TypeOK, SessionShown, NEW r, NEW answered, GivenUpMove(state, r),
           ~Same(r, state), Adopt(r, calls \ answered),
           answered \in {{}, {<<"start", state.session>>}, {<<"stop", state.session>>}},
           heard' = heard, Kept
    PROVE  Move
<1>1. state.session \in Sessions
  BY DEF GivenUpMove, SessionShown, TypeOK, States
<1>2. /\ state' = r.state
      /\ calls' = (calls \ answered) \cup {<<"cancel", state.session>>}
      /\ Made("cancel", state.session)
  BY <1>1, AdoptOne DEF GivenUpMove, Operations
<1>3. GivesUp(state.session) /\ state' \in States
  BY <1>2 DEF GivenUpMove, Rests, GivesUp
<1> QED
  BY <1>1, <1>3 DEF Kept, Move, SessionMove

LEMMA GivenUpOrNotMoves ==
    ASSUME TypeOK, SessionShown, NEW r, GivenUpMove(state, r), Adopt(r, calls),
           heard' = heard, Kept
    PROVE  Move
<1>1. CASE Same(r, state)
  BY <1>1, SameMoves
<1>2. CASE ~Same(r, state)
  <2>1. Adopt(r, calls \ {})
    <3>1. calls \ {} = calls
      OBVIOUS
    <3> QED
      BY <3>1
  <2> QED
    BY <1>2, <2>1, GivenUpMoves
<1> QED
  BY <1>1, <1>2

LEMMA InsertedMoves ==
    ASSUME TypeOK, NEW r, NEW s \in Sessions, InsertedMove(state, s, r),
           Adopt(r, calls \ {<<"insert", s>>}), heard' = heard, Kept
    PROVE  Move
<1>1. CASE state.kind = "inserting" /\ state.session = s
  <2>1. state' = r.state /\ calls' = calls \ {<<"insert", s>>} /\ UNCHANGED issued
    BY <1>1, AdoptNone DEF InsertedMove
  <2>2. Inserted(s) /\ state' \in States
    BY <1>1, <2>1 DEF InsertedMove, Rests, Inserted
  <2> QED
    BY <2>2 DEF Kept, Move, SessionMove
<1>2. CASE ~(state.kind = "inserting" /\ state.session = s)
  <2>1. \A c \in calls \ (calls \ {<<"insert", s>>}) : ~Awaits(c)
    BY <1>2 DEF Awaits
  <2> QED
    BY <1>2, <2>1, SameMoves DEF InsertedMove
<1> QED
  BY <1>1, <1>2

LEMMA PressMoves == TypeOK /\ SessionShown /\ Press => Move
<1> SUFFICES ASSUME TypeOK, SessionShown, Press PROVE Move
  OBVIOUS
<1>1. state \in States /\ heard' = heard /\ Kept
  BY DEF TypeOK, Press, Kept
<1>2. ASSUME NEW s \in MaybeSession, Adopt(MicrophonePressed(state, s), calls),
             state.kind = "ready" => s \in Sessions /\ starts[s] = 0
      PROVE  Move
  <2> DEFINE r == MicrophonePressed(state, s)
  <2>0. Adopt(r, calls)
    BY <1>2
  <2>1. CASE Same(r, state)
    BY <1>1, <2>0, <2>1, SameMoves
  <2>2. CASE ~Same(r, state) /\ state.kind = "ready"
    <3>1. /\ s \in Sessions
          /\ r.state \in States
          /\ r.state.kind = "starting"
          /\ r.state.session = s
          /\ r.effects = {<<"start", s>>}
      BY <1>1, <2>2, PressResults
    <3> HIDE DEF r
    <3>2. state' = r.state /\ calls' = calls \cup {<<"start", s>>} /\ Made("start", s)
      BY <2>0, <3>1, AdoptOne DEF Operations
    <3>3. Begins(s) /\ state' \in States
      BY <1>1, <1>2, <2>2, <3>1, <3>2 DEF Begins
    <3> QED
      BY <1>1, <3>1, <3>3 DEF Kept, Move, SessionMove
  <2>3. CASE ~Same(r, state) /\ state.kind # "ready"
    <3>1. /\ state.kind = "recording"
          /\ r.state \in States
          /\ r.state.kind = "stopping"
          /\ r.state.session = state.session
          /\ r.effects = {<<"stop", state.session>>}
      BY <1>1, <2>3, PressResults
    <3>2. state.session \in Sessions
      BY <1>1, <3>1 DEF SessionShown, States
    <3> HIDE DEF r
    <3>3. /\ state' = r.state
          /\ calls' = calls \cup {<<"stop", state.session>>}
          /\ Made("stop", state.session)
      BY <2>0, <3>1, <3>2, AdoptOne DEF Operations
    <3>4. Stops(state.session) /\ state' \in States
      BY <1>1, <3>1, <3>3 DEF Stops
    <3> QED
      BY <1>1, <3>2, <3>4 DEF Kept, Move, SessionMove
  <2> QED
    BY <2>1, <2>2, <2>3
<1> QED
  BY <1>2 DEF Press

LEMMA SuccessMoves ==
    ASSUME TypeOK, SessionShown, NEW op \in Operations, NEW s \in Sessions,
           CallSucceeds(op, s)
    PROVE  Move
<1>1. state \in States /\ heard' = heard /\ Kept
  BY DEF TypeOK, CallSucceeds, Kept
<1>2. CASE op = "start"
  <2> DEFINE r == RecordingStarted(state, s)
  <2>1. Adopt(r, calls \ {<<"start", s>>})
    BY <1>2 DEF CallSucceeds, SuccessOf
  <2>2. CASE state.kind = "starting" /\ state.session = s
    <3>1. /\ r.state \in States /\ r.state.kind = "recording"
          /\ r.state.session = s /\ r.effects = {}
      BY <1>1, <2>2, ProgressResults
    <3> HIDE DEF r
    <3>2. state' = r.state /\ calls' = calls \ {<<"start", s>>} /\ UNCHANGED issued
      BY <2>1, <3>1, AdoptNone
    <3>3. Begun(s) /\ state' \in States
      BY <1>1, <2>2, <3>1, <3>2 DEF Begun
    <3> QED
      BY <1>1, <3>3 DEF Kept, Move, SessionMove
  <2>3. CASE ~(state.kind = "starting" /\ state.session = s)
    <3>1. Same(r, state)
      BY <1>1, <2>3, ProgressResults
    <3>2. \A c \in calls \ (calls \ {<<"start", s>>}) : ~Awaits(c)
      BY <2>3 DEF Awaits
    <3> QED
      BY <1>1, <2>1, <3>1, <3>2, SameMoves
  <2> QED
    BY <2>2, <2>3
<1>3. CASE op = "stop"
  <2> DEFINE r == RecordingStopped(state, s)
  <2>1. Adopt(r, calls \ {<<"stop", s>>})
    BY <1>3 DEF CallSucceeds, SuccessOf
  <2>2. CASE state.kind = "stopping" /\ state.session = s
    <3>1. /\ r.state \in States /\ r.state.kind = "transcribing"
          /\ r.state.session = s /\ r.effects = {}
      BY <1>1, <2>2, ProgressResults
    <3> HIDE DEF r
    <3>2. state' = r.state /\ calls' = calls \ {<<"stop", s>>} /\ UNCHANGED issued
      BY <2>1, <3>1, AdoptNone
    <3>3. Stopped(s) /\ state' \in States
      BY <1>1, <2>2, <3>1, <3>2 DEF Stopped
    <3> QED
      BY <1>1, <3>3 DEF Kept, Move, SessionMove
  <2>3. CASE ~(state.kind = "stopping" /\ state.session = s)
    <3>1. Same(r, state)
      BY <1>1, <2>3, ProgressResults
    <3>2. \A c \in calls \ (calls \ {<<"stop", s>>}) : ~Awaits(c)
      BY <2>3 DEF Awaits
    <3> QED
      BY <1>1, <2>1, <3>1, <3>2, SameMoves
  <2> QED
    BY <2>2, <2>3
<1>4. CASE op = "insert"
  <2>1. Adopt(InsertionSucceeded(state, s), calls \ {<<"insert", s>>})
    BY <1>4 DEF CallSucceeds, SuccessOf
  <2> QED
    BY <1>1, <2>1, InsertionSucceededRests, InsertedMoves
<1>5. CASE op = "cancel"
  <2>1. Adopt(Unchanged(state), calls \ {<<"cancel", s>>}) /\ Same(Unchanged(state), state)
    BY <1>5 DEF CallSucceeds, SuccessOf, Unchanged, Result, Same
  <2>2. \A c \in calls \ (calls \ {<<"cancel", s>>}) : ~Awaits(c)
    BY DEF Awaits
  <2> QED
    BY <1>1, <2>1, <2>2, SameMoves
<1> QED
  BY <1>2, <1>3, <1>4, <1>5 DEF Operations

LEMMA FailureMoves ==
    ASSUME TypeOK, SessionShown, NEW op \in Operations, NEW s \in Sessions,
           NEW fatal \in BOOLEAN, CallFails(op, s, fatal)
    PROVE  Move
<1>1. state \in States /\ heard' = heard /\ Kept
  BY DEF TypeOK, CallFails, Kept
<1>2. CASE op \in {"start", "stop"}
  <2> DEFINE r == SpeechFailed(state, s, fatal)
  <2>1. Adopt(r, calls \ {<<op, s>>})
    BY <1>2 DEF CallFails, FailureOf
  <2>2. CASE Same(r, state)
    <3>1. ~Awaits(<<op, s>>)
      BY <1>2, <2>2 DEF Awaits, SpeechFailed, Result, Failed, Same
    <3>2. \A c \in calls \ (calls \ {<<op, s>>}) : ~Awaits(c)
      BY <3>1
    <3> QED
      BY <1>1, <2>1, <2>2, <3>2, SameMoves
  <2>3. CASE ~Same(r, state)
    <3>1. GivenUpMove(state, r) /\ s = state.session
      BY <1>1, <2>3, SpeechFailedRests
    <3>2. {<<op, s>>} \in {{}, {<<"start", state.session>>}, {<<"stop", state.session>>}}
      BY <1>2, <3>1
    <3> HIDE DEF r
    <3> QED
      BY <1>1, <2>1, <2>3, <3>1, <3>2, GivenUpMoves
  <2> QED
    BY <2>2, <2>3
<1>3. CASE op = "insert"
  <2>1. Adopt(InsertionFailed(state, s), calls \ {<<"insert", s>>})
    BY <1>3 DEF CallFails, FailureOf
  <2> QED
    BY <1>1, <2>1, InsertionFailedRests, InsertedMoves
<1>4. CASE op = "cancel"
  <2>1. Adopt(Unchanged(state), calls \ {<<"cancel", s>>}) /\ Same(Unchanged(state), state)
    BY <1>4 DEF CallFails, FailureOf, Unchanged, Result, Same
  <2>2. \A c \in calls \ (calls \ {<<"cancel", s>>}) : ~Awaits(c)
    BY DEF Awaits
  <2> QED
    BY <1>1, <2>1, <2>2, SameMoves
<1> QED
  BY <1>2, <1>3, <1>4 DEF Operations

LEMMA TranscriptMoves ==
    ASSUME TypeOK, NEW s \in Sessions, NEW text \in Texts, TranscriptArrives(s, text)
    PROVE  Move
<1> DEFINE r == TranscriptReady(state, s, text)
<1>1. state \in States /\ state.session = s /\ Kept /\ Adopt(r, calls)
  BY DEF TypeOK, TranscriptArrives, Kept
<1>2. state' = r.state
  BY <1>1 DEF Adopt
<1>3. heard' = IF r.state # state THEN heard \cup {s} ELSE heard
  BY <1>2 DEF TranscriptArrives
<1>4. CASE state.kind \in {"stopping", "transcribing"}
  <2>1. /\ r.state \in States
        /\ \/ /\ r.state.kind = "inserting"
              /\ r.state.session = s
              /\ r.effects = {<<"insert", s>>}
           \/ Rests(r, {"ready", "error"}) /\ r.effects = {}
    BY <1>1, <1>4, TranscriptResults
  <2> HIDE DEF r
  <2>2. heard' = heard \cup {s}
    BY <1>3, <1>4, <2>1 DEF Rests
  <2>3. CASE r.effects = {<<"insert", s>>}
    <3>1. calls' = calls \cup {<<"insert", s>>} /\ Made("insert", s)
      BY <1>1, <2>3, AdoptOne DEF Operations
    <3>2. Inserts(s)
      BY <1>1, <1>2, <1>4, <2>1, <2>2, <2>3, <3>1 DEF Inserts
    <3> QED
      BY <1>1, <1>2, <2>1, <3>2 DEF Kept, Move, SessionMove
  <2>4. CASE r.effects = {}
    <3>1. calls' = calls /\ UNCHANGED issued
      BY <1>1, <2>4, AdoptNone
    <3>2. Finishes(s)
      BY <1>1, <1>2, <1>4, <2>1, <2>2, <2>4, <3>1 DEF Finishes, Rests
    <3> QED
      BY <1>1, <1>2, <2>1, <3>2 DEF Kept, Move, SessionMove
  <2> QED
    BY <2>1, <2>3, <2>4
<1>5. CASE state.kind \notin {"stopping", "transcribing"}
  <2>1. Same(r, state)
    BY <1>1, <1>5, TranscriptResults
  <2>2. heard' = heard
    BY <1>3, <2>1 DEF Same
  <2> QED
    BY <1>1, <2>1, <2>2, SameMoves
<1> QED
  BY <1>4, <1>5

\* Every handler makes one of the moves.
LEMMA EveryStepMoves ==
    ASSUME TypeOK, SessionShown, [Next]_vars
    PROVE  Move
<1>0. state \in States /\ state.session \in MaybeSession
  BY DEF TypeOK, States
<1>1. CASE Start \/ SettingsLoaded
  BY <1>0, <1>1 DEF Start, SettingsLoaded, Move, Quiet
<1>2. CASE StartupFails \/ WatchdogExpires
  <2>1. heard' = heard /\ Kept
    BY <1>2 DEF StartupFails, WatchdogExpires, Kept
  <2>2. CASE watchdog = "expired" /\ StartupFails
    BY <1>0, <2>2 DEF StartupFails, StartupOutcome, Move, Quiet
  <2>3. CASE ~(watchdog = "expired" /\ StartupFails)
    <3>1. Adopt(StartupFailed(state), calls)
      BY <1>2, <2>3 DEF StartupFails, WatchdogExpires, StartupOutcome
    <3> QED
      BY <1>0, <2>1, <3>1, StartupFailedRests, UndecidedMoves
  <2> QED
    BY <2>2, <2>3
<1>3. ASSUME NEW available \in BOOLEAN, StartupCompletes(available)
      PROVE  Move
  <2>1. CASE watchdog = "expired"
    BY <1>0, <1>3, <2>1 DEF StartupCompletes, StartupOutcome, Move, Quiet
  <2>2. CASE watchdog # "expired"
    <3>1. heard' = heard /\ Kept /\ Adopt(StartupCompleted(state, available), calls)
      BY <1>3, <2>2 DEF StartupCompletes, StartupOutcome, Kept
    <3> QED
      BY <1>0, <3>1, StartupCompletedRests, UndecidedMoves
  <2> QED
    BY <2>1, <2>2
<1>4. CASE Press
  BY <1>4, PressMoves
<1>5. CASE RequestCancel
  <2>1. heard' = heard /\ Kept /\ Adopt(CancelRequested(state), calls)
    BY <1>5 DEF RequestCancel, Kept
  <2> QED
    BY <1>0, <2>1, CancelRequestedRests, GivenUpOrNotMoves
<1>6. CASE DismissError \/ RuntimeReady
  <2>1. heard' = heard /\ Kept /\ Adopt(ErrorDismissed(state), calls)
    BY <1>6 DEF DismissError, RuntimeReady, Kept
  <2> QED
    BY <1>0, <2>1, ErrorDismissedRests, UndecidedMoves
<1>7. ASSUME NEW c \in Calls, CallAnswered(c[1], c[2])
      PROVE  Move
  BY <1>7, CallPairs, SuccessMoves, FailureMoves DEF CallAnswered
<1>8. ASSUME NEW s \in Sessions, NEW text \in Texts, TranscriptArrives(s, text)
      PROVE  Move
  BY <1>8, TranscriptMoves
<1>9. ASSUME NEW fatal \in BOOLEAN, heard' = heard, Kept,
             Adopt(SpeechFailed(state, state.session, fatal), calls)
      PROVE  Move
  BY <1>0, <1>9, SpeechFailedRests, GivenUpOrNotMoves
<1>10. CASE RuntimeCrashes \/ \E s \in MaybeSession, fatal \in BOOLEAN : ErrorArrives(s, fatal)
  BY <1>9, <1>10 DEF RuntimeCrashes, ErrorArrives, Kept
<1>11. CASE Dispose
  BY <1>0, <1>11 DEF Dispose, Made, Move, SessionMove, Quiet, Closes
<1>12. CASE DisposeReturns \/ UNCHANGED vars
  BY <1>0, <1>12 DEF DisposeReturns, Move, Quiet
<1> QED
  BY <1>1, <1>2, <1>3, <1>4, <1>5, <1>6, <1>7, <1>8, <1>10, <1>11, <1>12 DEF Next

-----------------------------------------------------------------------------
(* ControllerInvariant is inductive: one lemma for each of its parts *)

\* Every move keeps the types.
LEMMA TypeStep == TypeOK /\ SessionShown /\ [Next]_vars => TypeOK'
<1> SUFFICES ASSUME TypeOK, SessionShown, [Next]_vars PROVE TypeOK'
  OBVIOUS
<1>1. Move
  BY EveryStepMoves
<1>2. startPc' \in {"idle", "settings", "initialize", "done"}
  BY DEF TypeOK, Next, Start, SettingsLoaded, StartupFails, WatchdogExpires,
         StartupCompletes, StartupOutcome, Press, RequestCancel, DismissError,
         CallAnswered, CallSucceeds, CallFails, TranscriptArrives, ErrorArrives,
         RuntimeCrashes, RuntimeReady, Dispose, DisposeReturns
<1>3. watchdog' \in {"off", "armed", "expired"}
  BY DEF TypeOK, Next, Start, SettingsLoaded, StartupFails, WatchdogExpires,
         StartupCompletes, StartupOutcome, Press, RequestCancel, DismissError,
         CallAnswered, CallSucceeds, CallFails, TranscriptArrives, ErrorArrives,
         RuntimeCrashes, RuntimeReady, Dispose, DisposeReturns
<1>4. disposePc' \in {"idle", "cancelling", "done"}
  BY DEF TypeOK, Next, Start, SettingsLoaded, StartupFails, WatchdogExpires,
         StartupCompletes, StartupOutcome, Press, RequestCancel, DismissError,
         CallAnswered, CallSucceeds, CallFails, TranscriptArrives, ErrorArrives,
         RuntimeCrashes, RuntimeReady, Dispose, DisposeReturns
<1>5. /\ calls' \subseteq Calls
      /\ heard' \subseteq Sessions
      /\ starts' \in [Sessions -> Nat]
      /\ stops' \in [Sessions -> Nat]
      /\ inserts' \in [Sessions -> Nat]
      /\ cancels' \in [Sessions -> Nat]
  BY <1>1, CallPairs DEF TypeOK, Operations, Move, Quiet, Settles, SessionMove, Made,
     Begins, Begun, Stops, Stopped, Inserts, Finishes, Inserted, GivesUp, Closes
<1> QED
  BY <1>1, <1>2, <1>3, <1>4, <1>5 DEF Move, TypeOK

\* A state has a session exactly while it is busy.
LEMMA ShownStep == TypeOK /\ SessionShown /\ [Next]_vars => SessionShown'
<1> SUFFICES ASSUME TypeOK, SessionShown, [Next]_vars PROVE SessionShown'
  OBVIOUS
<1>1. Move
  BY EveryStepMoves
<1> QED
  BY <1>1 DEF SessionShown, Move, SessionMove, Quiet, Settles, Begins, Begun, Stops,
     Stopped, Inserts, Finishes, Inserted, GivesUp, Closes

\* A panel that is booting or unavailable is moved by a startup outcome only.
LEMMA UndecidedStays ==
    ASSUME TypeOK, SessionShown, [Next]_vars, state.kind \in {"booting", "unavailable"},
           \A available \in BOOLEAN : ~StartupCompletes(available), ~StartupFails,
           ~WatchdogExpires
    PROVE  state' = state
<1>1. state.kind \in {"booting", "unavailable"} /\ state.session = NoSession
  BY DEF SessionShown, TypeOK, States
<1>2. CASE Press
  BY <1>1, <1>2 DEF Press
<1>3. CASE RequestCancel
  BY <1>1, <1>3 DEF RequestCancel, CancelRequested, Unchanged, Result, Adopt
<1>4. CASE DismissError
  BY <1>1, <1>4 DEF DismissError, ErrorDismissed, Unchanged, Result, Adopt
<1>5. ASSUME NEW op \in Operations, NEW s \in Sessions, CallSucceeds(op, s)
      PROVE  state' = state
  <2>1. SuccessOf(op, s) = Unchanged(state)
    BY <1>1 DEF SuccessOf, RecordingStarted, RecordingStopped, InsertionSucceeded,
       Operations
  <2> QED
    BY <1>5, <2>1 DEF CallSucceeds, Adopt, Unchanged, Result
<1>6. ASSUME NEW op \in Operations, NEW s \in Sessions, NEW fatal \in BOOLEAN,
             CallFails(op, s, fatal)
      PROVE  state' = state
  <2>1. FailureOf(op, s, fatal) = Unchanged(state)
    BY <1>1 DEF FailureOf, SpeechFailed, InsertionFailed, Operations
  <2> QED
    BY <1>6, <2>1 DEF CallFails, Adopt, Unchanged, Result
<1>7. ASSUME NEW c \in Calls, CallAnswered(c[1], c[2])
      PROVE  state' = state
  BY <1>5, <1>6, <1>7, CallPairs DEF CallAnswered
<1>8. CASE \/ \E s \in Sessions, text \in Texts : TranscriptArrives(s, text)
           \/ \E s \in MaybeSession, fatal \in BOOLEAN : ErrorArrives(s, fatal)
           \/ RuntimeCrashes \/ RuntimeReady
  BY <1>1, <1>8 DEF TranscriptArrives, ErrorArrives, RuntimeCrashes, RuntimeReady
<1>9. CASE Start \/ SettingsLoaded \/ Dispose \/ DisposeReturns \/ UNCHANGED vars
  BY <1>9 DEF Start, SettingsLoaded, Dispose, DisposeReturns
<1> QED
  BY <1>2, <1>3, <1>4, <1>7, <1>8, <1>9 DEF Next

\* Nothing leads back to booting, and no call is made before it is left.
LEMMA BootingStep == ControllerInvariant /\ [Next]_vars => BootingIsFirst'
<1> SUFFICES ASSUME ControllerInvariant, [Next]_vars PROVE BootingIsFirst'
  OBVIOUS
<1>1. Move
  BY EveryStepMoves DEF ControllerInvariant
<1>2. state'.kind = "booting" => state' = state /\ starts' = starts
  BY <1>1 DEF ControllerInvariant, SessionShown, Move, SessionMove, Quiet, Settles,
     Begins, Begun, Stops, Stopped, Inserts, Finishes, Inserted, GivesUp, Closes, Made
<1>3. startPc' = "idle" => startPc = "idle" /\ watchdog' = watchdog
  BY DEF ControllerInvariant, BootingIsFirst, Next, Start, SettingsLoaded, StartupFails,
         WatchdogExpires, StartupCompletes, StartupOutcome, Press, RequestCancel,
         DismissError, CallAnswered, CallSucceeds, CallFails, TranscriptArrives,
         ErrorArrives, RuntimeCrashes, RuntimeReady, Dispose, DisposeReturns
<1>4. CASE \/ WatchdogExpires \/ StartupFails \/ Dispose
           \/ \E available \in BOOLEAN : StartupCompletes(available)
  BY <1>2, <1>3, <1>4 DEF ControllerInvariant, BootingIsFirst, WatchdogExpires,
     StartupFails, StartupCompletes, StartupOutcome, Dispose
<1>5. CASE ~(\/ WatchdogExpires \/ StartupFails \/ Dispose
             \/ \E available \in BOOLEAN : StartupCompletes(available))
  <2>1. state.kind = "booting" => state' = state
    BY <1>5, UndecidedStays DEF ControllerInvariant
  <2>2. CASE Start
    BY <1>2, <2>1, <2>2 DEF Start, ControllerInvariant, BootingIsFirst
  <2>3. watchdog' = watchdog \/ Start
    BY <1>5 DEF Next, SettingsLoaded, Press, RequestCancel, DismissError,
       CallAnswered, CallSucceeds, CallFails, TranscriptArrives, ErrorArrives,
       RuntimeCrashes, RuntimeReady, DisposeReturns
  <2> QED
    BY <1>2, <1>3, <2>1, <2>2, <2>3 DEF ControllerInvariant, BootingIsFirst
<1> QED
  BY <1>4, <1>5

\* What the invariant says of one session.
Safe(s) ==
    /\ state.session = s =>
            /\ starts[s] = 1
            /\ stops[s] = IF state.kind \in {"starting", "recording"} THEN 0 ELSE 1
            /\ inserts[s] = IF state.kind = "inserting" THEN 1 ELSE 0
            /\ cancels[s] <= IF disposed THEN 1 ELSE 0
            /\ <<"start", s>> \in calls => state.kind = "starting"
            /\ state.kind = "inserting" => s \in heard
    /\ starts[s] = 0 =>
            /\ stops[s] = 0 /\ inserts[s] = 0 /\ cancels[s] = 0
            /\ \A op \in Operations : <<op, s>> \notin calls
    /\ starts[s] <= 1 /\ stops[s] <= 1 /\ inserts[s] <= 1
    /\ cancels[s] <= IF disposed THEN 2 ELSE 1
    /\ stops[s] > 0 => <<"start", s>> \notin calls
    /\ inserts[s] > 0 => stops[s] > 0
    /\ starts[s] > 0 /\ state.session # s => s \in heard \/ cancels[s] > 0

LEMMA SafeSessions ==
    (\A s \in Sessions : Safe(s))
        <=> /\ SessionProgress /\ UnstartedUntouched /\ CallsMadeOnce
            /\ CallsInOrder /\ SessionsClosed
<1>1. (\A s \in Sessions : Safe(s)) => SessionProgress /\ UnstartedUntouched
  BY DEF Safe, SessionProgress, UnstartedUntouched
<1>2. (\A s \in Sessions : Safe(s)) => CallsMadeOnce /\ CallsInOrder /\ SessionsClosed
  BY DEF Safe, CallsMadeOnce, CallsInOrder, SessionsClosed
<1>3. ASSUME SessionProgress, UnstartedUntouched, CallsMadeOnce, CallsInOrder,
             SessionsClosed, NEW s \in Sessions
      PROVE  Safe(s)
  BY <1>3 DEF Safe, SessionProgress, UnstartedUntouched, CallsMadeOnce, CallsInOrder,
     SessionsClosed
<1> QED
  BY <1>1, <1>2, <1>3

\* The same after a step.
LEMMA SafeSessionsNext ==
    ASSUME \A s \in Sessions : Safe(s)'
    PROVE  /\ SessionProgress' /\ UnstartedUntouched' /\ CallsMadeOnce'
           /\ CallsInOrder' /\ SessionsClosed'
<1>1. SessionProgress' /\ UnstartedUntouched'
  BY DEF Safe, SessionProgress, UnstartedUntouched
<1>2. CallsMadeOnce' /\ CallsInOrder' /\ SessionsClosed'
  BY DEF Safe, CallsMadeOnce, CallsInOrder, SessionsClosed
<1> QED
  BY <1>1, <1>2

\* The move of a session does not touch what the invariant says of another.
LEMMA OthersStaySafe ==
    ASSUME TypeOK, SessionShown, NEW s \in Sessions, SessionMove(s), Kept,
           NEW r \in Sessions, r # s, Safe(r)
    PROVE  Safe(r)'
<1>1. state.session \in {s, NoSession} /\ state'.session \in {s, NoSession}
  BY DEF SessionShown, SessionMove, Begins, Begun, Stops, Stopped, Inserts, Finishes,
     Inserted, GivesUp, Closes
<1>2. /\ starts'[r] = starts[r] /\ stops'[r] = stops[r]
      /\ inserts'[r] = inserts[r] /\ cancels'[r] = cancels[r]
  BY DEF TypeOK, Made, SessionMove, Begins, Begun, Stops, Stopped, Inserts, Finishes,
     Inserted, GivesUp, Closes
<1>3. \A op \in Operations : <<op, r>> \in calls' <=> <<op, r>> \in calls
  BY DEF SessionMove, Begins, Begun, Stops, Stopped, Inserts, Finishes, Inserted,
     GivesUp, Closes
<1>4. heard \subseteq heard'
  BY DEF SessionMove, Begins, Begun, Stops, Stopped, Inserts, Finishes, Inserted,
     GivesUp, Closes
<1>5. cancels[r] \in Nat
  BY DEF TypeOK
<1> QED
  BY <1>1, <1>2, <1>3, <1>4, <1>5 DEF Safe, Kept, Operations

\* Each move keeps what the invariant says of its own session.
LEMMA OwnStaysSafe ==
    ASSUME TypeOK, SessionShown, WaitsForAnswer, NEW s \in Sessions, SessionMove(s),
           Kept, Safe(s)
    PROVE  Safe(s)'
<1>1. /\ starts[s] \in Nat /\ stops[s] \in Nat
      /\ inserts[s] \in Nat /\ cancels[s] \in Nat
  BY DEF TypeOK
<1>2. /\ starts'[s] = IF Begins(s) THEN starts[s] + 1 ELSE starts[s]
      /\ stops'[s] = IF Stops(s) THEN stops[s] + 1 ELSE stops[s]
      /\ inserts'[s] = IF Inserts(s) THEN inserts[s] + 1 ELSE inserts[s]
      /\ cancels'[s] = IF GivesUp(s) \/ Closes(s) THEN cancels[s] + 1 ELSE cancels[s]
  BY DEF TypeOK, Made, SessionMove, Begins, Begun, Stops, Stopped, Inserts, Finishes,
     Inserted, GivesUp, Closes
<1>3. CASE Begins(s)
  BY <1>1, <1>2, <1>3
     DEF Begins, Made, TypeOK, Safe, SessionShown, WaitsForAnswer, Kept, Operations
<1>4. CASE Begun(s)
  BY <1>1, <1>2, <1>4
     DEF Begun, Made, TypeOK, Safe, SessionShown, WaitsForAnswer, Kept, Operations
<1>5. CASE Stops(s)
  BY <1>1, <1>2, <1>5
     DEF Stops, Made, TypeOK, Safe, SessionShown, WaitsForAnswer, Kept, Operations
<1>6. CASE Stopped(s)
  BY <1>1, <1>2, <1>6
     DEF Stopped, Made, TypeOK, Safe, SessionShown, WaitsForAnswer, Kept, Operations
<1>7. CASE Inserts(s)
  BY <1>1, <1>2, <1>7
     DEF Inserts, Made, TypeOK, Safe, SessionShown, WaitsForAnswer, Kept, Operations
<1>8. CASE Finishes(s)
  <2>1. /\ state'.session # s /\ s \in heard' /\ calls' = calls
        /\ starts'[s] = starts[s] /\ stops'[s] = stops[s]
        /\ inserts'[s] = inserts[s] /\ cancels'[s] = cancels[s]
    BY <1>8 DEF Finishes
  <2> QED
    BY <1>1, <2>1 DEF Safe, Kept
<1>9. CASE Inserted(s)
  <2>1. /\ state.session = s /\ state.kind = "inserting" /\ state'.session # s
        /\ calls' = calls \ {<<"insert", s>>} /\ heard' = heard
        /\ starts'[s] = starts[s] /\ stops'[s] = stops[s]
        /\ inserts'[s] = inserts[s] /\ cancels'[s] = cancels[s]
    BY <1>9 DEF Inserted
  <2> QED
    BY <1>1, <2>1 DEF Safe, Kept
<1>10. CASE GivesUp(s)
  BY <1>1, <1>2, <1>10
     DEF GivesUp, Made, TypeOK, Safe, SessionShown, WaitsForAnswer, Kept, Operations
<1>11. CASE Closes(s)
  BY <1>1, <1>2, <1>11
     DEF Closes, Made, TypeOK, Safe, SessionShown, WaitsForAnswer, Kept, Operations
<1> QED
  BY <1>3, <1>4, <1>5, <1>6, <1>7, <1>8, <1>9, <1>10, <1>11 DEF SessionMove

\* The parts of the invariant about the sessions survive every step.
LEMMA SessionsStaySafe ==
    ASSUME ControllerInvariant, [Next]_vars
    PROVE  \A r \in Sessions : Safe(r)'
<1>1. Move /\ Kept /\ TypeOK /\ SessionShown /\ WaitsForAnswer
  BY EveryStepMoves DEF ControllerInvariant, Move, Kept
<1>2. \A r \in Sessions : Safe(r)
  BY SafeSessions DEF ControllerInvariant
<1>3. CASE Quiet \/ Settles
  <2>1. /\ UNCHANGED issued /\ calls' \subseteq calls /\ heard' = heard
        /\ state' = state \/ (state.session = NoSession /\ state'.session = NoSession)
    BY <1>1, <1>3 DEF Quiet, Settles, SessionShown
  <2>2. \A r \in Sessions : cancels[r] \in Nat
    BY <1>1 DEF TypeOK
  <2>3. ASSUME NEW r \in Sessions PROVE Safe(r)'
    <3>1. /\ starts'[r] = starts[r] /\ stops'[r] = stops[r]
          /\ inserts'[r] = inserts[r] /\ cancels'[r] = cancels[r]
          /\ \A op \in Operations : <<op, r>> \in calls' => <<op, r>> \in calls
      BY <2>1
    <3>2. CASE state' = state
      BY <1>1, <1>2, <2>1, <2>2, <3>1, <3>2 DEF Safe, Kept, Operations
    <3>3. CASE state.session = NoSession /\ state'.session = NoSession
      BY <1>1, <1>2, <2>1, <2>2, <3>1, <3>3 DEF Safe, Kept, Operations
    <3> QED
      BY <2>1, <3>2, <3>3
  <2> QED
    BY <2>3
<1>4. ASSUME NEW s \in Sessions, SessionMove(s)
      PROVE  \A r \in Sessions : Safe(r)'
  BY <1>1, <1>2, <1>4, OthersStaySafe, OwnStaysSafe
<1> QED
  BY <1>1, <1>3, <1>4 DEF Move

\* The awaited call leaves the set only together with the state that waits for it.
LEMMA WaitsStep == ControllerInvariant /\ [Next]_vars => WaitsForAnswer'
<1> SUFFICES ASSUME ControllerInvariant, [Next]_vars PROVE WaitsForAnswer'
  OBVIOUS
<1>1. Move
  BY EveryStepMoves DEF ControllerInvariant
<1>2. CASE Quiet \/ Settles
  BY <1>2 DEF ControllerInvariant, WaitsForAnswer, Quiet, Settles, Awaits
<1>3. ASSUME NEW s \in Sessions, SessionMove(s)
      PROVE  WaitsForAnswer'
  BY <1>3 DEF ControllerInvariant, WaitsForAnswer, SessionMove, Begins, Begun, Stops,
     Stopped, Inserts, Finishes, Inserted, GivesUp, Closes
<1> QED
  BY <1>1, <1>2, <1>3 DEF Move

\* After the watchdog has reported, no outcome, press or event changes the state.
LEMMA StartupStep == ControllerInvariant /\ [Next]_vars => StartupDecidedOnce'
<1> SUFFICES ASSUME ControllerInvariant, [Next]_vars PROVE StartupDecidedOnce'
  OBVIOUS
<1>0. /\ TypeOK /\ SessionShown /\ StartupDecidedOnce /\ BootingIsFirst
      /\ state \in States
  BY DEF ControllerInvariant, TypeOK
<1>1. CASE WatchdogExpires
  <2>1. state.kind = "booting"
    BY <1>0, <1>1 DEF WatchdogExpires, BootingIsFirst
  <2>2. state' = Plain("unavailable")
    BY <1>0, <1>1, <2>1, StartupFailedResult DEF WatchdogExpires, Adopt
  <2> QED
    BY <2>2 DEF StartupDecidedOnce, Plain
<1>2. CASE StartupFails \/ \E available \in BOOLEAN : StartupCompletes(available)
  <2>1. CASE watchdog = "expired"
    BY <1>0, <1>2, <2>1 DEF StartupFails, StartupCompletes, StartupOutcome,
       StartupDecidedOnce, Plain
  <2>2. CASE watchdog # "expired"
    <3>1. watchdog' # "expired"
      BY <1>2, <2>2 DEF StartupFails, StartupCompletes, StartupOutcome
    <3>2. StartupFailed(state).state.kind # "booting"
      BY DEF StartupFailed, Plain, Result, Unchanged
    <3>3. \A available \in BOOLEAN : StartupCompleted(state, available).state.kind # "booting"
      BY DEF StartupCompleted, Plain, Result, Unchanged
    <3>4. state'.kind # "booting"
      BY <1>2, <2>2, <3>2, <3>3 DEF StartupFails, StartupCompletes, StartupOutcome, Adopt
    <3> QED
      BY <3>1, <3>4 DEF StartupDecidedOnce
  <2> QED
    BY <2>1, <2>2
<1>3. CASE ~WatchdogExpires /\ ~StartupFails
           /\ \A available \in BOOLEAN : ~StartupCompletes(available)
  <2>1. watchdog' = "expired" => watchdog = "expired"
    BY <1>3 DEF Next, Start, SettingsLoaded, Press, RequestCancel, DismissError,
       CallAnswered, CallSucceeds, CallFails, TranscriptArrives, ErrorArrives,
       RuntimeCrashes, RuntimeReady, Dispose, DisposeReturns
  <2>2. startPc' = "done" => startPc = "done"
    BY <1>3 DEF Next, Start, SettingsLoaded, Press, RequestCancel, DismissError,
       CallAnswered, CallSucceeds, CallFails, TranscriptArrives, ErrorArrives,
       RuntimeCrashes, RuntimeReady, Dispose, DisposeReturns
  <2>3. watchdog = "expired" => state.kind = "unavailable"
    BY <1>0 DEF StartupDecidedOnce, Plain
  <2>4. watchdog = "expired" => state' = state
    BY <1>0, <1>3, <2>3, UndecidedStays
  <2>5. state'.kind = "booting" => state.kind = "booting"
    BY <1>0, EveryStepMoves DEF Move, SessionMove, Quiet, Settles, Begins, Begun, Stops,
       Stopped, Inserts, Finishes, Inserted, GivesUp, Closes
  <2> QED
    BY <1>0, <2>1, <2>2, <2>4, <2>5 DEF StartupDecidedOnce
<1> QED
  BY <1>1, <1>2, <1>3

-----------------------------------------------------------------------------
(* The safety properties of the controller *)

\* Every part of the invariant holds at the start and survives every step.
LEMMA InvariantHolds == Spec => []ControllerInvariant
<1>1. Init => ControllerInvariant
  <2> SUFFICES ASSUME Init PROVE ControllerInvariant
    OBVIOUS
  <2>1. TypeOK
    BY DEF Init, TypeOK, Plain, States
  <2>2. SessionShown /\ WaitsForAnswer /\ BootingIsFirst /\ StartupDecidedOnce
    BY DEF Init, Plain, SessionShown, WaitsForAnswer, BootingIsFirst, StartupDecidedOnce
  <2>3. ASSUME NEW s \in Sessions PROVE Safe(s)
    <3>1. state.session # s /\ calls = {}
      BY DEF Init, Plain
    <3>2. starts[s] = 0 /\ stops[s] = 0 /\ inserts[s] = 0 /\ cancels[s] = 0
      BY DEF Init
    <3> QED
      BY <3>1, <3>2 DEF Safe
  <2> QED
    BY <2>1, <2>2, <2>3, SafeSessions DEF ControllerInvariant
<1>2. ControllerInvariant /\ [Next]_vars => ControllerInvariant'
  <2> SUFFICES ASSUME ControllerInvariant, [Next]_vars PROVE ControllerInvariant'
    OBVIOUS
  <2>1. TypeOK' /\ SessionShown'
    BY TypeStep, ShownStep DEF ControllerInvariant
  <2>2. BootingIsFirst' /\ WaitsForAnswer' /\ StartupDecidedOnce'
    BY BootingStep, WaitsStep, StartupStep
  <2>3. /\ SessionProgress' /\ UnstartedUntouched' /\ CallsMadeOnce'
        /\ CallsInOrder' /\ SessionsClosed'
    BY SessionsStaySafe, SafeSessionsNext
  <2> QED
    BY <2>1, <2>2, <2>3 DEF ControllerInvariant
<1> QED
  BY <1>1, <1>2, PTL DEF Spec

\* The controller's variables keep their types through every press, answer and event.
THEOREM TypesAreKept == Spec => []TypeOK
<1>1. ControllerInvariant => TypeOK
  BY DEF ControllerInvariant
<1> QED
  BY <1>1, InvariantHolds, PTL

\* A panel that shows starting, stopping or inserting has made the call whose answer
\* will move it on.
THEOREM WaitsHaveAnAnswer == Spec => []WaitsForAnswer
<1>1. ControllerInvariant => WaitsForAnswer
  BY DEF ControllerInvariant
<1> QED
  BY <1>1, InvariantHolds, PTL

\* No order of answers, events and presses starts, stops or inserts a session twice.
THEOREM EachCallIsMadeOnce == Spec => []CallsMadeOnce
<1>1. ControllerInvariant => CallsMadeOnce
  BY DEF ControllerInvariant
<1> QED
  BY <1>1, InvariantHolds, PTL

\* The controller stops only a recording whose start was answered, and inserts only
\* the text of a session it has asked to stop.
THEOREM CallsKeepTheirOrder == Spec => []CallsInOrder
<1>1. ControllerInvariant => CallsInOrder
  BY DEF ControllerInvariant
<1> QED
  BY <1>1, InvariantHolds, PTL

\* Every session the panel has left was transcribed or cancelled at the backend.
THEOREM EverySessionIsClosed == Spec => []SessionsClosed
<1>1. ControllerInvariant => SessionsClosed
  BY DEF ControllerInvariant
<1> QED
  BY <1>1, InvariantHolds, PTL

\* Once the startup watchdog has expired, a late outcome of start() changes nothing.
THEOREM TheStartupIsDecidedOnce == Spec => []StartupDecidedOnce
<1>1. ControllerInvariant => StartupDecidedOnce
  BY DEF ControllerInvariant
<1> QED
  BY <1>1, InvariantHolds, PTL

\* An answer to a call of an old session, however late, leaves the state of the
\* panel alone.
THEOREM OldAnswersAreIgnored == Spec => OldAnswersIgnored
<1> DEFINE Ignored == \A c \in calls \ calls' :
                            c[2] # state.session => state' = state
<1>1. ControllerInvariant /\ [Next]_vars => [Ignored]_vars
  <2> SUFFICES ASSUME ControllerInvariant, Next, NEW c \in calls \ calls',
                      c[2] # state.session
               PROVE  state' = state
    OBVIOUS
  <2>1. Move
    BY EveryStepMoves DEF ControllerInvariant
  <2>2. CASE Quiet
    BY <2>2 DEF Quiet
  <2>3. CASE Settles
    BY <2>3 DEF Settles
  <2>4. ASSUME NEW s \in Sessions, SessionMove(s)
        PROVE  state' = state
    BY <2>4 DEF SessionMove, Begins, Begun, Stops, Stopped, Inserts, Finishes,
       Inserted, GivesUp, Closes
  <2> QED
    BY <2>1, <2>2, <2>3, <2>4 DEF Move
<1> QED
  BY <1>1, InvariantHolds, PTL DEF Spec, OldAnswersIgnored

=============================================================================
