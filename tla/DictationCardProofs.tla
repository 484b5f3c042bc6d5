-------------------------- MODULE DictationCardProofs --------------------------
(***************************************************************************)
(* Proofs about DictationCard for any set of sessions and any number of    *)
(* messages under way.                                                     *)
(***************************************************************************)
EXTENDS DictationCard, FiniteSetTheorems, TLAPS

USE NoSessionAssumption, SessionsAssumption DEF MaybeSession, vars, backend, card

-----------------------------------------------------------------------------
(* The inductive invariant *)

SessionShown == state.kind \in Busy => state.session \in Sessions

\* A copy that can still answer the card was asked for with the button, or is of the
\* transcript that is on show.
LiveIsShown ==
    \A c \in copies : c.live => c.by = "button" \/ (Shown /\ c.text = transcript.session)

CardInvariant == TypeOK /\ SessionShown /\ LiveIsShown /\ StatusOfShown

Places == 1 .. Len(channel)

\* The session that an answer or an error is about.
Concerns(m, s) == (m[1] = "answer" /\ m[3] = s) \/ (m[1] = "error" /\ m[2] = s)

\* What the panel has drawn last it is busy with; nothing else is that young.
Numbered ==
    /\ state.kind \in Busy => state.session = drawn
    /\ session # NoSession => session <= drawn
    /\ \A h \in handlers : h[2] <= drawn
    /\ \A i \in Places : \A s \in Sessions : Concerns(channel[i], s) => s <= drawn

StartRuns(s) == <<"start", s, "sent">> \in handlers

StartBegun(s) == <<"start", s, "begun">> \in handlers

\* A start that runs is all there is of its session.
StartAwaited ==
    \A s \in Sessions : StartRuns(s) =>
        /\ state.kind = "starting" /\ state.session = s
        /\ session # s
        /\ \A h \in handlers : h[2] = s => h[1] = "start" /\ h[3] = "sent"
        /\ \A i \in Places : ~Concerns(channel[i], s)

Answers(m, s) == m[1] = "answer" /\ m[3] = s

\* The panel has given the session up.
Left(s) == ~(state.kind \in Busy /\ state.session = s)

\* One that publishes is awaited, unless its session was lost meanwhile and the panel
\* has been told: then a cancel waits for the lock.
BegunAwaited ==
    \A s \in Sessions : StartBegun(s) =>
        /\ session \in {s, NoSession}
        /\ \A i \in Places : ~Answers(channel[i], s)
        /\ \A h \in handlers : h[2] = s => h[1] # "stop"
        /\ IF Left(s) THEN <<"cancel", s, "sent">> \in handlers ELSE state.kind = "starting"

\* So is its answer, before it comes.
AnswerAwaited ==
    \A s \in Sessions, i \in Places : channel[i] = <<"answer", "start", s, TRUE>> =>
        \/ Left(s)
        \/ /\ state.kind = "starting" /\ state.session = s
           /\ session \in {s, NoSession}
           /\ \A j \in Places : j < i => ~Answers(channel[j], s)
           /\ ~overlap => \A j \in Places :
                    j > i /\ channel[j][1] = "levels" => channel[j][2] \subseteq {s}

Ending == \E h \in handlers : h[1] \in {"stop", "cancel"}

CancelsSent == \A h \in handlers : h[1] = "cancel" => h[3] = "sent"

Live == state.kind \in {"starting", "recording"}

\* A stream is of the session that the panel has, or a call that stops it runs.
StreamOwned ==
    /\ stream => Ending \/ (Live /\ ~StartRuns(state.session))
    /\ buffer # {} => stream

\* No such call runs beside the session that the panel has.
OwnStream ==
    Live /\ session = state.session /\ ~overlap => ~Ending /\ (~StartBegun(session) => stream)

LossAlone == losing => session = NoSession

BufferOwn == ~overlap /\ session # NoSession => buffer \subseteq {session}

\* Nothing of another session is on its way to a recording.
RecordingAlone ==
    state.kind = "recording" =>
        /\ session \in {state.session, NoSession}
        /\ ~overlap => \A i \in Places :
                channel[i][1] = "levels" => channel[i][2] \subseteq {state.session}

StreamInvariant ==
    /\ Numbered /\ StartAwaited /\ BegunAwaited /\ AnswerAwaited /\ CancelsSent
    /\ StreamOwned /\ OwnStream /\ LossAlone /\ BufferOwn /\ RecordingAlone

DictationInvariant == CardInvariant /\ StreamInvariant /\ LevelsOwn

-----------------------------------------------------------------------------

Handler == {"start", "stop", "cancel"} \X Sessions \X Stages

Transcript == [session : MaybeSession, clipboard : {"ok", "failed", "skipped"}]

-----------------------------------------------------------------------------
(* What the state machine returns *)

\* A result names a session where there is one.
Fine(r) ==
    /\ r.state \in States
    /\ r.effects \subseteq Calls
    /\ r.state.kind \in Busy => r.state.session \in Sessions

LEMMA StatesFine ==
    ASSUME NEW s \in Sessions, NEW kind \in Busy, NEW b \in BOOLEAN
    PROVE  /\ Active(kind, s) \in States /\ Active(kind, s).session = s
           /\ Plain("ready") \in States /\ Plain("ready").kind = "ready"
           /\ Failed(b) \in States /\ Failed(b).kind = "error"
  BY DEF Active, Plain, Failed, States, Kinds, Busy

LEMMA SameFine ==
    ASSUME NEW st \in States, st.kind \in Busy => st.session \in Sessions
    PROVE  Fine(Unchanged(st))
  BY DEF Fine, Unchanged, Result

LEMMA MovesFine ==
    ASSUME NEW s \in Sessions, NEW kind \in Busy, NEW b \in BOOLEAN, NEW op \in Operations
    PROVE  /\ Fine(Result(Active(kind, s), {})) /\ Fine(Result(Active(kind, s), {<<op, s>>}))
           /\ Fine(Result(Plain("ready"), {}))
           /\ Fine(Result(Failed(b), {})) /\ Fine(Result(Failed(b), {<<op, s>>}))
<1>1. <<op, s>> \in Calls
  BY DEF Calls
<1>2. "ready" \notin Busy /\ "error" \notin Busy
  BY DEF Busy
<1> QED
  BY <1>1, <1>2, StatesFine DEF Fine, Result

\* Every transition the card meets.
LEMMA TransitionsFine ==
    ASSUME NEW st \in States, st.kind \in Busy => st.session \in Sessions,
           NEW s \in Sessions, NEW text \in {"text", "empty"}, NEW b \in BOOLEAN
    PROVE  /\ Fine(MicrophonePressed(st, s))
           /\ st.kind = "recording" => Fine(MicrophonePressed(st, NoSession))
           /\ Fine(RecordingStarted(st, s)) /\ Fine(RecordingStopped(st, s))
           /\ Fine(TranscriptReady(st, s, text))
           /\ Fine(InsertionSucceeded(st, s)) /\ Fine(InsertionFailed(st, s))
           /\ Fine(SpeechFailed(st, s, b)) /\ Fine(ErrorDismissed(st))
           /\ Fine(Unchanged(st))
<1> USE SameFine, MovesFine
<1>0. {"starting", "recording", "stopping", "transcribing", "inserting"} \subseteq Busy
      /\ {"start", "stop", "cancel", "insert"} \subseteq Operations
  BY DEF Busy, Operations
<1>1. Fine(MicrophonePressed(st, s)) /\ (st.kind = "recording" => Fine(MicrophonePressed(st, NoSession)))
  BY <1>0 DEF MicrophonePressed
<1>2. Fine(RecordingStarted(st, s)) /\ Fine(RecordingStopped(st, s))
  BY <1>0 DEF RecordingStarted, RecordingStopped
<1>3. Fine(TranscriptReady(st, s, text))
  BY <1>0 DEF TranscriptReady
<1>4. Fine(InsertionSucceeded(st, s)) /\ Fine(InsertionFailed(st, s))
  BY <1>0 DEF InsertionSucceeded, InsertionFailed
<1>5. Fine(SpeechFailed(st, s, b))
  BY <1>0 DEF SpeechFailed, Cancellable
<1>6. Fine(ErrorDismissed(st))
  BY <1>0 DEF ErrorDismissed
<1> QED
  BY <1>1, <1>2, <1>3, <1>4, <1>5, <1>6

-----------------------------------------------------------------------------
(* The card's effects *)

LEMMA CopyTypes ==
    ASSUME NEW c \in Copy, NEW b \in BOOLEAN
    PROVE  /\ [c EXCEPT !.live = b] \in Copy
           /\ [c EXCEPT !.live = b].live = b
           /\ [c EXCEPT !.live = b].by = c.by
           /\ [c EXCEPT !.live = b].text = c.text
  BY DEF Copy

\* A copy that answers, if at all, because of the button.
Mute(c) == c \in Copy /\ (c.live => c.by = "button")

\* What the copying effect keeps, whatever has changed.
LEMMA AutoCopyKeeps ==
    ASSUME TypeOK, LiveIsShown, StatusOfShown, transcript' \in Transcript, AutoCopy(copies)
    PROVE  /\ status' \in {"none", "copying", "copied", "failed"}
           /\ copies' \subseteq Copy
           /\ about' \in Copy \cup {NoCopy}
           /\ LiveIsShown' /\ StatusOfShown'
<1> DEFINE copy == [text |-> transcript'.session, by |-> "effect", live |-> TRUE]
           begins == Shown' /\ transcript'.clipboard # "ok"
<1>1. copies \subseteq Copy /\ about \in Copy \cup {NoCopy}
      /\ status \in {"none", "copying", "copied", "failed"}
  BY DEF TypeOK
<1>2. CASE Shown' = Shown /\ transcript' = transcript
  <2>1. UNCHANGED <<status, about, copies>>
    BY <1>2 DEF AutoCopy
  <2>2. LiveIsShown'
    BY <1>2, <2>1 DEF LiveIsShown
  <2>3. StatusOfShown'
    BY <1>2, <2>1 DEF StatusOfShown
  <2> QED
    BY <1>1, <2>1, <2>2, <2>3
<1>3. CASE ~(Shown' = Shown /\ transcript' = transcript)
  <2>1. /\ copies' = Cancelled(copies) \cup (IF begins THEN {copy} ELSE {})
        /\ status' = (IF begins THEN "copying" ELSE status)
        /\ about' = (IF begins THEN copy ELSE about)
    BY <1>3, Zenon DEF AutoCopy
  <2>2. ASSUME begins
        PROVE  copy \in Copy /\ copy.text = transcript'.session
    BY <2>2 DEF Shown, Copy, Transcript
  <2>3. \A c \in Cancelled(copies) : c \in Copy /\ (c.live => c.by = "button")
    <3>1. ASSUME NEW c \in copies
          PROVE  Mute([c EXCEPT !.live = c.live /\ c.by = "button"])
      <4>1. c \in Copy /\ (c.live /\ c.by = "button") \in BOOLEAN
        BY <1>1
      <4> QED
        BY <4>1, CopyTypes DEF Copy, Mute
    <3>2. \A c \in Cancelled(copies) : Mute(c)
      BY <3>1 DEF Cancelled
    <3> QED
      BY <3>2 DEF Mute
  <2> HIDE DEF copy, begins
  <2>4. copies' \subseteq Copy /\ about' \in Copy \cup {NoCopy}
        /\ status' \in {"none", "copying", "copied", "failed"}
    BY <1>1, <2>1, <2>2, <2>3
  <2>5. LiveIsShown'
    BY <2>1, <2>2, <2>3 DEF LiveIsShown, begins
  <2>6. StatusOfShown'
    BY <2>1, <2>2 DEF StatusOfShown, begins
  <2> QED
    BY <2>4, <2>5, <2>6
<1> QED
  BY <1>2, <1>3

\* A result that the panel adopts.
LEMMA AdoptKeeps ==
    ASSUME TypeOK, SessionShown, LiveIsShown, StatusOfShown, transcript' \in Transcript,
           NEW r, Fine(r), Adopt(r)
    PROVE  /\ state' \in States /\ SessionShown'
           /\ handlers' \subseteq Handler
           /\ status' \in {"none", "copying", "copied", "failed"}
           /\ copies' \subseteq Copy
           /\ about' \in Copy \cup {NoCopy}
           /\ LiveIsShown' /\ StatusOfShown'
<1>1. state' = r.state /\ AutoCopy(copies)
      /\ handlers' = handlers \cup {<<c[1], c[2], "sent">> :
                                        c \in {e \in r.effects : e[1] # "insert"}}
  BY DEF Adopt
<1>2. state' \in States /\ SessionShown'
  BY <1>1 DEF Fine, SessionShown
<1>3. \A c \in {e \in r.effects : e[1] # "insert"} : <<c[1], c[2], "sent">> \in Handler
  BY DEF Fine, Calls, Operations, Handler, Stages
<1>4. handlers' \subseteq Handler
  BY <1>1, <1>3 DEF TypeOK, Handler
<1> QED
  BY <1>1, <1>2, <1>4, AutoCopyKeeps

-----------------------------------------------------------------------------
(* The actions *)

\* What an action leaves of the invariant when it leaves the rest of the panel alone.
CardKept ==
    /\ status' \in {"none", "copying", "copied", "failed"}
    /\ copies' \subseteq Copy
    /\ about' \in Copy \cup {NoCopy}
    /\ LiveIsShown' /\ StatusOfShown'

PanelKept ==
    /\ state' \in States /\ SessionShown' /\ drawn' \in Nat
    /\ transcript' \in Transcript /\ meter' \subseteq Sessions /\ mounted' \in BOOLEAN

BackendKept ==
    /\ handlers' \subseteq Handler /\ session' \in MaybeSession /\ stream' \in BOOLEAN
    /\ buffer' \subseteq Sessions /\ losing' \in BOOLEAN
    /\ channel' \in Seq(Message) /\ overlap' \in BOOLEAN

LEMMA Together ==
    ASSUME CardKept, PanelKept, BackendKept
    PROVE  CardInvariant'
<1>1. Cardinality({c \in copies' : c.by = "effect" /\ c.live}) <= 1
  <2> DEFINE S == {c \in copies' : c.by = "effect" /\ c.live}
             one == [text |-> transcript'.session, by |-> "effect", live |-> TRUE]
  <2>1. \A c \in S : c = one
    BY DEF CardKept, LiveIsShown, Copy
  <2>2. S \subseteq {one}
    BY <2>1
  <2>3. IsFiniteSet({one}) /\ Cardinality({one}) = 1
    BY FS_Singleton
  <2>4. Cardinality(S) <= Cardinality({one})
    BY <2>2, <2>3, FS_Subset
  <2> QED
    BY <2>3, <2>4
<1>2. TypeOK'
  BY <1>1 DEF TypeOK, CardKept, PanelKept, BackendKept, Handler, Transcript
<1> QED
  BY <1>2 DEF CardInvariant, CardKept, PanelKept

LEMMA StateKept ==
    ASSUME CardInvariant
    PROVE  /\ UNCHANGED <<state, mounted, status, transcript, copies, about>> => CardKept
           /\ UNCHANGED <<state, drawn, transcript, meter, mounted>> => PanelKept
           /\ UNCHANGED <<handlers, session, stream, buffer, losing, channel, overlap>> => BackendKept
<1> USE DEF CardInvariant, TypeOK
<1>1. UNCHANGED <<state, mounted, status, transcript, copies, about>> => CardKept
  BY DEF CardKept, LiveIsShown, StatusOfShown, Shown
<1>2. UNCHANGED <<state, drawn, transcript, meter, mounted>> => PanelKept
  BY DEF PanelKept, SessionShown, Transcript
<1>3. UNCHANGED <<handlers, session, stream, buffer, losing, channel, overlap>> => BackendKept
  BY DEF BackendKept, Handler
<1> QED
  BY <1>1, <1>2, <1>3

\* The player.
LEMMA PlayerStep ==
    ASSUME CardInvariant, Open \/ Close \/ Press \/ CopyAgain
    PROVE  CardInvariant'
<1>0. /\ TypeOK /\ SessionShown /\ LiveIsShown /\ StatusOfShown
      /\ transcript \in Transcript /\ state \in States
  BY DEF CardInvariant, TypeOK, Transcript
<1>1. CASE Open
  <2>1. CardKept
    BY <1>0, <1>1, AutoCopyKeeps DEF Open, CardKept
  <2>2. meter' \subseteq Sessions
    BY <1>0, <1>1 DEF Open, MeterReset, TypeOK
  <2>3. mounted' \in BOOLEAN
    BY <1>1 DEF Open
  <2>4. UNCHANGED <<state, drawn, transcript, backend, channel, overlap>>
    BY <1>1 DEF Open
  <2>5. PanelKept
    BY <1>0, <2>2, <2>3, <2>4 DEF PanelKept, SessionShown, TypeOK
  <2> QED
    BY <2>1, <2>4, <2>5, StateKept, Together
<1>2. CASE Close
  <2>1. /\ ~mounted' /\ copies' = {[c EXCEPT !.live = FALSE] : c \in copies}
        /\ status' = "none" /\ about' = NoCopy
        /\ UNCHANGED <<state, drawn, transcript, meter, backend, channel, overlap>>
    BY <1>2 DEF Close
  <2>2. mounted' \in BOOLEAN
    BY <1>2 DEF Close
  <2>3. \A c \in copies' : c \in Copy /\ ~c.live
    <3>1. ASSUME NEW c \in copies
          PROVE  [c EXCEPT !.live = FALSE] \in Copy /\ ~[c EXCEPT !.live = FALSE].live
      <4>1. c \in Copy
        BY <1>0 DEF TypeOK
      <4> QED
        BY <4>1 DEF Copy
    <3> QED
      BY <2>1, <3>1
  <2>4. CardKept
    BY <2>1, <2>3 DEF CardKept, LiveIsShown, StatusOfShown, Shown
  <2>5. PanelKept
    BY <1>0, <2>1, <2>2 DEF PanelKept, SessionShown, TypeOK
  <2> QED
    BY <2>1, <2>4, <2>5, StateKept, Together
<1>3. CASE Press
  <2>1. PICK s \in MaybeSession :
          /\ Fine(MicrophonePressed(state, s)) /\ Adopt(MicrophonePressed(state, s))
          /\ drawn' \in Nat
    <3>1. CASE state.kind = "recording" /\ UNCHANGED drawn /\ Adopt(MicrophonePressed(state, NoSession))
      <4>1. state.session \in Sessions
        BY <1>0, <3>1 DEF SessionShown, Busy
      <4>2. Fine(MicrophonePressed(state, NoSession))
        BY <1>0, <3>1, <4>1, TransitionsFine DEF SessionShown
      <4> QED
        BY <1>0, <3>1, <4>2 DEF TypeOK
    <3>2. CASE /\ state.kind = "ready" /\ drawn + 1 \in Sessions /\ drawn' = drawn + 1
               /\ Adopt(MicrophonePressed(state, drawn + 1))
      <4>1. Fine(MicrophonePressed(state, drawn + 1))
        BY <1>0, <3>2, TransitionsFine DEF SessionShown
      <4> QED
        BY <3>2, <4>1
    <3> QED
      BY <1>3, <3>1, <3>2 DEF Press
  <2>2. UNCHANGED <<session, stream, buffer, losing, channel, meter, transcript, mounted,
                   overlap>>
    BY <1>3 DEF Press
  <2>3. /\ state' \in States /\ SessionShown' /\ handlers' \subseteq Handler /\ CardKept
    BY <1>0, <2>1, <2>2, AdoptKeeps DEF CardKept
  <2>4. PanelKept
    BY <1>0, <2>1, <2>2, <2>3 DEF PanelKept, TypeOK
  <2>5. BackendKept
    BY <1>0, <2>2, <2>3 DEF BackendKept, TypeOK
  <2> QED
    BY <2>3, <2>4, <2>5, Together
<1>4. CASE CopyAgain
  <2> DEFINE copy == [text |-> transcript.session, by |-> "button", live |-> TRUE]
  <2>1. /\ Shown /\ status' = "copying" /\ about' = copy /\ copies' = copies \cup {copy}
        /\ UNCHANGED <<state, drawn, backend, channel, meter, transcript, mounted, overlap>>
    BY <1>4 DEF CopyAgain
  <2>2. copy \in Copy
    BY <1>0, <2>1 DEF Shown, Copy, Transcript
  <2>3. copy.by = "button"
    OBVIOUS
  <2> HIDE DEF copy
  <2>4. copies' \subseteq Copy /\ about' \in Copy
    BY <1>0, <2>1, <2>2 DEF TypeOK
  <2>5. LiveIsShown' /\ StatusOfShown'
    BY <1>0, <2>1, <2>3 DEF LiveIsShown, StatusOfShown, Shown
  <2>6. CardKept
    BY <2>1, <2>4, <2>5 DEF CardKept
  <2> QED
    BY <2>1, <2>6, StateKept, Together
<1> QED
  BY <1>1, <1>2, <1>3, <1>4

\* The answers of the browser and of the clipboard.
LEMMA AnswerStep ==
    ASSUME CardInvariant, NEW ok \in BOOLEAN,
           (\E copy \in Copy : CopyAnswers(copy, ok)) \/ InsertAnswers(ok)
    PROVE  CardInvariant'
<1>0. /\ TypeOK /\ SessionShown /\ LiveIsShown /\ StatusOfShown
      /\ transcript \in Transcript /\ state \in States
  BY DEF CardInvariant, TypeOK, Transcript
<1>1. ASSUME NEW copy \in Copy, CopyAnswers(copy, ok) PROVE CardInvariant'
  <2>1. /\ copy \in copies /\ copies' = copies \ {copy}
        /\ UNCHANGED <<state, drawn, backend, channel, meter, transcript, mounted, overlap>>
    BY <1>1 DEF CopyAnswers
  <2>2. copies' \subseteq Copy /\ LiveIsShown'
    BY <1>0, <2>1 DEF TypeOK, LiveIsShown, Shown
  <2>3. CASE copy.live
    <3>1. status' \in {"copied", "failed"} /\ about' = copy
      BY <1>1, <2>3 DEF CopyAnswers
    <3>2. StatusOfShown'
      BY <1>0, <2>1, <2>3, <3>1 DEF LiveIsShown, StatusOfShown, Shown
    <3>3. CardKept
      BY <2>2, <3>1, <3>2 DEF CardKept
    <3> QED
      BY <2>1, <3>3, StateKept, Together
  <2>4. CASE ~copy.live
    <3>1. UNCHANGED <<status, about>>
      BY <1>1, <2>4 DEF CopyAnswers
    <3>2. CardKept
      BY <1>0, <2>1, <2>2, <3>1 DEF CardKept, StatusOfShown, Shown, TypeOK
    <3> QED
      BY <2>1, <3>2, StateKept, Together
  <2> QED
    BY <2>3, <2>4
<1>2. CASE InsertAnswers(ok)
  <2>1. state.session \in Sessions
    BY <1>0, <1>2 DEF InsertAnswers, SessionShown, Busy
  <2>2. PICK r : Fine(r) /\ Adopt(r)
    BY <1>0, <1>2, <2>1, TransitionsFine DEF InsertAnswers, SessionShown
  <2>3. UNCHANGED <<drawn, session, stream, buffer, losing, channel, meter, transcript, mounted,
                   overlap>>
    BY <1>2 DEF InsertAnswers
  <2>4. /\ state' \in States /\ SessionShown' /\ handlers' \subseteq Handler /\ CardKept
    BY <1>0, <2>2, <2>3, AdoptKeeps DEF CardKept
  <2>5. PanelKept /\ BackendKept
    BY <1>0, <2>3, <2>4 DEF PanelKept, BackendKept, TypeOK
  <2> QED
    BY <2>4, <2>5, Together
<1> QED
  BY <1>1, <1>2

\* A message that is sent is one of the channel's.
LEMMA MessageTypes ==
    ASSUME NEW s \in Sessions, NEW b \in BOOLEAN
    PROVE  /\ \A op \in Operations : <<"answer", op, s, b>> \in Message
           /\ \A text \in {"text", "empty"}, clipboard \in {"ok", "failed", "skipped"} :
                <<"transcript", s, text, clipboard>> \in Message
           /\ <<"error", s, b>> \in Message
           /\ \A S \in SUBSET Sessions : <<"levels", S>> \in Message
           /\ <<"ready">> \in Message
<1>1. \A op \in Operations : <<"answer", op, s, b>> \in Message
  BY DEF Message
<1>2. \A text \in {"text", "empty"}, clipboard \in {"ok", "failed", "skipped"} :
        <<"transcript", s, text, clipboard>> \in Message
  BY DEF Message
<1>3. <<"error", s, b>> \in Message
  BY DEF Message
<1>4. \A S \in SUBSET Sessions : <<"levels", S>> \in Message
  BY DEF Message
<1>5. <<"ready">> \in Message
  BY DEF Message
<1> QED
  BY <1>1, <1>2, <1>3, <1>4, <1>5

LEMMA SendTypes ==
    ASSUME channel \in Seq(Message), NEW m \in Message, NEW n \in Message,
           Send(<<m>>) \/ Send(<<m, n>>)
    PROVE  channel' \in Seq(Message)
<1>1. <<m>> \in Seq(Message) /\ <<m, n>> \in Seq(Message)
  OBVIOUS
<1> QED
  BY <1>1 DEF Send

\* The recording calls and the stream of levels.
LEMMA BackendStep ==
    ASSUME CardInvariant, Backend
    PROVE  CardInvariant'
<1>0. /\ handlers \subseteq Handler /\ session \in MaybeSession /\ stream \in BOOLEAN
      /\ buffer \subseteq Sessions /\ losing \in BOOLEAN
      /\ channel \in Seq(Message) /\ overlap \in BOOLEAN
  BY DEF CardInvariant, TypeOK, Handler
<1>1. {"start", "stop", "cancel", "insert"} = Operations
  BY DEF Operations
<1>2. \A s \in Sessions, at \in Stages : <<"stop", s, at>> \in Handler
  BY DEF Handler
<1>3. ASSUME NEW s \in Sessions, StartBegins(s) PROVE BackendKept
  <2>1. <<"start", s, "begun">> \in Handler
    BY DEF Handler, Stages
  <2>2. overlap' \in BOOLEAN
    BY <1>3 DEF StartBegins
  <2> QED
    BY <1>0, <1>3, <2>1, <2>2 DEF StartBegins, BackendKept
<1>17. ASSUME NEW s \in Sessions, StartEnds(s) PROVE BackendKept
  <2>1. channel' \in Seq(Message)
    BY <1>0, <1>1, <1>17, MessageTypes, SendTypes DEF StartEnds
  <2> QED
    BY <1>0, <1>17, <2>1 DEF StartEnds, StartLevelStream, BackendKept
<1>4. ASSUME NEW s \in Sessions, NEW fatal \in BOOLEAN, StartFails(s, fatal) PROVE BackendKept
  <2>1. channel' \in Seq(Message)
    BY <1>0, <1>1, <1>4, MessageTypes, SendTypes DEF StartFails
  <2> QED
    BY <1>0, <1>4, <2>1 DEF StartFails, BackendKept
<1>5. ASSUME NEW s \in Sessions, StopBegins(s) PROVE BackendKept
  BY <1>0, <1>2, <1>5 DEF StopBegins, BackendKept, Stages
<1>6. ASSUME NEW s \in Sessions, NEW text \in {"text", "empty"},
             NEW clipboard \in {"ok", "failed", "skipped"}, StopDelivers(s, text, clipboard)
      PROVE  BackendKept
  <2>1. channel' \in Seq(Message)
    BY <1>0, <1>6, MessageTypes, SendTypes DEF StopDelivers
  <2> QED
    BY <1>0, <1>2, <1>6, <2>1 DEF StopDelivers, BackendKept, Stages
<1>7. ASSUME NEW s \in Sessions, NEW fatal \in BOOLEAN, StopFails(s, fatal) PROVE BackendKept
  <2>1. channel' \in Seq(Message)
    BY <1>0, <1>7, MessageTypes, SendTypes DEF StopFails
  <2>2. handlers' \subseteq Handler
    BY <1>0, <1>2, <1>7 DEF StopFails, Stages
  <2> QED
    BY <1>0, <1>7, <2>1, <2>2 DEF StopFails, BackendKept
<1>8. ASSUME NEW s \in Sessions, StopEnds(s) PROVE BackendKept
  <2>1. PICK at \in {"over", "failed"} :
          /\ StopLevelStream /\ handlers' = handlers \ {<<"stop", s, at>>}
          /\ Send(<<<<"answer", "stop", s, at = "over">>>>)
          /\ UNCHANGED <<session, losing, overlap>>
    BY <1>8 DEF StopEnds
  <2>2. channel' \in Seq(Message)
    <3>1. (at = "over") \in BOOLEAN
      OBVIOUS
    <3>2. <<"answer", "stop", s, at = "over">> \in Message
      BY <1>1, <3>1, MessageTypes
    <3> QED
      BY <1>0, <2>1, <3>2, SendTypes
  <2>3. stream' \in BOOLEAN /\ buffer' \subseteq Sessions
    BY <2>1 DEF StopLevelStream
  <2> QED
    BY <1>0, <2>1, <2>2, <2>3 DEF BackendKept
<1>9. ASSUME NEW s \in Sessions, Cancels(s) PROVE BackendKept
  <2>1. channel' \in Seq(Message)
    BY <1>0, <1>1, <1>9, MessageTypes, SendTypes DEF Cancels
  <2>2. handlers' \subseteq Handler
    BY <1>0, <1>2, <1>9 DEF Cancels, Stages
  <2>3. stream' \in BOOLEAN /\ buffer' \subseteq Sessions
    BY <1>9 DEF Cancels, StopLevelStream
  <2> QED
    BY <1>0, <1>9, <2>1, <2>2, <2>3 DEF Cancels, BackendKept
<1>10. ASSUME RuntimeLost PROVE BackendKept
  <2>1. channel' \in Seq(Message)
    BY <1>0, <1>10, MessageTypes, SendTypes DEF RuntimeLost
  <2> QED
    BY <1>0, <1>10, <2>1 DEF RuntimeLost, BackendKept
<1>18. ASSUME LossEnds PROVE BackendKept
  BY <1>0, <1>18 DEF LossEnds, StopLevelStream, BackendKept
<1>11. ASSUME RuntimeReady PROVE BackendKept
  <2>1. <<"ready">> \in Message
    BY DEF Message
  <2>2. channel' \in Seq(Message)
    BY <1>0, <1>11, <2>1, SendTypes DEF RuntimeReady
  <2> QED
    BY <1>0, <1>11, <2>2 DEF RuntimeReady, BackendKept
<1>12. ASSUME NEW flush \in BOOLEAN, Frame(flush) PROVE BackendKept
  <2>1. session \in Sessions
    BY <1>0, <1>12 DEF Frame
  <2>2. channel' \in Seq(Message)
    BY <1>0, <1>12, <2>1, MessageTypes, SendTypes DEF Frame
  <2>3. buffer' \subseteq Sessions
    BY <1>0, <1>12, <2>1 DEF Frame
  <2> QED
    BY <1>0, <1>12, <2>2, <2>3 DEF Frame, BackendKept
<1>13. ASSUME Reconnect PROVE BackendKept
  BY <1>0, <1>13 DEF Reconnect, BackendKept
<1>14. UnchangedPanel
  BY DEF Backend, StartBegins, StartEnds, StartFails, StopBegins, StopDelivers, StopFails, StopEnds,
         Cancels, RuntimeLost, LossEnds, RuntimeReady, Frame, Reconnect
<1>15. CardKept /\ PanelKept
  BY <1>14, StateKept DEF UnchangedPanel
<1>16. BackendKept
  BY <1>3, <1>4, <1>5, <1>6, <1>7, <1>8, <1>9, <1>10, <1>11, <1>12, <1>13,
     <1>17, <1>18 DEF Backend
<1> QED
  BY <1>15, <1>16, Together

\* What the panel takes from the channel.
LEMMA ReceiveStep ==
    ASSUME CardInvariant, Receive
    PROVE  CardInvariant'
<1> DEFINE m == Head(channel)
<1>0. /\ TypeOK /\ SessionShown /\ LiveIsShown /\ StatusOfShown
      /\ transcript \in Transcript /\ state \in States /\ meter \subseteq Sessions
  BY DEF CardInvariant, TypeOK, Transcript
<1>1. /\ channel # <<>> /\ channel' = Tail(channel)
      /\ UNCHANGED <<drawn, session, stream, buffer, losing, mounted, overlap>>
      /\ \/ \E fatal \in BOOLEAN : OnAnswer(m, fatal)
         \/ OnTranscript(m) \/ OnError(m) \/ OnReady(m) \/ OnLevels(m)
  BY DEF Receive
<1>2. m \in Message /\ channel' \in Seq(Message)
  BY <1>0, <1>1 DEF TypeOK
<1> HIDE DEF m
<1>3. /\ m[1] = "answer" => m[2] \in Operations /\ m[3] \in Sessions /\ m[4] \in BOOLEAN
      /\ m[1] = "transcript" => /\ m[2] \in Sessions /\ m[3] \in {"text", "empty"}
                                /\ m[4] \in {"ok", "failed", "skipped"}
      /\ m[1] = "error" => m[2] \in Sessions /\ m[3] \in BOOLEAN
      /\ m[1] = "levels" => m[2] \subseteq Sessions
  BY <1>2 DEF Message
<1>4. ASSUME NEW r, Fine(r), Adopt(r), transcript' \in Transcript, MeterReset(meter)
      PROVE  CardInvariant'
  <2>1. /\ state' \in States /\ SessionShown' /\ handlers' \subseteq Handler /\ CardKept
    BY <1>0, <1>4, AdoptKeeps DEF CardKept
  <2>2. meter' \subseteq Sessions
    BY <1>0, <1>4 DEF MeterReset
  <2>3. PanelKept
    BY <1>0, <1>1, <1>4, <2>1, <2>2 DEF PanelKept, TypeOK
  <2>4. BackendKept
    BY <1>0, <1>1, <1>2, <2>1 DEF BackendKept, TypeOK
  <2> QED
    BY <2>1, <2>3, <2>4, Together
<1>5. ASSUME NEW fatal \in BOOLEAN, OnAnswer(m, fatal) PROVE CardInvariant'
  <2>1. /\ m[2] \in Operations /\ m[3] \in Sessions /\ m[4] \in BOOLEAN
        /\ Adopt(Answered(m[2], m[3], m[4], fatal)) /\ MeterReset(meter) /\ UNCHANGED transcript
    BY <1>3, <1>5 DEF OnAnswer
  <2>2. Fine(Answered(m[2], m[3], m[4], fatal))
    BY <1>0, <2>1, TransitionsFine DEF Answered, SessionShown
  <2> QED
    BY <1>0, <1>4, <2>1, <2>2
<1>6. CASE OnTranscript(m)
  <2>1. /\ m[2] \in Sessions /\ m[3] \in {"text", "empty"} /\ m[4] \in {"ok", "failed", "skipped"}
        /\ transcript' = IF m[3] = "text" THEN [session |-> m[2], clipboard |-> m[4]]
                                          ELSE transcript
        /\ MeterReset(meter)
    BY <1>3, <1>6 DEF OnTranscript
  <2>2. transcript' \in Transcript
    BY <1>0, <2>1 DEF Transcript
  <2>3. PICK r : Fine(r) /\ Adopt(r)
    BY <1>0, <1>6, <2>1, TransitionsFine DEF OnTranscript, SessionShown
  <2> QED
    BY <1>4, <2>1, <2>2, <2>3
<1>7. CASE OnError(m)
  <2>1. m[2] \in Sessions /\ m[3] \in BOOLEAN /\ MeterReset(meter) /\ UNCHANGED transcript
    BY <1>3, <1>7 DEF OnError
  <2>2. PICK r : Fine(r) /\ Adopt(r)
    BY <1>0, <1>7, <2>1, TransitionsFine DEF OnError, SessionShown
  <2> QED
    BY <1>0, <1>4, <2>1, <2>2
<1>8. CASE OnReady(m)
  <2>1. MeterReset(meter) /\ UNCHANGED transcript /\ Adopt(ErrorDismissed(state))
    BY <1>8 DEF OnReady
  <2>2. Fine(ErrorDismissed(state))
    BY <1>0, SameFine, <1>8 DEF ErrorDismissed, SessionShown, Fine, Result, Plain, States, Kinds,
                               Busy
  <2> QED
    BY <1>0, <1>4, <2>1, <2>2
<1>9. CASE OnLevels(m)
  <2>1. /\ UNCHANGED <<state, handlers, transcript, status, copies, about>>
        /\ meter' \subseteq Sessions
    BY <1>0, <1>3, <1>9 DEF OnLevels
  <2>2. CardKept
    BY <1>1, <2>1, StateKept
  <2>3. PanelKept /\ BackendKept
    BY <1>0, <1>1, <1>2, <2>1 DEF PanelKept, BackendKept, TypeOK, SessionShown, Handler
  <2> QED
    BY <2>2, <2>3, Together
<1> QED
  BY <1>1, <1>5, <1>6, <1>7, <1>8, <1>9

-----------------------------------------------------------------------------
(* What the panel does to its session *)

Stays == UNCHANGED <<state, handlers>>

Begins(s) ==
    /\ state.kind = "ready" /\ state' = Active("starting", s)
    /\ handlers' = handlers \cup {<<"start", s, "sent">>}

Starts ==
    /\ state.kind = "starting" /\ state' = Active("recording", state.session)
    /\ UNCHANGED handlers

Stops ==
    /\ state.kind = "recording" /\ state' = Active("stopping", state.session)
    /\ handlers' = handlers \cup {<<"stop", state.session, "sent">>}

\* Between two states in which nothing is recorded.
Passes ==
    /\ ~Live /\ ~Live' /\ UNCHANGED handlers
    /\ state'.kind \in Busy => state.kind \in Busy /\ state'.session = state.session

GivesUp ==
    /\ state.kind \in Cancellable /\ state'.kind = "error"
    /\ handlers' = handlers \cup {<<"cancel", state.session, "sent">>}

\* What adopting a result does to the calls.
LEMMA AdoptEffects ==
    ASSUME NEW st, NEW op, NEW s
    PROVE  /\ Adopt(Result(st, {})) => state' = st /\ UNCHANGED handlers
           /\ Adopt(Result(st, {<<"insert", s>>})) => state' = st /\ UNCHANGED handlers
           /\ Adopt(Result(st, {<<op, s>>})) /\ op # "insert" =>
                state' = st /\ handlers' = handlers \cup {<<op, s, "sent">>}
<1>1. ASSUME NEW E, Adopt(Result(st, E)), NEW made, made = {e \in E : e[1] # "insert"}
      PROVE  state' = st /\ handlers' = handlers \cup {<<c[1], c[2], "sent">> : c \in made}
  BY <1>1 DEF Adopt, Result
<1>2. {e \in {} : e[1] # "insert"} = {} /\ {e \in {<<"insert", s>>} : e[1] # "insert"} = {}
  OBVIOUS
<1>3. op # "insert" => {e \in {<<op, s>>} : e[1] # "insert"} = {<<op, s>>}
  OBVIOUS
<1>4. {<<c[1], c[2], "sent">> : c \in {}} = {}
  OBVIOUS
<1>5. {<<c[1], c[2], "sent">> : c \in {<<op, s>>}} = {<<op, s, "sent">>}
  <2>1. <<op, s>>[1] = op /\ <<op, s>>[2] = s
    OBVIOUS
  <2>2. \A x : x \in {<<c[1], c[2], "sent">> : c \in {<<op, s>>}} <=> x = <<op, s, "sent">>
    BY <2>1
  <2> QED
    BY <2>2
<1>6. Adopt(Result(st, {})) => state' = st /\ handlers' = handlers \cup {}
  BY <1>1, <1>2, <1>4
<1>7. Adopt(Result(st, {<<"insert", s>>})) => state' = st /\ handlers' = handlers \cup {}
  BY <1>1, <1>2, <1>4
<1>8. Adopt(Result(st, {<<op, s>>})) /\ op # "insert" =>
        state' = st /\ handlers' = handlers \cup {<<op, s, "sent">>}
  BY <1>1, <1>3, <1>5
<1>9. handlers \cup {} = handlers
  OBVIOUS
<1> QED
  BY <1>6, <1>7, <1>8, <1>9

\* What each transition is.
LEMMA AdoptMoves ==
    ASSUME state \in States, SessionShown, NEW s \in Sessions, NEW b \in BOOLEAN,
           NEW text \in {"text", "empty"}
    PROVE  /\ Adopt(Unchanged(state)) => Stays
           /\ Adopt(MicrophonePressed(state, s)) /\ state.kind = "ready" => Begins(s)
           /\ Adopt(MicrophonePressed(state, NoSession)) /\ state.kind = "recording" => Stops
           /\ Adopt(RecordingStarted(state, s)) => Stays \/ (Starts /\ state.session = s)
           /\ Adopt(RecordingStopped(state, s)) => Stays \/ Passes
           /\ Adopt(TranscriptReady(state, s, text)) => Stays \/ Passes
           /\ Adopt(InsertionSucceeded(state, s)) => Stays \/ Passes
           /\ Adopt(InsertionFailed(state, s)) => Stays \/ Passes
           /\ Adopt(ErrorDismissed(state)) => Stays \/ Passes
           /\ Adopt(SpeechFailed(state, s, b)) => Stays \/ (GivesUp /\ state.session = s)
<1> USE AdoptEffects
<1>1. Adopt(Unchanged(state)) => Stays
  BY DEF Unchanged, Stays
<1>2. Adopt(MicrophonePressed(state, s)) /\ state.kind = "ready" => Begins(s)
  BY DEF MicrophonePressed, Begins
<1>3. Adopt(MicrophonePressed(state, NoSession)) /\ state.kind = "recording" => Stops
  <2>1. Adopt(Result(Active("stopping", state.session), {<<"stop", state.session>>})) =>
            /\ state' = Active("stopping", state.session)
            /\ handlers' = handlers \cup {<<"stop", state.session, "sent">>}
    OBVIOUS
  <2>2. state.kind = "recording" => MicrophonePressed(state, NoSession) =
            Result(Active("stopping", state.session), {<<"stop", state.session>>})
    BY DEF MicrophonePressed
  <2> QED
    BY <2>1, <2>2 DEF Stops
<1>4. Adopt(RecordingStarted(state, s)) => Stays \/ (Starts /\ state.session = s)
  BY <1>1 DEF RecordingStarted, Starts
<1>11. /\ Adopt(Result(Plain("ready"), {})) /\ ~Live => Passes
       /\ Adopt(Result(Failed(b), {})) /\ ~Live => Passes
       /\ Adopt(Result(Failed(TRUE), {})) /\ ~Live => Passes
       /\ Adopt(Result(Active("transcribing", s), {}))
            /\ state.kind = "stopping" /\ state.session = s => Passes
       /\ Adopt(Result(Active("inserting", s), {<<"insert", s>>}))
            /\ state.kind \in {"stopping", "transcribing"} /\ state.session = s => Passes
  <2>1. /\ Plain("ready").kind = "ready" /\ Failed(b).kind = "error" /\ Failed(TRUE).kind = "error"
        /\ Active("transcribing", s).kind = "transcribing" /\ Active("transcribing", s).session = s
        /\ Active("inserting", s).kind = "inserting" /\ Active("inserting", s).session = s
    BY DEF Plain, Failed, Active
  <2> QED
    BY <2>1 DEF Passes, Live, Busy
<1> HIDE AdoptEffects
<1>5. Adopt(RecordingStopped(state, s)) => Stays \/ Passes
  BY <1>1, <1>11 DEF RecordingStopped
<1>6. Adopt(TranscriptReady(state, s, text)) => Stays \/ Passes
  BY <1>1, <1>11 DEF TranscriptReady, Live
<1>7. Adopt(InsertionSucceeded(state, s)) => Stays \/ Passes
  BY <1>1, <1>11 DEF InsertionSucceeded, Live
<1>8. Adopt(InsertionFailed(state, s)) => Stays \/ Passes
  BY <1>1, <1>11 DEF InsertionFailed, Live
<1>9. Adopt(ErrorDismissed(state)) => Stays \/ Passes
  BY <1>1, <1>11 DEF ErrorDismissed, Live
<1> USE AdoptEffects
<1>10. Adopt(SpeechFailed(state, s, b)) => Stays \/ (GivesUp /\ state.session = s)
  <2>1. state.kind \in Cancellable /\ Adopt(Result(Failed(~b), {<<"cancel", state.session>>})) =>
                state' = Failed(~b) /\ handlers' = handlers \cup {<<"cancel", state.session, "sent">>}
    OBVIOUS
  <2>2. s # NoSession
    OBVIOUS
  <2> QED
    BY <1>1, <2>1, <2>2 DEF SpeechFailed, GivesUp, Failed
<1> QED
  BY <1>1, <1>2, <1>3, <1>4, <1>5, <1>6, <1>7, <1>8, <1>9, <1>10

\* The channel is as it was, or without its first message.
Shifts(k) ==
    /\ k \in {0, 1} /\ Len(channel) \in Nat /\ Len(channel') \in Nat
    /\ Len(channel') = Len(channel) - k
    /\ \A i \in 1 .. Len(channel') : i + k \in Places /\ channel'[i] = channel[i + k]

LEMMA ChannelShifts ==
    ASSUME channel \in Seq(Message)
    PROVE  /\ UNCHANGED channel => Shifts(0)
           /\ channel # <<>> /\ channel' = Tail(channel) =>
                Shifts(1) /\ 1 \in Places /\ channel[1] = Head(channel)
                    /\ Head(channel) \in Message
  BY DEF Shifts, Places

\* Without an answer to a start, and without a start, little is left to show.
LEMMA PanelMoves ==
    ASSUME TypeOK, SessionShown, StreamInvariant, UNCHANGED <<session, stream, buffer, losing, overlap>>,
           NEW k, Shifts(k),
           \/ UNCHANGED drawn /\ Stays
           \/ k = 0 /\ drawn + 1 \in Sessions /\ drawn' = drawn + 1 /\ Begins(drawn + 1)
           \/ /\ UNCHANGED drawn /\ Starts
              /\ k = 1 /\ channel[1] = <<"answer", "start", state.session, TRUE>> /\ 1 \in Places
           \/ UNCHANGED drawn /\ Stops
           \/ UNCHANGED drawn /\ Passes
           \/ /\ UNCHANGED drawn /\ GivesUp
              /\ k = 1 /\ Concerns(channel[1], state.session) /\ 1 \in Places
    PROVE  StreamInvariant'
<1>0. /\ Numbered /\ StartAwaited /\ BegunAwaited /\ AnswerAwaited /\ CancelsSent
      /\ StreamOwned /\ OwnStream /\ LossAlone /\ BufferOwn /\ RecordingAlone
      /\ drawn \in Nat /\ session \in MaybeSession
      /\ handlers \subseteq Handler /\ state \in States
  BY DEF StreamInvariant, TypeOK, Handler
<1>1. /\ \A i \in 1 .. Len(channel') : i + k \in Places /\ channel'[i] = channel[i + k]
      /\ k \in {0, 1}
      /\ \A i, j \in 1 .. Len(channel') : /\ i < j => i + k < j + k
                                          /\ i + k \in Nat
      /\ \A i \in 1 .. Len(channel') : k = 1 => 1 < i + k
  BY DEF Shifts
<1>2. BufferOwn' /\ LossAlone'
  BY <1>0 DEF BufferOwn, LossAlone
<1>13. ASSUME \A s \in Sessions : StartBegun(s)' => StartBegun(s),
              handlers \subseteq handlers',
              \A s \in Sessions : StartBegun(s) =>
                /\ \A h \in handlers' : h[2] = s => h \in handlers \/ h[1] # "stop"
                /\ IF Left(s)' THEN Left(s) \/ <<"cancel", s, "sent">> \in handlers'
                   ELSE ~Left(s) /\ state'.kind = "starting"
       PROVE  BegunAwaited'
  <2> SUFFICES ASSUME NEW s \in Sessions, StartBegun(s)'
               PROVE  /\ session' \in {s, NoSession}
                      /\ \A i \in 1 .. Len(channel') : ~Answers(channel'[i], s)
                      /\ \A h \in handlers' : h[2] = s => h[1] # "stop"
                      /\ IF Left(s)' THEN <<"cancel", s, "sent">> \in handlers'
                         ELSE state'.kind = "starting"
    BY DEF BegunAwaited, Places
  <2>1. /\ StartBegun(s) /\ session \in {s, NoSession}
        /\ \A i \in Places : ~Answers(channel[i], s)
        /\ \A h \in handlers : h[2] = s => h[1] # "stop"
        /\ Left(s) => <<"cancel", s, "sent">> \in handlers
    BY <1>0, <1>13 DEF BegunAwaited
  <2> QED
    BY <1>1, <1>13, <2>1
<1>3. CASE UNCHANGED drawn /\ Stays
  <2>1. Numbered' /\ StartAwaited' /\ CancelsSent' /\ StreamOwned' /\ OwnStream' /\ RecordingAlone'
    BY <1>0, <1>1, <1>3 DEF Stays, Numbered, StartAwaited, StartRuns, StartBegun, CancelsSent, StreamOwned,
                            OwnStream, RecordingAlone, Live, Ending, Places
  <2>3. BegunAwaited'
    BY <1>0, <1>3, <1>13 DEF Stays, StartBegun, BegunAwaited, Left
  <2>2. AnswerAwaited'
    <3> SUFFICES ASSUME NEW s \in Sessions, NEW i \in 1 .. Len(channel'),
                        channel'[i] = <<"answer", "start", s, TRUE>>
                 PROVE  \/ Left(s)'
                        \/ /\ state'.kind = "starting" /\ state'.session = s
                           /\ session' \in {s, NoSession}
                           /\ \A j \in 1 .. Len(channel') : j < i => ~Answers(channel'[j], s)
                           /\ ~overlap' => \A j \in 1 .. Len(channel') :
                                j > i /\ channel'[j][1] = "levels" => channel'[j][2] \subseteq {s}
      BY DEF AnswerAwaited, Places
    <3>1. i + k \in Places /\ channel[i + k] = <<"answer", "start", s, TRUE>>
      BY <1>1
    <3>2. \/ Left(s)
          \/ /\ state.kind = "starting" /\ state.session = s
             /\ session \in {s, NoSession}
             /\ \A j \in Places : j < i + k => ~Answers(channel[j], s)
             /\ ~overlap => \A j \in Places :
                    j > i + k /\ channel[j][1] = "levels" => channel[j][2] \subseteq {s}
      BY <1>0, <3>1 DEF AnswerAwaited
    <3>3. \A j \in 1 .. Len(channel') :
            /\ j + k \in Places /\ channel'[j] = channel[j + k]
            /\ j < i => j + k < i + k
            /\ j > i => j + k > i + k
      BY <1>1
    <3> QED
      BY <1>3, <3>2, <3>3 DEF Stays, Left
  <2> QED
    BY <1>2, <2>1, <2>2, <2>3 DEF StreamInvariant
<1>4. ASSUME \A s \in Sessions : ~StartRuns(s)',
             \A s \in Sessions, i \in 1 .. Len(channel') :
                channel'[i] = <<"answer", "start", s, TRUE>> => Left(s)',
             UNCHANGED drawn,
             state'.kind \in Busy => state.kind \in Busy /\ state'.session = state.session,
             NEW c \in {"stop", "cancel"}, NEW s \in Sessions, s <= drawn,
             UNCHANGED handlers \/ handlers' = handlers \cup {<<c, s, "sent">>},
             BegunAwaited', StreamOwned', OwnStream', RecordingAlone'
      PROVE  StreamInvariant'
  <2>1. Numbered'
    BY <1>0, <1>1, <1>4 DEF Numbered, Places
  <2>2. CancelsSent'
    BY <1>0, <1>4 DEF CancelsSent
  <2>3. StartAwaited' /\ AnswerAwaited'
    BY <1>4 DEF StartAwaited, StartRuns, AnswerAwaited, Places
  <2> QED
    BY <1>2, <1>4, <2>1, <2>2, <2>3 DEF StreamInvariant
<1>5. state.kind \in Busy => state.session \in Sessions /\ state.session <= drawn
  BY <1>0 DEF SessionShown, Numbered
<1>6. ASSUME state.kind # "starting", \A s \in Sessions : StartRuns(s)' => StartRuns(s)
      PROVE  \A s \in Sessions : ~StartRuns(s)'
  BY <1>0, <1>6 DEF StartAwaited
<1>7. ASSUME k = 1, 1 \in Places, state.kind \in Busy, Concerns(channel[1], state.session),
             \A s \in Sessions : StartRuns(s)' => StartRuns(s)
      PROVE  \A s \in Sessions : ~StartRuns(s)'
  BY <1>0, <1>7 DEF StartAwaited
<1>14. ASSUME state.kind # "starting", state'.kind \in Busy =>
                \/ state.kind \in Busy /\ state'.session = state.session
                \/ drawn + 1 \in Sessions /\ state'.session = drawn + 1
       PROVE  /\ \A s \in Sessions, i \in 1 .. Len(channel') :
                    channel'[i] = <<"answer", "start", s, TRUE>> => Left(s)'
              /\ \A s \in Sessions : StartBegun(s) => Left(s) /\ Left(s)'
  <2>0. \A s \in Nat : s <= drawn => s # drawn + 1
    BY <1>0
  <2>1. ASSUME NEW s \in Sessions, NEW i \in 1 .. Len(channel'),
               channel'[i] = <<"answer", "start", s, TRUE>>
        PROVE  Left(s)'
    <3>1. /\ i + k \in Places /\ channel[i + k] = <<"answer", "start", s, TRUE>>
      BY <1>1, <2>1
    <3>2. Left(s)
      BY <1>0, <1>14, <3>1 DEF AnswerAwaited
    <3>3. Concerns(channel[i + k], s)
      BY <3>1 DEF Concerns
    <3>4. s <= drawn /\ s \in Nat
      BY <1>0, <3>1, <3>3 DEF Numbered
    <3> QED
      BY <1>14, <2>0, <3>2, <3>4 DEF Left
  <2>2. ASSUME NEW s \in Sessions, StartBegun(s) PROVE Left(s) /\ Left(s)'
    <3>1. Left(s)
      BY <1>0, <1>14, <2>2 DEF BegunAwaited
    <3>2. <<"start", s, "begun">>[2] = s
      OBVIOUS
    <3>3. s <= drawn /\ s \in Nat
      BY <1>0, <2>2, <3>2 DEF Numbered, StartBegun
    <3> QED
      BY <1>14, <2>0, <3>1, <3>3 DEF Left
  <2> QED
    BY <2>1, <2>2
<1>8. CASE k = 0 /\ drawn + 1 \in Sessions /\ drawn' = drawn + 1 /\ Begins(drawn + 1)
  <2> DEFINE s == drawn + 1
  <2>1. /\ state.kind = "ready" /\ state'.kind = "starting" /\ state'.session = s
        /\ handlers' = handlers \cup {<<"start", s, "sent">>} /\ s \in Sessions /\ drawn' = s
    BY <1>8 DEF Begins, Active
  <2>2. \A t \in Nat : t <= drawn => t <= s /\ t # s
    BY <1>0
  <2> HIDE DEF s
  <2>3. /\ \A t \in Sessions : ~StartRuns(t)
        /\ \A t \in Sessions, i \in 1 .. Len(channel') :
                channel'[i] = <<"answer", "start", t, TRUE>> => Left(t)'
        /\ \A t \in Sessions : StartBegun(t) => Left(t) /\ Left(t)'
    BY <1>0, <1>14, <2>1 DEF StartAwaited, s
  <2>4. \A h \in handlers : h[2] \in Nat /\ h[2] <= drawn
    BY <1>0 DEF Numbered, Handler
  <2>5. \A i \in 1 .. Len(channel') : \A t \in Sessions : Concerns(channel'[i], t) => t <= drawn
    BY <1>0, <1>1 DEF Numbered
  <2>6. session # NoSession => session \in Nat /\ session <= drawn
    BY <1>0 DEF Numbered
  <2>14. /\ <<"start", s, "sent">>[1] = "start" /\ <<"start", s, "sent">>[2] = s
         /\ <<"start", s, "sent">>[3] = "sent"
         /\ \A t \in Sessions : <<"start", t, "begun">>[3] = "begun"
    OBVIOUS
  <2>7. Numbered'
    <3>1. \A h \in handlers' : h[2] <= s
      BY <2>1, <2>2, <2>4, <2>14
    <3>2. session' # NoSession => session' <= s
      BY <2>2, <2>6
    <3>3. \A i \in 1 .. Len(channel') : \A t \in Sessions : Concerns(channel'[i], t) => t <= s
      BY <2>2, <2>5
    <3> QED
      BY <2>1, <3>1, <3>2, <3>3 DEF Numbered, Places
  <2>8. StartAwaited'
    <3> SUFFICES ASSUME NEW t \in Sessions, StartRuns(t)'
                 PROVE  /\ state'.kind = "starting" /\ state'.session = t
                        /\ session # t
                        /\ \A h \in handlers' : h[2] = t => h[1] = "start" /\ h[3] = "sent"
                        /\ \A i \in 1 .. Len(channel') : ~Concerns(channel'[i], t)
      BY DEF StartAwaited, Places
    <3>1. t = s
      BY <2>1, <2>3 DEF StartRuns
    <3> QED
      BY <2>1, <2>2, <2>4, <2>5, <2>6, <3>1
  <2>9. AnswerAwaited'
    BY <2>3 DEF AnswerAwaited, Places
  <2>10. CancelsSent'
    BY <1>0, <2>1 DEF CancelsSent
  <2>13. BegunAwaited'
    <3>1. \A t \in Sessions : StartBegun(t)' => StartBegun(t)
      BY <2>1, <2>14 DEF StartBegun
    <3>2. \A h \in handlers' : h \in handlers \/ h[1] # "stop"
      BY <2>1, <2>14
    <3> QED
      BY <1>13, <2>1, <2>3, <3>1, <3>2
  <2>11. StreamOwned'
    BY <1>0, <2>1 DEF StreamOwned, Live, Ending
  <2>12. OwnStream' /\ RecordingAlone'
    BY <1>0, <2>1, <2>2, <2>6 DEF OwnStream, RecordingAlone
  <2> QED
    BY <1>2, <2>7, <2>8, <2>9, <2>10, <2>11, <2>12, <2>13 DEF StreamInvariant
<1>9. CASE /\ UNCHANGED drawn /\ Starts
           /\ k = 1 /\ channel[1] = <<"answer", "start", state.session, TRUE>> /\ 1 \in Places
  <2>1. /\ state.kind = "starting" /\ state'.kind = "recording" /\ UNCHANGED handlers
        /\ state'.session = state.session /\ state.kind \in Busy /\ state'.kind \in Busy
    BY <1>9 DEF Starts, Active, Busy
  <2>2. Concerns(channel[1], state.session)
    BY <1>9 DEF Concerns
  <2>5. 1 \in Places /\ Answers(channel[1], state.session) /\ state.session \in Sessions
    BY <1>5, <1>9, <2>1 DEF Answers
  <2>6. ~Left(state.session)
    BY <2>1 DEF Left
  <2>7. \A s \in Sessions : StartBegun(s) => s # state.session
    BY <1>0, <2>5 DEF BegunAwaited
  <2>8. BegunAwaited'
    BY <1>13, <2>1, <2>7 DEF StartBegun, Left
  <2>3. StreamOwned' /\ OwnStream'
    BY <1>0, <2>1 DEF StreamOwned, OwnStream, Live, Ending, StartRuns, StartBegun
  <2>9. ASSUME NEW s \in Sessions, NEW i \in 1 .. Len(channel'),
               channel'[i] = <<"answer", "start", s, TRUE>>
        PROVE  Left(s)'
    <3>1. /\ i + k \in Places /\ 1 < i + k
          /\ channel[i + k] = <<"answer", "start", s, TRUE>>
      BY <1>1, <1>9, <2>9
    <3>2. s # state.session
      BY <1>0, <2>5, <2>6, <3>1 DEF AnswerAwaited
    <3> QED
      BY <2>1, <3>2 DEF Left
  <2>4. RecordingAlone'
    <3>1. /\ session \in {state.session, NoSession}
          /\ ~overlap => \A j \in Places :
                j > 1 /\ channel[j][1] = "levels" => channel[j][2] \subseteq {state.session}
      BY <1>0, <1>5, <1>9, <2>1, <2>6 DEF AnswerAwaited
    <3>2. \A j \in 1 .. Len(channel') :
            j + k \in Places /\ channel'[j] = channel[j + k] /\ j + k > 1
      BY <1>1, <1>9
    <3> QED
      BY <2>1, <3>1, <3>2 DEF RecordingAlone, Places
  <2> QED
    BY <1>4, <1>5, <1>7, <1>9, <2>1, <2>2, <2>3, <2>4, <2>8, <2>9 DEF StartRuns
<1>10. CASE UNCHANGED drawn /\ Stops
  <2>1. /\ state.kind = "recording" /\ state'.kind = "stopping"
        /\ handlers' = handlers \cup {<<"stop", state.session, "sent">>}
        /\ state'.session = state.session /\ state.kind \in Busy
    BY <1>10 DEF Stops, Active, Busy
  <2>2. Ending' /\ ~Live'
    <3>1. <<"stop", state.session, "sent">>[1] = "stop"
      OBVIOUS
    <3>2. <<"stop", state.session, "sent">> \in handlers'
      BY <2>1
    <3>3. Ending'
      BY <3>1, <3>2, Zenon DEF Ending
    <3> QED
      BY <2>1, <3>3 DEF Live
  <2>3. StreamOwned' /\ OwnStream' /\ RecordingAlone'
    BY <1>0, <2>1, <2>2 DEF StreamOwned, OwnStream, RecordingAlone
  <2>4. /\ \A s \in Sessions, i \in 1 .. Len(channel') :
                channel'[i] = <<"answer", "start", s, TRUE>> => Left(s)'
        /\ \A s \in Sessions : StartBegun(s) => Left(s) /\ Left(s)'
    BY <1>14, <2>1
  <2>5. \A s \in Sessions : StartBegun(s) => s # state.session
    BY <2>1, <2>4 DEF Left
  <2>6. BegunAwaited'
    <3>1. /\ <<"stop", state.session, "sent">>[2] = state.session
          /\ <<"stop", state.session, "sent">>[3] = "sent"
          /\ \A t \in Sessions : <<"start", t, "begun">>[3] = "begun"
      OBVIOUS
    <3>2. \A t \in Sessions : StartBegun(t)' => StartBegun(t)
      BY <2>1, <3>1 DEF StartBegun
    <3>3. \A t \in Sessions : StartBegun(t) => \A h \in handlers' : h[2] = t => h \in handlers
      BY <2>1, <2>5, <3>1
    <3> QED
      BY <1>13, <2>1, <2>4, <3>2, <3>3
  <2> QED
    BY <1>4, <1>5, <1>6, <1>10, <2>1, <2>3, <2>4, <2>6 DEF StartRuns
<1>11. CASE UNCHANGED drawn /\ Passes
  <2>1. StreamOwned' /\ OwnStream' /\ RecordingAlone'
    BY <1>0, <1>11 DEF Passes, StreamOwned, OwnStream, Live, Ending, RecordingAlone
  <2>2. /\ Numbered' /\ CancelsSent'
    BY <1>0, <1>1, <1>11 DEF Passes, Numbered, CancelsSent, Places
  <2>4. /\ \A s \in Sessions, i \in 1 .. Len(channel') :
                channel'[i] = <<"answer", "start", s, TRUE>> => Left(s)'
        /\ \A s \in Sessions : StartBegun(s) => Left(s) /\ Left(s)'
    BY <1>11, <1>14 DEF Passes, Live
  <2>3. StartAwaited' /\ AnswerAwaited'
    BY <1>6, <1>11, <2>4 DEF Passes, Live, StartRuns, StartAwaited, AnswerAwaited, Places
  <2>5. BegunAwaited'
    BY <1>11, <1>13, <2>4 DEF Passes, StartBegun
  <2> QED
    BY <1>2, <2>1, <2>2, <2>3, <2>5 DEF StreamInvariant
<1>12. CASE /\ UNCHANGED drawn /\ GivesUp
            /\ k = 1 /\ Concerns(channel[1], state.session) /\ 1 \in Places
  <2>1. /\ state'.kind = "error" /\ state'.kind \notin Busy /\ state.kind \in Busy
        /\ handlers' = handlers \cup {<<"cancel", state.session, "sent">>}
    BY <1>12 DEF GivesUp, Cancellable, Busy
  <2>2. Ending' /\ ~Live'
    <3>1. <<"cancel", state.session, "sent">>[1] = "cancel"
      OBVIOUS
    <3>2. <<"cancel", state.session, "sent">> \in handlers'
      BY <2>1
    <3>3. Ending'
      BY <3>1, <3>2, Zenon DEF Ending
    <3> QED
      BY <2>1, <3>3 DEF Live
  <2>3. StreamOwned' /\ OwnStream' /\ RecordingAlone'
    BY <1>0, <2>1, <2>2 DEF StreamOwned, OwnStream, RecordingAlone
  <2>4. \A s \in Sessions : Left(s)'
    BY <2>1 DEF Left
  <2>5. BegunAwaited'
    <3>1. \A s \in Sessions : Left(s) \/ <<"cancel", s, "sent">> \in handlers'
      BY <2>1 DEF Left
    <3> QED
      BY <1>13, <2>1, <2>4, <3>1 DEF StartBegun
  <2> QED
    BY <1>4, <1>5, <1>7, <1>12, <2>1, <2>3, <2>4, <2>5 DEF StartRuns
<1> QED
  BY <1>3, <1>8, <1>9, <1>10, <1>11, <1>12

-----------------------------------------------------------------------------
(* What the backend does to the session *)

\* The channel is as it was, with messages of M behind it.
Grows(M) ==
    /\ Len(channel) \in Nat /\ Len(channel') \in Nat
    /\ \A i \in 1 .. Len(channel') :
        \/ i \in Places /\ channel'[i] = channel[i]
        \/ i > Len(channel) /\ channel'[i] \in M

LEMMA SendGrows ==
    ASSUME channel \in Seq(Message), NEW m \in Message, NEW n \in Message
    PROVE  /\ UNCHANGED channel => Grows({})
           /\ Send(<<m>>) => Grows({m}) /\ Len(channel') = Len(channel) + 1
           /\ Send(<<m, n>>) => Grows({m, n})
<1>1. <<m>> \in Seq(Message) /\ <<m, n>> \in Seq(Message)
  OBVIOUS
<1>2. UNCHANGED channel => Grows({})
  BY DEF Grows, Places
<1>3. Send(<<m>>) => Grows({m}) /\ Len(channel') = Len(channel) + 1
  BY <1>1 DEF Send, Grows, Places
<1>4. Send(<<m, n>>) => Grows({m, n})
  BY <1>1 DEF Send, Grows, Places
<1> QED
  BY <1>2, <1>3, <1>4

BegunKept ==
    \A s \in Sessions :
        /\ StartBegun(s)' <=> StartBegun(s)
        /\ StartBegun(s) /\ <<"cancel", s, "sent">> \in handlers => <<"cancel", s, "sent">> \in handlers'

\* What comes of a call that runs, or of nothing, when it sends the messages M.
Quiet(M) ==
    /\ UNCHANGED <<state, drawn, meter, mounted, overlap>>
    /\ session' \in {session, NoSession}
    /\ losing' => session' = NoSession
    /\ \A s \in Sessions : StartRuns(s)' => StartRuns(s)
    /\ BegunKept
    /\ \A h \in handlers' : \E g \in handlers :
        h[1] = g[1] /\ h[2] = g[2] /\ (h[1] # "stop" => h[3] = g[3])
    /\ stream' => stream /\ (Ending => Ending')
    /\ ~stream' => ~stream \/ Ending \/ session = NoSession
    /\ buffer' \subseteq buffer \cup {session}
    /\ buffer' # {} => stream'
    /\ Grows(M)
    /\ \A m \in M :
        /\ \A s \in Sessions : m # <<"answer", "start", s, TRUE>>
        /\ m[1] = "levels" => session # NoSession /\ m[2] \subseteq buffer \cup {session}
        /\ \A s \in Sessions : Concerns(m, s) => s <= drawn /\ ~StartRuns(s)'
        /\ \A s \in Sessions : Answers(m, s) => ~StartBegun(s)'

LEMMA QuietKeeps ==
    ASSUME TypeOK, SessionShown, StreamInvariant, NEW M, Quiet(M)
    PROVE  StreamInvariant'
<1>0. /\ Numbered /\ StartAwaited /\ BegunAwaited /\ AnswerAwaited /\ CancelsSent
      /\ StreamOwned /\ OwnStream /\ LossAlone /\ BufferOwn /\ RecordingAlone
      /\ drawn \in Nat /\ session \in MaybeSession
  BY DEF StreamInvariant, TypeOK
<1>1. /\ UNCHANGED <<state, drawn, overlap>>
      /\ session' \in {session, NoSession}
      /\ \A h \in handlers' : \E g \in handlers :
            h[1] = g[1] /\ h[2] = g[2] /\ (h[1] # "stop" => h[3] = g[3])
      /\ \A s \in Sessions : StartRuns(s)' => StartRuns(s)
  BY DEF Quiet
<1>2. \A i \in 1 .. Len(channel') :
        \/ i \in Places /\ channel'[i] = channel[i]
        \/ i > Len(channel) /\ channel'[i] \in M
  BY DEF Quiet, Grows
<1>3. \A m \in M :
        /\ \A s \in Sessions : m # <<"answer", "start", s, TRUE>>
        /\ m[1] = "levels" => session # NoSession /\ m[2] \subseteq buffer \cup {session}
        /\ \A s \in Sessions : Concerns(m, s) => s <= drawn /\ ~StartRuns(s)'
        /\ \A s \in Sessions : Answers(m, s) => ~StartBegun(s)'
  BY DEF Quiet
<1>4. \A m \in M : ~overlap /\ m[1] = "levels" => session # NoSession /\ m[2] \subseteq {session}
  BY <1>0, <1>3 DEF BufferOwn
<1>5. Ending' => Ending
  BY <1>1 DEF Ending
<1>6. Numbered'
  <2>1. state'.kind \in Busy => state'.session = drawn'
    BY <1>0, <1>1 DEF Numbered
  <2>2. session' # NoSession => session' <= drawn'
    BY <1>0, <1>1 DEF Numbered
  <2>3. \A h \in handlers' : h[2] <= drawn'
    BY <1>0, <1>1 DEF Numbered
  <2>4. \A i \in 1 .. Len(channel') : \A s \in Sessions : Concerns(channel'[i], s) => s <= drawn'
    BY <1>0, <1>1, <1>2, <1>3 DEF Numbered
  <2> QED
    BY <2>1, <2>2, <2>3, <2>4 DEF Numbered, Places
<1>7. StartAwaited'
  <2> SUFFICES ASSUME NEW s \in Sessions, StartRuns(s)'
               PROVE  /\ state'.kind = "starting" /\ state'.session = s
                      /\ session' # s
                      /\ \A h \in handlers' : h[2] = s => h[1] = "start" /\ h[3] = "sent"
                      /\ \A i \in 1 .. Len(channel') : ~Concerns(channel'[i], s)
    BY DEF StartAwaited, Places
  <2>1. /\ state.kind = "starting" /\ state.session = s
        /\ session # s
        /\ \A h \in handlers : h[2] = s => h[1] = "start" /\ h[3] = "sent"
        /\ \A i \in Places : ~Concerns(channel[i], s)
    BY <1>0, <1>1 DEF StartAwaited
  <2>2. session' # s
    BY <1>1, <2>1
  <2>3. \A h \in handlers' : h[2] = s => h[1] = "start" /\ h[3] = "sent"
    BY <1>1, <2>1
  <2>4. \A i \in 1 .. Len(channel') : ~Concerns(channel'[i], s)
    BY <1>2, <1>3, <2>1
  <2> QED
    BY <1>1, <2>1, <2>2, <2>3, <2>4
<1>8. AnswerAwaited'
  <2> SUFFICES ASSUME NEW s \in Sessions, NEW i \in 1 .. Len(channel'),
                      channel'[i] = <<"answer", "start", s, TRUE>>
               PROVE  \/ Left(s)'
                      \/ /\ state'.kind = "starting" /\ state'.session = s
                         /\ session' \in {s, NoSession}
                         /\ \A j \in 1 .. Len(channel') : j < i => ~Answers(channel'[j], s)
                         /\ ~overlap' => \A j \in 1 .. Len(channel') :
                                j > i /\ channel'[j][1] = "levels" => channel'[j][2] \subseteq {s}
    BY DEF AnswerAwaited, Places
  <2>1. i \in Places /\ channel[i] = <<"answer", "start", s, TRUE>>
    BY <1>2, <1>3
  <2>0. CASE Left(s)
    BY <1>1, <2>0 DEF Left
  <2>2. CASE /\ state.kind = "starting" /\ state.session = s
             /\ session \in {s, NoSession}
             /\ \A j \in Places : j < i => ~Answers(channel[j], s)
             /\ ~overlap => \A j \in Places :
                    j > i /\ channel[j][1] = "levels" => channel[j][2] \subseteq {s}
    <3>1. \A j \in 1 .. Len(channel') : j < i => ~Answers(channel'[j], s)
      <4>1. \A j \in 1 .. Len(channel') : j < i => ~(j > Len(channel))
        BY <2>1 DEF Places
      <4> QED
        BY <1>2, <2>2, <4>1
    <3>2. ~overlap' => \A j \in 1 .. Len(channel') :
              j > i /\ channel'[j][1] = "levels" => channel'[j][2] \subseteq {s}
      BY <1>1, <1>2, <1>4, <2>2
    <3> QED
      BY <1>1, <2>2, <3>1, <3>2
  <2> QED
    BY <1>0, <2>0, <2>1, <2>2 DEF AnswerAwaited
<1>14. BegunAwaited'
  <2> SUFFICES ASSUME NEW s \in Sessions, StartBegun(s)'
               PROVE  /\ session' \in {s, NoSession}
                      /\ \A i \in 1 .. Len(channel') : ~Answers(channel'[i], s)
                      /\ \A h \in handlers' : h[2] = s => h[1] # "stop"
                      /\ IF Left(s)' THEN <<"cancel", s, "sent">> \in handlers'
                         ELSE state'.kind = "starting"
    BY DEF BegunAwaited, Places
  <2>1. StartBegun(s) /\ (<<"cancel", s, "sent">> \in handlers => <<"cancel", s, "sent">> \in handlers')
    BY DEF Quiet, BegunKept
  <2>2. /\ session \in {s, NoSession}
        /\ \A i \in Places : ~Answers(channel[i], s)
        /\ \A h \in handlers : h[2] = s => h[1] # "stop"
        /\ IF Left(s) THEN <<"cancel", s, "sent">> \in handlers ELSE state.kind = "starting"
    BY <1>0, <2>1 DEF BegunAwaited
  <2>3. \A i \in 1 .. Len(channel') : ~Answers(channel'[i], s)
    BY <1>2, <1>3, <2>2
  <2>4. \A h \in handlers' : h[2] = s => h[1] # "stop"
    BY <1>1, <2>2
  <2> QED
    BY <1>1, <2>1, <2>2, <2>3, <2>4 DEF Left
<1>15. LossAlone'
  BY DEF Quiet, LossAlone
<1>9. CancelsSent'
  BY <1>0, <1>1 DEF CancelsSent
<1>10. StreamOwned'
  <2>1. /\ stream' => stream /\ (Ending => Ending')
        /\ buffer' # {} => stream'
    BY DEF Quiet
  <2>2. Live => state.session \in Sessions
    BY DEF Live, SessionShown, Busy
  <2> QED
    BY <1>0, <1>1, <2>1, <2>2 DEF StreamOwned, Live
<1>11. OwnStream'
  <2>1. Live => state.session \in Sessions
    BY DEF Live, SessionShown, Busy
  <2>2. ~stream' => ~stream \/ Ending \/ session = NoSession
    BY DEF Quiet
  <2>3. Live /\ session' = state.session => session = state.session /\ session \in Sessions
    BY <1>1, <2>1
  <2>5. ASSUME Live', session' = state'.session, ~overlap'
        PROVE  ~Ending' /\ (~StartBegun(session)' => stream')
    <3>1. /\ Live /\ session = state.session /\ ~overlap /\ session \in Sessions
          /\ session' = session
      BY <1>1, <2>3, <2>5 DEF Live
    <3>2. ~Ending /\ (~StartBegun(session) => stream)
      BY <1>0, <3>1 DEF OwnStream
    <3>3. StartBegun(session) => StartBegun(session)'
      BY <3>1 DEF Quiet, BegunKept, StartBegun
    <3> QED
      BY <1>5, <2>2, <3>1, <3>2, <3>3
  <2> QED
    BY <2>5 DEF OwnStream
<1>12. BufferOwn'
  BY <1>0, <1>1 DEF Quiet, BufferOwn
<1>13. RecordingAlone'
  <2> SUFFICES ASSUME state'.kind = "recording"
               PROVE  /\ session' \in {state'.session, NoSession}
                      /\ ~overlap' => \A i \in 1 .. Len(channel') :
                            channel'[i][1] = "levels" => channel'[i][2] \subseteq {state'.session}
    BY DEF RecordingAlone, Places
  <2>1. /\ session \in {state.session, NoSession}
        /\ ~overlap => \A i \in Places :
                channel[i][1] = "levels" => channel[i][2] \subseteq {state.session}
    BY <1>0, <1>1 DEF RecordingAlone
  <2> QED
    BY <1>1, <1>2, <1>4, <2>1
<1> QED
  BY <1>6, <1>7, <1>8, <1>9, <1>10, <1>11, <1>12, <1>13, <1>14, <1>15 DEF StreamInvariant

\* What the number and the state of a call that runs say about its session.
LEMMA CallsNumbered ==
    ASSUME TypeOK, StreamInvariant, NEW h \in handlers
    PROVE  /\ h[2] \in Sessions /\ h[2] <= drawn
           /\ h[1] # "start" => ~StartRuns(h[2])
           /\ h[1] = "stop" => ~StartBegun(h[2])
           /\ h[1] = "start" /\ h[3] = "sent" => ~StartBegun(h[2])
           /\ h[1] \in {"stop", "cancel"} => Ending
<1>1. h[2] \in Sessions
  BY DEF TypeOK
<1> QED
  <2>1. /\ h[2] <= drawn /\ (h[1] # "start" => ~StartRuns(h[2]))
        /\ h[1] \in {"stop", "cancel"} => Ending
    BY <1>1 DEF StreamInvariant, Numbered, StartAwaited, Ending
  <2>2. h[1] = "stop" => ~StartBegun(h[2])
    BY <1>1 DEF StreamInvariant, BegunAwaited
  <2>3. ASSUME h[1] = "start", h[3] = "sent" PROVE ~StartBegun(h[2])
    <3>1. h = <<"start", h[2], "sent">>
      BY <2>3 DEF TypeOK
    <3>2. <<"start", h[2], "begun">>[2] = h[2] /\ <<"start", h[2], "begun">>[3] = "begun"
      OBVIOUS
    <3> QED
      BY <1>1, <3>1, <3>2 DEF StreamInvariant, StartAwaited, StartRuns, StartBegun
  <2> QED
    BY <1>1, <2>1, <2>2, <2>3

\* The session that is active has been drawn, and its start is over.
LEMMA ActiveNumbered ==
    ASSUME TypeOK, StreamInvariant, session # NoSession
    PROVE  session \in Sessions /\ session <= drawn /\ ~StartRuns(session)
<1>1. session \in Sessions
  BY DEF TypeOK
<1> QED
  BY <1>1 DEF StreamInvariant, Numbered, StartAwaited

\* Messages that are about one session, which has been drawn and has no start.
LEMMA MessagesQuiet ==
    ASSUME NEW s \in Sessions, s <= drawn, ~StartRuns(s)', NEW b \in BOOLEAN, NEW c \in BOOLEAN,
           NEW op \in {"stop", "cancel"}, NEW text, NEW clipboard,
           NEW m \in {<<"error", s, b>>, <<"answer", "start", s, FALSE>>, <<"answer", op, s, c>>,
                      <<"transcript", s, text, clipboard>>}
    PROVE  /\ \A t \in Sessions : m # <<"answer", "start", t, TRUE>>
           /\ m[1] # "levels"
           /\ \A t \in Sessions : Concerns(m, t) => t <= drawn /\ ~StartRuns(t)'
           /\ \A t \in Sessions : Answers(m, t) => t = s
<1>1. \A t \in Sessions : /\ <<"answer", "start", t, TRUE>>[1] = "answer"
                           /\ <<"answer", "start", t, TRUE>>[2] = "start"
                           /\ <<"answer", "start", t, TRUE>>[4] = TRUE
  OBVIOUS
<1>2. CASE m = <<"error", s, b>>
  <2>1. m[1] = "error" /\ m[2] = s
    BY <1>2
  <2> QED
    BY <1>1, <2>1 DEF Concerns, Answers
<1>3. CASE m = <<"answer", "start", s, FALSE>>
  <2>1. m[1] = "answer" /\ m[3] = s /\ m[4] = FALSE
    BY <1>3
  <2> QED
    BY <1>1, <2>1 DEF Concerns, Answers
<1>4. CASE m = <<"answer", op, s, c>>
  <2>1. m[1] = "answer" /\ m[3] = s /\ m[2] = op
    BY <1>4
  <2> QED
    BY <1>1, <2>1 DEF Concerns, Answers
<1>5. CASE m = <<"transcript", s, text, clipboard>>
  <2>1. m[1] = "transcript"
    BY <1>5
  <2> QED
    BY <1>1, <2>1 DEF Concerns, Answers
<1> QED
  BY <1>2, <1>3, <1>4, <1>5

\* A call of its session ends, or moves on.
LEMMA CallsQuiet ==
    ASSUME NEW h \in handlers, NEW g, g[1] = "stop", g[2] = h[2], h[1] = "stop",
           handlers' = handlers \ {h} \/ handlers' = (handlers \ {h}) \cup {g}
    PROVE  /\ \A s \in Sessions : StartRuns(s)' => StartRuns(s)
           /\ \A i \in handlers' : \E j \in handlers :
                    i[1] = j[1] /\ i[2] = j[2] /\ (i[1] # "stop" => i[3] = j[3])
           /\ BegunKept
           /\ handlers' = (handlers \ {h}) \cup {g} => Ending'
<1>1. \A s \in Sessions : /\ <<"start", s, "sent">> \notin {g, h}
                           /\ <<"start", s, "begun">> \notin {g, h}
                           /\ <<"cancel", s, "sent">> \notin {g, h}
  <2>1. \A s \in Sessions : /\ <<"start", s, "sent">>[1] = "start"
                             /\ <<"start", s, "begun">>[1] = "start"
                             /\ <<"cancel", s, "sent">>[1] = "cancel"
    OBVIOUS
  <2> QED
    BY <2>1
<1>3. BegunKept
  BY <1>1 DEF BegunKept, StartBegun
<1>2. handlers' = (handlers \ {h}) \cup {g} => Ending'
  BY DEF Ending
<1> QED
  BY <1>1, <1>2, <1>3 DEF StartRuns

\* Every step of the backend but the beginning of a start.
LEMMA BackendQuiet ==
    ASSUME TypeOK, StreamInvariant, Backend
    PROVE  (\E M : Quiet(M)) \/ \E s \in Sessions : StartBegins(s) \/ StartEnds(s)
<1>0. /\ channel \in Seq(Message) /\ buffer \subseteq Sessions /\ session \in MaybeSession
      /\ stream \in BOOLEAN /\ (buffer # {} => stream) /\ LossAlone
      /\ {"start", "stop", "cancel", "insert"} = Operations
  BY DEF TypeOK, StreamInvariant, StreamOwned, Operations
<1>1. ASSUME NEW s \in Sessions, NEW fatal \in BOOLEAN, StartFails(s, fatal)
      PROVE  \E M : Quiet(M)
  <2> DEFINE h == <<"start", s, "sent">>
             e == <<"error", s, fatal>>
             a == <<"answer", "start", s, FALSE>>
  <2>1. /\ h \in handlers /\ handlers' = handlers \ {h} /\ (Send(<<a>>) \/ Send(<<e, a>>))
        /\ UNCHANGED <<session, stream, buffer, losing, overlap>> /\ UnchangedPanel
    BY <1>1 DEF StartFails
  <2>2. s <= drawn /\ ~StartRuns(s)' /\ ~StartBegun(s)'
    <3>1. h[1] = "start" /\ h[2] = s /\ h[3] = "sent"
      OBVIOUS
    <3> QED
      BY <2>1, <3>1, CallsNumbered DEF StartRuns, StartBegun
  <2>8. BegunKept
    <3>1. \A t \in Sessions : <<"start", t, "begun">>[3] = "begun" /\ <<"cancel", t, "sent">>[1] = "cancel"
      OBVIOUS
    <3>2. h[1] = "start" /\ h[3] = "sent"
      OBVIOUS
    <3> HIDE DEF h
    <3> QED
      BY <2>1, <3>1, <3>2 DEF BegunKept, StartBegun
  <2>3. e \in Message /\ a \in Message
    BY <1>0, MessageTypes
  <2>4. Grows({a}) \/ Grows({e, a})
    BY <1>0, <2>1, <2>3, SendGrows
  <2>5. \A m \in {e, a} :
            /\ \A t \in Sessions : m # <<"answer", "start", t, TRUE>>
            /\ m[1] # "levels"
            /\ \A t \in Sessions : Concerns(m, t) => t <= drawn /\ ~StartRuns(t)'
            /\ \A t \in Sessions : Answers(m, t) => t = s
    BY <2>2, MessagesQuiet
  <2>6. Ending => Ending'
    <3>1. h[1] = "start"
      OBVIOUS
    <3> QED
      BY <2>1, <3>1 DEF Ending
  <2> HIDE DEF h, e, a
  <2>7. Quiet({a}) \/ Quiet({e, a})
    BY <1>0, <2>1, <2>2, <2>4, <2>5, <2>6, <2>8 DEF Quiet, LossAlone, UnchangedPanel, card, StartRuns
  <2> QED
    BY <2>7
<1>2. ASSUME NEW s \in Sessions, StopBegins(s)
      PROVE  \E M : Quiet(M)
  <2> DEFINE h == <<"stop", s, "sent">>
             g == <<"stop", s, "transcribing">>
  <2>1. /\ h \in handlers /\ handlers' = (handlers \ {h}) \cup {g}
        /\ UNCHANGED <<session, stream, buffer, losing, channel, overlap>> /\ UnchangedPanel
    BY <1>2 DEF StopBegins
  <2>2. h[1] = "stop" /\ g[1] = "stop" /\ g[2] = h[2]
    OBVIOUS
  <2> HIDE DEF h, g
  <2>3. /\ \A t \in Sessions : StartRuns(t)' => StartRuns(t)
        /\ \A i \in handlers' : \E j \in handlers :
                i[1] = j[1] /\ i[2] = j[2] /\ (i[1] # "stop" => i[3] = j[3])
        /\ BegunKept /\ Ending'
    BY <2>1, <2>2, CallsQuiet
  <2>4. Grows({})
    BY <1>0, <2>1 DEF Grows, Places
  <2>5. Quiet({})
    BY <1>0, <2>1, <2>3, <2>4 DEF Quiet, LossAlone, UnchangedPanel
  <2> QED
    BY <2>5
<1>3. ASSUME NEW s \in Sessions, NEW text \in {"text", "empty"},
             NEW clipboard \in {"ok", "failed", "skipped"}, StopDelivers(s, text, clipboard)
      PROVE  \E M : Quiet(M)
  <2> DEFINE h == <<"stop", s, "transcribing">>
             g == <<"stop", s, "over">>
             m == <<"transcript", s, text, clipboard>>
  <2>1. /\ h \in handlers /\ handlers' = (handlers \ {h}) \cup {g}
        /\ Send(<<m>>) /\ session' = NoSession
        /\ UNCHANGED <<stream, buffer, losing, overlap>> /\ UnchangedPanel
    BY <1>3 DEF StopDelivers
  <2>2. h[1] = "stop" /\ h[2] = s /\ g[1] = "stop" /\ g[2] = h[2]
    OBVIOUS
  <2>3. m \in Message
    BY MessageTypes
  <2> HIDE DEF h, g
  <2>4. /\ \A t \in Sessions : StartRuns(t)' => StartRuns(t)
        /\ \A i \in handlers' : \E j \in handlers :
                i[1] = j[1] /\ i[2] = j[2] /\ (i[1] # "stop" => i[3] = j[3])
        /\ BegunKept /\ Ending'
    BY <2>1, <2>2, CallsQuiet
  <2>5. s <= drawn /\ ~StartRuns(s)' /\ ~StartBegun(s)'
    <3>1. s <= drawn /\ ~StartRuns(s) /\ ~StartBegun(s)
      BY <2>1, <2>2, CallsNumbered
    <3> QED
      BY <2>4, <3>1 DEF BegunKept
  <2>6. Grows({m})
    BY <1>0, <2>1, <2>3, SendGrows
  <2>7. /\ \A t \in Sessions : m # <<"answer", "start", t, TRUE>>
        /\ m[1] # "levels"
        /\ \A t \in Sessions : Concerns(m, t) => t <= drawn /\ ~StartRuns(t)'
        /\ \A t \in Sessions : Answers(m, t) => ~StartBegun(t)'
    BY <2>5, MessagesQuiet
  <2> HIDE DEF m
  <2>8. Quiet({m})
    BY <1>0, <2>1, <2>4, <2>6, <2>7 DEF Quiet, LossAlone, UnchangedPanel
  <2> QED
    BY <2>8
<1>4. ASSUME NEW s \in Sessions, NEW fatal \in BOOLEAN, StopFails(s, fatal)
      PROVE  \E M : Quiet(M)
  <2>0. PICK at \in {"sent", "transcribing"} :
            /\ <<"stop", s, at>> \in handlers
            /\ session' = IF session = s THEN NoSession ELSE session
            /\ handlers' = (handlers \ {<<"stop", s, at>>}) \cup {<<"stop", s, "failed">>}
            /\ Send(<<<<"error", s, fatal>>>>)
            /\ UNCHANGED <<stream, buffer, losing, overlap>>
            /\ UnchangedPanel
    BY <1>4 DEF StopFails
  <2> DEFINE h == <<"stop", s, at>>
             g == <<"stop", s, "failed">>
             m == <<"error", s, fatal>>
  <2>1. /\ h \in handlers /\ handlers' = (handlers \ {h}) \cup {g}
        /\ Send(<<m>>) /\ session' \in {session, NoSession}
        /\ UNCHANGED <<stream, buffer, losing, overlap>> /\ UnchangedPanel
    BY <2>0
  <2>2. h[1] = "stop" /\ h[2] = s /\ g[1] = "stop" /\ g[2] = h[2]
    OBVIOUS
  <2>3. m \in Message
    BY MessageTypes
  <2> HIDE DEF h, g
  <2>4. /\ \A t \in Sessions : StartRuns(t)' => StartRuns(t)
        /\ \A i \in handlers' : \E j \in handlers :
                i[1] = j[1] /\ i[2] = j[2] /\ (i[1] # "stop" => i[3] = j[3])
        /\ BegunKept /\ Ending'
    BY <2>1, <2>2, CallsQuiet
  <2>5. s <= drawn /\ ~StartRuns(s)' /\ ~StartBegun(s)'
    <3>1. s <= drawn /\ ~StartRuns(s) /\ ~StartBegun(s)
      BY <2>1, <2>2, CallsNumbered
    <3> QED
      BY <2>4, <3>1 DEF BegunKept
  <2>6. Grows({m})
    BY <1>0, <2>1, <2>3, SendGrows
  <2>7. /\ \A t \in Sessions : m # <<"answer", "start", t, TRUE>>
        /\ m[1] # "levels"
        /\ \A t \in Sessions : Concerns(m, t) => t <= drawn /\ ~StartRuns(t)'
        /\ \A t \in Sessions : Answers(m, t) => ~StartBegun(t)'
    BY <2>5, MessagesQuiet
  <2> HIDE DEF m
  <2>8. Quiet({m})
    BY <1>0, <2>1, <2>4, <2>6, <2>7 DEF Quiet, LossAlone, UnchangedPanel
  <2> QED
    BY <2>8
<1>5. ASSUME NEW s \in Sessions, StopEnds(s)
      PROVE  \E M : Quiet(M)
  <2>0. PICK at \in {"over", "failed"} :
            /\ <<"stop", s, at>> \in handlers
            /\ StopLevelStream
            /\ handlers' = handlers \ {<<"stop", s, at>>}
            /\ Send(<<<<"answer", "stop", s, at = "over">>>>)
            /\ UNCHANGED <<session, losing, overlap>>
            /\ UnchangedPanel
    BY <1>5 DEF StopEnds
  <2> DEFINE h == <<"stop", s, at>>
             m == <<"answer", "stop", s, at = "over">>
  <2>1. /\ h \in handlers /\ handlers' = handlers \ {h}
        /\ Send(<<m>>) /\ ~stream' /\ buffer' = {}
        /\ UNCHANGED <<session, losing, overlap>> /\ UnchangedPanel
    BY <2>0 DEF StopLevelStream
  <2>2. h[1] = "stop" /\ h[2] = s
    OBVIOUS
  <2>3. (at = "over") \in BOOLEAN /\ m \in Message
    BY <1>0, MessageTypes
  <2> HIDE DEF h
  <2>4. /\ \A t \in Sessions : StartRuns(t)' => StartRuns(t)
        /\ \A i \in handlers' : \E j \in handlers :
                i[1] = j[1] /\ i[2] = j[2] /\ (i[1] # "stop" => i[3] = j[3])
    BY <2>1 DEF StartRuns
  <2>9. BegunKept
    <3>1. \A t \in Sessions : <<"start", t, "begun">>[1] = "start" /\ <<"cancel", t, "sent">>[1] = "cancel"
      OBVIOUS
    <3> QED
      BY <2>1, <2>2, <3>1 DEF BegunKept, StartBegun
  <2>5. s <= drawn /\ ~StartRuns(s)' /\ ~StartBegun(s)' /\ Ending
    <3>1. s <= drawn /\ ~StartRuns(s) /\ ~StartBegun(s) /\ Ending
      BY <2>1, <2>2, CallsNumbered
    <3> QED
      BY <2>4, <2>9, <3>1 DEF BegunKept
  <2>6. Grows({m})
    BY <1>0, <2>1, <2>3, SendGrows
  <2>7. /\ \A t \in Sessions : m # <<"answer", "start", t, TRUE>>
        /\ m[1] # "levels"
        /\ \A t \in Sessions : Concerns(m, t) => t <= drawn /\ ~StartRuns(t)'
        /\ \A t \in Sessions : Answers(m, t) => ~StartBegun(t)'
    BY <2>3, <2>5, MessagesQuiet
  <2> HIDE DEF m
  <2>8. Quiet({m})
    BY <1>0, <2>1, <2>4, <2>5, <2>6, <2>7, <2>9 DEF Quiet, LossAlone, UnchangedPanel
  <2> QED
    BY <2>8
<1>6. ASSUME NEW s \in Sessions, Cancels(s)
      PROVE  \E M : Quiet(M)
  <2> DEFINE h == <<"cancel", s, "sent">>
             e(fatal) == <<"error", s, fatal>>
             a == <<"answer", "cancel", s, FALSE>>
             k == <<"answer", "cancel", s, TRUE>>
             w == <<"stop", s, "transcribing">>
             o == <<"stop", s, "over">>
  <2>1. /\ h \in handlers /\ handlers' = {IF i = w THEN o ELSE i : i \in handlers \ {h}}
        /\ Send(<<k>>) \/ \E fatal \in BOOLEAN : Send(<<e(fatal), a>>)
        /\ ~stream' /\ buffer' = {} /\ session' \in {session, NoSession}
        /\ \A i \in handlers : i[3] # "begun"
        /\ UNCHANGED <<losing, overlap>> /\ UnchangedPanel
    BY <1>6 DEF Cancels, StopLevelStream, LockFree
  <2>2. h[1] = "cancel" /\ h[2] = s
    OBVIOUS
  <2>4. /\ w[1] = "stop" /\ o[1] = "stop" /\ w[2] = o[2] /\ o[3] = "over"
        /\ \A t \in Sessions : /\ <<"start", t, "sent">>[1] = "start"
                                /\ <<"start", t, "begun">>[3] = "begun"
    OBVIOUS
  <2> HIDE DEF h, w, o
  <2>6. /\ \A t \in Sessions : StartRuns(t)' => StartRuns(t)
        /\ \A t \in Sessions : ~StartBegun(t) /\ ~StartBegun(t)'
        /\ \A i \in handlers' : \E j \in handlers :
                i[1] = j[1] /\ i[2] = j[2] /\ (i[1] # "stop" => i[3] = j[3])
    BY <2>1, <2>4 DEF StartRuns, StartBegun
  <2>7. s <= drawn /\ ~StartRuns(s)' /\ Ending
    BY <2>1, <2>2, <2>6, CallsNumbered
  <2>10. BegunKept
    BY <2>6 DEF BegunKept
  <2>11. CASE Send(<<k>>)
    <3>1. k \in Message
      BY <1>0, MessageTypes
    <3>2. Grows({k})
      BY <1>0, <2>11, <3>1, SendGrows
    <3>3. /\ \A t \in Sessions : k # <<"answer", "start", t, TRUE>>
          /\ k[1] # "levels"
          /\ \A t \in Sessions : Concerns(k, t) => t <= drawn /\ ~StartRuns(t)'
      BY <2>7, MessagesQuiet
    <3> HIDE DEF k
    <3>4. Quiet({k})
      BY <1>0, <2>1, <2>6, <2>7, <2>10, <3>2, <3>3 DEF Quiet, LossAlone, UnchangedPanel
    <3> QED
      BY <3>4
  <2>12. ASSUME NEW fatal \in BOOLEAN, Send(<<e(fatal), a>>) PROVE \E M : Quiet(M)
    <3> DEFINE f == e(fatal)
    <3>1. f \in Message /\ a \in Message
      BY <1>0, MessageTypes
    <3>2. Grows({f, a})
      BY <1>0, <2>12, <3>1, SendGrows
    <3>3. \A m \in {f, a} :
            /\ \A t \in Sessions : m # <<"answer", "start", t, TRUE>>
            /\ m[1] # "levels"
            /\ \A t \in Sessions : Concerns(m, t) => t <= drawn /\ ~StartRuns(t)'
      BY <2>7, MessagesQuiet
    <3> HIDE DEF f, a
    <3>4. Quiet({f, a})
      BY <1>0, <2>1, <2>6, <2>7, <2>10, <3>2, <3>3 DEF Quiet, LossAlone, UnchangedPanel
    <3> QED
      BY <3>4
  <2> QED
    BY <2>1, <2>11, <2>12
<1>7. ASSUME RuntimeLost
      PROVE  \E M : Quiet(M)
  <2>0. PICK s : s = session
    OBVIOUS
  <2> DEFINE m == <<"error", s, TRUE>>
  <2>1. /\ session' = NoSession
        /\ UNCHANGED channel \/ (s # NoSession /\ Send(<<m>>))
        /\ UNCHANGED <<handlers, stream, buffer, overlap>> /\ UnchangedPanel
    BY <1>7, <2>0 DEF RuntimeLost
  <2>2. BegunKept
    BY <2>1 DEF BegunKept, StartBegun
  <2>3. CASE UNCHANGED channel
    <3>1. Grows({})
      BY <1>0, <2>3 DEF Grows, Places
    <3>2. Quiet({})
      BY <1>0, <2>1, <2>2, <3>1 DEF Quiet, UnchangedPanel, StartRuns, Ending
    <3> QED
      BY <3>2
  <2>4. CASE s # NoSession /\ Send(<<m>>)
    <3>1. s \in Sessions /\ s <= drawn /\ ~StartRuns(s)'
      BY <2>0, <2>1, <2>4, ActiveNumbered DEF StartRuns
    <3>2. m \in Message
      BY <3>1, MessageTypes
    <3>3. Grows({m})
      BY <1>0, <2>4, <3>2, SendGrows
    <3>4. /\ \A t \in Sessions : m # <<"answer", "start", t, TRUE>>
          /\ m[1] # "levels"
          /\ \A t \in Sessions : Concerns(m, t) => t <= drawn /\ ~StartRuns(t)'
      BY <3>1, MessagesQuiet
    <3>5. m[1] = "error"
      OBVIOUS
    <3> HIDE DEF m
    <3>6. Quiet({m})
      BY <1>0, <2>1, <2>2, <3>3, <3>4, <3>5 DEF Quiet, UnchangedPanel, StartRuns, Ending, Answers
    <3> QED
      BY <3>6
  <2> QED
    BY <2>1, <2>3, <2>4
<1>11. ASSUME LossEnds
       PROVE  \E M : Quiet(M)
  <2>1. /\ losing /\ ~losing' /\ ~stream' /\ buffer' = {}
        /\ UNCHANGED <<handlers, session, channel, overlap>> /\ UnchangedPanel
    BY <1>11 DEF LossEnds, StopLevelStream
  <2>2. Grows({})
    BY <1>0, <2>1 DEF Grows, Places
  <2>3. BegunKept
    BY <2>1 DEF BegunKept, StartBegun
  <2>4. Quiet({})
    BY <1>0, <2>1, <2>2, <2>3 DEF Quiet, LossAlone, UnchangedPanel, StartRuns, Ending
  <2> QED
    BY <2>4
<1>8. ASSUME RuntimeReady
      PROVE  \E M : Quiet(M)
  <2> DEFINE m == <<"ready">>
  <2>1. Send(<<m>>) /\ UNCHANGED <<handlers, session, stream, buffer, losing, overlap>> /\ UnchangedPanel
    BY <1>8 DEF RuntimeReady
  <2>2. m \in Message
    BY MessageTypes DEF Message
  <2>3. Grows({m})
    BY <1>0, <2>1, <2>2, SendGrows
  <2>4. m[1] = "ready" /\ \A t \in Sessions : <<"answer", "start", t, TRUE>>[1] = "answer"
    OBVIOUS
  <2> HIDE DEF m
  <2>5. /\ \A t \in Sessions : m # <<"answer", "start", t, TRUE>>
        /\ m[1] # "levels"
        /\ \A t \in Sessions : ~Concerns(m, t) /\ ~Answers(m, t)
    BY <2>4 DEF Concerns, Answers
  <2>6. Quiet({m})
    BY <1>0, <2>1, <2>3, <2>5 DEF Quiet, LossAlone, UnchangedPanel, StartRuns, Ending, BegunKept, StartBegun
  <2> QED
    BY <2>6
<1>9. ASSUME Frame(TRUE)
      PROVE  \E M : Quiet(M)
  <2> DEFINE m == <<"levels", buffer \cup {session}>>
  <2>1. /\ stream /\ session # NoSession /\ buffer' = {} /\ Send(<<m>>)
        /\ UNCHANGED <<handlers, session, stream, losing, overlap>> /\ UnchangedPanel
    BY <1>9 DEF Frame
  <2>2. m \in Message
    BY <1>0, <2>1, MessageTypes
  <2>3. Grows({m})
    BY <1>0, <2>1, <2>2, SendGrows
  <2>4. /\ m[1] = "levels" /\ m[2] = buffer \cup {session}
        /\ \A t \in Sessions : <<"answer", "start", t, TRUE>>[1] = "answer"
    OBVIOUS
  <2> HIDE DEF m
  <2>5. /\ \A t \in Sessions : m # <<"answer", "start", t, TRUE>>
        /\ \A t \in Sessions : ~Concerns(m, t) /\ ~Answers(m, t)
    BY <2>4 DEF Concerns, Answers
  <2>6. Quiet({m})
    BY <1>0, <2>1, <2>3, <2>4, <2>5 DEF Quiet, LossAlone, UnchangedPanel, StartRuns, Ending, BegunKept, StartBegun
  <2> QED
    BY <2>6
<1>10. ASSUME Frame(FALSE) \/ Reconnect
       PROVE  \E M : Quiet(M)
  <2>1. /\ stream /\ buffer' \subseteq buffer \cup {session}
        /\ UNCHANGED <<handlers, session, stream, losing, channel, overlap>> /\ UnchangedPanel
    BY <1>0, <1>10 DEF Frame, Reconnect
  <2>2. Grows({})
    BY <1>0, <2>1 DEF Grows, Places
  <2>3. Quiet({})
    BY <1>0, <2>1, <2>2 DEF Quiet, LossAlone, UnchangedPanel, StartRuns, Ending, BegunKept, StartBegun
  <2> QED
    BY <2>3
<1> QED
  BY <1>1, <1>2, <1>3, <1>4, <1>5, <1>6, <1>7, <1>8, <1>9, <1>10, <1>11 DEF Backend

\* A start that has waited for the calls before it finds no stream, unless a stop runs.
LEMMA StartKeeps ==
    ASSUME TypeOK, SessionShown, StreamInvariant, NEW s \in Sessions, StartBegins(s)
    PROVE  StreamInvariant' /\ state.kind = "starting" /\ UNCHANGED <<state, meter, mounted>>
<1> DEFINE b == <<"start", s, "begun">>
           h == <<"start", s, "sent">>
<1>0. /\ Numbered /\ StartAwaited /\ AnswerAwaited /\ CancelsSent /\ StreamOwned
      /\ channel \in Seq(Message) /\ drawn \in Nat /\ s \in Nat
      /\ \A g \in handlers : g[2] \in Sessions
  BY DEF StreamInvariant, TypeOK
<1>1. /\ h \in handlers /\ handlers' = (handlers \ {h}) \cup {b}
      /\ session = NoSession /\ session' = s /\ ~losing
      /\ \A g \in handlers : g[3] = "sent" => g[2] >= s
      /\ \A g \in handlers : g[3] # "begun"
      /\ overlap' = \E g \in handlers : g[1] = "stop"
      /\ UNCHANGED <<state, drawn, meter, mounted, channel, stream, buffer, losing>>
  BY DEF StartBegins, UnchangedPanel, LockFree, card
<1>2. /\ StartRuns(s) /\ state.kind = "starting" /\ state.session = s
      /\ \A g \in handlers : g[2] = s => g[1] = "start"
      /\ \A i \in Places : ~Concerns(channel[i], s)
  BY <1>0, <1>1 DEF StartAwaited, StartRuns
<1>3. s = drawn
  BY <1>0, <1>2 DEF Numbered, Busy
<1>4. ~overlap' => ~Ending
  <2> SUFFICES ASSUME NEW g \in handlers, g[1] = "cancel" PROVE FALSE
    BY <1>1 DEF Ending
  <2>1. g[3] = "sent" /\ g[2] <= drawn /\ g[2] \in Nat
    BY <1>0 DEF CancelsSent, Numbered
  <2>2. g[2] = s
    BY <1>0, <1>1, <1>3, <2>1
  <2> QED
    BY <1>2, <2>2
<1>5. ~overlap' => buffer = {}
  BY <1>0, <1>2, <1>4 DEF StreamOwned
<1>6. /\ h[1] = "start" /\ h[2] = s /\ h[3] = "sent"
      /\ b[1] = "start" /\ b[2] = s /\ b[3] = "begun"
      /\ \A t \in Sessions : /\ <<"start", t, "sent">>[2] = t /\ <<"start", t, "sent">>[3] = "sent"
                              /\ <<"start", t, "begun">>[2] = t
                              /\ <<"start", t, "begun">>[3] = "begun"
  OBVIOUS
<1>7. ~Left(s) /\ \A t \in Sessions : t # s => Left(t) /\ Left(t)'
  BY <1>1, <1>2 DEF Left, Busy
<1>8. Ending' <=> Ending
  BY <1>1, <1>6 DEF Ending
<1>11. /\ \A t \in Sessions : ~StartRuns(t)'
       /\ \A t \in Sessions : StartBegun(t)' => t = s
       /\ StartBegun(s)'
  <2>1. \A t \in Sessions : StartRuns(t) => t = s
    BY <1>0, <1>2 DEF StartAwaited
  <2> HIDE DEF b
  <2>2. \A t \in Sessions : ~StartRuns(t)'
    BY <1>1, <1>6, <2>1 DEF StartRuns, h
  <2>3. \A t \in Sessions : StartBegun(t)' => t = s
    BY <1>1, <1>6 DEF StartBegun
  <2> QED
    BY <1>1, <2>2, <2>3 DEF StartBegun, b
<1>9. \A t \in Sessions, i \in Places : channel[i] = <<"answer", "start", t, TRUE>> => t # s
  <2>1. \A i \in Places : channel[i] = <<"answer", "start", s, TRUE>> => Concerns(channel[i], s)
    BY DEF Concerns
  <2> QED
    BY <1>2, <2>1
<1> HIDE DEF b, h
<1>12. Numbered'
  BY <1>0, <1>1, <1>3, <1>6 DEF Numbered, Places
<1>13. StartAwaited' /\ CancelsSent'
  BY <1>0, <1>1, <1>6, <1>11 DEF StartAwaited, CancelsSent
<1>14. AnswerAwaited'
  BY <1>1, <1>7, <1>9 DEF AnswerAwaited, Places
<1>18. BegunAwaited'
  <2>1. \A i \in Places : ~Answers(channel[i], s)
    BY <1>2 DEF Concerns, Answers
  <2>2. \A g \in handlers' : g[2] = s => g[1] # "stop"
    BY <1>1, <1>2, <1>6
  <2> QED
    BY <1>1, <1>2, <1>7, <1>11, <2>1, <2>2 DEF BegunAwaited, Left, Places
<1>15. StreamOwned'
  BY <1>0, <1>1, <1>2, <1>8 DEF StreamOwned
<1>16. OwnStream' /\ LossAlone'
  BY <1>1, <1>4, <1>8, <1>11 DEF OwnStream, LossAlone
<1>17. BufferOwn' /\ RecordingAlone'
  BY <1>1, <1>2, <1>5 DEF BufferOwn, RecordingAlone
<1> QED
  BY <1>1, <1>2, <1>12, <1>13, <1>14, <1>15, <1>16, <1>17, <1>18 DEF StreamInvariant

\* The stream that follows is of the session the panel awaits, or will be stopped.
LEMMA StartEndKeeps ==
    ASSUME TypeOK, SessionShown, StreamInvariant, NEW s \in Sessions, StartEnds(s)
    PROVE  StreamInvariant' /\ UNCHANGED <<state, meter, mounted, overlap>>
<1> DEFINE a == <<"answer", "start", s, TRUE>>
           b == <<"start", s, "begun">>
<1>0. /\ Numbered /\ StartAwaited /\ BegunAwaited /\ AnswerAwaited /\ CancelsSent
      /\ StreamOwned /\ OwnStream /\ LossAlone /\ BufferOwn /\ RecordingAlone
      /\ channel \in Seq(Message) /\ drawn \in Nat /\ s \in Nat
  BY DEF StreamInvariant, TypeOK
<1>1. /\ b \in handlers /\ handlers' = handlers \ {b}
      /\ stream' = TRUE /\ Send(<<a>>)
      /\ UNCHANGED <<state, drawn, meter, mounted, session, buffer, losing, overlap>>
  BY DEF StartEnds, StartLevelStream, UnchangedPanel, card
<1>2. /\ b[1] = "start" /\ b[2] = s /\ b[3] = "begun"
      /\ \A t \in Sessions : <<"cancel", t, "sent">>[1] = "cancel"
      /\ a[1] = "answer" /\ a[3] = s
      /\ \A t \in Sessions : a = <<"answer", "start", t, TRUE>> => t = s
  OBVIOUS
<1>3. /\ session \in {s, NoSession}
      /\ \A i \in Places : ~Answers(channel[i], s)
      /\ IF Left(s) THEN <<"cancel", s, "sent">> \in handlers ELSE state.kind = "starting"
      /\ ~StartRuns(s) /\ s <= drawn
  <2>1. StartBegun(s)
    BY <1>1 DEF StartBegun
  <2>2. ~StartRuns(s)
    BY <1>0, <1>1, <1>2 DEF StartAwaited
  <2>3. s <= drawn
    BY <1>0, <1>1, <1>2 DEF Numbered
  <2> QED
    BY <1>0, <2>1, <2>2, <2>3 DEF BegunAwaited
<1>4. a \in Message
  BY MessageTypes DEF Operations
<1>5. Grows({a}) /\ Len(channel') = Len(channel) + 1
  BY <1>0, <1>1, <1>4, SendGrows
<1>6. /\ \A t \in Sessions : Concerns(a, t) => t = s
      /\ \A t \in Sessions : Answers(a, t) => t = s
  BY <1>2 DEF Concerns, Answers
<1> HIDE DEF a, b
<1>7. \A i \in 1 .. Len(channel') :
            \/ i \in Places /\ channel'[i] = channel[i]
            \/ i = Len(channel') /\ channel'[i] = a
  BY <1>5 DEF Grows
<1>8. /\ Ending' <=> Ending
      /\ \A t \in Sessions : /\ Left(t)' <=> Left(t)
                             /\ <<"cancel", t, "sent">> \in handlers' <=> <<"cancel", t, "sent">> \in handlers
                             /\ StartRuns(t)' => StartRuns(t)
                             /\ StartBegun(t)' => StartBegun(t) /\ t # s
  <2>1. Ending' <=> Ending
    BY <1>1, <1>2 DEF Ending
  <2>2. \A t \in Sessions : /\ Left(t)' <=> Left(t)
                            /\ <<"cancel", t, "sent">> \in handlers' <=> <<"cancel", t, "sent">> \in handlers
    BY <1>1, <1>2 DEF Left
  <2>3. \A t \in Sessions : StartRuns(t)' => StartRuns(t)
    BY <1>1 DEF StartRuns
  <2>4. \A t \in Sessions : StartBegun(t)' => StartBegun(t) /\ t # s
    BY <1>1 DEF StartBegun, b
  <2> QED
    BY <2>1, <2>2, <2>3, <2>4
<1>9. Numbered'
  BY <1>0, <1>1, <1>3, <1>6, <1>7 DEF Numbered, Places
<1>10. StartAwaited' /\ CancelsSent'
  <2>1. CancelsSent'
    BY <1>0, <1>1 DEF CancelsSent
  <2>2. ASSUME NEW t \in Sessions, StartRuns(t)'
        PROVE  /\ state'.kind = "starting" /\ state'.session = t
               /\ session' # t
               /\ \A g \in handlers' : g[2] = t => g[1] = "start" /\ g[3] = "sent"
               /\ \A i \in 1 .. Len(channel') : ~Concerns(channel'[i], t)
    <3>1. StartRuns(t) /\ t # s
      BY <1>3, <1>8, <2>2
    <3>2. /\ state.kind = "starting" /\ state.session = t
          /\ session # t
          /\ \A g \in handlers : g[2] = t => g[1] = "start" /\ g[3] = "sent"
          /\ \A i \in Places : ~Concerns(channel[i], t)
      BY <1>0, <3>1 DEF StartAwaited
    <3> QED
      BY <1>1, <1>6, <1>7, <3>1, <3>2
  <2> QED
    BY <2>1, <2>2 DEF StartAwaited, Places
<1>11. BegunAwaited'
  <2> SUFFICES ASSUME NEW t \in Sessions, StartBegun(t)'
               PROVE  /\ session' \in {t, NoSession}
                      /\ \A i \in 1 .. Len(channel') : ~Answers(channel'[i], t)
                      /\ \A g \in handlers' : g[2] = t => g[1] # "stop"
                      /\ IF Left(t)' THEN <<"cancel", t, "sent">> \in handlers'
                         ELSE state'.kind = "starting"
    BY DEF BegunAwaited, Places
  <2>1. StartBegun(t) /\ t # s
    BY <1>8
  <2> QED
    BY <1>0, <1>1, <1>6, <1>7, <1>8, <2>1 DEF BegunAwaited
<1>12. AnswerAwaited'
  <2> SUFFICES ASSUME NEW t \in Sessions, NEW i \in 1 .. Len(channel'),
                      channel'[i] = <<"answer", "start", t, TRUE>>
               PROVE  \/ Left(t)'
                      \/ /\ state'.kind = "starting" /\ state'.session = t
                         /\ session' \in {t, NoSession}
                         /\ \A j \in 1 .. Len(channel') : j < i => ~Answers(channel'[j], t)
                         /\ ~overlap' => \A j \in 1 .. Len(channel') :
                                j > i /\ channel'[j][1] = "levels" => channel'[j][2] \subseteq {t}
    BY DEF AnswerAwaited, Places
  <2>0. \A j \in 1 .. Len(channel') : channel'[j][1] = "levels" => j \in Places /\ channel'[j] = channel[j]
    BY <1>2, <1>7 DEF a
  <2>1. CASE i \in Places /\ channel'[i] = channel[i]
    <3>1. \/ Left(t)
          \/ /\ state.kind = "starting" /\ state.session = t
             /\ session \in {t, NoSession}
             /\ \A j \in Places : j < i => ~Answers(channel[j], t)
             /\ ~overlap => \A j \in Places :
                    j > i /\ channel[j][1] = "levels" => channel[j][2] \subseteq {t}
      BY <1>0, <2>1 DEF AnswerAwaited
    <3>2. \A j \in 1 .. Len(channel') : j < i => j \in Places /\ channel'[j] = channel[j]
      BY <1>5, <1>7, <2>1 DEF Places
    <3> QED
      BY <1>1, <1>8, <2>0, <3>1, <3>2
  <2>2. CASE i = Len(channel') /\ channel'[i] = a
    <3>1. t = s
      BY <1>2, <2>2
    <3>2. \A j \in 1 .. Len(channel') : j < i => ~Answers(channel'[j], t)
      BY <1>3, <1>5, <1>7, <2>2, <3>1
    <3>3. \A j \in 1 .. Len(channel') : ~(j > i)
      BY <1>5, <2>2
    <3>4. Left(t) \/ (state.kind = "starting" /\ state.session = t)
      BY <1>3, <3>1 DEF Left
    <3> QED
      BY <1>1, <1>3, <1>8, <3>1, <3>2, <3>3, <3>4
  <2> QED
    BY <1>7, <2>1, <2>2
<1>13. StreamOwned'
  <2>1. CASE Left(s)
    <3>1. Ending
      BY <1>2, <1>3, <2>1 DEF Ending
    <3> QED
      BY <1>1, <1>8, <3>1 DEF StreamOwned
  <2>2. CASE ~Left(s)
    <3>1. state.kind = "starting" /\ state.session = s
      BY <1>3, <2>2 DEF Left
    <3>2. ~StartRuns(s)'
      BY <1>3, <1>8
    <3> QED
      BY <1>1, <3>1, <3>2 DEF StreamOwned, Live
  <2> QED
    BY <2>1, <2>2
<1>14. OwnStream' /\ LossAlone' /\ BufferOwn'
  BY <1>0, <1>1, <1>8 DEF OwnStream, LossAlone, BufferOwn, Live
<1>15. RecordingAlone'
  <2>1. \A i \in 1 .. Len(channel') : channel'[i][1] = "levels" => i \in Places /\ channel'[i] = channel[i]
    BY <1>2, <1>7 DEF a
  <2> QED
    BY <1>0, <1>1, <2>1 DEF RecordingAlone, Places
<1> QED
  BY <1>1, <1>9, <1>10, <1>11, <1>12, <1>13, <1>14, <1>15 DEF StreamInvariant

-----------------------------------------------------------------------------
(* The stream of levels, step by step *)

\* What the strip shows when the meter stays and the panel does not come to record.
LEMMA LevelsStay ==
    ASSUME LevelsOwn, UNCHANGED meter,
           Recording' => Recording /\ UNCHANGED <<state, overlap>>
    PROVE  LevelsOwn'
  BY DEF LevelsOwn

\* A move of the panel with the effect that clears the meter.
LEMMA LevelsMove ==
    ASSUME LevelsOwn, MeterReset(meter), UNCHANGED overlap,
           Recording' /\ Recording => UNCHANGED state
    PROVE  LevelsOwn'
<1>1. CASE Recording' /\ ~Recording
  <2>1. meter' = {}
    BY <1>1 DEF MeterReset
  <2> QED
    BY <2>1 DEF LevelsOwn
<1>2. CASE ~(Recording' /\ ~Recording)
  <2>1. meter' = meter
    BY <1>2 DEF MeterReset
  <2> QED
    BY <1>2, <2>1 DEF LevelsOwn
<1> QED
  BY <1>1, <1>2

\* What the moves of the panel do to a recording.
LEMMA MovesRecording ==
    ASSUME NEW s, Begins(s) \/ Stops \/ Passes \/ GivesUp
    PROVE  state'.kind # "recording"
<1>1. ASSUME NEW kind, NEW t PROVE Active(kind, t).kind = kind
  BY DEF Active
<1> QED
  BY <1>1 DEF Begins, Stops, Passes, GivesUp, Live

LEMMA StreamPlayerStep ==
    ASSUME CardInvariant, StreamInvariant, LevelsOwn,
           \/ Open \/ Close \/ Press \/ CopyAgain
           \/ \E copy \in Copy : CopyEnds(copy)
           \/ \E ok \in BOOLEAN : InsertAnswers(ok)
    PROVE  StreamInvariant' /\ LevelsOwn'
<1>0. /\ TypeOK /\ SessionShown /\ state \in States /\ channel \in Seq(Message)
      /\ state.kind \in Busy => state.session \in Sessions
  BY DEF CardInvariant, TypeOK, SessionShown
<1>1. UNCHANGED <<session, stream, buffer, losing, overlap, channel>>
  BY DEF Open, Close, Press, CopyAgain, CopyEnds, CopyAnswers, InsertAnswers
<1>2. Shifts(0)
  BY <1>0, <1>1, ChannelShifts
<1>3. CASE Open \/ Close \/ CopyAgain \/ \E copy \in Copy : CopyEnds(copy)
  <2>1. UNCHANGED drawn /\ Stays
    BY <1>3 DEF Open, Close, CopyAgain, CopyEnds, CopyAnswers, Stays
  <2>2. StreamInvariant'
    BY <1>0, <1>1, <1>2, <2>1, PanelMoves
  <2>3. CASE Open
    <3>1. MeterReset(meter) /\ ~Recording
      BY <2>3 DEF Open, Recording
    <3> QED
      BY <1>1, <2>2, <3>1, LevelsMove
  <2>4. CASE ~Open
    <3>1. UNCHANGED <<state, overlap, meter>> /\ (mounted' => mounted)
      BY <1>3, <2>4 DEF Close, CopyAgain, CopyEnds, CopyAnswers
    <3>2. Recording' => Recording
      BY <3>1 DEF Recording
    <3> QED
      BY <2>2, <3>1, <3>2, LevelsStay
  <2> QED
    BY <2>3, <2>4
<1>4. CASE Press
  <2>1. \/ state.kind = "recording" /\ UNCHANGED drawn /\ Stops
        \/ drawn + 1 \in Sessions /\ drawn' = drawn + 1 /\ Begins(drawn + 1)
    <3>1. CASE state.kind = "recording" /\ UNCHANGED drawn /\ Adopt(MicrophonePressed(state, NoSession))
      <4>1. state.session \in Sessions
        BY <1>0, <3>1 DEF Busy
      <4>2. Adopt(MicrophonePressed(state, NoSession)) /\ state.kind = "recording" => Stops
        BY <1>0, <4>1, AdoptMoves
      <4> QED
        BY <3>1, <4>2
    <3>2. CASE /\ state.kind = "ready" /\ drawn + 1 \in Sessions /\ drawn' = drawn + 1
               /\ Adopt(MicrophonePressed(state, drawn + 1))
      <4>1. Begins(drawn + 1)
        BY <1>0, <3>2, AdoptMoves
      <4> QED
        BY <3>2, <4>1
    <3> QED
      BY <1>4, <3>1, <3>2 DEF Press
  <2>2. StreamInvariant'
    BY <1>0, <1>1, <1>2, <2>1, PanelMoves
  <2>3. ~Recording'
    BY <2>1, MovesRecording DEF Recording
  <2> QED
    BY <2>2, <2>3 DEF LevelsOwn
<1>5. ASSUME NEW ok \in BOOLEAN, InsertAnswers(ok) PROVE StreamInvariant' /\ LevelsOwn'
  <2>1. state.kind = "inserting" /\ UNCHANGED drawn
        /\ Adopt(IF ok THEN InsertionSucceeded(state, state.session)
                       ELSE InsertionFailed(state, state.session))
    BY <1>5 DEF InsertAnswers
  <2>2. state.session \in Sessions
    BY <1>0, <2>1 DEF Busy
  <2>3. Stays \/ Passes
    BY <1>0, <2>1, <2>2, AdoptMoves
  <2>4. StreamInvariant'
    BY <1>0, <1>1, <1>2, <2>1, <2>3, PanelMoves
  <2>5. ~Recording'
    BY <2>1, <2>3 DEF Recording, Stays, Passes, Live
  <2> QED
    BY <2>4, <2>5 DEF LevelsOwn
<1> QED
  BY <1>3, <1>4, <1>5

LEMMA StreamBackendStep ==
    ASSUME CardInvariant, StreamInvariant, LevelsOwn, Backend
    PROVE  StreamInvariant' /\ LevelsOwn'
<1>0. TypeOK /\ SessionShown
  BY DEF CardInvariant
<1>1. ASSUME NEW M, Quiet(M) PROVE StreamInvariant' /\ LevelsOwn'
  <2>1. StreamInvariant'
    BY <1>0, <1>1, QuietKeeps
  <2>2. UNCHANGED <<state, meter, mounted, overlap>>
    BY <1>1 DEF Quiet
  <2> QED
    BY <2>1, <2>2 DEF LevelsOwn, Recording
<1>2. ASSUME NEW s \in Sessions, StartBegins(s) PROVE StreamInvariant' /\ LevelsOwn'
  <2>1. StreamInvariant' /\ state.kind = "starting" /\ UNCHANGED <<state, meter, mounted>>
    BY <1>0, <1>2, StartKeeps
  <2> QED
    BY <2>1 DEF LevelsOwn, Recording
<1>3. ASSUME NEW s \in Sessions, StartEnds(s) PROVE StreamInvariant' /\ LevelsOwn'
  <2>1. StreamInvariant' /\ UNCHANGED <<state, meter, mounted, overlap>>
    BY <1>0, <1>3, StartEndKeeps
  <2> QED
    BY <2>1 DEF LevelsOwn, Recording
<1> QED
  BY <1>0, <1>1, <1>2, <1>3, BackendQuiet

LEMMA StreamReceiveStep ==
    ASSUME CardInvariant, StreamInvariant, LevelsOwn, Receive
    PROVE  StreamInvariant' /\ LevelsOwn'
<1> DEFINE m == Head(channel)
<1>0. /\ TypeOK /\ SessionShown /\ state \in States /\ channel \in Seq(Message)
      /\ state.kind \in Busy => state.session \in Sessions
  BY DEF CardInvariant, TypeOK, SessionShown
<1>1. /\ channel # <<>> /\ channel' = Tail(channel)
      /\ UNCHANGED <<drawn, session, stream, buffer, losing, mounted, overlap>>
      /\ \/ \E fatal \in BOOLEAN : OnAnswer(m, fatal)
         \/ OnTranscript(m) \/ OnError(m) \/ OnReady(m) \/ OnLevels(m)
  BY DEF Receive
<1>2. Shifts(1) /\ 1 \in Places /\ channel[1] = m /\ m \in Message
  BY <1>0, <1>1, ChannelShifts
<1> HIDE DEF m
<1>3. /\ m[1] = "answer" => /\ m[2] \in Operations /\ m[3] \in Sessions /\ m[4] \in BOOLEAN
                            /\ m = <<"answer", m[2], m[3], m[4]>>
      /\ m[1] = "transcript" => m[2] \in Sessions /\ m[3] \in {"text", "empty"}
      /\ m[1] = "error" => m[2] \in Sessions /\ m[3] \in BOOLEAN
  BY <1>2 DEF Message
<1>4. ASSUME MeterReset(meter),
             \/ Stays \/ Passes
             \/ Starts /\ m = <<"answer", "start", state.session, TRUE>>
             \/ GivesUp /\ Concerns(m, state.session)
      PROVE  StreamInvariant' /\ LevelsOwn'
  <2>1. StreamInvariant'
    BY <1>0, <1>1, <1>2, <1>4, PanelMoves
  <2>2. Recording' /\ Recording => UNCHANGED state
    BY <1>4, MovesRecording DEF Recording, Stays, Starts
  <2> QED
    BY <1>1, <1>4, <2>1, <2>2, LevelsMove
<1>5. ASSUME NEW fatal \in BOOLEAN, OnAnswer(m, fatal) PROVE StreamInvariant' /\ LevelsOwn'
  <2>1. /\ m[1] = "answer" /\ m[2] \in Operations /\ m[3] \in Sessions /\ m[4] \in BOOLEAN
        /\ m = <<"answer", m[2], m[3], m[4]>>
        /\ Adopt(Answered(m[2], m[3], m[4], fatal)) /\ MeterReset(meter)
    BY <1>3, <1>5 DEF OnAnswer
  <2>2. /\ Adopt(RecordingStarted(state, m[3])) => Stays \/ (Starts /\ state.session = m[3])
        /\ Adopt(RecordingStopped(state, m[3])) => Stays \/ Passes
        /\ Adopt(SpeechFailed(state, m[3], fatal)) => Stays \/ (GivesUp /\ state.session = m[3])
        /\ Adopt(Unchanged(state)) => Stays
    BY <1>0, <2>1, AdoptMoves
  <2>3. \/ m[2] = "start" /\ m[4] = TRUE /\ Adopt(RecordingStarted(state, m[3]))
        \/ Adopt(RecordingStopped(state, m[3]))
        \/ Adopt(SpeechFailed(state, m[3], fatal))
        \/ Adopt(Unchanged(state))
    BY <2>1 DEF Answered
  <2>4. \/ Stays \/ Passes
        \/ Starts /\ m = <<"answer", "start", state.session, TRUE>>
        \/ GivesUp /\ Concerns(m, state.session)
    BY <2>1, <2>2, <2>3 DEF Concerns
  <2> QED
    BY <1>4, <2>1, <2>4
<1>6. CASE OnTranscript(m)
  <2>1. m[2] \in Sessions /\ m[3] \in {"text", "empty"} /\ MeterReset(meter)
        /\ Adopt(IF state.session = m[2] THEN TranscriptReady(state, m[2], m[3])
                                         ELSE Unchanged(state))
    BY <1>3, <1>6 DEF OnTranscript
  <2>2. Stays \/ Passes
    BY <1>0, <2>1, AdoptMoves
  <2> QED
    BY <1>4, <2>1, <2>2
<1>7. CASE OnError(m)
  <2>1. m[1] = "error" /\ m[2] \in Sessions /\ m[3] \in BOOLEAN /\ MeterReset(meter)
        /\ Adopt(IF state.session = m[2] THEN SpeechFailed(state, m[2], m[3])
                                         ELSE Unchanged(state))
    BY <1>3, <1>7 DEF OnError
  <2>2. Stays \/ (GivesUp /\ state.session = m[2])
    BY <1>0, <2>1, AdoptMoves
  <2>3. Stays \/ (GivesUp /\ Concerns(m, state.session))
    BY <2>1, <2>2 DEF Concerns
  <2> QED
    BY <1>4, <2>1, <2>3
<1>8. CASE OnReady(m)
  <2>1. MeterReset(meter) /\ Adopt(ErrorDismissed(state))
    BY <1>8 DEF OnReady
  <2>2. Adopt(ErrorDismissed(state)) => Stays \/ Passes
    <3>1. Adopt(Unchanged(state)) => Stays
      BY AdoptEffects DEF Unchanged, Stays
    <3>2. Plain("ready").kind = "ready"
      BY DEF Plain
    <3>3. ASSUME state.kind = "error", Adopt(Result(Plain("ready"), {})) PROVE Passes
      BY <3>2, <3>3, AdoptEffects DEF Passes, Live, Busy
    <3> QED
      BY <3>1, <3>3 DEF ErrorDismissed
  <2> QED
    BY <1>4, <2>1, <2>2
<1>9. CASE OnLevels(m)
  <2>1. /\ m[1] = "levels" /\ meter' \subseteq meter \cup m[2] /\ Stays
    BY <1>9 DEF OnLevels, Stays
  <2>2. StreamInvariant'
    BY <1>0, <1>1, <1>2, <2>1, PanelMoves
  <2>3. Recording /\ ~overlap => m[2] \subseteq {state.session}
    BY <1>2, <2>1 DEF StreamInvariant, RecordingAlone, Recording
  <2>4. LevelsOwn'
    BY <1>1, <2>1, <2>3 DEF LevelsOwn, Recording, Stays
  <2> QED
    BY <2>2, <2>4
<1> QED
  BY <1>1, <1>5, <1>6, <1>7, <1>8, <1>9

-----------------------------------------------------------------------------
(* The theorems *)

LEMMA InvariantInit == Init => CardInvariant
<1> SUFFICES ASSUME Init PROVE CardInvariant
  OBVIOUS
<1>1. /\ state \in States /\ state.kind = "ready"
      /\ transcript \in Transcript
  BY DEF Init, Plain, States, Kinds, Transcript, NoTranscript
<1>2. Cardinality({c \in copies : c.by = "effect" /\ c.live}) <= 1
  <2>1. {c \in copies : c.by = "effect" /\ c.live} = {}
    BY DEF Init
  <2> QED
    BY <2>1, FS_EmptySet
<1>3. /\ stream \in BOOLEAN /\ losing \in BOOLEAN /\ mounted \in BOOLEAN /\ overlap \in BOOLEAN
  BY DEF Init
<1>4. /\ handlers = {} /\ session = NoSession /\ buffer = {} /\ channel = <<>> /\ meter = {}
      /\ status = "none" /\ copies = {} /\ about = NoCopy /\ drawn = 0
  BY DEF Init
<1>5. TypeOK
  BY <1>1, <1>2, <1>3, <1>4 DEF TypeOK, Transcript
<1>6. SessionShown
  BY <1>1 DEF SessionShown, Busy
<1>7. LiveIsShown /\ StatusOfShown
  BY DEF Init, LiveIsShown, StatusOfShown, Shown
<1> QED
  BY <1>5, <1>6, <1>7 DEF CardInvariant

\* The invariant is inductive.
LEMMA InvariantStep == CardInvariant /\ [Next]_vars => CardInvariant'
<1> SUFFICES ASSUME CardInvariant, [Next]_vars PROVE CardInvariant'
  OBVIOUS
<1>1. CASE UNCHANGED vars
  BY <1>1, StateKept, Together
<1> QED
  BY <1>1, PlayerStep, AnswerStep, BackendStep, ReceiveStep DEF Next, CopyEnds

\* So are they with the streams of levels and what carries them.
LEMMA DictationInit == Init => DictationInvariant
<1> SUFFICES ASSUME Init PROVE DictationInvariant
  OBVIOUS
<1>1. /\ state.kind = "ready" /\ handlers = {} /\ session = NoSession /\ ~stream /\ buffer = {}
      /\ ~losing /\ Places = {} /\ ~mounted
  BY DEF Init, Plain, Places
<1>2. StreamInvariant
  BY <1>1 DEF StreamInvariant, Numbered, StartAwaited, StartRuns, BegunAwaited, StartBegun,
              AnswerAwaited, CancelsSent, StreamOwned, OwnStream, LossAlone, BufferOwn,
              RecordingAlone, Live, Ending, Busy
<1>3. LevelsOwn
  BY <1>1 DEF LevelsOwn, Recording
<1> QED
  BY <1>2, <1>3, InvariantInit DEF DictationInvariant

LEMMA DictationStep == DictationInvariant /\ [Next]_vars => DictationInvariant'
<1> SUFFICES ASSUME CardInvariant, StreamInvariant, LevelsOwn, [Next]_vars
             PROVE  DictationInvariant'
  BY DEF DictationInvariant
<1>1. CardInvariant'
  BY InvariantStep
<1>2. StreamInvariant' /\ LevelsOwn'
  <2>1. CASE Next
    BY <2>1, StreamPlayerStep, StreamBackendStep, StreamReceiveStep DEF Next
  <2>2. CASE UNCHANGED vars
    <3>1. TypeOK /\ SessionShown /\ channel \in Seq(Message)
      BY DEF CardInvariant, TypeOK
    <3>2. Shifts(0) /\ Stays
      BY <2>2, <3>1, ChannelShifts DEF Stays
    <3>3. StreamInvariant'
      BY <2>2, <3>1, <3>2, PanelMoves
    <3> QED
      BY <2>2, <3>3 DEF LevelsOwn, Recording
  <2> QED
    BY <2>1, <2>2
<1> QED
  BY <1>1, <1>2 DEF DictationInvariant

\* What the card shows and who owns the stream of levels, together.
THEOREM InvariantHolds == Spec => []DictationInvariant
  BY DictationInit, DictationStep, PTL DEF Spec

\* The variables keep their types, and at most one copy of the effect can still
\* answer the card (DictationCard.tsx, the clean-up of the copying effect).
THEOREM TypesAreKept == Spec => []TypeOK
  BY InvariantHolds, PTL DEF DictationInvariant, CardInvariant

\* The status beside a transcript is that of its own copy, or of one asked for with
\* the button (DictationCard.tsx, copyState).
THEOREM StatusIsOfShown == Spec => []StatusOfShown
  BY InvariantHolds, PTL DEF DictationInvariant, CardInvariant

\* The strip has the levels of the recording on show only: the meter is cleared when
\* the card comes to record (DictationCard.tsx, clearLevels), and what arrives later
\* was read for the session that is active.
THEOREM LevelsAreOwn == Spec => []LevelsOwn
  BY InvariantHolds, PTL DEF DictationInvariant

\* A recording has its stream: the calls that stop one are over, or not yet made, when
\* its start finds no stop under way (composition.py, _stop_level_stream).
THEOREM RecordingsHaveLevels == Spec => []RecordingHasLevels
<1>1. DictationInvariant => RecordingHasLevels
  <2> SUFFICES ASSUME CardInvariant, StreamInvariant, state.kind = "recording",
                      session = state.session, ~overlap
               PROVE  stream
    BY DEF DictationInvariant, RecordingHasLevels
  <2>1. session \in Sessions /\ ~Left(session)
    BY DEF CardInvariant, SessionShown, Left, Busy
  <2>2. ~StartBegun(session)
    BY <2>1 DEF StreamInvariant, BegunAwaited
  <2> QED
    BY <2>2 DEF StreamInvariant, OwnStream, Live
<1> QED
  BY <1>1, InvariantHolds, PTL

\* A stream belongs to the session that the panel has, or a call that stops it runs:
\* when neither is left it is gone.
THEOREM StreamsAreReleased == Spec => []StreamReleased
<1>1. DictationInvariant => StreamReleased
  <2> SUFFICES ASSUME CardInvariant, StreamInvariant, handlers = {}, state.session = NoSession
               PROVE  ~stream
    BY DEF DictationInvariant, StreamReleased
  <2>1. ~Ending /\ StreamOwned
    BY DEF Ending, StreamInvariant
  <2>2. ~Live
    BY DEF Live, CardInvariant, SessionShown, Busy
  <2> QED
    BY <2>1, <2>2 DEF StreamOwned
<1> QED
  BY <1>1, InvariantHolds, PTL

=============================================================================
