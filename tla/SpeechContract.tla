---------------------------- MODULE SpeechContract ----------------------------
(***************************************************************************)
(* What the speech service promises the panel, without locks, futures and  *)
(* the runtime: at most one session is active at a time, a session begins  *)
(* once and never comes back, it is given up before another one begins,    *)
(* and its events keep their order: one recording, one transcribing and    *)
(* one transcript, with which a session that is still active ends.         *)
(*                                                                         *)
(* A session may fail or be cancelled, and the runtime lost, at any time,  *)
(* and the events of a session that is not active any more may still go    *)
(* out: the panel discards them by their session.                          *)
(***************************************************************************)
EXTENDS Naturals

CONSTANTS
    Sessions,       \* session identifiers
    NoSession       \* no session

VARIABLES
    active,         \* the session that may record
    decided,        \* sessions whose start has been accepted or refused
    told            \* how often each event has gone out, by the session it names

contract == <<active, decided, told>>

Events == {"recording", "transcribing", "transcript_ready", "error"}

Tells(s, event) == told' = [told EXCEPT ![s][event] = @ + 1]

GivesUp(s) == active' = IF active = s THEN NoSession ELSE active

Init ==
    /\ active = NoSession
    /\ decided = {}
    /\ told = [s \in Sessions |-> [e \in Events |-> 0]]

Begin(s) ==
    /\ active = NoSession
    /\ s \notin decided
    /\ active' = s
    /\ decided' = decided \cup {s}
    /\ UNCHANGED told

Refuse(s) ==
    /\ s \notin decided
    /\ decided' = decided \cup {s}
    /\ UNCHANGED active
    /\ told' = told \/ Tells(s, "error")

\* The session is recorded.
Record(s) ==
    /\ s \in decided
    /\ told[s]["recording"] = 0
    /\ told[s]["transcribing"] = 0
    /\ Tells(s, "recording")
    /\ UNCHANGED <<active, decided>>

Transcribe(s) ==
    /\ told[s]["recording"] > 0
    /\ told[s]["transcribing"] = 0
    /\ told[s]["transcript_ready"] = 0
    /\ Tells(s, "transcribing")
    /\ UNCHANGED <<active, decided>>

Deliver(s) ==
    /\ told[s]["transcribing"] > 0
    /\ told[s]["transcript_ready"] = 0
    /\ Tells(s, "transcript_ready")
    /\ GivesUp(s)
    /\ UNCHANGED decided

\* An error goes out and the session it names is over, if it was not.
Fail(s) ==
    /\ Tells(s, "error")
    /\ GivesUp(s)
    /\ UNCHANGED decided

\* A cancel, a shutdown, or an error without a name.
Release ==
    /\ active' = NoSession
    /\ UNCHANGED <<decided, told>>

Next ==
    \/ \E s \in Sessions :
        Begin(s) \/ Refuse(s) \/ Record(s) \/ Transcribe(s) \/ Deliver(s) \/ Fail(s)
    \/ Release

Spec == Init /\ [][Next]_contract

=============================================================================
