-------------------------- MODULE SupervisorContract --------------------------
(***************************************************************************)
(* What the supervisor promises the application, without tasks, awaits and *)
(* signals: a start launches one daemon, on a clean slate; any other       *)
(* launch is a restart that the policy granted after the daemon exited; no *)
(* restart is granted or made during a stop; and a stop returns when no    *)
(* daemon runs and no restart is left.  A daemon that exited never returns.*)
(*                                                                         *)
(* The promise has one gap: a stop that begins while a restart is on its   *)
(* way may be overtaken by it.  Then only the policy is kept, and the stop *)
(* may also end in the exception the restart ended in.                     *)
(***************************************************************************)
EXTENDS Naturals

CONSTANTS
    Spawns,         \* the daemons that can be spawned
    MaxRestarts     \* how many restarts the policy grants

VARIABLES
    mode,           \* what the application wants, and how far it has got
    running,        \* the daemons that run
    used,           \* the daemons spawned so far
    retries,        \* the daemons whose restart is granted and not made
    attempts,       \* the restarts that count against the policy
    escaped         \* a stop was overtaken

contract == <<mode, running, used, retries, attempts, escaped>>

Init ==
    /\ mode = "off"
    /\ running = {}
    /\ used = {}
    /\ retries = {}
    /\ attempts = 0
    /\ escaped = FALSE

\* Nothing runs, and a daemon is wanted.
Down == escaped \/ (mode = "on" /\ running = {})

Spawn(p) ==
    /\ p \notin used
    /\ used' = used \cup {p}
    /\ running' = running \cup {p}
    /\ UNCHANGED <<attempts, escaped>>

Ask ==
    /\ mode = "off"
    /\ mode' = "asked"
    /\ UNCHANGED <<running, used, retries, attempts, escaped>>

Launch(p) ==
    /\ mode = "asked"
    /\ escaped \/ (running = {} /\ retries = {})
    /\ Spawn(p)
    /\ mode' = "on"
    /\ UNCHANGED retries

\* The start fails, or finds a daemon that a stop left.
LaunchNothing ==
    /\ mode = "asked"
    /\ mode' = "on"
    /\ UNCHANGED <<running, used, retries, attempts, escaped>>

Exit(p) ==
    /\ p \in running
    /\ running' = running \ {p}
    /\ UNCHANGED <<mode, used, retries, attempts, escaped>>

\* The daemon that exited had been stable.
Forgive ==
    /\ Down
    /\ attempts' = 0
    /\ UNCHANGED <<mode, running, used, retries, escaped>>

Grant(p) ==
    /\ Down
    /\ p \in used
    /\ attempts < MaxRestarts
    /\ attempts' = attempts + 1
    /\ retries' = retries \cup {p}
    /\ UNCHANGED <<mode, running, used, escaped>>

GiveUp(p) ==
    /\ p \in retries
    /\ retries' = retries \ {p}
    /\ UNCHANGED <<mode, running, used, attempts, escaped>>

Restart(p, q) ==
    /\ Down
    /\ p \in retries
    /\ Spawn(q)
    /\ retries' = retries \ {p}
    /\ UNCHANGED mode

Overtaken == retries # {} /\ running = {} /\ escaped'

StopBegins ==
    /\ mode = "on"
    /\ mode' = "stopping"
    /\ Overtaken \/ UNCHANGED escaped
    /\ UNCHANGED <<running, used, retries, attempts>>

\* A stop that finds nothing to wait for begins and returns in one step.
StopReturns ==
    /\ \/ mode = "stopping" /\ UNCHANGED escaped
       \/ mode = "on" /\ (Overtaken \/ UNCHANGED escaped)
    /\ mode' \in {"off", "asked"}
    /\ retries' \subseteq retries
    /\ escaped' \/ (running = {} /\ retries' = {})
    /\ attempts' = attempts \/ (mode' = "asked" /\ attempts' = 0)
    /\ UNCHANGED <<running, used>>

StopRaises ==
    /\ mode = "stopping"
    /\ escaped
    /\ mode' \in {"off", "on"}
    /\ UNCHANGED <<running, used, retries, attempts, escaped>>

Next ==
    \/ Ask \/ LaunchNothing \/ Forgive \/ StopBegins \/ StopReturns \/ StopRaises
    \/ \E p \in Spawns : Launch(p) \/ Exit(p) \/ Grant(p) \/ GiveUp(p)
    \/ \E p, q \in Spawns : Restart(p, q)

Spec == Init /\ [][Next]_contract

=============================================================================
