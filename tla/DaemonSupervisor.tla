-------------------------- MODULE DaemonSupervisor --------------------------
(***************************************************************************)
(* The supervisor of the native speech daemon                              *)
(* (backend/infrastructure/process/daemon_supervisor.py) and the calls the *)
(* application makes of it (backend/composition.py).                       *)
(*                                                                         *)
(* Two kinds of asyncio task run here: the one that holds the lifecycle    *)
(* lock, which starts, stops and restarts the daemon, and one exit watcher *)
(* per daemon, which restarts a daemon that crashed.  A process is known   *)
(* by the number of its spawn.  Every action is the code from one await to *)
(* the next.                                                               *)
(*                                                                         *)
(* A log drain is over as soon as its daemon has exited.  Of the settings, *)
(* the verified binary and the daemon's configuration only the outcome is  *)
(* kept: success, a SpeechError, which is reported to the panel, or any    *)
(* other exception (an OSError, a SubprocessError), which nobody catches.  *)
(***************************************************************************)
EXTENDS Naturals

CONSTANTS
    MaxRestarts,    \* max_restart_attempts
    MaxSpawns,      \* bound: daemons spawned in a behaviour
    MaxCommands     \* bound: lifecycle operations in a behaviour

ASSUME BoundsAssumption ==
    /\ MaxRestarts \in Nat
    /\ MaxSpawns \in Nat \ {0}
    /\ MaxCommands \in Nat

Spawns == 1 .. MaxSpawns

NoDaemon == 0

VARIABLES
    processes,      \* what the operating system knows of each spawn
    killed,         \* spawns that were sent SIGKILL
    proc,           \* _proc
    watchTask,      \* _watch_task and _drain_task, by their spawn
    stopping,       \* _stopping
    restartsUsed,   \* _restarts_used
    watch,          \* where the exit watcher of each spawn is suspended
    pc,             \* where the holder of the lifecycle lock is suspended
    target,         \* the spawn that stop() captured to terminate or to join
    afterStop,      \* what follows a stop()
    enabled,        \* settings.enabled, as of the last lifecycle operation
    status,         \* the last runtime status published by these tasks
    raised,         \* the last lifecycle operation ended in such an exception
    overtaken,      \* history: stop() began while a watcher was relaunching
    commands        \* how many lifecycle operations have begun

daemon == <<proc, watchTask, stopping, restartsUsed>>

intent == <<afterStop, enabled, commands>>

lifecycle == <<pc, target, intent>>

system == <<processes, killed>>

vars == <<system, daemon, watch, lifecycle, status, raised, overtaken>>

-----------------------------------------------------------------------------

\* A lifecycle operation inside stop().
StopPcs == {"terminating", "killing", "joining", "draining"}

Pcs == {"idle", "quiescing", "preparing", "launching", "announcing", "warming"}
            \cup StopPcs

\* A watcher task that is done: it returned, or died of an exception.
Over == {"done", "failed"}

WatchPcs == {"none", "waiting", "draining", "reporting", "backoff", "launching",
             "announcing"} \cup Over

TypeOK ==
    /\ processes \in [Spawns -> {"unborn", "running", "exited"}]
    /\ killed \subseteq Spawns
    /\ proc \in Spawns \cup {NoDaemon}
    /\ watchTask \in Spawns \cup {NoDaemon}
    /\ stopping \in BOOLEAN
    /\ restartsUsed \in 0 .. MaxRestarts
    /\ watch \in [Spawns -> WatchPcs]
    /\ pc \in Pcs
    /\ target \in Spawns \cup {NoDaemon}
    /\ afterStop \in {"rest", "start", "restart"}
    /\ enabled \in BOOLEAN
    /\ status \in {"none", "starting", "stopped", "crashed", "restarted", "unavailable"}
    /\ raised \in BOOLEAN
    /\ overtaken \in BOOLEAN
    /\ commands \in 0 .. MaxCommands

Init ==
    /\ processes = [p \in Spawns |-> "unborn"]
    /\ killed = {}
    /\ proc = NoDaemon
    /\ watchTask = NoDaemon
    /\ stopping = FALSE
    /\ restartsUsed = 0
    /\ watch = [p \in Spawns |-> "none"]
    /\ pc = "idle"
    /\ target = NoDaemon
    /\ afterStop = "rest"
    /\ enabled = FALSE
    /\ status = "none"
    /\ raised = FALSE
    /\ overtaken = FALSE
    /\ commands = 0

Running(p) == p # NoDaemon /\ processes[p] = "running"

\* is_running: the process object knows its return code as soon as it exits.
IsRunning == Running(proc)

\* The part of _spawn that follows create_subprocess_exec; watchers is where the
\* exit watchers are then, but for the new one.
Spawned(watchers) ==
    \E p \in Spawns :
        /\ processes[p] = "unborn"
        /\ \A q \in Spawns : q < p => processes[q] # "unborn"
        /\ processes' = [processes EXCEPT ![p] = "running"]
        /\ proc' = p
        /\ watchTask' = p
        /\ watch' = [watchers EXCEPT ![p] = "waiting"]
        /\ status' = "starting"

-----------------------------------------------------------------------------
(* Processes *)

ProcessExits(p) ==
    /\ processes[p] = "running"
    /\ processes' = [processes EXCEPT ![p] = "exited"]
    /\ UNCHANGED <<killed, daemon, watch, lifecycle, status, raised, overtaken>>

-----------------------------------------------------------------------------
(* The exit watcher: _watch_exit and _maybe_restart *)

\* stable: the daemon ran for the stability window.  The callback into the
\* application and the publication are one suspension.
HandleExit(w) ==
    /\ proc' = NoDaemon
    /\ \/ /\ stopping
          /\ watch' = [watch EXCEPT ![w] = "done"]
          /\ status' = "stopped"
          /\ UNCHANGED restartsUsed
       \/ /\ ~stopping
          /\ \E stable \in BOOLEAN : restartsUsed' = IF stable THEN 0 ELSE restartsUsed
          /\ watch' = [watch EXCEPT ![w] = "reporting"]
          /\ status' = "crashed"

\* The watcher waits for the log drain, which is that of another daemon if one
\* has been spawned since.
WatchWakes(w) ==
    /\ watch[w] = "waiting"
    /\ processes[w] = "exited"
    /\ IF Running(watchTask)
       THEN /\ watch' = [watch EXCEPT ![w] = "draining"]
            /\ UNCHANGED <<proc, restartsUsed, status>>
       ELSE HandleExit(w)
    /\ UNCHANGED <<system, watchTask, stopping, lifecycle, raised, overtaken>>

\* That drain ends, or the time limit cancels it.
WatchDrained(w) ==
    /\ watch[w] = "draining"
    /\ HandleExit(w)
    /\ UNCHANGED <<system, watchTask, stopping, lifecycle, raised, overtaken>>

\* Fault: the attempts are not counted against their limit.
MaybeRestartUnbounded(w, idle) ==
    /\ watch[w] = "reporting"
    /\ \/ /\ stopping \/ IsRunning \/ ~idle
          /\ watch' = [watch EXCEPT ![w] = "done"]
          /\ UNCHANGED restartsUsed
       \/ /\ ~stopping /\ ~IsRunning /\ idle
          /\ watch' = [watch EXCEPT ![w] = "backoff"]
          /\ restartsUsed' = restartsUsed + 1
    /\ UNCHANGED <<system, proc, watchTask, stopping, lifecycle, status, raised, overtaken>>

\* Fault: a restart that is skipped because of pending work is not reported.
SkipUnreported(w, idle) ==
    /\ watch[w] = "reporting"
    /\ IF stopping \/ IsRunning \/ restartsUsed >= MaxRestarts \/ ~idle
       THEN watch' = [watch EXCEPT ![w] = "done"] /\ UNCHANGED restartsUsed
       ELSE /\ watch' = [watch EXCEPT ![w] = "backoff"]
            /\ restartsUsed' = restartsUsed + 1
    /\ UNCHANGED <<system, proc, watchTask, stopping, lifecycle, status, raised, overtaken>>

\* idle: the speech service has no pending work.
MaybeRestart(w, idle) ==
    /\ watch[w] = "reporting"
    /\ \/ /\ stopping \/ IsRunning
          /\ watch' = [watch EXCEPT ![w] = "done"]
          /\ UNCHANGED <<restartsUsed, status>>
       \/ /\ ~stopping /\ ~IsRunning
          /\ restartsUsed >= MaxRestarts \/ ~idle
          /\ watch' = [watch EXCEPT ![w] = "done"]
          /\ status' = "unavailable"
          /\ UNCHANGED restartsUsed
       \/ /\ ~stopping /\ ~IsRunning
          /\ restartsUsed < MaxRestarts /\ idle
          /\ watch' = [watch EXCEPT ![w] = "backoff"]
          /\ restartsUsed' = restartsUsed + 1
          /\ UNCHANGED status
    /\ UNCHANGED <<system, proc, watchTask, stopping, lifecycle, raised, overtaken>>

\* Fault: whether stop() was called meanwhile is not asked again.
BackoffEndsUnchecked(w) ==
    /\ watch[w] = "backoff"
    /\ watch' = [watch EXCEPT ![w] = "launching"]
    /\ UNCHANGED <<system, daemon, lifecycle, status, raised, overtaken>>

BackoffEnds(w) ==
    /\ watch[w] = "backoff"
    /\ watch' = [watch EXCEPT ![w] = IF stopping \/ IsRunning THEN "done" ELSE "launching"]
    /\ UNCHANGED <<system, daemon, lifecycle, status, raised, overtaken>>

\* Verification and the creation of the process are one suspension: nothing is
\* asked again between them.
RelaunchFails(w) ==
    /\ watch[w] = "launching"
    /\ watch' = [watch EXCEPT ![w] = "done"]
    /\ status' = "unavailable"
    /\ UNCHANGED <<system, daemon, lifecycle, raised, overtaken>>

\* Only a SpeechError is caught: of anything else the watcher dies, without a word.
RelaunchRaises(w) ==
    /\ watch[w] = "launching"
    /\ watch' = [watch EXCEPT ![w] = "failed"]
    /\ UNCHANGED <<system, daemon, lifecycle, status, raised, overtaken>>

Relaunched(w) ==
    /\ watch[w] = "launching"
    /\ Spawned([watch EXCEPT ![w] = "announcing"])
    /\ UNCHANGED <<killed, stopping, restartsUsed, lifecycle, raised, overtaken>>

Announced(w) ==
    /\ watch[w] = "announcing"
    /\ watch' = [watch EXCEPT ![w] = "done"]
    /\ status' = "restarted"
    /\ UNCHANGED <<system, daemon, lifecycle, raised, overtaken>>

-----------------------------------------------------------------------------
(* stop *)

\* The end of stop(), and what its caller does next: nothing; _startup_runtime;
\* or, in restart(), a start that verifies only what it spawns.
StopEnds ==
    /\ proc' = NoDaemon
    /\ watchTask' = NoDaemon
    /\ stopping' = (afterStop # "restart")
    /\ restartsUsed' = IF afterStop = "restart" THEN 0 ELSE restartsUsed
    /\ pc' = CASE afterStop = "rest" -> "idle"
               [] afterStop = "start" -> "preparing"
               [] afterStop = "restart" -> "launching"

\* Fault: stop() is not marked while it waits, and its watcher takes the exit for
\* a crash.
SuspendedUnmarked(at) ==
    /\ pc' = at
    /\ UNCHANGED daemon

Suspended(at) ==
    /\ pc' = at
    /\ stopping' = TRUE
    /\ UNCHANGED <<proc, watchTask, restartsUsed>>

\* The bounded wait for the log drain: it is that of the daemon spawned last.
AwaitDrain == IF Running(watchTask) THEN Suspended("draining") ELSE StopEnds

\* The bounded wait for the exit watcher.
AwaitWatch ==
    IF watchTask # NoDaemon /\ watch[watchTask] \notin Over
    THEN Suspended("joining") /\ target' = watchTask
    ELSE AwaitDrain /\ UNCHANGED target

\* The application shuts the speech service down or checks the model first.
Quiesce(next) ==
    /\ pc = "idle"
    /\ enabled
    /\ commands < MaxCommands
    /\ commands' = commands + 1
    /\ pc' = "quiescing"
    /\ afterStop' = next
    /\ raised' = FALSE
    /\ UNCHANGED <<system, daemon, watch, target, status, overtaken>>

Disable ==
    /\ Quiesce("rest")
    /\ enabled' = FALSE

RestartRuntime ==
    /\ Quiesce("start")
    /\ UNCHANGED enabled

\* A change of the model, the language or the compute backend.
SettingsChange ==
    /\ IsRunning
    /\ Quiesce("restart")
    /\ UNCHANGED enabled

\* ensure_model fails in _restart_runtime: the daemon stays as it is.
SettingsChangeFails ==
    /\ pc = "quiescing"
    /\ afterStop = "restart"
    /\ pc' = "idle"
    /\ \/ status' = "unavailable" /\ UNCHANGED raised
       \/ raised' = TRUE /\ UNCHANGED status
    /\ UNCHANGED <<system, daemon, watch, target, intent, overtaken>>

\* stop() up to its first suspension.
StopBegins ==
    /\ pc = "quiescing"
    /\ IF proc # NoDaemon
       THEN Suspended("terminating") /\ target' = proc
       ELSE AwaitWatch
    /\ overtaken' = (overtaken \/ \E w \in Spawns : watch[w] = "launching")
    /\ UNCHANGED <<system, watch, intent, status, raised>>

Terminated ==
    /\ pc \in {"terminating", "killing"}
    /\ processes[target] = "exited"
    /\ AwaitWatch
    /\ UNCHANGED <<system, watch, intent, status, raised, overtaken>>

\* Fault: SIGTERM is sent again instead of SIGKILL.
TermRepeated ==
    /\ pc = "terminating"
    /\ Running(target)
    /\ pc' = "killing"
    /\ UNCHANGED <<system, daemon, watch, target, intent, status, raised, overtaken>>

TermTimesOut ==
    /\ pc = "terminating"
    /\ Running(target)
    /\ pc' = "killing"
    /\ killed' = killed \cup {target}
    /\ UNCHANGED <<processes, daemon, watch, target, intent, status, raised, overtaken>>

WatchJoined ==
    /\ pc = "joining"
    /\ watch[target] = "done"
    /\ AwaitDrain
    /\ UNCHANGED <<system, watch, target, intent, status, raised, overtaken>>

\* The exception the watcher died of ends stop() where it waits, and the operation
\* that called it: the daemon's variables stay as they are.
JoinRaises ==
    /\ pc = "joining"
    /\ watch[target] = "failed"
    /\ pc' = "idle"
    /\ raised' = TRUE
    /\ UNCHANGED <<system, daemon, watch, target, intent, status, overtaken>>

\* The watcher is cancelled wherever it is suspended; a process it was creating
\* is closed with it.
JoinTimesOut ==
    /\ pc = "joining"
    /\ watch[target] \notin Over
    /\ watch' = [watch EXCEPT ![target] = "done"]
    /\ AwaitDrain
    /\ UNCHANGED <<system, target, intent, status, raised, overtaken>>

StopDrained ==
    /\ pc = "draining"
    /\ StopEnds
    /\ UNCHANGED <<system, watch, target, intent, status, raised, overtaken>>

-----------------------------------------------------------------------------
(* start *)

\* Application.start with enabled settings, or the settings become enabled.
Enable ==
    /\ pc = "idle"
    /\ ~enabled
    /\ commands < MaxCommands
    /\ commands' = commands + 1
    /\ enabled' = TRUE
    /\ afterStop' = "start"
    /\ pc' = "preparing"
    /\ raised' = FALSE
    /\ UNCHANGED <<system, daemon, watch, target, status, overtaken>>

\* The binary is verified and the model is there: start().
Prepared ==
    /\ pc = "preparing"
    /\ IF IsRunning
       THEN pc' = "warming" /\ UNCHANGED stopping
       ELSE pc' = "launching" /\ stopping' = FALSE
    /\ UNCHANGED <<system, proc, watchTask, restartsUsed, watch, target, intent,
                   status, raised, overtaken>>

\* A SpeechError of the runtime, the model, the spawn or the warm-up: _fail_startup.
StartFails ==
    /\ \/ pc \in {"preparing", "launching", "warming"}
       \/ pc = "announcing" /\ afterStop # "restart" /\ ~IsRunning
    /\ pc' = "idle"
    /\ status' = "unavailable"
    /\ UNCHANGED <<system, daemon, watch, target, intent, raised, overtaken>>

\* Any other exception of theirs ends the operation.
StartRaises ==
    /\ pc \in {"preparing", "launching", "warming"}
    /\ pc' = "idle"
    /\ raised' = TRUE
    /\ UNCHANGED <<system, daemon, watch, target, intent, status, overtaken>>

Launched ==
    /\ pc = "launching"
    /\ Spawned(watch)
    /\ pc' = "announcing"
    /\ UNCHANGED <<killed, stopping, restartsUsed, target, intent, raised, overtaken>>

\* Only _start_daemon looks at the daemon again and waits for its warm-up.
LaunchAnnounced ==
    /\ pc = "announcing"
    /\ \/ afterStop = "restart" /\ pc' = "idle"
       \/ afterStop # "restart" /\ IsRunning /\ pc' = "warming"
    /\ UNCHANGED <<system, daemon, watch, target, intent, status, raised, overtaken>>

WarmedUp ==
    /\ pc = "warming"
    /\ pc' = "idle"
    /\ UNCHANGED <<system, daemon, watch, target, intent, status, raised, overtaken>>

-----------------------------------------------------------------------------

Watcher(w) ==
    \/ WatchWakes(w) \/ WatchDrained(w) \/ BackoffEnds(w)
    \/ \E idle \in BOOLEAN : MaybeRestart(w, idle)
    \/ RelaunchFails(w) \/ RelaunchRaises(w) \/ Relaunched(w) \/ Announced(w)

Command == Enable \/ Disable \/ RestartRuntime \/ SettingsChange

Stopping ==
    \/ SettingsChangeFails \/ StopBegins \/ Terminated \/ TermTimesOut
    \/ WatchJoined \/ JoinRaises \/ JoinTimesOut \/ StopDrained

Starting == Prepared \/ StartFails \/ StartRaises \/ Launched \/ LaunchAnnounced \/ WarmedUp

Next ==
    \/ \E p \in Spawns : ProcessExits(p) \/ Watcher(p)
    \/ Command \/ Stopping \/ Starting

Spec == Init /\ [][Next]_vars

\* The event loop runs what can run, every wait of the lifecycle has a limit, and
\* a process that was sent SIGKILL exits.  Commands need not come, and a daemon
\* need not exit by itself.
FairSpec ==
    /\ Spec
    /\ WF_vars(Stopping)
    /\ WF_vars(Starting)
    /\ \A p \in Spawns :
        /\ WF_vars(Watcher(p))
        /\ WF_vars(p \in killed /\ ProcessExits(p))

-----------------------------------------------------------------------------
(* Safety *)

\* The supervisor knows the daemon that runs and watches it, so there is one at
\* most, and none when stop() has returned; unless stop() began while a watcher
\* was relaunching.
Supervised ==
    \A p \in Spawns :
        Running(p) => overtaken \/ (p = proc /\ p = watchTask /\ watch[p] = "waiting")

-----------------------------------------------------------------------------
(* The promise to the application, and how the supervisor keeps it *)

\* The lifecycle has a daemon to launch; or stop() is under way; or it has
\* returned and nothing was asked for since.
Mode ==
    CASE pc \in {"preparing", "launching"} -> "asked"
      [] pc \in StopPcs -> "stopping"
      [] pc = "idle" /\ ~enabled -> "off"
      [] OTHER -> "on"

Alive == {p \in Spawns : processes[p] = "running"}

Born == {p \in Spawns : processes[p] # "unborn"}

Retrying == {w \in Spawns : watch[w] \in {"backoff", "launching"}}

Contract == INSTANCE SupervisorContract WITH
    mode <- Mode,
    running <- Alive,
    used <- Born,
    retries <- Retrying,
    attempts <- restartsUsed,
    escaped <- overtaken

\* No crash, back-off, time limit or command makes a start launch two daemons, a
\* restart escape the policy or slip into a stop(), or a stop() return before the
\* daemon and its restart are gone; unless stop() began while a watcher was
\* relaunching.
KeepsContract == Contract!Spec

-----------------------------------------------------------------------------
(* Liveness *)

\* Every start, stop and restart of the daemon returns, also when the daemon
\* ignores SIGTERM or crashes meanwhile.
LifecycleReturns == pc # "idle" ~> pc = "idle"

\* A crash is not the last thing the panel hears of an enabled runtime: it is
\* restarted, or reported as unavailable; unless an exception that is no SpeechError
\* ended its watcher, or the lifecycle operation that came between.
CrashFollowedUp ==
    status = "crashed" ~>
        \/ status # "crashed" \/ ~enabled \/ overtaken
        \/ watchTask # NoDaemon /\ watch[watchTask] = "failed"
        \/ raised

-----------------------------------------------------------------------------
(* What a test of the repository says of stop() *)

\* tests/backend/test_daemon_supervisor.py, test_orphan_prevention_via_process_-
\* group_kill: no process is alive after stop() has returned.
DisabledIsOff == pc = "idle" /\ ~enabled => \A p \in Spawns : ~Running(p)

=============================================================================
