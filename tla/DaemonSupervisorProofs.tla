----------------------- MODULE DaemonSupervisorProofs -----------------------
(***************************************************************************)
(* Proofs about DaemonSupervisor for any number of restarts, spawns and    *)
(* commands: the supervisor watches the daemon that runs, unless stop()    *)
(* began while a watcher was relaunching.                                  *)
(***************************************************************************)
EXTENDS DaemonSupervisor, TLAPS

USE BoundsAssumption
    DEF vars, daemon, intent, lifecycle, system, Spawns, NoDaemon, Running, IsRunning, Over

-----------------------------------------------------------------------------
(* The inductive invariant *)

\* Only the watcher of the last daemon may restart it.
Watched ==
    /\ \A w \in Spawns : w # watchTask => watch[w] \in {"none", "announcing"} \cup Over
    /\ proc # NoDaemon => proc = watchTask /\ watch[proc] = "waiting"

\* What stop() has achieved, step by step.
StopProgress ==
    /\ pc \in StopPcs =>
            stopping /\ (watchTask # NoDaemon => watch[watchTask] # "launching")
    /\ pc \in {"terminating", "killing"} =>
            target # NoDaemon /\ proc \in {target, NoDaemon}
    /\ pc = "joining" =>
            /\ target = watchTask
            /\ target # NoDaemon
            /\ watch[target] # "failed"
            /\ \A p \in Spawns : ~Running(p)
    /\ pc # "draining"

\* What the lifecycle operation is about to do agrees with the settings.
Intent ==
    /\ pc # "idle" => (enabled <=> afterStop # "rest")
    /\ pc \in {"preparing", "launching", "announcing", "warming"} => afterStop # "rest"

\* Nothing is left of the last daemon when the lifecycle launches one.
CleanLaunch ==
    pc \in {"preparing", "launching"} \/ (pc = "idle" /\ ~enabled) =>
        proc = NoDaemon /\ watchTask = NoDaemon

SupervisorInvariant ==
    /\ TypeOK
    /\ Intent
    /\ Supervised
    /\ overtaken \/ (Watched /\ StopProgress /\ CleanLaunch)

-----------------------------------------------------------------------------

\* What the invariant says while no stop() has overtaken a watcher.
Orderly ==
    /\ Watched
    /\ StopProgress
    /\ CleanLaunch
    /\ \A p \in Spawns : Running(p) => p = proc /\ p = watchTask /\ watch[p] = "waiting"

LEMMA OrderlyInvariant ==
    SupervisorInvariant <=> TypeOK /\ Intent /\ (overtaken \/ Orderly)
BY DEF SupervisorInvariant, Supervised, Orderly

LEMMA OrderlyInvariantNext ==
    TypeOK' /\ Intent' /\ (overtaken' \/ Orderly') => SupervisorInvariant'
BY DEF SupervisorInvariant, Supervised, Orderly

-----------------------------------------------------------------------------
(* Types *)

LEMMA InitTypes == Init => TypeOK
<1> SUFFICES ASSUME Init PROVE TypeOK
  OBVIOUS
<1>1. restartsUsed \in 0 .. MaxRestarts /\ commands \in 0 .. MaxCommands
  BY DEF Init
<1>2. /\ processes \in [Spawns -> {"unborn", "running", "exited"}]
      /\ watch \in [Spawns -> WatchPcs]
      /\ killed \subseteq Spawns
  BY DEF Init, WatchPcs
<1>3. stopping \in BOOLEAN /\ enabled \in BOOLEAN /\ raised \in BOOLEAN /\ overtaken \in BOOLEAN
  BY DEF Init
<1> QED
  BY <1>1, <1>2, <1>3 DEF Init, TypeOK, Pcs

LEMMA ExitTypes ==
    ASSUME TypeOK, NEW w \in Spawns, HandleExit(w)
    PROVE  /\ proc' = NoDaemon
           /\ restartsUsed' \in 0 .. MaxRestarts
           /\ watch' \in [Spawns -> WatchPcs]
           /\ status' \in {"stopped", "crashed"}
BY DEF TypeOK, HandleExit, WatchPcs

LEMMA WatcherTypes ==
    ASSUME TypeOK, NEW w \in Spawns, Watcher(w)
    PROVE  TypeOK'
<1>1. CASE WatchWakes(w)
  BY <1>1, ExitTypes DEF WatchWakes, TypeOK, WatchPcs
<1>2. CASE WatchDrained(w)
  BY <1>2, ExitTypes DEF WatchDrained, TypeOK, WatchPcs
<1>3. CASE BackoffEnds(w)
  BY <1>3 DEF BackoffEnds, TypeOK, WatchPcs
<1>4. ASSUME NEW idle \in BOOLEAN, MaybeRestart(w, idle)
      PROVE  TypeOK'
  BY <1>4 DEF MaybeRestart, TypeOK, WatchPcs
<1>5. CASE RelaunchFails(w)
  BY <1>5 DEF RelaunchFails, TypeOK, WatchPcs
<1>6. CASE Relaunched(w)
  BY <1>6 DEF Relaunched, Spawned, TypeOK, WatchPcs
<1>7. CASE Announced(w)
  BY <1>7 DEF Announced, TypeOK, WatchPcs
<1>8. CASE RelaunchRaises(w)
  BY <1>8 DEF RelaunchRaises, TypeOK, WatchPcs
<1> QED
  BY <1>1, <1>2, <1>3, <1>4, <1>5, <1>6, <1>7, <1>8 DEF Watcher

\* Where a wait of stop() leaves the lifecycle.
LEMMA WaitTypes ==
    ASSUME TypeOK, AwaitWatch \/ (AwaitDrain /\ UNCHANGED target)
                    \/ (StopEnds /\ UNCHANGED target)
    PROVE  /\ proc' \in Spawns \cup {NoDaemon}
           /\ watchTask' \in Spawns \cup {NoDaemon}
           /\ stopping' \in BOOLEAN
           /\ restartsUsed' \in 0 .. MaxRestarts
           /\ pc' \in Pcs
           /\ target' \in Spawns \cup {NoDaemon}
<1>1. CASE StopEnds /\ UNCHANGED target
  <2>1. pc' \in {"idle", "preparing", "launching"}
    BY <1>1 DEF TypeOK, StopEnds
  <2>2. stopping' \in BOOLEAN
    BY <1>1 DEF StopEnds
  <2>3. restartsUsed' \in 0 .. MaxRestarts
    BY <1>1 DEF TypeOK, StopEnds
  <2> QED
    BY <1>1, <2>1, <2>2, <2>3 DEF TypeOK, StopEnds, Pcs
<1>2. CASE \E at \in {"joining", "draining"} : Suspended(at) /\ target' \in {target, watchTask}
  BY <1>2 DEF TypeOK, Suspended, Pcs, StopPcs
<1> QED
  BY <1>1, <1>2 DEF AwaitWatch, AwaitDrain

LEMMA StoppingTypes == TypeOK /\ Stopping => TypeOK'
<1> SUFFICES ASSUME TypeOK, Stopping PROVE TypeOK'
  OBVIOUS
<1>1. CASE SettingsChangeFails
  BY <1>1 DEF SettingsChangeFails, TypeOK, Pcs
<1>2. CASE StopBegins
  BY <1>2, WaitTypes DEF StopBegins, Suspended, TypeOK, Pcs, StopPcs
<1>3. CASE Terminated
  BY <1>3, WaitTypes DEF Terminated, TypeOK
<1>4. CASE TermTimesOut
  BY <1>4 DEF TermTimesOut, TypeOK, Pcs, StopPcs
<1>5. CASE WatchJoined
  BY <1>5, WaitTypes DEF WatchJoined, TypeOK
<1>6. CASE JoinTimesOut
  BY <1>6, WaitTypes DEF JoinTimesOut, TypeOK, WatchPcs
<1>7. CASE StopDrained
  BY <1>7, WaitTypes DEF StopDrained, TypeOK
<1>8. CASE JoinRaises
  BY <1>8 DEF JoinRaises, TypeOK, Pcs
<1> QED
  BY <1>1, <1>2, <1>3, <1>4, <1>5, <1>6, <1>7, <1>8 DEF Stopping

LEMMA TypeStep == TypeOK /\ [Next]_vars => TypeOK'
<1> SUFFICES ASSUME TypeOK, [Next]_vars PROVE TypeOK'
  OBVIOUS
<1>1. ASSUME NEW p \in Spawns, ProcessExits(p)
      PROVE  TypeOK'
  BY <1>1 DEF ProcessExits, TypeOK
<1>2. CASE Command
  <2>1. commands' \in 0 .. MaxCommands
    BY <1>2 DEF Command, Enable, Disable, RestartRuntime, SettingsChange, Quiesce, TypeOK
  <2>2. enabled' \in BOOLEAN
    BY <1>2 DEF Command, Enable, Disable, RestartRuntime, SettingsChange, TypeOK
  <2>3. /\ pc' \in {"preparing", "quiescing"}
        /\ afterStop' \in {"rest", "start", "restart"}
        /\ raised' = FALSE
    BY <1>2 DEF Command, Enable, Disable, RestartRuntime, SettingsChange, Quiesce
  <2>4. UNCHANGED <<system, proc, watchTask, stopping, restartsUsed, watch, target, status,
                    overtaken>>
    BY <1>2 DEF Command, Enable, Disable, RestartRuntime, SettingsChange, Quiesce
  <2> QED
    BY <2>1, <2>2, <2>3, <2>4 DEF TypeOK, Pcs
<1>3. CASE Starting
  <2>1. CASE Launched
    BY <2>1 DEF Launched, Spawned, TypeOK, Pcs, WatchPcs
  <2>2. CASE Prepared \/ LaunchAnnounced \/ WarmedUp
    BY <2>2 DEF Prepared, LaunchAnnounced, WarmedUp, TypeOK, Pcs
  <2>3. CASE StartFails
    BY <2>3 DEF StartFails, TypeOK, Pcs
  <2>4. CASE StartRaises
    BY <2>4 DEF StartRaises, TypeOK, Pcs
  <2> QED
    BY <1>3, <2>1, <2>2, <2>3, <2>4 DEF Starting
<1>4. CASE UNCHANGED vars
  BY <1>4 DEF TypeOK
<1> QED
  BY <1>1, <1>2, <1>3, <1>4, WatcherTypes, StoppingTypes DEF Next

\* What follows a stop() is decided with the settings, and only by a command.
LEMMA IntentStep == TypeOK /\ Intent /\ [Next]_vars => Intent'
<1> SUFFICES ASSUME TypeOK, Intent, [Next]_vars PROVE Intent'
  OBVIOUS
<1>1. CASE Command
  BY <1>1 DEF Command, Enable, Disable, RestartRuntime, SettingsChange, Quiesce, Intent
<1>2. CASE Starting
  BY <1>2 DEF Starting, Prepared, StartFails, StartRaises, Launched, LaunchAnnounced, WarmedUp, Intent
<1>3. CASE Stopping
  <2>1. pc \in StopPcs \cup {"quiescing"} /\ UNCHANGED <<afterStop, enabled>>
    BY <1>3 DEF Stopping, SettingsChangeFails, StopBegins, Terminated, TermTimesOut,
       WatchJoined, JoinRaises, JoinTimesOut, StopDrained, StopPcs
  <2>2. \/ pc' \in StopPcs \cup {"idle"}
        \/ afterStop # "rest"
    BY <1>3 DEF Stopping, SettingsChangeFails, StopBegins, Terminated, TermTimesOut,
       WatchJoined, JoinRaises, JoinTimesOut, StopDrained, AwaitWatch, AwaitDrain, Suspended, StopEnds,
       StopPcs, TypeOK
  <2>3. pc # "idle"
    BY <2>1 DEF StopPcs
  <2> QED
    BY <2>1, <2>2, <2>3 DEF Intent, StopPcs
<1>4. CASE UNCHANGED lifecycle
  BY <1>4 DEF Intent
<1>5. Command \/ Starting \/ Stopping \/ UNCHANGED lifecycle
  BY DEF Next, ProcessExits, Watcher, WatchWakes, WatchDrained, BackoffEnds, MaybeRestart,
     RelaunchFails, RelaunchRaises, Relaunched, Announced
<1> QED
  BY <1>1, <1>2, <1>3, <1>4, <1>5

-----------------------------------------------------------------------------
(* The watchers *)

\* A daemon that exits leaves the rest as it is.
LEMMA ExitStaysOrderly ==
    ASSUME TypeOK, Orderly, NEW p \in Spawns, ProcessExits(p)
    PROVE  Orderly'
BY DEF TypeOK, ProcessExits, Orderly, Watched, StopProgress, CleanLaunch

\* The watcher that reports an exit is that of the last daemon.
LEMMA HandleExitStaysOrderly ==
    ASSUME TypeOK, Orderly, NEW w \in Spawns, watch[w] \in {"waiting", "draining"},
           ~Running(w), HandleExit(w),
           UNCHANGED <<system, watchTask, stopping, lifecycle, overtaken>>
    PROVE  Orderly'
<1>1. w = watchTask
  BY DEF Orderly, Watched
<1>2. \A p \in Spawns : ~Running(p)
  BY <1>1 DEF Orderly
<1>3. watch' = [watch EXCEPT ![w] = "done"] \/ watch' = [watch EXCEPT ![w] = "reporting"]
  BY DEF HandleExit
<1>4. proc' = NoDaemon
  BY DEF HandleExit
<1>5. Watched' /\ StopProgress'
  BY <1>1, <1>2, <1>3, <1>4 DEF TypeOK, Orderly, Watched, StopProgress
<1> QED
  BY <1>1, <1>2, <1>4, <1>5 DEF Orderly, CleanLaunch

LEMMA WatcherStaysOrderly ==
    ASSUME TypeOK, Orderly, NEW w \in Spawns, Watcher(w)
    PROVE  Orderly'
<1> USE DEF TypeOK, Orderly, Watched, StopProgress, CleanLaunch
<1>1. CASE WatchWakes(w)
  <2>1. w = watchTask /\ ~Running(w)
    BY <1>1 DEF WatchWakes
  <2> QED
    BY <1>1, <2>1, HandleExitStaysOrderly DEF WatchWakes
<1>2. CASE WatchDrained(w)
  <2>1. w = watchTask /\ ~Running(w)
    BY <1>2 DEF WatchDrained
  <2> QED
    BY <1>2, <2>1, HandleExitStaysOrderly DEF WatchDrained
<1>3. CASE BackoffEnds(w)
  <2>1. w = watchTask /\ proc = NoDaemon /\ (\A p \in Spawns : ~Running(p))
    BY <1>3 DEF BackoffEnds
  <2>2. watch' = [watch EXCEPT ![w] = "done"]
            \/ (~stopping /\ watch' = [watch EXCEPT ![w] = "launching"])
    BY <1>3 DEF BackoffEnds
  <2> QED
    BY <1>3, <2>1, <2>2 DEF BackoffEnds, StopPcs
<1>4. ASSUME NEW idle \in BOOLEAN, MaybeRestart(w, idle)
      PROVE  Orderly'
  <2>1. w = watchTask /\ proc = NoDaemon /\ (\A p \in Spawns : ~Running(p))
    BY <1>4 DEF MaybeRestart
  <2>2. watch' = [watch EXCEPT ![w] = "done"] \/ watch' = [watch EXCEPT ![w] = "backoff"]
    BY <1>4 DEF MaybeRestart
  <2> QED
    BY <1>4, <2>1, <2>2 DEF MaybeRestart, StopPcs
<1>5. CASE RelaunchFails(w)
  <2>1. w = watchTask /\ proc = NoDaemon
    BY <1>5 DEF RelaunchFails
  <2> QED
    BY <1>5, <2>1 DEF RelaunchFails, StopPcs
<1>6. CASE Relaunched(w)
  <2>1. w = watchTask /\ w # NoDaemon /\ proc = NoDaemon /\ (\A p \in Spawns : ~Running(p))
    BY <1>6 DEF Relaunched
  <2>2. pc \notin StopPcs
    BY <1>6, <2>1 DEF Relaunched
  <2>3. ~(pc \in {"preparing", "launching"} \/ (pc = "idle" /\ ~enabled))
    BY <2>1
  <2>4. PICK p \in Spawns :
            /\ processes[p] = "unborn"
            /\ processes' = [processes EXCEPT ![p] = "running"]
            /\ proc' = p
            /\ watchTask' = p
            /\ watch' = [[watch EXCEPT ![w] = "announcing"] EXCEPT ![p] = "waiting"]
    BY <1>6 DEF Relaunched, Spawned
  <2> QED
    BY <1>6, <2>1, <2>2, <2>3, <2>4 DEF Relaunched, StopPcs
<1>7. CASE Announced(w)
  BY <1>7 DEF Announced, StopPcs
<1>8. CASE RelaunchRaises(w)
  <2>1. w = watchTask /\ proc = NoDaemon
    BY <1>8 DEF RelaunchRaises
  <2>2. pc \notin StopPcs
    BY <1>8, <2>1 DEF RelaunchRaises
  <2> QED
    BY <1>8, <2>1, <2>2 DEF RelaunchRaises, StopPcs
<1> QED
  BY <1>1, <1>2, <1>3, <1>4, <1>5, <1>6, <1>7, <1>8 DEF Watcher

-----------------------------------------------------------------------------
(* The lifecycle *)

\* The facts about the daemon after stop() has ended.
LEMMA StopEndsOrderly ==
    ASSUME TypeOK, Orderly, StopEnds, \A p \in Spawns : ~Running(p),
           UNCHANGED system, watch' \in [Spawns -> WatchPcs],
           \A w \in Spawns : watch'[w] \in {watch[w], "done"},
           watchTask # NoDaemon => watch'[watchTask] \in Over
    PROVE  Orderly'
<1>1. pc' \in {"idle", "preparing", "launching"}
  BY DEF TypeOK, StopEnds
<1>2. proc' = NoDaemon /\ watchTask' = NoDaemon
  BY DEF StopEnds
<1>3. \A w \in Spawns : watch'[w] \in {"none", "announcing"} \cup Over
  BY DEF Orderly, Watched
<1>4. \A p \in Spawns : ~Running(p)'
  OBVIOUS
<1> QED
  BY <1>1, <1>2, <1>3, <1>4 DEF Orderly, Watched, StopProgress, CleanLaunch, StopPcs

\* A stop that waits for the exit watcher.
LEMMA JoiningOrderly ==
    ASSUME TypeOK, Orderly, Suspended("joining"), target' = watchTask,
           \A p \in Spawns : ~Running(p),
           watchTask # NoDaemon,
           watch[watchTask] \notin {"launching", "failed"},
           UNCHANGED <<system, watch>>
    PROVE  Orderly'
BY DEF Suspended, Orderly, Watched, StopProgress, CleanLaunch, StopPcs

\* Once the daemon has exited, no log drain is left to wait for.
LEMMA WaitStaysOrderly ==
    ASSUME TypeOK, Orderly, AwaitWatch, \A p \in Spawns : ~Running(p),
           watchTask # NoDaemon => watch[watchTask] # "launching",
           UNCHANGED <<system, watch>>
    PROVE  Orderly'
<1>1. CASE watchTask # NoDaemon /\ watch[watchTask] \notin Over
  BY <1>1, JoiningOrderly DEF AwaitWatch
<1>2. CASE ~(watchTask # NoDaemon /\ watch[watchTask] \notin Over)
  <2>1. StopEnds
    BY <1>2 DEF AwaitWatch, AwaitDrain, TypeOK
  <2> QED
    BY <1>2, <2>1, StopEndsOrderly DEF TypeOK
<1> QED
  BY <1>1, <1>2

LEMMA StoppingStaysOrderly ==
    ASSUME TypeOK, Intent, Orderly, Stopping, ~overtaken'
    PROVE  Orderly'
<1>1. CASE SettingsChangeFails
  BY <1>1 DEF SettingsChangeFails, Intent, Orderly, Watched, StopProgress, CleanLaunch, StopPcs
<1>2. CASE StopBegins
  <2>1. \A w \in Spawns : watch[w] # "launching"
    BY <1>2 DEF StopBegins
  <2>2. CASE proc # NoDaemon
    BY <1>2, <2>1, <2>2
       DEF StopBegins, Suspended, TypeOK, Orderly, Watched, StopProgress, CleanLaunch, StopPcs
  <2>3. CASE proc = NoDaemon
    <3>1. \A p \in Spawns : ~Running(p)
      BY <2>3 DEF Orderly
    <3> QED
      BY <1>2, <2>1, <2>3, <3>1, WaitStaysOrderly DEF StopBegins, TypeOK
  <2> QED
    BY <2>2, <2>3
<1>3. CASE Terminated
  <2>1. \A p \in Spawns : ~Running(p)
    BY <1>3 DEF Terminated, Orderly, StopProgress
  <2>2. watchTask # NoDaemon => watch[watchTask] # "launching"
    BY <1>3 DEF Terminated, Orderly, StopProgress, StopPcs
  <2> QED
    BY <1>3, <2>1, <2>2, WaitStaysOrderly DEF Terminated
<1>4. CASE TermTimesOut
  BY <1>4 DEF TermTimesOut, Orderly, Watched, StopProgress, CleanLaunch, StopPcs
<1>5. CASE WatchJoined \/ JoinTimesOut \/ StopDrained
  <2>1. \A p \in Spawns : ~Running(p)
    BY <1>5 DEF WatchJoined, JoinTimesOut, StopDrained, Orderly, StopProgress
  <2>2. StopEnds
    BY <1>5, <2>1 DEF WatchJoined, JoinTimesOut, StopDrained, AwaitDrain, TypeOK
  <2>3. watchTask # NoDaemon => watch'[watchTask] \in Over
    BY <1>5 DEF WatchJoined, JoinTimesOut, StopDrained, TypeOK, Orderly, StopProgress
  <2>4. \A w \in Spawns : watch'[w] \in {watch[w], "done"}
    BY <1>5 DEF WatchJoined, JoinTimesOut, StopDrained, TypeOK
  <2>5. watch' \in [Spawns -> WatchPcs] /\ UNCHANGED system
    BY <1>5 DEF WatchJoined, JoinTimesOut, StopDrained, TypeOK, WatchPcs
  <2> QED
    BY <2>1, <2>2, <2>3, <2>4, <2>5, StopEndsOrderly
<1>6. ~JoinRaises
  BY DEF JoinRaises, Orderly, StopProgress
<1> QED
  BY <1>1, <1>2, <1>3, <1>4, <1>5, <1>6 DEF Stopping

LEMMA CommandStaysOrderly ==
    ASSUME TypeOK, Orderly, Command
    PROVE  Orderly'
BY DEF Command, Enable, Disable, RestartRuntime, SettingsChange, Quiesce, TypeOK, Orderly,
   Watched, StopProgress, CleanLaunch, StopPcs

LEMMA StartingStaysOrderly ==
    ASSUME TypeOK, Intent, Orderly, Starting
    PROVE  Orderly'
<1> USE DEF TypeOK, Intent, Orderly, Watched, StopProgress, CleanLaunch, StopPcs
<1>1. CASE Prepared
  BY <1>1 DEF Prepared
<1>2. CASE StartFails \/ StartRaises
  BY <1>2 DEF StartFails, StartRaises
<1>3. CASE Launched
  <2>1. proc = NoDaemon /\ watchTask = NoDaemon /\ (\A p \in Spawns : ~Running(p))
    BY <1>3 DEF Launched
  <2>2. PICK p \in Spawns :
            /\ processes' = [processes EXCEPT ![p] = "running"]
            /\ proc' = p
            /\ watchTask' = p
            /\ watch' = [watch EXCEPT ![p] = "waiting"]
    BY <1>3 DEF Launched, Spawned
  <2> QED
    BY <1>3, <2>1, <2>2 DEF Launched
<1>4. CASE LaunchAnnounced \/ WarmedUp
  BY <1>4 DEF LaunchAnnounced, WarmedUp
<1> QED
  BY <1>1, <1>2, <1>3, <1>4 DEF Starting

-----------------------------------------------------------------------------
(* The safety properties of the supervisor *)

\* An overtaken stop stays overtaken.
LEMMA OvertakenStays == TypeOK /\ [Next]_vars /\ overtaken => overtaken'
<1> SUFFICES ASSUME TypeOK, [Next]_vars, overtaken PROVE overtaken'
  OBVIOUS
<1>1. overtaken' = overtaken \/ StopBegins
  BY DEF Next, ProcessExits, Watcher, WatchWakes, WatchDrained, BackoffEnds, MaybeRestart,
     RelaunchFails, RelaunchRaises, Relaunched, Announced, Command, Enable, Disable, RestartRuntime,
     SettingsChange, Quiesce, Stopping, SettingsChangeFails, Terminated, TermTimesOut,
     WatchJoined, JoinRaises, JoinTimesOut, StopDrained, Starting, Prepared, StartFails,
     StartRaises, Launched,
     LaunchAnnounced, WarmedUp
<1> QED
  BY <1>1 DEF StopBegins

LEMMA InvariantHolds == Spec => []SupervisorInvariant
<1>1. Init => SupervisorInvariant
  <2> SUFFICES ASSUME Init PROVE TypeOK /\ Intent /\ Orderly
    BY OrderlyInvariant
  <2>1. Intent /\ Orderly
    BY DEF Init, Intent, Orderly, Watched, StopProgress, CleanLaunch, StopPcs
  <2> QED
    BY <2>1, InitTypes
<1>2. SupervisorInvariant /\ [Next]_vars => SupervisorInvariant'
  <2> SUFFICES ASSUME TypeOK, Intent, overtaken \/ Orderly, [Next]_vars, ~overtaken'
               PROVE  Orderly'
    BY OrderlyInvariant, TypeStep, IntentStep, OrderlyInvariantNext DEF SupervisorInvariant
  <2>1. Orderly
    BY OvertakenStays
  <2>2. CASE UNCHANGED vars
    BY <2>1, <2>2 DEF Orderly, Watched, StopProgress, CleanLaunch
  <2> QED
    BY <2>1, <2>2, ExitStaysOrderly, WatcherStaysOrderly, StoppingStaysOrderly,
       CommandStaysOrderly, StartingStaysOrderly DEF Next
<1> QED
  BY <1>1, <1>2, PTL DEF Spec

\* The supervisor's variables keep their types, and no crash uses more restarts
\* than the policy allows.
THEOREM TypesAreKept == Spec => []TypeOK
<1>1. SupervisorInvariant => TypeOK
  BY DEF SupervisorInvariant
<1> QED
  BY <1>1, InvariantHolds, PTL

\* A running daemon is the one the supervisor knows and watches: there are never
\* two, and none is left by a stop(), unless one began while a watcher was relaunching.
THEOREM DaemonsAreSupervised == Spec => []Supervised
<1>1. SupervisorInvariant => Supervised
  BY DEF SupervisorInvariant
<1> QED
  BY <1>1, InvariantHolds, PTL

-----------------------------------------------------------------------------
(* The refinement of the contract *)

\* A watcher is created with its daemon, and a stop() joins a watcher that was.
WatchersBorn ==
    /\ \A p \in Spawns : processes[p] = "unborn" <=> watch[p] = "none"
    /\ watchTask # NoDaemon => processes[watchTask] # "unborn"
    /\ pc = "joining" => target # NoDaemon /\ processes[target] # "unborn"

\* What a step of the supervisor may rely on.
Reliable ==
    /\ TypeOK
    /\ Intent
    /\ WatchersBorn
    /\ overtaken \/ Orderly

\* A spawn takes a daemon that was never there, and adds its watcher.
LEMMA SpawnedOne ==
    ASSUME TypeOK, WatchersBorn, NEW v \in [Spawns -> WatchPcs], Spawned(v)
    PROVE  \E p \in Spawns :
              /\ p \notin Born
              /\ p \notin Retrying
              /\ Born' = Born \cup {p}
              /\ Alive' = Alive \cup {p}
              /\ watch' = [v EXCEPT ![p] = "waiting"]
              /\ processes' = [processes EXCEPT ![p] = "running"]
              /\ processes[p] = "unborn"
<1>1. PICK p \in Spawns :
          /\ processes[p] = "unborn"
          /\ processes' = [processes EXCEPT ![p] = "running"]
          /\ watch' = [v EXCEPT ![p] = "waiting"]
  BY DEF Spawned
<1>2. p \notin Born /\ p \notin Retrying
  BY <1>1 DEF WatchersBorn, Born, Retrying
<1>3. Born' = Born \cup {p}
  BY <1>1 DEF Born, TypeOK
<1>4. Alive' = Alive \cup {p}
  BY <1>1 DEF Alive, TypeOK
<1> QED
  BY <1>1, <1>2, <1>3, <1>4

LEMMA WatcherBorn ==
    ASSUME TypeOK, WatchersBorn, NEW w \in Spawns, Watcher(w)
    PROVE  WatchersBorn'
<1>1. CASE Relaunched(w)
  BY <1>1 DEF Relaunched, Spawned, WatchersBorn, TypeOK
<1>2. CASE ~Relaunched(w)
  <2>1. UNCHANGED <<processes, watchTask, pc, target>>
    BY <1>2 DEF Watcher, WatchWakes, WatchDrained, BackoffEnds, MaybeRestart,
       RelaunchFails, RelaunchRaises, Announced
  <2>2. watch[w] # "none"
    BY <1>2 DEF Watcher, WatchWakes, WatchDrained, BackoffEnds, MaybeRestart,
       RelaunchFails, RelaunchRaises, Announced
  <2>3. \E at \in WatchPcs \ {"none"} : watch' = [watch EXCEPT ![w] = at]
    BY <1>2 DEF Watcher, WatchWakes, WatchDrained, HandleExit, BackoffEnds, MaybeRestart,
       RelaunchFails, RelaunchRaises, Announced, WatchPcs
  <2> QED
    BY <2>1, <2>2, <2>3 DEF WatchersBorn, TypeOK
<1> QED
  BY <1>1, <1>2

LEMMA StoppingBorn ==
    ASSUME TypeOK, WatchersBorn, Stopping
    PROVE  WatchersBorn'
<1>1. UNCHANGED processes
  BY DEF Stopping, SettingsChangeFails, StopBegins, Terminated, TermTimesOut, WatchJoined,
     JoinRaises, JoinTimesOut, StopDrained
<1>2. watchTask' \in {watchTask, NoDaemon}
  BY DEF Stopping, SettingsChangeFails, StopBegins, Terminated, TermTimesOut, WatchJoined,
     JoinRaises, JoinTimesOut, StopDrained, AwaitWatch, AwaitDrain, Suspended, StopEnds
<1>3. pc' = "joining" => watchTask # NoDaemon /\ target' = watchTask
  BY DEF Stopping, SettingsChangeFails, StopBegins, Terminated, TermTimesOut, WatchJoined,
     JoinRaises, JoinTimesOut, StopDrained, AwaitWatch, AwaitDrain, Suspended, StopEnds, TypeOK
<1>4. \A p \in Spawns : processes[p] = "unborn" <=> watch'[p] = "none"
  <2>1. CASE JoinTimesOut
    BY <2>1 DEF JoinTimesOut, WatchersBorn, TypeOK
  <2>2. CASE UNCHANGED watch
    BY <2>2 DEF WatchersBorn
  <2> QED
    BY <2>1, <2>2 DEF Stopping, SettingsChangeFails, StopBegins, Terminated, TermTimesOut,
       WatchJoined, JoinRaises, StopDrained
<1> QED
  BY <1>1, <1>2, <1>3, <1>4 DEF WatchersBorn

LEMMA WatchersBornStep == TypeOK /\ WatchersBorn /\ [Next]_vars => WatchersBorn'
<1> SUFFICES ASSUME TypeOK, WatchersBorn, [Next]_vars PROVE WatchersBorn'
  OBVIOUS
<1>1. ASSUME NEW p \in Spawns, ProcessExits(p)
      PROVE  WatchersBorn'
  BY <1>1 DEF ProcessExits, WatchersBorn, TypeOK
<1>2. CASE Command
  BY <1>2 DEF Command, Enable, Disable, RestartRuntime, SettingsChange, Quiesce, WatchersBorn
<1>3. CASE Starting
  <2>1. CASE Launched
    BY <2>1 DEF Launched, Spawned, WatchersBorn, TypeOK
  <2>2. CASE Prepared \/ StartFails \/ StartRaises \/ LaunchAnnounced \/ WarmedUp
    BY <2>2 DEF Prepared, StartFails, StartRaises, LaunchAnnounced, WarmedUp, WatchersBorn
  <2> QED
    BY <1>3, <2>1, <2>2 DEF Starting
<1>4. CASE UNCHANGED vars
  BY <1>4 DEF WatchersBorn
<1> QED
  BY <1>1, <1>2, <1>3, <1>4, WatcherBorn, StoppingBorn DEF Next

\* The daemon that is restarted is the last one, and nothing runs beside it.
LEMMA RetryingAlone ==
    ASSUME TypeOK, Orderly, NEW w \in Spawns,
           watch[w] \in {"reporting", "backoff", "launching"}
    PROVE  w = watchTask /\ proc = NoDaemon /\ Alive = {}
<1>1. w = watchTask
  BY DEF Orderly, Watched
<1>2. proc = NoDaemon
  BY <1>1 DEF Orderly, Watched
<1>3. Alive = {}
  BY <1>1 DEF Orderly, Alive
<1> QED
  BY <1>1, <1>2, <1>3

\* A watcher that reports or relaunches does so while a daemon is wanted.
LEMMA RetryingOn ==
    ASSUME TypeOK, Orderly, NEW w \in Spawns,
           watch[w] \in {"waiting", "draining", "reporting", "backoff", "launching"},
           pc \notin StopPcs
    PROVE  Mode = "on"
<1>1. w = watchTask /\ w # NoDaemon
  BY DEF Orderly, Watched
<1>2. ~(pc \in {"preparing", "launching"} \/ (pc = "idle" /\ ~enabled))
  BY <1>1 DEF Orderly, CleanLaunch
<1> QED
  BY <1>2 DEF Mode

LEMMA ExitKeepsContract ==
    ASSUME TypeOK, NEW p \in Spawns, ProcessExits(p)
    PROVE  [Contract!Next]_(Contract!contract)
<1>1. p \in Alive /\ Alive' = Alive \ {p} /\ Born' = Born
  BY DEF ProcessExits, Alive, Born, TypeOK
<1>2. UNCHANGED <<Mode, Retrying, restartsUsed, overtaken>>
  BY DEF ProcessExits, Mode, Retrying
<1>3. Contract!Exit(p)
  BY <1>1, <1>2 DEF Contract!Exit
<1> QED
  BY <1>3 DEF Contract!Next

\* A crash that is reported leaves the restarts as they are or forgives them all.
LEMMA HandleExitKeepsContract ==
    ASSUME Reliable, NEW w \in Spawns, watch[w] \in {"waiting", "draining"},
           watch[w] = "waiting" => ~Running(w), HandleExit(w),
           UNCHANGED <<system, watchTask, stopping, lifecycle, overtaken>>
    PROVE  [Contract!Next]_(Contract!contract)
<1>1. UNCHANGED <<Mode, Alive, Born, overtaken>>
  BY DEF Mode, Alive, Born
<1>2. \E at \in {"done", "reporting"} : watch' = [watch EXCEPT ![w] = at]
  BY DEF HandleExit
<1>3. UNCHANGED Retrying
  BY <1>2 DEF Reliable, Retrying, TypeOK
<1>4. CASE stopping \/ UNCHANGED restartsUsed
  BY <1>1, <1>3, <1>4 DEF HandleExit, Contract!contract
<1>5. CASE ~stopping /\ restartsUsed' = 0
  <2>1. ASSUME ~overtaken
        PROVE  Mode = "on" /\ Alive = {}
    <3>1. Orderly
      BY <2>1 DEF Reliable
    <3>2. pc \notin StopPcs
      BY <1>5, <3>1 DEF Orderly, StopProgress
    <3>3. w = watchTask
      BY <3>1 DEF Orderly, Watched
    <3> QED
      BY <3>1, <3>2, <3>3, RetryingOn DEF Reliable, Orderly, Alive
  <2>2. Contract!Forgive
    BY <1>1, <1>3, <1>5, <2>1 DEF Contract!Forgive, Contract!Down
  <2> QED
    BY <2>2 DEF Contract!Next
<1> QED
  BY <1>4, <1>5 DEF HandleExit

LEMMA WatcherKeepsContract ==
    ASSUME Reliable, NEW w \in Spawns, Watcher(w)
    PROVE  [Contract!Next]_(Contract!contract)
<1> USE DEF Reliable
<1>1. UNCHANGED <<lifecycle, Mode, overtaken>>
  BY DEF Watcher, WatchWakes, WatchDrained, BackoffEnds, MaybeRestart, RelaunchFails,
     RelaunchRaises, Relaunched, Announced, Mode
<1>2. CASE WatchWakes(w)
  <2>1. CASE HandleExit(w)
    BY <1>2, <2>1, HandleExitKeepsContract DEF WatchWakes
  <2>2. CASE watch' = [watch EXCEPT ![w] = "draining"] /\ UNCHANGED restartsUsed
    <3>1. UNCHANGED <<Retrying, Alive, Born>>
      BY <1>2, <2>2 DEF WatchWakes, TypeOK, Retrying, Alive, Born
    <3> QED
      BY <1>1, <2>2, <3>1 DEF Contract!contract
  <2> QED
    BY <1>2, <2>1, <2>2 DEF WatchWakes
<1>3. CASE WatchDrained(w)
  BY <1>3, HandleExitKeepsContract DEF WatchDrained
<1>4. CASE BackoffEnds(w)
  <2>1. w \in Retrying /\ UNCHANGED <<Alive, Born, restartsUsed>>
    BY <1>4 DEF BackoffEnds, Retrying, Alive, Born
  <2>2. Retrying' = Retrying \/ Retrying' = Retrying \ {w}
    BY <1>4, <2>1 DEF BackoffEnds, Retrying, TypeOK
  <2>3. CASE Retrying' = Retrying
    BY <1>1, <2>1, <2>3 DEF Contract!contract
  <2>4. CASE Retrying' = Retrying \ {w}
    <3>1. Contract!GiveUp(w)
      BY <1>1, <2>1, <2>4 DEF Contract!GiveUp
    <3> QED
      BY <3>1 DEF Contract!Next
  <2> QED
    BY <2>2, <2>3, <2>4
<1>5. ASSUME NEW idle \in BOOLEAN, MaybeRestart(w, idle)
      PROVE  [Contract!Next]_(Contract!contract)
  <2>1. w \in Born /\ w \notin Retrying /\ UNCHANGED <<Alive, Born>>
    BY <1>5 DEF MaybeRestart, WatchersBorn, Retrying, Alive, Born
  <2>2. CASE watch' = [watch EXCEPT ![w] = "done"] /\ UNCHANGED restartsUsed
    <3>1. UNCHANGED Retrying
      BY <2>1, <2>2 DEF Retrying, TypeOK
    <3> QED
      BY <1>1, <2>1, <2>2, <3>1 DEF Contract!contract
  <2>3. CASE /\ ~stopping
             /\ restartsUsed < MaxRestarts
             /\ watch' = [watch EXCEPT ![w] = "backoff"]
             /\ restartsUsed' = restartsUsed + 1
    <3>1. Retrying' = Retrying \cup {w}
      BY <2>3 DEF Retrying, TypeOK
    <3>2. ASSUME ~overtaken
          PROVE  Mode = "on" /\ Alive = {}
      <4>1. Orderly /\ watch[w] = "reporting" /\ pc \notin StopPcs
        BY <1>5, <2>3, <3>2 DEF MaybeRestart, Orderly, StopProgress
      <4> QED
        BY <4>1, RetryingOn, RetryingAlone
    <3>3. Contract!Grant(w)
      BY <1>1, <2>1, <2>3, <3>1, <3>2 DEF Contract!Grant, Contract!Down
    <3> QED
      BY <3>3 DEF Contract!Next
  <2> QED
    BY <1>5, <2>2, <2>3 DEF MaybeRestart
<1>6. CASE RelaunchFails(w)
  <2>1. w \in Retrying /\ UNCHANGED <<Alive, Born, restartsUsed>>
    BY <1>6 DEF RelaunchFails, Retrying, Alive, Born
  <2>2. Retrying' = Retrying \ {w}
    BY <1>6 DEF RelaunchFails, Retrying, TypeOK
  <2>3. Contract!GiveUp(w)
    BY <1>1, <2>1, <2>2 DEF Contract!GiveUp
  <2> QED
    BY <2>3 DEF Contract!Next
<1>7. CASE Relaunched(w)
  <2>1. [watch EXCEPT ![w] = "announcing"] \in [Spawns -> WatchPcs]
    BY DEF TypeOK, WatchPcs
  <2>2. PICK p \in Spawns :
            /\ p \notin Born
            /\ p \notin Retrying
            /\ Born' = Born \cup {p}
            /\ Alive' = Alive \cup {p}
            /\ watch' = [[watch EXCEPT ![w] = "announcing"] EXCEPT ![p] = "waiting"]
    BY <1>7, <2>1, SpawnedOne DEF Relaunched
  <2>3. w \in Retrying
    BY <1>7 DEF Relaunched, Retrying
  <2>4. Retrying' = Retrying \ {w}
    BY <2>2, <2>3 DEF Retrying, TypeOK
  <2>5. ASSUME ~overtaken
        PROVE  Mode = "on" /\ Alive = {}
    <3>1. Orderly /\ watch[w] = "launching" /\ w = watchTask /\ Alive = {}
      BY <1>7, <2>5, RetryingAlone DEF Relaunched
    <3>2. pc \notin StopPcs
      BY <3>1 DEF Orderly, StopProgress
    <3> QED
      BY <3>1, <3>2, RetryingOn
  <2>6. UNCHANGED restartsUsed
    BY <1>7 DEF Relaunched
  <2>7. Contract!Restart(w, p)
    BY <1>1, <2>2, <2>3, <2>4, <2>5, <2>6
       DEF Contract!Restart, Contract!Down, Contract!Spawn
  <2> QED
    BY <2>7 DEF Contract!Next
<1>9. CASE RelaunchRaises(w)
  <2>1. w \in Retrying /\ UNCHANGED <<Alive, Born, restartsUsed>>
    BY <1>9 DEF RelaunchRaises, Retrying, Alive, Born
  <2>2. Retrying' = Retrying \ {w}
    BY <1>9 DEF RelaunchRaises, Retrying, TypeOK
  <2>3. Contract!GiveUp(w)
    BY <1>1, <2>1, <2>2 DEF Contract!GiveUp
  <2> QED
    BY <2>3 DEF Contract!Next
<1>8. CASE Announced(w)
  <2>1. UNCHANGED <<Retrying, Alive, Born, restartsUsed>>
    BY <1>8 DEF Announced, TypeOK, Retrying, Alive, Born
  <2> QED
    BY <1>1, <2>1 DEF Contract!contract
<1> QED
  BY <1>2, <1>3, <1>4, <1>5, <1>6, <1>7, <1>8, <1>9 DEF Watcher

\* How a stop() may become overtaken.
OvertakenBy == overtaken' = overtaken \/ (Mode = "on" /\ Contract!Overtaken)

LEMMA StopEndsKeepsContract ==
    ASSUME Reliable, StopEnds, Mode \in {"on", "stopping"}, pc # "idle", OvertakenBy,
           UNCHANGED <<Alive, Born, intent>>, Retrying' \subseteq Retrying,
           overtaken' \/ (Alive = {} /\ Retrying' = {})
    PROVE  Contract!StopReturns
<1>1. Mode' = IF afterStop = "rest" THEN "off" ELSE "asked"
  BY DEF Reliable, TypeOK, Intent, StopEnds, Mode, StopPcs
<1>2. restartsUsed' = restartsUsed \/ (Mode' = "asked" /\ restartsUsed' = 0)
  BY <1>1 DEF StopEnds
<1> QED
  BY <1>1, <1>2 DEF Contract!StopReturns, OvertakenBy, Contract!Overtaken

\* Once the daemon has exited and its watcher is done, no restart is left.
LEMMA NoneRetrying ==
    ASSUME TypeOK, Orderly, watchTask # NoDaemon => watch'[watchTask] \in Over,
           \A w \in Spawns : watch'[w] \in {watch[w], "done"}
    PROVE  Retrying' = {}
BY DEF Orderly, Watched, Retrying

\* A stop() that has begun and waits goes on or returns.
LEMMA WaitKeepsContract ==
    ASSUME Reliable, pc \in StopPcs, ~overtaken => Alive = {},
           AwaitWatch, UNCHANGED <<system, watch, intent, overtaken>>
    PROVE  [Contract!Next]_(Contract!contract)
<1>1. Mode = "stopping" /\ pc # "idle" /\ UNCHANGED <<Alive, Born, Retrying>>
  BY DEF Mode, StopPcs, Alive, Born, Retrying
<1>2. CASE StopEnds
  <2>1. ASSUME ~overtaken
        PROVE  Retrying' = {}
    <3>1. Orderly
      BY <2>1 DEF Reliable
    <3>2. watchTask # NoDaemon => watch[watchTask] \in Over
      BY <1>2, <3>1 DEF AwaitWatch, Suspended, StopEnds, Reliable, TypeOK
    <3> QED
      BY <3>1, <3>2, NoneRetrying DEF Reliable
  <2>2. Contract!StopReturns
    BY <1>1, <1>2, <2>1, StopEndsKeepsContract DEF OvertakenBy
  <2> QED
    BY <2>2 DEF Contract!Next
<1>3. CASE Suspended("joining") \/ Suspended("draining")
  <2>1. Mode' = "stopping" /\ UNCHANGED restartsUsed
    BY <1>3 DEF Suspended, Mode, StopPcs
  <2> QED
    BY <1>1, <2>1 DEF Contract!contract
<1> QED
  BY <1>2, <1>3 DEF AwaitWatch, AwaitDrain

LEMMA StopBeginsKeepsContract ==
    ASSUME Reliable, StopBegins
    PROVE  [Contract!Next]_(Contract!contract)
<1>1. Mode = "on" /\ pc # "idle"
  BY DEF StopBegins, Mode, StopPcs
<1>2. UNCHANGED <<Alive, Born, Retrying, intent>>
  BY DEF StopBegins, Alive, Born, Retrying
<1>3. OvertakenBy
  <2>1. CASE overtaken' = overtaken
    BY <2>1 DEF OvertakenBy
  <2>2. CASE overtaken' # overtaken
    <3>1. ~overtaken /\ overtaken'
      BY <2>2 DEF StopBegins, Reliable, TypeOK
    <3>2. PICK w \in Spawns : watch[w] = "launching"
      BY <3>1 DEF StopBegins
    <3>3. Orderly
      BY <3>1 DEF Reliable
    <3>4. Alive = {}
      BY <3>2, <3>3, RetryingAlone DEF Reliable
    <3>5. Retrying # {}
      BY <3>2 DEF Retrying
    <3> QED
      BY <1>1, <3>1, <3>4, <3>5 DEF OvertakenBy, Contract!Overtaken
  <2> QED
    BY <2>1, <2>2
<1>4. CASE \E at \in StopPcs : Suspended(at)
  <2>1. Mode' = "stopping" /\ UNCHANGED restartsUsed
    BY <1>4 DEF Suspended, Mode, StopPcs
  <2>2. Contract!StopBegins
    BY <1>1, <1>2, <1>3, <2>1 DEF Contract!StopBegins, OvertakenBy
  <2> QED
    BY <2>2 DEF Contract!Next
<1>5. CASE StopEnds /\ proc = NoDaemon /\ ~(watchTask # NoDaemon /\ watch[watchTask] \notin Over)
  <2>1. ASSUME ~overtaken'
        PROVE  Alive = {} /\ Retrying' = {}
    <3>1. Orderly
      BY <2>1 DEF StopBegins, Reliable
    <3>2. Alive = {}
      BY <1>5, <3>1 DEF Orderly, Alive
    <3>3. \A w \in Spawns : watch'[w] = watch[w]
      BY DEF StopBegins
    <3> QED
      BY <1>5, <3>1, <3>2, <3>3, NoneRetrying DEF Reliable, TypeOK
  <2>2. Contract!StopReturns
    BY <1>1, <1>2, <1>3, <1>5, <2>1, StopEndsKeepsContract
  <2> QED
    BY <2>2 DEF Contract!Next
<1> QED
  BY <1>4, <1>5 DEF StopBegins, AwaitWatch, AwaitDrain, StopPcs

LEMMA StoppingKeepsContract ==
    ASSUME Reliable, Stopping
    PROVE  [Contract!Next]_(Contract!contract)
<1> USE DEF Reliable
<1>1. CASE SettingsChangeFails
  <2>1. UNCHANGED <<Mode, Alive, Born, Retrying, restartsUsed, overtaken>>
    BY <1>1 DEF SettingsChangeFails, Intent, Mode, StopPcs, Alive, Born, Retrying
  <2> QED
    BY <2>1 DEF Contract!contract
<1>2. CASE StopBegins
  BY <1>2, StopBeginsKeepsContract
<1>3. CASE Terminated
  <2>1. ~overtaken => Alive = {}
    BY <1>3 DEF Terminated, Orderly, StopProgress, Alive
  <2> QED
    BY <1>3, <2>1, WaitKeepsContract DEF Terminated, StopPcs
<1>4. CASE TermTimesOut
  <2>1. UNCHANGED <<Mode, Alive, Born, Retrying, restartsUsed, overtaken>>
    BY <1>4 DEF TermTimesOut, Mode, StopPcs, Alive, Born, Retrying
  <2> QED
    BY <2>1 DEF Contract!contract
<1>5. CASE WatchJoined \/ JoinTimesOut \/ StopDrained
  <2>1. Mode = "stopping" /\ pc # "idle" /\ UNCHANGED <<Alive, Born, intent, overtaken>>
    BY <1>5 DEF WatchJoined, JoinTimesOut, StopDrained, Mode, StopPcs, Alive, Born
  <2>2. \A w \in Spawns : watch'[w] \in {watch[w], "done"}
    BY <1>5 DEF WatchJoined, JoinTimesOut, StopDrained, TypeOK
  <2>3. CASE StopEnds
    <3>1. Retrying' \subseteq Retrying
      BY <2>2 DEF Retrying
    <3>2. ASSUME ~overtaken
          PROVE  Alive = {} /\ Retrying' = {}
      <4>1. Orderly /\ pc = "joining" /\ target = watchTask /\ Alive = {}
        BY <1>5, <3>2 DEF WatchJoined, JoinTimesOut, StopDrained, Orderly, StopProgress, Alive
      <4>2. watchTask # NoDaemon => watch'[watchTask] \in Over
        BY <1>5, <4>1 DEF WatchJoined, JoinTimesOut, StopDrained, TypeOK
      <4> QED
        BY <2>2, <4>1, <4>2, NoneRetrying
    <3>3. Contract!StopReturns
      BY <2>1, <2>3, <3>1, <3>2, StopEndsKeepsContract DEF OvertakenBy
    <3> QED
      BY <3>3 DEF Contract!Next
  <2>4. CASE Suspended("draining")
    <3>1. Mode' = "stopping" /\ UNCHANGED restartsUsed
      BY <2>4 DEF Suspended, Mode, StopPcs
    <3>2. CASE UNCHANGED Retrying
      BY <2>1, <3>1, <3>2 DEF Contract!contract
    <3>3. CASE JoinTimesOut
      <4>1. target \in Spawns
        BY <3>3 DEF JoinTimesOut, WatchersBorn, TypeOK
      <4>2. Retrying' = Retrying \ {target}
        BY <3>3, <4>1 DEF JoinTimesOut, Retrying, TypeOK
      <4>3. CASE target \in Retrying
        <5>1. Contract!GiveUp(target)
          BY <2>1, <3>1, <4>2, <4>3 DEF Contract!GiveUp
        <5> QED
          BY <4>1, <5>1 DEF Contract!Next
      <4> QED
        BY <3>2, <4>2, <4>3
    <3>4. CASE UNCHANGED watch
      BY <3>2, <3>4 DEF Retrying
    <3> QED
      BY <1>5, <3>3, <3>4 DEF WatchJoined, StopDrained
  <2> QED
    BY <1>5, <2>3, <2>4 DEF WatchJoined, JoinTimesOut, StopDrained, AwaitDrain
<1>6. CASE JoinRaises
  <2>1. Mode = "stopping" /\ Mode' \in {"off", "on"}
    BY <1>6 DEF JoinRaises, Mode, StopPcs
  <2>2. UNCHANGED <<Alive, Born, Retrying, restartsUsed, overtaken>>
    BY <1>6 DEF JoinRaises, Alive, Born, Retrying
  <2>3. overtaken
    BY <1>6 DEF JoinRaises, WatchersBorn, Orderly, StopProgress
  <2>4. Contract!StopRaises
    BY <2>1, <2>2, <2>3 DEF Contract!StopRaises
  <2> QED
    BY <2>4 DEF Contract!Next
<1> QED
  BY <1>1, <1>2, <1>3, <1>4, <1>5, <1>6 DEF Stopping

LEMMA StartingKeepsContract ==
    ASSUME Reliable, Starting
    PROVE  [Contract!Next]_(Contract!contract)
<1> USE DEF Reliable
<1>1. CASE Launched
  <2>1. watch \in [Spawns -> WatchPcs]
    BY DEF TypeOK
  <2>2. PICK p \in Spawns :
            /\ p \notin Born
            /\ p \notin Retrying
            /\ Born' = Born \cup {p}
            /\ Alive' = Alive \cup {p}
            /\ watch' = [watch EXCEPT ![p] = "waiting"]
    BY <1>1, <2>1, SpawnedOne DEF Launched
  <2>3. UNCHANGED <<Retrying, restartsUsed, overtaken>>
    BY <1>1, <2>2 DEF Launched, Retrying, TypeOK
  <2>4. Mode = "asked" /\ Mode' = "on"
    BY <1>1 DEF Launched, Mode, StopPcs
  <2>5. overtaken \/ (Alive = {} /\ Retrying = {})
    BY <1>1 DEF Launched, Orderly, CleanLaunch, Watched, Alive, Retrying
  <2>6. Contract!Launch(p)
    BY <2>2, <2>3, <2>4, <2>5 DEF Contract!Launch, Contract!Spawn
  <2> QED
    BY <2>6 DEF Contract!Next
<1>2. CASE Prepared \/ StartFails \/ StartRaises \/ LaunchAnnounced \/ WarmedUp
  <2>1. UNCHANGED <<Alive, Born, Retrying, restartsUsed, overtaken>>
    BY <1>2 DEF Prepared, StartFails, StartRaises, LaunchAnnounced, WarmedUp, Alive, Born, Retrying
  <2>2. Mode' = Mode \/ (Mode = "asked" /\ Mode' = "on")
    BY <1>2 DEF Prepared, StartFails, StartRaises, LaunchAnnounced, WarmedUp, Intent, Mode, StopPcs
  <2>3. CASE Mode' = Mode
    BY <2>1, <2>3 DEF Contract!contract
  <2>4. CASE Mode = "asked" /\ Mode' = "on"
    <3>1. Contract!LaunchNothing
      BY <2>1, <2>4 DEF Contract!LaunchNothing
    <3> QED
      BY <3>1 DEF Contract!Next
  <2> QED
    BY <2>2, <2>3, <2>4
<1> QED
  BY <1>1, <1>2 DEF Starting

LEMMA CommandKeepsContract ==
    ASSUME Command
    PROVE  [Contract!Next]_(Contract!contract)
<1>1. UNCHANGED <<Alive, Born, Retrying, restartsUsed, overtaken>>
  BY DEF Command, Enable, Disable, RestartRuntime, SettingsChange, Quiesce, Alive, Born,
     Retrying
<1>2. CASE Enable
  <2>1. Contract!Ask
    BY <1>1, <1>2 DEF Enable, Mode, StopPcs, Contract!Ask
  <2> QED
    BY <2>1 DEF Contract!Next
<1>3. CASE Disable \/ RestartRuntime \/ SettingsChange
  <2>1. UNCHANGED Mode
    BY <1>3 DEF Disable, RestartRuntime, SettingsChange, Quiesce, Mode, StopPcs
  <2> QED
    BY <1>1, <2>1 DEF Contract!contract
<1> QED
  BY <1>2, <1>3 DEF Command

\* Every step of the supervisor is a step of its contract or concerns nothing in
\* it: a start launches one daemon on a clean slate, every other launch is a restart
\* the policy granted, none is granted or made during a stop(), and stop() returns
\* when no daemon runs and no restart is left, unless a watcher overtook it.
THEOREM SupervisorKeepsContract == Spec => KeepsContract
<1>1. Init => Contract!Init /\ WatchersBorn
  <2> SUFFICES ASSUME Init PROVE Contract!Init /\ WatchersBorn
    OBVIOUS
  <2>1. Alive = {} /\ Born = {} /\ Retrying = {} /\ WatchersBorn
    BY DEF Init, Alive, Born, Retrying, WatchersBorn
  <2>2. Mode = "off"
    BY DEF Init, Mode, StopPcs
  <2> QED
    BY <2>1, <2>2 DEF Init, Contract!Init
<1>2. SupervisorInvariant /\ WatchersBorn /\ [Next]_vars =>
          WatchersBorn' /\ [Contract!Next]_(Contract!contract)
  <2> SUFFICES ASSUME SupervisorInvariant, WatchersBorn, [Next]_vars
               PROVE  WatchersBorn' /\ [Contract!Next]_(Contract!contract)
    OBVIOUS
  <2>1. Reliable
    BY OrderlyInvariant DEF Reliable
  <2>2. WatchersBorn'
    BY <2>1, WatchersBornStep DEF Reliable
  <2>3. ASSUME UNCHANGED vars
        PROVE  [Contract!Next]_(Contract!contract)
    <3>1. UNCHANGED <<Mode, Alive, Born, Retrying, restartsUsed, overtaken>>
      BY <2>3 DEF Mode, StopPcs, Alive, Born, Retrying
    <3> QED
      BY <3>1 DEF Contract!contract
  <2>4. [Contract!Next]_(Contract!contract)
    BY <2>1, <2>3, ExitKeepsContract, WatcherKeepsContract, StoppingKeepsContract,
       StartingKeepsContract, CommandKeepsContract DEF Next, Reliable
  <2> QED
    BY <2>2, <2>4
<1> QED
  BY <1>1, <1>2, InvariantHolds, PTL DEF Spec, KeepsContract, Contract!Spec

=============================================================================
