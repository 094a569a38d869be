------------------------------ MODULE Launcher ------------------------------
(***************************************************************************)
(* The launcher of BatchFlow (src/batchflow/deployment): one process per   *)
(* node of the topology.  The node that owns the coordinator starts it in  *)
(* the launcher's own process; every node starts its data workers as       *)
(* daemonic child processes, installs signal handlers and sleeps.  A       *)
(* signal runs stop_all over the runtime handles, in reverse order, on top *)
(* of whatever the main thread was doing, and raises SystemExit; the       *)
(* finally clause of main then runs stop_all once more.                    *)
(*                                                                         *)
(* A frame is an activation of stop_all.  A handler replaces the frame it  *)
(* interrupts: its SystemExit unwinds that frame, which never goes on, and *)
(* the handle that was being stopped keeps its _stopped flag.              *)
(***************************************************************************)
EXTENDS Integers, FiniteSets

CONSTANTS
    Nodes,        \* node ids of the topology
    MaxWorkers,   \* bound on the workers of a node
    MaxPort,      \* 65535 in the code
    MaxSignals,   \* bound on the signals a launcher gets
    Topologies    \* configurations: [owner, count, start, verify]

ASSUME BoundsAssumption == MaxWorkers \in Nat /\ MaxPort \in Nat /\ MaxSignals \in Nat
ASSUME TopologyAssumption ==
    \A t \in Topologies :
        /\ t.count \in [Nodes -> Int]
        /\ t.start \in [Nodes -> Int]
        /\ t.verify \in BOOLEAN
        /\ \A n \in Nodes : t.count[n] <= MaxWorkers

Signals == {"INT", "TERM"}
Workers == 1..MaxWorkers

\* Handle 0 is the coordinator's, handle w that of worker w - 1: the order of
\* the list launch_node returns.
HandleIds == 0..MaxWorkers

Launching == {"service", "dataset", "serve", "wait", "workers"}
Pcs == {"validate", "install", "sleep", "stop", "leave", "join", "exited", "killed"}
       \cup Launching
Steps == {"look", "terminate", "kill", "shutdown", "server"}
WorkerStates == {"none", "boot", "serving", "loop", "stopping", "dying", "dead"}

VARIABLES
    topo,        \* the TopologyConfig
    pc,          \* where the main thread of a node's launcher is
    frame,       \* the top activation of stop_all: none, handler or finally
    inFinally,   \* whether main's finally clause was entered
    at,          \* the handle the frame is at
    step,        \* the step of that handle's stop
    handles,     \* the handles main knows
    stopped,     \* those whose _stopped flag is set
    installed,   \* signals with a handler
    signals,     \* number of signals received
    coord,       \* the coordinator: none, created, up, halted, down
    shutdowns,   \* calls of CoordinatorService.shutdown
    wk,          \* state of every worker process
    refused      \* workers whose registration found no coordinator

main == <<pc, frame, inFinally, at, step, handles, stopped, installed, signals>>
vars == <<topo, main, coord, shutdowns, wk, refused>>

Owns(n) == topo.owner = n
Count(n) == IF topo.count[n] > 0 THEN topo.count[n] ELSE 0
Mine(n) == (IF Owns(n) THEN {0} ELSE {}) \cup 1..Count(n)
Up == coord \in {"up", "halted"}
Alive(n, w) == wk[n][w] \notin {"none", "dead"}
Running(n) == pc[n] \notin {"leave", "join", "exited", "killed"}

\* NodeConfig.worker_port of the worker with handle w, whose index is w - 1.
WorkerPort(n, w) == topo.start[n] + (w - 1)

Init ==
    /\ topo \in Topologies
    /\ pc = [n \in Nodes |-> "validate"]
    /\ frame = [n \in Nodes |-> "none"]
    /\ inFinally = [n \in Nodes |-> FALSE]
    /\ at = [n \in Nodes |-> 0]
    /\ step = [n \in Nodes |-> "look"]
    /\ handles = [n \in Nodes |-> {}]
    /\ stopped = [n \in Nodes |-> {}]
    /\ installed = [n \in Nodes |-> {}]
    /\ signals = [n \in Nodes |-> 0]
    /\ coord = "none"
    /\ shutdowns = 0
    /\ wk = [n \in Nodes |-> [w \in Workers |-> "none"]]
    /\ refused = {}

-----------------------------------------------------------------------------
(* Launching a node *)

ValidLaunch(n) ==
    /\ topo.owner \in Nodes
    /\ topo.count[n] >= 0
    /\ topo.count[n] > 0 =>
        topo.start[n] \in 1..MaxPort /\ WorkerPort(n, topo.count[n]) <= MaxPort
    /\ Owns(n) \/ topo.count[n] > 0

\* Mutant: a remote node never looks for the coordinator.
WaitNeverRemote(n) == topo.count[n] > 0 /\ Owns(n)
WaitNeeded(n) == topo.count[n] > 0 /\ (Owns(n) \/ topo.verify)

Goto(n, p) == pc' = [pc EXCEPT ![n] = p]
AfterCoordinator(n) == IF WaitNeeded(n) THEN "wait" ELSE "workers"
UnchangedFrame == UNCHANGED <<frame, inFinally, at, step, stopped, signals>>

\* _validate_node_launch: a ValueError leaves main before there is a handle.
Validate(n) ==
    /\ pc[n] = "validate"
    /\ Goto(n, IF ~ValidLaunch(n) THEN "leave"
               ELSE IF Owns(n) THEN "service" ELSE AfterCoordinator(n))
    /\ UNCHANGED <<topo, handles, installed, coord, shutdowns, wk, refused>>
    /\ UnchangedFrame

\* start_coordinator: the service with its maintainer thread, then the dataset,
\* then the server.
StartCoordinator(n) ==
    /\ \/ /\ pc[n] = "service"
          /\ coord' = "created"
          /\ Goto(n, "dataset")
       \/ /\ pc[n] = "dataset"
          /\ coord' = coord
          /\ Goto(n, "serve")
       \/ /\ pc[n] = "serve"
          /\ coord' = "up"
          /\ Goto(n, AfterCoordinator(n))
    /\ UNCHANGED <<topo, handles, installed, shutdowns, wk, refused>>
    /\ UnchangedFrame

\* _wait_for_grpc_endpoint: the coordinator answers, or the wait times out.
WaitForEndpoint(n) ==
    /\ pc[n] = "wait"
    /\ Goto(n, IF Up THEN "workers" ELSE "leave")
    /\ UNCHANGED <<topo, handles, installed, coord, shutdowns, wk, refused>>
    /\ UnchangedFrame

\* launch_workers: one process after the other; main gets the handles when all
\* are started.
LaunchWorkers(n) ==
    /\ pc[n] = "workers"
    /\ LET fresh == {w \in 1..Count(n) : wk[n][w] = "none"} IN
        \/ \E w \in fresh :
            /\ \A v \in fresh : w <= v
            /\ wk' = [wk EXCEPT ![n][w] = "boot"]
            /\ UNCHANGED <<pc, handles>>
        \/ /\ fresh = {}
           /\ handles' = [handles EXCEPT ![n] = Mine(n)]
           /\ Goto(n, "install")
           /\ UNCHANGED wk
    /\ UNCHANGED <<topo, installed, coord, shutdowns, refused>>
    /\ UnchangedFrame

\* An exception on the way (Redis, the dataset, a port, a process): the local
\* list of handles is lost and main's finally clause has nothing to stop.
LaunchFails(n) ==
    /\ pc[n] \in Launching \ {"wait"}
    /\ Goto(n, "leave")
    /\ UNCHANGED <<topo, handles, installed, coord, shutdowns, wk, refused>>
    /\ UnchangedFrame

\* _install_signal_handlers: SIGINT first, then SIGTERM.
InstallHandler(n) ==
    /\ pc[n] = "install"
    /\ LET s == IF "INT" \in installed[n] THEN "TERM" ELSE "INT" IN
        /\ installed' = [installed EXCEPT ![n] = @ \cup {s}]
        /\ IF s = "TERM" THEN Goto(n, "sleep") ELSE UNCHANGED pc
    /\ UNCHANGED <<topo, handles, coord, shutdowns, wk, refused>>
    /\ UnchangedFrame

-----------------------------------------------------------------------------
(* stop_all and the signal handlers *)

\* A new activation of stop_all starts at the last handle.
Enter(n, f) ==
    /\ Goto(n, "stop")
    /\ frame' = [frame EXCEPT ![n] = f]
    /\ inFinally' = [inFinally EXCEPT ![n] = @ \/ f = "finally"]
    /\ at' = [at EXCEPT ![n] = Count(n)]
    /\ step' = [step EXCEPT ![n] = "look"]

Leave(n) == Goto(n, "leave") /\ UNCHANGED <<frame, inFinally, at, step>>

\* Mutant: the handler returns instead of raising SystemExit.
FrameReturns(n) ==
    IF frame[n] = "handler" /\ ~inFinally[n]
    THEN Goto(n, "sleep") /\ UNCHANGED <<frame, inFinally, at, step>>
    ELSE Leave(n)

\* The end of a frame: the handler raises SystemExit, which leaves main through
\* its finally clause, unless it interrupted that clause.
FrameEnds(n) ==
    IF frame[n] = "handler" /\ ~inFinally[n] THEN Enter(n, "finally") ELSE Leave(n)

NextHandle(n) ==
    IF at[n] = 0
    THEN FrameEnds(n)
    ELSE /\ at' = [at EXCEPT ![n] = @ - 1]
         /\ step' = [step EXCEPT ![n] = "look"]
         /\ UNCHANGED <<pc, frame, inFinally>>

GoOn(n, s) == step' = [step EXCEPT ![n] = s] /\ UNCHANGED <<pc, frame, inFinally, at>>
FirstStep(h) == IF h = 0 THEN "shutdown" ELSE "terminate"

\* Mutant: a worker that does not end in time is not killed.
KillWorkerSoftly(n, w, s) == wk' = [wk EXCEPT ![n][w] = IF Alive(n, w) THEN "dying" ELSE @]

KillWorker(n, w, s) == wk' = [wk EXCEPT ![n][w] = IF Alive(n, w) THEN s ELSE @]

\* Mutant: the flag is not set.
MarkNothing(n) == stopped' = stopped

\* The flag is tested and set before anything is stopped.
MarkStopped(n) == stopped' = [stopped EXCEPT ![n] = @ \cup {at[n]}]

StopHandle(n) ==
    /\ pc[n] = "stop" /\ step[n] = "look"
    /\ IF at[n] \in handles[n] \ stopped[n]
       THEN MarkStopped(n) /\ GoOn(n, FirstStep(at[n]))
       ELSE UNCHANGED stopped /\ NextHandle(n)
    /\ UNCHANGED <<topo, handles, installed, signals, coord, shutdowns, wk, refused>>

\* ManagedProcessHandle.stop: terminate if alive, join with a timeout, kill.
StopWorker(n) ==
    /\ pc[n] = "stop" /\ at[n] > 0
    /\ \/ /\ step[n] = "terminate"
          /\ KillWorker(n, at[n], "dying")
          /\ GoOn(n, "kill")
       \/ /\ step[n] = "kill"
          /\ KillWorker(n, at[n], "dead")
          /\ NextHandle(n)
    /\ UNCHANGED <<topo, handles, stopped, installed, signals, coord, shutdowns, refused>>

\* LocalCoordinatorHandle.stop: the service, then the server.  stop_all logs an
\* exception of the first (the maintainer is stopped, Redis is not closed) and
\* goes on without the second: the server runs until the process ends.
StopCoordinator(n) ==
    /\ pc[n] = "stop" /\ at[n] = 0
    /\ \/ /\ step[n] = "shutdown"
          /\ shutdowns' = shutdowns + 1
          /\ coord' = "halted"
          /\ GoOn(n, "server") \/ NextHandle(n)
       \/ /\ step[n] = "server"
          /\ coord' = "down"
          /\ NextHandle(n)
          /\ UNCHANGED shutdowns
    /\ UNCHANGED <<topo, handles, stopped, installed, signals, wk, refused>>

\* What a signal does to a worker: SIGTERM has its default action, SIGINT is a
\* KeyboardInterrupt, which worker_process_entry turns into worker.stop() once
\* the worker exists; one in the middle of that stop ends it.
Signalled(s, state) ==
    CASE state \in {"none", "dead"} -> state
      [] s = "INT" /\ state \in {"serving", "loop"} -> "stopping"
      [] OTHER -> "dead"

\* A signal reaches the launcher, alone or with its process group (Ctrl+C, or
\* the scripts' kill of the group).
Signal(n, s, group) ==
    /\ signals[n] < MaxSignals
    /\ Running(n)
    /\ signals' = [signals EXCEPT ![n] = @ + 1]
    /\ \/ /\ s \in installed[n]                           \* _handle_signal
          /\ Enter(n, "handler")
          /\ UNCHANGED coord
       \/ /\ s \notin installed[n] /\ s = "TERM"          \* the default action
          /\ Goto(n, "killed")
          /\ coord' = IF Owns(n) THEN "down" ELSE coord
          /\ UNCHANGED <<frame, inFinally, at, step>>
       \/ /\ s \notin installed[n] /\ s = "INT"           \* KeyboardInterrupt
          /\ IF inFinally[n] \/ handles[n] = {} THEN Leave(n) ELSE Enter(n, "finally")
          /\ UNCHANGED coord
    /\ wk' = IF group
             THEN [wk EXCEPT ![n] = [w \in Workers |-> Signalled(s, wk[n][w])]]
             ELSE wk
    /\ UNCHANGED <<topo, handles, stopped, installed, shutdowns, refused>>

\* The interpreter's exit: multiprocessing terminates and joins its daemonic
\* children; then the process, and with it the coordinator, is gone.
Exit(n) ==
    /\ \/ /\ pc[n] = "leave"
          /\ Goto(n, "join")
          /\ wk' = [wk EXCEPT ![n] = [w \in Workers |-> IF Alive(n, w) THEN "dying" ELSE @[w]]]
          /\ UNCHANGED coord
       \/ /\ pc[n] = "join" /\ \A w \in Workers : ~Alive(n, w)
          /\ Goto(n, "exited")
          /\ coord' = IF Owns(n) THEN "down" ELSE coord
          /\ UNCHANGED wk
    /\ UNCHANGED <<topo, frame, inFinally, at, step, handles, stopped, installed, signals>>
    /\ UNCHANGED <<shutdowns, refused>>

-----------------------------------------------------------------------------
(* Worker processes *)

\* DataWorker.start: the data server, then the registration, whose failure ends
\* the process by way of worker.stop().
StartWorker(n, w) ==
    /\ \/ /\ wk[n][w] = "boot"
          /\ wk' = [wk EXCEPT ![n][w] = "serving"]
          /\ UNCHANGED refused
       \/ /\ wk[n][w] = "serving" /\ Up
          /\ wk' = [wk EXCEPT ![n][w] = "loop"]
          /\ UNCHANGED refused
       \/ /\ wk[n][w] = "serving" /\ ~Up
          /\ wk' = [wk EXCEPT ![n][w] = "stopping"]
          /\ refused' = refused \cup {<<n, w>>}
    /\ UNCHANGED <<topo, main, coord, shutdowns>>

\* DataWorker.stop has run to its end, or SIGTERM takes effect.
EndWorker(n, w) ==
    /\ wk[n][w] \in {"stopping", "dying"}
    /\ wk' = [wk EXCEPT ![n][w] = "dead"]
    /\ UNCHANGED <<topo, main, coord, shutdowns, refused>>

LaunchStep(n) ==
    \/ Validate(n) \/ StartCoordinator(n) \/ WaitForEndpoint(n)
    \/ LaunchWorkers(n) \/ InstallHandler(n)

StopStep(n) == StopHandle(n) \/ StopWorker(n) \/ StopCoordinator(n) \/ Exit(n)

WorkerStep(n) == \E w \in Workers : StartWorker(n, w) \/ EndWorker(n, w)

Next ==
    \E n \in Nodes :
        \/ LaunchStep(n) \/ LaunchFails(n) \/ StopStep(n) \/ WorkerStep(n)
        \/ \E s \in Signals, group \in BOOLEAN : Signal(n, s, group)

Spec == Init /\ [][Next]_vars

\* Threads and processes are scheduled; no signal and no failure need come.
FairSpec ==
    /\ Spec
    /\ \A n \in Nodes :
        /\ WF_vars(LaunchStep(n))
        /\ WF_vars(StopStep(n))
        /\ \A w \in Workers : WF_vars(StartWorker(n, w)) /\ WF_vars(EndWorker(n, w))

-----------------------------------------------------------------------------
(* Properties *)

\* Every part of the state has its type, and every worker that was started has
\* a port that exists.
LauncherTypeOK ==
    /\ topo \in Topologies
    /\ pc \in [Nodes -> Pcs]
    /\ frame \in [Nodes -> {"none", "handler", "finally"}]
    /\ inFinally \in [Nodes -> BOOLEAN]
    /\ at \in [Nodes -> HandleIds]
    /\ step \in [Nodes -> Steps]
    /\ handles \in [Nodes -> SUBSET HandleIds]
    /\ stopped \in [Nodes -> SUBSET HandleIds]
    /\ installed \in [Nodes -> SUBSET Signals]
    /\ signals \in [Nodes -> 0..MaxSignals]
    /\ coord \in {"none", "created", "up", "halted", "down"}
    /\ shutdowns \in Nat
    /\ wk \in [Nodes -> [Workers -> WorkerStates]]
    /\ refused \subseteq Nodes \X Workers
    /\ \A n \in Nodes, w \in Workers : wk[n][w] # "none" => WorkerPort(n, w) \in 1..MaxPort

\* With one signal, whenever it comes and whatever it interrupts, the
\* coordinator is stopped only when the workers of its node are gone, and
\* stop_all leaves no worker to the interpreter's exit.
StopOrder ==
    \A n \in Nodes : signals[n] <= 1 /\ 0 \in stopped[n] =>
        \A w \in Workers : ~Alive(n, w)

\* The coordinator is shut down at most once, although a handler may interrupt
\* another handler, or the finally clause, in the middle of it.
ShutDownOnce == shutdowns <= 1

\* A worker finds no coordinator only after it went away, or on a node that was
\* told not to look first.
NoEarlyWorker ==
    \A n \in Nodes, w \in Workers : <<n, w>> \in refused =>
        coord = "down" \/ (~Owns(n) /\ ~topo.verify)

\* A launcher that gets a signal ends, and so do its workers, unless SIGTERM came
\* before there was a handler for it.
SignalEnds ==
    \A n \in Nodes : signals[n] > 0 ~>
        \/ pc[n] = "killed"
        \/ pc[n] = "exited" /\ \A w \in Workers : ~Alive(n, w)
=============================================================================
