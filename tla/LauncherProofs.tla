--------------------------- MODULE LauncherProofs ---------------------------
(***************************************************************************)
(* What holds of every topology, every number of nodes and workers and     *)
(* every sequence of signals: types, ports, and the claims on the start of *)
(* the coordinator and on its end.                                         *)
(***************************************************************************)
EXTENDS Launcher, TLAPS

\* A node launches something only after its topology was found valid.
LaunchInv ==
    /\ LauncherTypeOK
    /\ \A n \in Nodes : pc[n] \in Launching => ValidLaunch(n)

\* Only the owner has handle 0, and its flag is set before the service is shut
\* down: a handler that interrupts this shutdown finds the flag.
StopInv ==
    /\ shutdowns \in {0, 1}
    /\ \A n \in Nodes :
        /\ 0 \in handles[n] => Owns(n)
        /\ Owns(n) /\ 0 \notin stopped[n] => shutdowns = 0
        /\ pc[n] = "stop" /\ at[n] = 0 /\ step[n] = "shutdown" =>
            Owns(n) /\ 0 \in stopped[n] /\ shutdowns = 0
        /\ pc[n] = "stop" /\ at[n] = 0 /\ step[n] = "server" => Owns(n) /\ shutdowns = 1

\* The coordinator goes through its states once: whoever waited for it can only
\* find it down later.
CoordInv ==
    \A n \in Nodes :
        /\ pc[n] \in {"service", "dataset", "serve"} => Owns(n)
        /\ Owns(n) /\ pc[n] \in {"validate", "service"} => coord = "none"
        /\ Owns(n) /\ pc[n] \in {"dataset", "serve"} => coord = "created"
        /\ Owns(n) /\ coord = "down" => shutdowns = 1 \/ pc[n] \in {"killed", "exited"}

WasUp == coord \in {"up", "halted", "down"}
Waited(n) == Owns(n) \/ topo.verify

WorkerInv ==
    \A n \in Nodes : Waited(n) =>
        /\ pc[n] = "workers" /\ topo.count[n] > 0 => WasUp
        /\ \A w \in Workers : wk[n][w] # "none" => WasUp

-----------------------------------------------------------------------------
(* Types and ports *)

LEMMA CountType ==
    ASSUME topo \in Topologies, NEW n \in Nodes
    PROVE  /\ Count(n) \in HandleIds /\ topo.count[n] \in Int /\ topo.start[n] \in Int
           /\ topo.verify \in BOOLEAN
           /\ Mine(n) \subseteq HandleIds
<1>1. topo.count[n] \in Int /\ topo.start[n] \in Int /\ topo.verify \in BOOLEAN
  BY TopologyAssumption
<1>2. topo.count[n] <= MaxWorkers
  BY TopologyAssumption
<1>3. Count(n) \in HandleIds
  BY <1>1, <1>2, BoundsAssumption DEF Count, HandleIds
<1>4. Mine(n) \subseteq HandleIds
  BY <1>3, BoundsAssumption DEF Mine, HandleIds
<1> QED BY <1>1, <1>3, <1>4

\* The port of a worker lies between those of the first and of the last one.
LEMMA PortInRange ==
    ASSUME topo \in Topologies, NEW n \in Nodes, ValidLaunch(n), NEW w \in 1..Count(n)
    PROVE  w \in Workers /\ WorkerPort(n, w) \in 1..MaxPort
<1>1. /\ topo.count[n] \in Int /\ topo.start[n] \in Int /\ MaxWorkers \in Nat /\ MaxPort \in Nat
      /\ topo.count[n] <= MaxWorkers
  BY TopologyAssumption, BoundsAssumption
<1>2. topo.count[n] > 0 /\ w \in 1..topo.count[n]
  BY <1>1 DEF Count
<1>3. topo.start[n] \in 1..MaxPort /\ topo.start[n] + (topo.count[n] - 1) <= MaxPort
  BY <1>2 DEF ValidLaunch, WorkerPort
<1> QED BY <1>1, <1>2, <1>3 DEF Workers, WorkerPort

LEMMA LaunchInit == Init => LaunchInv
<1> SUFFICES ASSUME Init PROVE LaunchInv
  OBVIOUS
<1>1. LauncherTypeOK
  BY BoundsAssumption
     DEF Init, LauncherTypeOK, Pcs, HandleIds, Steps, WorkerStates, Signals
<1>2. ASSUME NEW n \in Nodes PROVE pc[n] \notin Launching
  BY DEF Init, Launching
<1> QED BY <1>1, <1>2 DEF LaunchInv

Step(n) ==
    \/ LaunchStep(n) \/ LaunchFails(n) \/ StopStep(n) \/ WorkerStep(n)
    \/ \E s \in Signals, group \in BOOLEAN : Signal(n, s, group)

\* What the frame of a stop is at is typed by whoever moves it.
LEMMA FrameTypes ==
    ASSUME LauncherTypeOK, NEW n \in Nodes,
           \/ \E f \in {"handler", "finally"} : Enter(n, f)
           \/ Leave(n) \/ NextHandle(n)
           \/ \E s \in Steps : GoOn(n, s)
    PROVE  /\ pc' \in [Nodes -> Pcs] /\ frame' \in [Nodes -> {"none", "handler", "finally"}]
           /\ inFinally' \in [Nodes -> BOOLEAN]
           /\ at' \in [Nodes -> HandleIds] /\ step' \in [Nodes -> Steps]
           /\ \A m \in Nodes : pc'[m] \in Launching => pc[m] \in Launching
<1> USE DEF Goto
<1>1. Count(n) \in HandleIds
  BY CountType DEF LauncherTypeOK
<1>2. ASSUME NEW f \in {"handler", "finally"}, Enter(n, f)
      PROVE  /\ pc' \in [Nodes -> Pcs] /\ frame' \in [Nodes -> {"none", "handler", "finally"}]
             /\ inFinally' \in [Nodes -> BOOLEAN]
             /\ at' \in [Nodes -> HandleIds] /\ step' \in [Nodes -> Steps]
             /\ \A m \in Nodes : pc'[m] \in Launching => pc[m] \in Launching
  BY <1>1, <1>2 DEF Enter, LauncherTypeOK, Pcs, Steps, Launching
<1>3. ASSUME Leave(n)
      PROVE  /\ pc' \in [Nodes -> Pcs] /\ frame' \in [Nodes -> {"none", "handler", "finally"}]
             /\ inFinally' \in [Nodes -> BOOLEAN]
             /\ at' \in [Nodes -> HandleIds] /\ step' \in [Nodes -> Steps]
             /\ \A m \in Nodes : pc'[m] \in Launching => pc[m] \in Launching
  BY <1>3 DEF Leave, LauncherTypeOK, Pcs, Launching
<1>4. ASSUME FrameEnds(n)
      PROVE  (\E f \in {"handler", "finally"} : Enter(n, f)) \/ Leave(n)
  BY <1>4 DEF FrameEnds
<1>5. ASSUME at[n] # 0, at' = [at EXCEPT ![n] = @ - 1],
             step' = [step EXCEPT ![n] = "look"], UNCHANGED <<pc, frame, inFinally>>
      PROVE  /\ pc' \in [Nodes -> Pcs] /\ frame' \in [Nodes -> {"none", "handler", "finally"}]
             /\ inFinally' \in [Nodes -> BOOLEAN]
             /\ at' \in [Nodes -> HandleIds] /\ step' \in [Nodes -> Steps]
             /\ \A m \in Nodes : pc'[m] \in Launching => pc[m] \in Launching
  <2>0. at[n] \in HandleIds
    BY DEF LauncherTypeOK
  <2>1. at[n] - 1 \in HandleIds
    BY <2>0, <1>5, BoundsAssumption DEF HandleIds
  <2> QED BY <2>1, <1>5 DEF LauncherTypeOK, Steps
<1>6. CASE NextHandle(n)
  BY <1>2, <1>3, <1>4, <1>5, <1>6 DEF NextHandle
<1>7. CASE \E s \in Steps : GoOn(n, s)
  BY <1>7 DEF GoOn, LauncherTypeOK
<1> QED BY <1>2, <1>3, <1>6, <1>7

\* The types of the rest; the workers' ports are looked at apart.
LEMMA TypeStep ==
    ASSUME LaunchInv, NEW n \in Nodes, Step(n)
    PROVE  LauncherTypeOK' /\ \A m \in Nodes : pc'[m] \in Launching => ValidLaunch(m)'
<1> USE DEF Goto
<1>0. /\ LauncherTypeOK /\ Count(n) \in HandleIds /\ Mine(n) \subseteq HandleIds
      /\ \A m \in Nodes : pc[m] \in Launching => ValidLaunch(m)
  BY CountType DEF LaunchInv, LauncherTypeOK
<1>00. ASSUME UNCHANGED topo
       PROVE  \A m \in Nodes : /\ ValidLaunch(m)' <=> ValidLaunch(m)
                               /\ \A w \in Workers : WorkerPort(m, w)' = WorkerPort(m, w)
  BY <1>00 DEF ValidLaunch, WorkerPort, Owns
<1>1. CASE Validate(n)
  <2>1. pc' \in [Nodes -> Pcs]
    BY <1>0, <1>1 DEF Validate, LauncherTypeOK, Pcs, Launching, AfterCoordinator
  <2>2. \A m \in Nodes : pc'[m] \in Launching => ValidLaunch(m)
    BY <1>0, <1>1 DEF Validate, LauncherTypeOK, Launching, AfterCoordinator
  <2>3. UNCHANGED <<topo, frame, inFinally, at, step, handles, stopped, installed, signals,
                    coord, shutdowns, wk, refused>>
    BY <1>1 DEF Validate, UnchangedFrame
  <2> QED BY <1>0, <1>00, <2>1, <2>2, <2>3 DEF LauncherTypeOK
<1>2. CASE StartCoordinator(n)
  <2>1. pc' \in [Nodes -> Pcs] /\ \A m \in Nodes : pc'[m] \in Launching => pc[m] \in Launching
    BY <1>0, <1>2 DEF StartCoordinator, LauncherTypeOK, Pcs, Launching, AfterCoordinator
  <2>2. coord' \in {"none", "created", "up", "halted", "down"}
    BY <1>0, <1>2 DEF StartCoordinator, LauncherTypeOK
  <2>3. UNCHANGED <<topo, frame, inFinally, at, step, handles, stopped, installed, signals,
                    shutdowns, wk, refused>>
    BY <1>2 DEF StartCoordinator, UnchangedFrame
  <2> QED BY <1>0, <1>00, <2>1, <2>2, <2>3 DEF LauncherTypeOK
<1>3. CASE WaitForEndpoint(n)
  <2>1. pc' \in [Nodes -> Pcs] /\ \A m \in Nodes : pc'[m] \in Launching => pc[m] \in Launching
    BY <1>0, <1>3 DEF WaitForEndpoint, LauncherTypeOK, Pcs, Launching
  <2>2. UNCHANGED <<topo, frame, inFinally, at, step, handles, stopped, installed, signals,
                    coord, shutdowns, wk, refused>>
    BY <1>3 DEF WaitForEndpoint, UnchangedFrame
  <2> QED BY <1>0, <1>00, <2>1, <2>2 DEF LauncherTypeOK
<1>4. CASE LaunchWorkers(n)
  <2>1. UNCHANGED <<topo, frame, inFinally, at, step, stopped, installed, signals,
                    coord, shutdowns, refused>>
    BY <1>4 DEF LaunchWorkers, UnchangedFrame
  <2>2. ValidLaunch(n)
    BY <1>0, <1>4 DEF LaunchWorkers, Launching
  <2>3. ASSUME NEW w \in 1..Count(n), wk' = [wk EXCEPT ![n][w] = "boot"],
               UNCHANGED <<pc, handles>>
        PROVE  LauncherTypeOK' /\ \A m \in Nodes : pc'[m] \in Launching => ValidLaunch(m)'
    <3>1. w \in Workers /\ WorkerPort(n, w) \in 1..MaxPort
      BY <1>0, <2>2, PortInRange DEF LauncherTypeOK
    <3>2. wk \in [Nodes -> [Workers -> WorkerStates]] /\ "boot" \in WorkerStates
      BY <1>0 DEF LauncherTypeOK, WorkerStates
    <3>3. wk' \in [Nodes -> [Workers -> WorkerStates]]
      BY <2>3, <3>1, <3>2
    <3>4. \A m \in Nodes, v \in Workers : wk'[m][v] # "none" => WorkerPort(m, v) \in 1..MaxPort
      BY <1>0, <2>3, <3>1, <3>2 DEF LauncherTypeOK
    <3> QED BY <1>0, <1>00, <2>1, <2>3, <3>3, <3>4 DEF LauncherTypeOK
  <2>4. ASSUME handles' = [handles EXCEPT ![n] = Mine(n)], Goto(n, "install"), UNCHANGED wk
        PROVE  LauncherTypeOK' /\ \A m \in Nodes : pc'[m] \in Launching => ValidLaunch(m)'
    <3>1. handles' \in [Nodes -> SUBSET HandleIds]
      BY <1>0, <2>4 DEF LauncherTypeOK
    <3>2. pc' \in [Nodes -> Pcs] /\ \A m \in Nodes : pc'[m] \in Launching => pc[m] \in Launching
      BY <1>0, <2>4 DEF LauncherTypeOK, Pcs, Launching
    <3> QED BY <1>0, <1>00, <2>1, <2>4, <3>1, <3>2 DEF LauncherTypeOK
  <2> QED BY <1>4, <2>3, <2>4 DEF LaunchWorkers
<1>5. CASE LaunchFails(n)
  <2>1. pc' \in [Nodes -> Pcs] /\ \A m \in Nodes : pc'[m] \in Launching => pc[m] \in Launching
    BY <1>0, <1>5 DEF LaunchFails, LauncherTypeOK, Pcs, Launching
  <2>2. UNCHANGED <<topo, frame, inFinally, at, step, handles, stopped, installed, signals,
                    coord, shutdowns, wk, refused>>
    BY <1>5 DEF LaunchFails, UnchangedFrame
  <2> QED BY <1>0, <1>00, <2>1, <2>2 DEF LauncherTypeOK
<1>6. CASE InstallHandler(n)
  <2>1. pc' \in [Nodes -> Pcs] /\ \A m \in Nodes : pc'[m] \in Launching => pc[m] \in Launching
    BY <1>0, <1>6 DEF InstallHandler, LauncherTypeOK, Pcs, Launching
  <2>2. installed' \in [Nodes -> SUBSET Signals]
    BY <1>0, <1>6 DEF InstallHandler, LauncherTypeOK, Signals
  <2>3. UNCHANGED <<topo, frame, inFinally, at, step, handles, stopped, signals,
                    coord, shutdowns, wk, refused>>
    BY <1>6 DEF InstallHandler, UnchangedFrame
  <2> QED BY <1>0, <1>00, <2>1, <2>2, <2>3 DEF LauncherTypeOK
<1>7. CASE StopHandle(n)
  <2>1. \/ MarkStopped(n) /\ GoOn(n, FirstStep(at[n]))
        \/ UNCHANGED stopped /\ NextHandle(n)
    BY <1>7 DEF StopHandle
  <2>2. stopped' \in [Nodes -> SUBSET HandleIds]
    <3>1. stopped \in [Nodes -> SUBSET HandleIds] /\ at[n] \in HandleIds
      BY <1>0 DEF LauncherTypeOK
    <3>2. stopped[n] \cup {at[n]} \in SUBSET HandleIds
      BY <3>1
    <3>3. stopped' = stopped \/ stopped' = [stopped EXCEPT ![n] = @ \cup {at[n]}]
      BY <2>1 DEF MarkStopped
    <3> QED BY <3>1, <3>2, <3>3
  <2>3. FirstStep(at[n]) \in Steps
    BY DEF FirstStep, Steps
  <2>4. /\ pc' \in [Nodes -> Pcs] /\ frame' \in [Nodes -> {"none", "handler", "finally"}]
        /\ inFinally' \in [Nodes -> BOOLEAN]
        /\ at' \in [Nodes -> HandleIds] /\ step' \in [Nodes -> Steps]
        /\ \A m \in Nodes : pc'[m] \in Launching => pc[m] \in Launching
    BY <1>0, <2>1, <2>3, FrameTypes
  <2>5. UNCHANGED <<topo, handles, installed, signals, coord, shutdowns, wk, refused>>
    BY <1>7 DEF StopHandle
  <2> QED BY <1>0, <1>00, <2>2, <2>4, <2>5 DEF LauncherTypeOK
<1>8. CASE StopWorker(n)
  <2>1. GoOn(n, "kill") \/ NextHandle(n)
    BY <1>8 DEF StopWorker
  <2>2. /\ pc' \in [Nodes -> Pcs] /\ frame' \in [Nodes -> {"none", "handler", "finally"}]
        /\ inFinally' \in [Nodes -> BOOLEAN]
        /\ at' \in [Nodes -> HandleIds] /\ step' \in [Nodes -> Steps]
        /\ \A m \in Nodes : pc'[m] \in Launching => pc[m] \in Launching
    BY <1>0, <2>1, FrameTypes DEF Steps
  <2>3. PICK s \in {"dying", "dead"} : KillWorker(n, at[n], s)
    BY <1>8 DEF StopWorker
  <2>4. wk \in [Nodes -> [Workers -> WorkerStates]] /\ s \in WorkerStates
    BY <1>0 DEF LauncherTypeOK, WorkerStates
  <2>5. /\ wk' \in [Nodes -> [Workers -> WorkerStates]]
        /\ \A m \in Nodes, v \in Workers : wk'[m][v] # "none" => wk[m][v] # "none"
    <3>1. CASE Alive(n, at[n])
      <4>1. wk' = [wk EXCEPT ![n][at[n]] = s]
        BY <2>3, <3>1 DEF KillWorker
      <4> QED BY <2>4, <3>1, <4>1 DEF Alive
    <3>2. CASE ~Alive(n, at[n])
      BY <2>3, <2>4, <3>2 DEF KillWorker
    <3> QED BY <3>1, <3>2
  <2>6. UNCHANGED <<topo, handles, stopped, installed, signals, coord, shutdowns, refused>>
    BY <1>8 DEF StopWorker
  <2> QED BY <1>0, <1>00, <2>2, <2>5, <2>6 DEF LauncherTypeOK
<1>9. CASE StopCoordinator(n)
  <2>1. GoOn(n, "server") \/ NextHandle(n)
    BY <1>9 DEF StopCoordinator
  <2>2. /\ pc' \in [Nodes -> Pcs] /\ frame' \in [Nodes -> {"none", "handler", "finally"}]
        /\ inFinally' \in [Nodes -> BOOLEAN]
        /\ at' \in [Nodes -> HandleIds] /\ step' \in [Nodes -> Steps]
        /\ \A m \in Nodes : pc'[m] \in Launching => pc[m] \in Launching
    BY <1>0, <2>1, FrameTypes DEF Steps
  <2>3. coord' \in {"none", "created", "up", "halted", "down"} /\ shutdowns' \in Nat
    BY <1>0, <1>9 DEF StopCoordinator, LauncherTypeOK
  <2>4. UNCHANGED <<topo, handles, stopped, installed, signals, wk, refused>>
    BY <1>9 DEF StopCoordinator
  <2> QED BY <1>0, <1>00, <2>2, <2>3, <2>4 DEF LauncherTypeOK
<1>10. CASE Exit(n)
  <2>1. pc' \in [Nodes -> Pcs] /\ \A m \in Nodes : pc'[m] \in Launching => pc[m] \in Launching
    BY <1>0, <1>10 DEF Exit, LauncherTypeOK, Pcs, Launching
  <2>2. coord' \in {"none", "created", "up", "halted", "down"}
    BY <1>0, <1>10 DEF Exit, LauncherTypeOK
  <2>3. /\ wk' \in [Nodes -> [Workers -> WorkerStates]]
        /\ \A m \in Nodes, v \in Workers : wk'[m][v] # "none" => wk[m][v] # "none"
    <3>1. CASE UNCHANGED wk
      BY <1>0, <3>1 DEF LauncherTypeOK
    <3>2. CASE wk' = [wk EXCEPT ![n] = [w \in Workers |-> IF Alive(n, w) THEN "dying" ELSE @[w]]]
      <4>1. wk \in [Nodes -> [Workers -> WorkerStates]] /\ "dying" \in WorkerStates
        BY <1>0 DEF LauncherTypeOK, WorkerStates
      <4> QED BY <3>2, <4>1 DEF Alive
    <3> QED BY <1>10, <3>1, <3>2 DEF Exit
  <2>4. UNCHANGED <<topo, frame, inFinally, at, step, handles, stopped, installed, signals,
                    shutdowns, refused>>
    BY <1>10 DEF Exit
  <2> QED BY <1>0, <1>00, <2>1, <2>2, <2>3, <2>4 DEF LauncherTypeOK
<1>11. CASE WorkerStep(n)
  <2>1. PICK w \in Workers : StartWorker(n, w) \/ EndWorker(n, w)
    BY <1>11 DEF WorkerStep
  <2>2. PICK s \in WorkerStates : wk' = [wk EXCEPT ![n][w] = s] /\ wk[n][w] # "none"
    BY <2>1 DEF StartWorker, EndWorker, WorkerStates
  <2>3. /\ wk' \in [Nodes -> [Workers -> WorkerStates]]
        /\ \A m \in Nodes, v \in Workers : wk'[m][v] # "none" => wk[m][v] # "none"
    <3>1. wk \in [Nodes -> [Workers -> WorkerStates]]
      BY <1>0 DEF LauncherTypeOK
    <3> QED BY <2>2, <3>1
  <2>4. refused' \subseteq Nodes \X Workers
    BY <1>0, <2>1 DEF StartWorker, EndWorker, LauncherTypeOK
  <2>5. UNCHANGED <<topo, pc, frame, inFinally, at, step, handles, stopped, installed, signals,
                    coord, shutdowns>>
    BY <2>1 DEF StartWorker, EndWorker, main
  <2> QED BY <1>0, <1>00, <2>3, <2>4, <2>5 DEF LauncherTypeOK
<1>12. ASSUME NEW s \in Signals, NEW group \in BOOLEAN, Signal(n, s, group)
       PROVE  LauncherTypeOK' /\ \A m \in Nodes : pc'[m] \in Launching => ValidLaunch(m)'
  <2>1. \/ \E f \in {"handler", "finally"} : Enter(n, f)
        \/ Leave(n)
        \/ Goto(n, "killed") /\ UNCHANGED <<frame, inFinally, at, step>>
    BY <1>12 DEF Signal
  <2>3. /\ pc' \in [Nodes -> Pcs] /\ frame' \in [Nodes -> {"none", "handler", "finally"}]
        /\ inFinally' \in [Nodes -> BOOLEAN]
        /\ at' \in [Nodes -> HandleIds] /\ step' \in [Nodes -> Steps]
        /\ \A m \in Nodes : pc'[m] \in Launching => pc[m] \in Launching
    <3>1. CASE Goto(n, "killed") /\ UNCHANGED <<frame, inFinally, at, step>>
      <4>1. pc' \in [Nodes -> Pcs] /\ \A m \in Nodes : pc'[m] \in Launching => pc[m] \in Launching
        BY <1>0, <3>1 DEF LauncherTypeOK, Pcs, Launching
      <4> QED BY <1>0, <3>1, <4>1 DEF LauncherTypeOK
    <3>2. CASE (\E f \in {"handler", "finally"} : Enter(n, f)) \/ Leave(n)
      BY <1>0, <3>2, FrameTypes
    <3> QED BY <2>1, <3>1, <3>2
  <2>4. coord' \in {"none", "created", "up", "halted", "down"} /\ signals' \in [Nodes -> 0..MaxSignals]
    <3>1. coord' \in {coord, "down"}
      BY <1>12 DEF Signal
    <3>2. signals[n] < MaxSignals /\ signals' = [signals EXCEPT ![n] = @ + 1]
      BY <1>12 DEF Signal
    <3>3. signals[n] + 1 \in 0..MaxSignals
      BY <1>0, <3>2, BoundsAssumption DEF LauncherTypeOK
    <3> QED BY <1>0, <3>1, <3>2, <3>3 DEF LauncherTypeOK
  <2>5. \A v \in Workers : /\ Signalled(s, wk[n][v]) \in WorkerStates
                           /\ Signalled(s, wk[n][v]) # "none" => wk[n][v] # "none"
    BY <1>0 DEF Signalled, LauncherTypeOK, WorkerStates
  <2>6. /\ wk' \in [Nodes -> [Workers -> WorkerStates]]
        /\ \A m \in Nodes, v \in Workers : wk'[m][v] # "none" => wk[m][v] # "none"
    <3>1. wk' = wk \/ wk' = [wk EXCEPT ![n] = [w \in Workers |-> Signalled(s, wk[n][w])]]
      BY <1>12 DEF Signal
    <3>2. wk \in [Nodes -> [Workers -> WorkerStates]]
      BY <1>0 DEF LauncherTypeOK
    <3>3. CASE wk' = wk
      BY <3>2, <3>3
    <3>4. CASE wk' = [wk EXCEPT ![n] = [w \in Workers |-> Signalled(s, wk[n][w])]]
      <4>1. [w \in Workers |-> Signalled(s, wk[n][w])] \in [Workers -> WorkerStates]
        BY <2>5
      <4>2. wk' \in [Nodes -> [Workers -> WorkerStates]]
        BY <3>2, <3>4, <4>1
      <4>3. ASSUME NEW m \in Nodes, NEW v \in Workers, wk'[m][v] # "none" PROVE wk[m][v] # "none"
        BY <2>5, <3>2, <3>4, <4>3
      <4> QED BY <4>2, <4>3
    <3> QED BY <3>1, <3>3, <3>4
  <2>7. UNCHANGED <<topo, handles, stopped, installed, shutdowns, refused>>
    BY <1>12 DEF Signal
  <2> QED BY <1>0, <1>00, <2>3, <2>4, <2>6, <2>7 DEF LauncherTypeOK
<1> QED
  BY <1>1, <1>2, <1>3, <1>4, <1>5, <1>6, <1>7, <1>8, <1>9, <1>10, <1>11, <1>12
     DEF Step, LaunchStep, StopStep

\* Types are correct, and every worker that is started has a port that exists:
\* the port range was checked before the first of them was.
THEOREM TypesAndPorts == Spec => []LauncherTypeOK
<1>1. LaunchInv /\ [Next]_vars => LaunchInv'
  <2>1. ASSUME LaunchInv, Next PROVE LaunchInv'
    BY <2>1, TypeStep DEF Next, Step, LaunchInv
  <2>2. ASSUME LaunchInv, UNCHANGED vars PROVE LaunchInv'
    BY <2>2 DEF vars, main, LaunchInv, LauncherTypeOK, ValidLaunch, WorkerPort, Owns
  <2> QED BY <2>1, <2>2
<1>2. LaunchInv => LauncherTypeOK
  BY DEF LaunchInv
<1> QED BY LaunchInit, <1>1, <1>2, PTL DEF Spec

-----------------------------------------------------------------------------
(* The coordinator is shut down once *)

\* Moving on, or entering stop_all anew, starts with the look at a flag.
LEMMA FrameMoves ==
    ASSUME LauncherTypeOK, NEW n \in Nodes,
           (\E f \in {"handler", "finally"} : Enter(n, f)) \/ Leave(n) \/ NextHandle(n)
    PROVE  /\ \A m \in Nodes \ {n} : pc'[m] = pc[m] /\ at'[m] = at[m] /\ step'[m] = step[m]
           /\ pc'[n] \in {"stop", "leave", pc[n]}
           /\ pc'[n] = "stop" => step'[n] = "look"
<1> USE DEF Goto
<1>0. pc \in [Nodes -> Pcs] /\ at \in [Nodes -> HandleIds] /\ step \in [Nodes -> Steps]
  BY DEF LauncherTypeOK
<1>1. ASSUME NEW f \in {"handler", "finally"}, Enter(n, f)
      PROVE  /\ \A m \in Nodes \ {n} : pc'[m] = pc[m] /\ at'[m] = at[m] /\ step'[m] = step[m]
             /\ pc'[n] \in {"stop", "leave", pc[n]}
             /\ pc'[n] = "stop" => step'[n] = "look"
  BY <1>0, <1>1 DEF Enter
<1>2. ASSUME Leave(n)
      PROVE  /\ \A m \in Nodes \ {n} : pc'[m] = pc[m] /\ at'[m] = at[m] /\ step'[m] = step[m]
             /\ pc'[n] \in {"stop", "leave", pc[n]}
             /\ pc'[n] = "stop" => step'[n] = "look"
  BY <1>0, <1>2 DEF Leave
<1>3. CASE NextHandle(n)
  <2>1. \/ (\E f \in {"handler", "finally"} : Enter(n, f)) \/ Leave(n)
        \/ /\ at' = [at EXCEPT ![n] = @ - 1]
           /\ step' = [step EXCEPT ![n] = "look"]
           /\ pc' = pc
    BY <1>3 DEF NextHandle, FrameEnds
  <2> QED BY <1>0, <1>1, <1>2, <2>1
<1> QED BY <1>1, <1>2, <1>3

\* A step that stops nothing keeps the invariant.
LEMMA NothingStopped ==
    ASSUME StopInv, UNCHANGED <<topo, stopped, shutdowns>>,
           \A m \in Nodes : 0 \in handles'[m] => Owns(m),
           \A m \in Nodes : pc'[m] = "stop" =>
               \/ step'[m] = "look"
               \/ pc[m] = "stop" /\ at'[m] = at[m] /\ step'[m] = step[m]
    PROVE  StopInv'
BY DEF StopInv, Owns

LEMMA StopInvStep ==
    ASSUME LaunchInv, StopInv, NEW n \in Nodes, Step(n) PROVE StopInv'
<1> USE DEF Goto
<1>0. LauncherTypeOK /\ pc \in [Nodes -> Pcs] /\ at \in [Nodes -> HandleIds]
      /\ step \in [Nodes -> Steps] /\ handles \in [Nodes -> SUBSET HandleIds]
      /\ stopped \in [Nodes -> SUBSET HandleIds]
  BY DEF LaunchInv, LauncherTypeOK
<1>1. CASE Validate(n) \/ WaitForEndpoint(n) \/ LaunchFails(n) \/ InstallHandler(n)
  <2>1. UNCHANGED <<topo, at, step, handles, stopped, shutdowns>>
    BY <1>1 DEF Validate, WaitForEndpoint, LaunchFails, InstallHandler, UnchangedFrame
  <2>2. \A m \in Nodes : pc'[m] = "stop" => pc[m] = "stop"
    BY <1>0, <1>1 DEF Validate, WaitForEndpoint, LaunchFails, InstallHandler, AfterCoordinator
  <2> QED BY <2>1, <2>2, NothingStopped DEF StopInv
<1>2. CASE StartCoordinator(n) \/ Exit(n)
  <2>1. UNCHANGED <<topo, at, step, handles, stopped, shutdowns>>
    BY <1>2 DEF StartCoordinator, Exit, UnchangedFrame
  <2>2. \A m \in Nodes : pc'[m] = "stop" => pc[m] = "stop"
    BY <1>0, <1>2 DEF StartCoordinator, Exit, AfterCoordinator
  <2> QED BY <2>1, <2>2, NothingStopped DEF StopInv
<1>3. CASE LaunchWorkers(n)
  <2>1. UNCHANGED <<topo, at, step, stopped, shutdowns>>
    BY <1>3 DEF LaunchWorkers, UnchangedFrame
  <2>2. \/ UNCHANGED <<pc, handles>>
        \/ handles' = [handles EXCEPT ![n] = Mine(n)] /\ pc' = [pc EXCEPT ![n] = "install"]
    BY <1>3 DEF LaunchWorkers
  <2>3. \A m \in Nodes : pc'[m] = "stop" => pc[m] = "stop"
    BY <1>0, <2>2
  <2>4. 0 \in Mine(n) => Owns(n)
    BY CountType, <1>0 DEF Mine, LauncherTypeOK
  <2>5. \A m \in Nodes : 0 \in handles'[m] => Owns(m)
    BY <1>0, <2>2, <2>4 DEF StopInv
  <2> QED BY <2>1, <2>3, <2>5, NothingStopped
<1>4. CASE WorkerStep(n)
  <2>1. UNCHANGED <<topo, main, shutdowns>>
    BY <1>4 DEF WorkerStep, StartWorker, EndWorker
  <2> QED BY <2>1, NothingStopped DEF main, StopInv
<1>5. ASSUME NEW s \in Signals, NEW group \in BOOLEAN, Signal(n, s, group) PROVE StopInv'
  <2>1. UNCHANGED <<topo, handles, stopped, shutdowns>>
    BY <1>5 DEF Signal
  <2>2. \/ (\E f \in {"handler", "finally"} : Enter(n, f)) \/ Leave(n)
        \/ pc' = [pc EXCEPT ![n] = "killed"] /\ UNCHANGED <<at, step>>
    BY <1>5 DEF Signal
  <2>3. \A m \in Nodes : pc'[m] = "stop" =>
            \/ step'[m] = "look"
            \/ pc[m] = "stop" /\ at'[m] = at[m] /\ step'[m] = step[m]
    BY <1>0, <2>2, FrameMoves
  <2> QED BY <2>1, <2>3, NothingStopped DEF StopInv
<1>6. CASE StopWorker(n)
  <2>1. UNCHANGED <<topo, handles, stopped, shutdowns>> /\ pc[n] = "stop" /\ at[n] > 0
    BY <1>6 DEF StopWorker
  <2>2. NextHandle(n) \/ GoOn(n, "kill")
    BY <1>6 DEF StopWorker
  <2>3. CASE NextHandle(n)
    BY <1>0, <2>1, <2>3, FrameMoves, NothingStopped DEF StopInv
  <2>4. CASE GoOn(n, "kill")
    BY <1>0, <2>1, <2>4 DEF GoOn, StopInv, Owns
  <2> QED BY <2>2, <2>3, <2>4
<1>7. CASE StopHandle(n)
  <2>1. UNCHANGED <<topo, handles, shutdowns>> /\ pc[n] = "stop"
    BY <1>7 DEF StopHandle
  <2>2. CASE at[n] \in handles[n] \ stopped[n]
    <3>1. /\ stopped' = [stopped EXCEPT ![n] = @ \cup {at[n]}]
          /\ step' = [step EXCEPT ![n] = FirstStep(at[n])] /\ UNCHANGED <<pc, at>>
      BY <1>7, <2>2 DEF StopHandle, MarkStopped, GoOn
    <3>2. at[n] = 0 => Owns(n) /\ shutdowns = 0
      BY <2>2 DEF StopInv
    <3> QED BY <1>0, <2>1, <3>1, <3>2 DEF StopInv, FirstStep, Owns
  <2>3. CASE at[n] \notin handles[n] \ stopped[n]
    <3>1. UNCHANGED stopped /\ NextHandle(n)
      BY <1>7, <2>3 DEF StopHandle
    <3> QED BY <1>0, <2>1, <3>1, FrameMoves, NothingStopped DEF StopInv
  <2> QED BY <2>2, <2>3
<1>8. CASE StopCoordinator(n)
  <2>1. UNCHANGED <<topo, handles, stopped>> /\ pc[n] = "stop" /\ at[n] = 0
    BY <1>8 DEF StopCoordinator
  <2>2. CASE step[n] = "server"
    <3>1. UNCHANGED shutdowns /\ NextHandle(n)
      BY <1>8, <2>2 DEF StopCoordinator
    <3> QED BY <1>0, <2>1, <3>1, FrameMoves, NothingStopped DEF StopInv
  <2>3. CASE step[n] = "shutdown"
    <3>1. Owns(n) /\ 0 \in stopped[n] /\ shutdowns = 0
      BY <2>1, <2>3 DEF StopInv
    <3>2. shutdowns' = 1 /\ (GoOn(n, "server") \/ NextHandle(n))
      BY <1>8, <2>3, <3>1 DEF StopCoordinator
    <3>3. \A m \in Nodes : Owns(m) => m = n
      BY <3>1 DEF Owns
    <3>4. /\ \A m \in Nodes \ {n} : pc'[m] = pc[m] /\ at'[m] = at[m] /\ step'[m] = step[m]
          /\ pc'[n] = "stop" => step'[n] \in {"look", "server"}
      <4>1. CASE GoOn(n, "server")
        BY <1>0, <4>1 DEF GoOn
      <4>2. CASE NextHandle(n)
        BY <1>0, <4>2, FrameMoves
      <4> QED BY <3>2, <4>1, <4>2
    <3>5. \A m \in Nodes \ {n} : ~(pc[m] = "stop" /\ at[m] = 0 /\ step[m] \in {"shutdown", "server"})
      BY <3>3 DEF StopInv
    <3> QED BY <2>1, <3>1, <3>2, <3>3, <3>4, <3>5 DEF StopInv, Owns
  <2> QED BY <1>8, <2>2, <2>3 DEF StopCoordinator
<1> QED
  BY <1>1, <1>2, <1>3, <1>4, <1>5, <1>6, <1>7, <1>8 DEF Step, LaunchStep, StopStep

LEMMA StopInvHolds == Spec => [](LaunchInv /\ StopInv)
<1>1. Init => LaunchInv /\ StopInv
  <2>1. Init => StopInv
    BY DEF Init, StopInv
  <2> QED BY <2>1, LaunchInit
<1>2. LaunchInv /\ StopInv /\ [Next]_vars => (LaunchInv /\ StopInv)'
  <2>1. ASSUME LaunchInv, StopInv, Next PROVE (LaunchInv /\ StopInv)'
    BY <2>1, TypeStep, StopInvStep DEF Next, Step, LaunchInv
  <2>2. ASSUME LaunchInv, StopInv, UNCHANGED vars PROVE (LaunchInv /\ StopInv)'
    BY <2>2 DEF vars, main, LaunchInv, LauncherTypeOK, ValidLaunch, WorkerPort, Owns, StopInv
  <2> QED BY <2>1, <2>2
<1> QED BY <1>1, <1>2, PTL DEF Spec

\* However many signals come, and whatever each of them interrupts, the service
\* is shut down at most once.
THEOREM OneShutdown == Spec => []ShutDownOnce
<1>1. StopInv => ShutDownOnce
  BY DEF StopInv, ShutDownOnce
<1> QED BY StopInvHolds, <1>1, PTL

-----------------------------------------------------------------------------
(* No worker is earlier than the coordinator *)

Inv == LaunchInv /\ StopInv /\ CoordInv /\ WorkerInv /\ NoEarlyWorker

\* A step that leaves the coordinator, the workers and the launching nodes alone.
LEMMA CoordKept ==
    ASSUME CoordInv, WorkerInv, NoEarlyWorker, UNCHANGED <<topo, coord, refused>>,
           shutdowns = 1 => shutdowns' = 1,
           \A m \in Nodes : /\ pc'[m] \in Launching \cup {"validate"} => pc'[m] = pc[m]
                            /\ pc[m] \in {"killed", "exited"} => pc'[m] = pc[m]
                            /\ \A w \in Workers : wk'[m][w] # "none" => wk[m][w] # "none"
    PROVE  (CoordInv /\ WorkerInv /\ NoEarlyWorker)'
<1>1. CoordInv'
  BY DEF CoordInv, Owns, Launching
<1>2. WorkerInv'
  BY DEF WorkerInv, Waited, WasUp, Owns, Launching
<1>3. NoEarlyWorker'
  BY DEF NoEarlyWorker, Owns
<1> QED BY <1>1, <1>2, <1>3

\* The coordinator goes down when the launcher that owns it ends, or stops it.
LEMMA CoordDown ==
    ASSUME CoordInv, WorkerInv, NoEarlyWorker, NEW n \in Nodes, Owns(n), coord' = "down",
           UNCHANGED <<topo, refused>>, shutdowns' = shutdowns,
           \/ pc'[n] \in {"killed", "exited"}
           \/ shutdowns = 1 /\ pc'[n] \notin Launching \cup {"validate"},
           \A m \in Nodes : pc'[m] \in {"service", "dataset", "serve"} => pc'[m] = pc[m]
    PROVE  (CoordInv /\ WorkerInv /\ NoEarlyWorker)'
<1>1. \A m \in Nodes : Owns(m) => m = n
  BY DEF Owns
<1>2. CoordInv'
  BY <1>1 DEF CoordInv, Owns, Launching
<1>3. WorkerInv' /\ NoEarlyWorker'
  BY DEF WorkerInv, WasUp, NoEarlyWorker
<1> QED BY <1>2, <1>3

LEMMA CoordStep ==
    ASSUME Inv, NEW n \in Nodes, Step(n) PROVE (CoordInv /\ WorkerInv /\ NoEarlyWorker)'
<1> USE DEF Goto
<1>0. /\ LauncherTypeOK /\ CoordInv /\ WorkerInv /\ NoEarlyWorker /\ StopInv
      /\ pc \in [Nodes -> Pcs] /\ wk \in [Nodes -> [Workers -> WorkerStates]]
      /\ topo.count[n] \in Int /\ topo.verify \in BOOLEAN
  BY CountType DEF Inv, LaunchInv, LauncherTypeOK
<1>1. CASE Validate(n)
  <2>1. UNCHANGED <<topo, coord, shutdowns, wk, refused>> /\ pc[n] = "validate"
    BY <1>1 DEF Validate
  <2>2. \/ pc' = [pc EXCEPT ![n] = "leave"]
        \/ Owns(n) /\ pc' = [pc EXCEPT ![n] = "service"]
        \/ ~Owns(n) /\ pc' = [pc EXCEPT ![n] = AfterCoordinator(n)]
    BY <1>1 DEF Validate
  <2>3. CoordInv'
    BY <1>0, <2>1, <2>2 DEF CoordInv, Owns, AfterCoordinator
  <2>4. pc'[n] = "workers" /\ topo.count[n] > 0 => ~Waited(n)
    BY <1>0, <2>2 DEF AfterCoordinator, WaitNeeded, Waited
  <2>5. \A m \in Nodes \ {n} : pc'[m] = pc[m]
    BY <1>0, <2>2
  <2>6. WorkerInv' /\ NoEarlyWorker'
    BY <1>0, <2>1, <2>4, <2>5 DEF WorkerInv, Waited, WasUp, Owns, NoEarlyWorker
  <2> QED BY <2>3, <2>6
<1>2. CASE StartCoordinator(n)
  <2>1. UNCHANGED <<topo, shutdowns, wk, refused>>
    BY <1>2 DEF StartCoordinator
  <2>2. Owns(n) /\ \A m \in Nodes : Owns(m) => m = n
    BY <1>0, <1>2 DEF StartCoordinator, CoordInv, Owns
  <2>3. \/ /\ pc[n] = "service" /\ coord = "none" /\ coord' = "created"
           /\ pc' = [pc EXCEPT ![n] = "dataset"]
        \/ /\ pc[n] = "dataset" /\ coord = "created" /\ coord' = "created"
           /\ pc' = [pc EXCEPT ![n] = "serve"]
        \/ /\ pc[n] = "serve" /\ coord = "created" /\ coord' = "up"
           /\ pc' = [pc EXCEPT ![n] = AfterCoordinator(n)]
    BY <1>0, <1>2, <2>2 DEF StartCoordinator, CoordInv
  <2>4. AfterCoordinator(n) \in {"wait", "workers"}
    BY DEF AfterCoordinator
  <2>5. CoordInv'
    BY <1>0, <2>1, <2>2, <2>3, <2>4 DEF CoordInv, Owns
  <2>6. ~WasUp
    BY <2>3 DEF WasUp
  <2>7. \A m \in Nodes : Waited(m) => /\ ~(pc[m] = "workers" /\ topo.count[m] > 0)
                                      /\ \A w \in Workers : wk[m][w] = "none"
    BY <1>0, <2>6 DEF WorkerInv
  <2>8. WorkerInv'
    BY <1>0, <2>1, <2>3, <2>7 DEF WorkerInv, Waited, WasUp, Owns
  <2>9. NoEarlyWorker'
    BY <1>0, <2>1, <2>3 DEF NoEarlyWorker, Owns
  <2> QED BY <2>5, <2>8, <2>9
<1>3. CASE WaitForEndpoint(n)
  <2>1. UNCHANGED <<topo, coord, shutdowns, wk, refused>> /\ pc[n] = "wait"
    BY <1>3 DEF WaitForEndpoint
  <2>2. \/ pc' = [pc EXCEPT ![n] = "leave"]
        \/ Up /\ pc' = [pc EXCEPT ![n] = "workers"]
    BY <1>3 DEF WaitForEndpoint
  <2>3. CoordInv'
    BY <1>0, <2>1, <2>2 DEF CoordInv, Owns
  <2>4. WorkerInv' /\ NoEarlyWorker'
    BY <1>0, <2>1, <2>2 DEF WorkerInv, Waited, WasUp, Up, Owns, NoEarlyWorker
  <2> QED BY <2>3, <2>4
<1>4. CASE LaunchWorkers(n)
  <2>1. UNCHANGED <<topo, coord, shutdowns, refused>> /\ pc[n] = "workers"
    BY <1>4 DEF LaunchWorkers
  <2>2. \/ UNCHANGED pc
        \/ pc' = [pc EXCEPT ![n] = "install"] /\ UNCHANGED wk
    BY <1>4 DEF LaunchWorkers
  <2>3. \A m \in Nodes : pc'[m] = pc[m] \/ (pc'[m] = "install" /\ pc[m] = "workers")
    BY <1>0, <2>1, <2>2
  <2>4. CASE UNCHANGED wk
    BY <1>0, <2>1, <2>3, <2>4, CoordKept DEF Launching
  <2>5. ASSUME NEW w \in 1..Count(n), wk' = [wk EXCEPT ![n][w] = "boot"]
        PROVE  (CoordInv /\ WorkerInv /\ NoEarlyWorker)'
    <3>1. topo.count[n] > 0
      BY <1>0, <2>5 DEF Count
    <3>2. Waited(n) => WasUp
      BY <1>0, <2>1, <3>1 DEF WorkerInv
    <3>3. CoordInv' /\ NoEarlyWorker'
      BY <1>0, <2>1, <2>3 DEF CoordInv, NoEarlyWorker, Owns
    <3>4. \A m \in Nodes \ {n}, v \in Workers : wk'[m][v] = wk[m][v]
      BY <1>0, <2>5
    <3>5. WorkerInv'
      BY <1>0, <2>1, <2>3, <3>2, <3>4 DEF WorkerInv, Waited, WasUp, Owns
    <3> QED BY <3>3, <3>5
  <2> QED BY <1>4, <2>4, <2>5 DEF LaunchWorkers
<1>5. CASE LaunchFails(n) \/ InstallHandler(n)
  <2>1. UNCHANGED <<topo, coord, shutdowns, wk, refused>>
    BY <1>5 DEF LaunchFails, InstallHandler
  <2>2. \A m \in Nodes : pc'[m] = pc[m] \/ (pc'[m] \in {"leave", "sleep"} /\ pc[m] \in Launching \cup {"install"})
    BY <1>0, <1>5 DEF LaunchFails, InstallHandler
  <2> QED BY <1>0, <2>1, <2>2, CoordKept DEF Launching
<1>6. CASE StopHandle(n) \/ StopWorker(n)
  <2>1. UNCHANGED <<topo, coord, shutdowns, refused>> /\ pc[n] = "stop"
    BY <1>6 DEF StopHandle, StopWorker
  <2>2. NextHandle(n) \/ UNCHANGED pc
    BY <1>6 DEF StopHandle, StopWorker, GoOn
  <2>3. \A m \in Nodes : pc'[m] = pc[m] \/ (pc'[m] \in {"stop", "leave"} /\ pc[m] = "stop")
    BY <1>0, <2>1, <2>2, FrameMoves
  <2>4. \A m \in Nodes, w \in Workers : wk'[m][w] # "none" => wk[m][w] # "none"
    <3>1. \/ UNCHANGED wk
          \/ \E s \in {"dying", "dead"} : KillWorker(n, at[n], s)
      BY <1>6 DEF StopHandle, StopWorker
    <3>2. \/ UNCHANGED wk
          \/ wk[n][at[n]] # "none" /\ \E s \in {"dying", "dead"} : wk' = [wk EXCEPT ![n][at[n]] = s]
      BY <1>0, <3>1 DEF KillWorker, Alive
    <3> QED BY <1>0, <3>2
  <2> QED BY <1>0, <2>1, <2>3, <2>4, CoordKept DEF Launching
<1>7. CASE StopCoordinator(n)
  <2>1. UNCHANGED <<topo, wk, refused>> /\ pc[n] = "stop" /\ at[n] = 0
    BY <1>7 DEF StopCoordinator
  <2>2. NextHandle(n) \/ UNCHANGED pc
    BY <1>7 DEF StopCoordinator, GoOn
  <2>3. \A m \in Nodes : pc'[m] = pc[m] \/ (m = n /\ pc'[m] \in {"stop", "leave"})
    BY <1>0, <2>1, <2>2, FrameMoves
  <2>4. CASE step[n] = "shutdown"
    <3>1. Owns(n) /\ shutdowns = 0
      BY <1>0, <2>1, <2>4 DEF StopInv
    <3>2. \A m \in Nodes : Owns(m) => m = n
      BY <3>1 DEF Owns
    <3>3. coord # "down"
      BY <1>0, <2>1, <3>1 DEF CoordInv
    <3>4. coord' = "halted"
      BY <1>7, <2>4 DEF StopCoordinator
    <3>5. CoordInv'
      BY <1>0, <2>1, <2>3, <3>2, <3>4 DEF CoordInv, Owns
    <3>6. WorkerInv'
      BY <3>4 DEF WorkerInv, WasUp
    <3>7. NoEarlyWorker'
      BY <1>0, <2>1, <3>3 DEF NoEarlyWorker, Owns
    <3> QED BY <3>5, <3>6, <3>7
  <2>5. CASE step[n] = "server"
    <3>1. Owns(n) /\ shutdowns = 1
      BY <1>0, <2>1, <2>5 DEF StopInv
    <3>2. coord' = "down" /\ shutdowns' = shutdowns
      BY <1>7, <2>5 DEF StopCoordinator
    <3> QED BY <1>0, <2>1, <2>3, <3>1, <3>2, CoordDown DEF Launching
  <2> QED BY <1>7, <2>4, <2>5 DEF StopCoordinator
<1>8. CASE Exit(n)
  <2>1. UNCHANGED <<topo, shutdowns, refused>>
    BY <1>8 DEF Exit
  <2>2. CASE pc[n] = "leave"
    <3>1. /\ pc' = [pc EXCEPT ![n] = "join"] /\ UNCHANGED coord
          /\ wk' = [wk EXCEPT ![n] = [w \in Workers |-> IF Alive(n, w) THEN "dying" ELSE @[w]]]
      BY <1>8, <2>2 DEF Exit
    <3>2. \A m \in Nodes, w \in Workers : wk'[m][w] # "none" => wk[m][w] # "none"
      BY <1>0, <3>1 DEF Alive
    <3> QED BY <1>0, <2>1, <2>2, <3>1, <3>2, CoordKept DEF Launching
  <2>3. CASE pc[n] = "join"
    <3>1. /\ pc' = [pc EXCEPT ![n] = "exited"] /\ UNCHANGED wk
          /\ coord' = IF Owns(n) THEN "down" ELSE coord
      BY <1>8, <2>3 DEF Exit
    <3>2. \A m \in Nodes : pc'[m] = pc[m] \/ (m = n /\ pc'[m] = "exited")
      BY <1>0, <3>1
    <3>3. CASE Owns(n)
      BY <1>0, <2>1, <3>1, <3>2, <3>3, CoordDown DEF Launching
    <3>4. CASE ~Owns(n)
      BY <1>0, <2>1, <2>3, <3>1, <3>2, <3>4, CoordKept DEF Launching
    <3> QED BY <3>3, <3>4
  <2> QED BY <1>8, <2>2, <2>3 DEF Exit
<1>9. CASE WorkerStep(n)
  <2>1. PICK w \in Workers : StartWorker(n, w) \/ EndWorker(n, w)
    BY <1>9 DEF WorkerStep
  <2>2. UNCHANGED <<topo, pc, coord, shutdowns>>
    BY <2>1 DEF StartWorker, EndWorker, main
  <2>3. wk[n][w] # "none" /\ \E s \in WorkerStates : wk' = [wk EXCEPT ![n][w] = s]
    BY <2>1 DEF StartWorker, EndWorker, WorkerStates
  <2>4. \A m \in Nodes, v \in Workers : wk'[m][v] # "none" => wk[m][v] # "none"
    BY <1>0, <2>3
  <2>5. CASE UNCHANGED refused
    BY <1>0, <2>2, <2>4, <2>5, CoordKept DEF Launching
  <2>6. CASE ~Up /\ refused' = refused \cup {<<n, w>>}
    <3>1. Waited(n) => coord = "down"
      BY <1>0, <2>3, <2>6 DEF WorkerInv, WasUp, Up
    <3>2. NoEarlyWorker'
      BY <1>0, <2>2, <2>6, <3>1 DEF NoEarlyWorker, Waited, Owns
    <3>3. CoordInv' /\ WorkerInv'
      BY <1>0, <2>2, <2>4 DEF CoordInv, WorkerInv, Waited, WasUp, Owns
    <3> QED BY <3>2, <3>3
  <2> QED BY <2>1, <2>5, <2>6 DEF StartWorker, EndWorker
<1>10. ASSUME NEW s \in Signals, NEW group \in BOOLEAN, Signal(n, s, group)
       PROVE  (CoordInv /\ WorkerInv /\ NoEarlyWorker)'
  <2>1. UNCHANGED <<topo, shutdowns, refused>> /\ pc[n] \notin {"killed", "exited"}
    BY <1>10 DEF Signal, Running
  <2>2. \A m \in Nodes, w \in Workers : wk'[m][w] # "none" => wk[m][w] # "none"
    <3>1. wk' = wk \/ wk' = [wk EXCEPT ![n] = [w \in Workers |-> Signalled(s, wk[n][w])]]
      BY <1>10 DEF Signal
    <3> QED BY <1>0, <3>1 DEF Signalled
  <2>3. CASE ((\E f \in {"handler", "finally"} : Enter(n, f)) \/ Leave(n)) /\ UNCHANGED coord
    <3>1. \A m \in Nodes : pc'[m] = pc[m] \/ (m = n /\ pc'[m] \in {"stop", "leave"})
      <4>1. pc' = [pc EXCEPT ![n] = "stop"] \/ pc' = [pc EXCEPT ![n] = "leave"]
        BY <2>3 DEF Enter, Leave
      <4> QED BY <1>0, <4>1
    <3> QED BY <1>0, <2>1, <2>2, <2>3, <3>1, CoordKept DEF Launching
  <2>4. CASE pc' = [pc EXCEPT ![n] = "killed"] /\ coord' = IF Owns(n) THEN "down" ELSE coord
    <3>1. \A m \in Nodes : pc'[m] = pc[m] \/ (m = n /\ pc'[m] = "killed")
      BY <1>0, <2>4
    <3>2. CASE Owns(n)
      BY <1>0, <2>1, <2>4, <3>1, <3>2, CoordDown DEF Launching
    <3>3. CASE ~Owns(n)
      BY <1>0, <2>1, <2>2, <2>4, <3>1, <3>3, CoordKept DEF Launching
    <3> QED BY <3>2, <3>3
  <2> QED BY <1>10, <2>3, <2>4 DEF Signal
<1> QED
  BY <1>1, <1>2, <1>3, <1>4, <1>5, <1>6, <1>7, <1>8, <1>9, <1>10
     DEF Step, LaunchStep, StopStep

\* A worker is refused only when the coordinator is gone for good, or on a remote
\* node that was told not to look for it first.
THEOREM CoordinatorFirst == Spec => []NoEarlyWorker
<1>1. Init => CoordInv /\ WorkerInv /\ NoEarlyWorker
  BY DEF Init, CoordInv, WorkerInv, NoEarlyWorker
<1>2. Init => Inv
  BY <1>1, LaunchInit DEF Inv, Init, StopInv
<1>3. Inv /\ [Next]_vars => Inv'
  <2>1. ASSUME Inv, Next PROVE Inv'
    BY <2>1, TypeStep, StopInvStep, CoordStep DEF Next, Step, Inv, LaunchInv
  <2>2. ASSUME Inv, UNCHANGED vars PROVE Inv'
    BY <2>2 DEF vars, main, Inv, LaunchInv, LauncherTypeOK, ValidLaunch, WorkerPort, Owns,
                StopInv, CoordInv, WorkerInv, Waited, WasUp, NoEarlyWorker
  <2> QED BY <2>1, <2>2
<1> QED BY <1>2, <1>3, PTL DEF Spec, Inv

-----------------------------------------------------------------------------
(* Workers are stopped before the coordinator *)

\* Handles are those of the node once there is anything to stop; flags are set in
\* stop_all only, which only a signal starts.  While that was the only signal, the
\* workers behind the handle the frame is at are flagged, and whoever is flagged is
\* gone, or is being stopped.
OrderAt(n) ==
    /\ pc[n] \in {"install", "stop"} \/ installed[n] # {} => handles[n] = Mine(n)
    /\ handles[n] \in {{}, Mine(n)}
    /\ stopped[n] # {} => pc[n] \in {"stop", "leave", "join", "exited", "killed"}
    /\ signals[n] = 0 => stopped[n] = {} /\ pc[n] # "stop"
    /\ \A w \in Workers \ Mine(n) : wk[n][w] = "none"
    /\ pc[n] = "stop" /\ step[n] # "look" => at[n] \in stopped[n]
    /\ signals[n] <= 1 =>
        /\ \A w \in stopped[n] \cap Workers :
              ~Alive(n, w) \/ (pc[n] = "stop" /\ at[n] = w /\ step[n] # "look")
        /\ pc[n] = "stop" => \A w \in Mine(n) : w > at[n] => w \in stopped[n]
        /\ 0 \in stopped[n] => \A w \in Workers : ~Alive(n, w)

OrderInv == \A n \in Nodes : OrderAt(n)

\* A step of one node leaves the others alone.
LEMMA OtherNodes ==
    ASSUME LauncherTypeOK, NEW n \in Nodes, Step(n), NEW m \in Nodes, m # n
    PROVE  /\ topo' = topo
           /\ pc'[m] = pc[m] /\ at'[m] = at[m] /\ step'[m] = step[m]
           /\ handles'[m] = handles[m] /\ stopped'[m] = stopped[m]
           /\ installed'[m] = installed[m] /\ signals'[m] = signals[m] /\ wk'[m] = wk[m]
<1> USE DEF Goto
<1>0. /\ pc \in [Nodes -> Pcs] /\ at \in [Nodes -> HandleIds] /\ step \in [Nodes -> Steps]
      /\ handles \in [Nodes -> SUBSET HandleIds] /\ stopped \in [Nodes -> SUBSET HandleIds]
      /\ installed \in [Nodes -> SUBSET Signals] /\ signals \in [Nodes -> 0..MaxSignals]
      /\ wk \in [Nodes -> [Workers -> WorkerStates]]
  BY DEF LauncherTypeOK
<1>1. CASE LaunchStep(n) \/ LaunchFails(n)
  <2>1. CASE Validate(n) \/ StartCoordinator(n) \/ WaitForEndpoint(n) \/ LaunchFails(n)
    BY <1>0, <2>1 DEF Validate, StartCoordinator, WaitForEndpoint, LaunchFails, UnchangedFrame
  <2>2. CASE LaunchWorkers(n)
    BY <1>0, <2>2 DEF LaunchWorkers, UnchangedFrame
  <2>3. CASE InstallHandler(n)
    BY <1>0, <2>3 DEF InstallHandler, UnchangedFrame
  <2> QED BY <1>1, <2>1, <2>2, <2>3 DEF LaunchStep
<1>2. ASSUME (\E f \in {"handler", "finally"} : Enter(n, f)) \/ Leave(n) \/ NextHandle(n)
             \/ (\E s \in Steps : GoOn(n, s))
      PROVE  pc'[m] = pc[m] /\ at'[m] = at[m] /\ step'[m] = step[m]
  BY <1>0, <1>2, FrameMoves DEF GoOn
<1>3. CASE StopHandle(n)
  <2>1. NextHandle(n) \/ GoOn(n, FirstStep(at[n]))
    BY <1>3 DEF StopHandle
  <2>2. FirstStep(at[n]) \in Steps
    BY DEF FirstStep, Steps
  <2>3. stopped'[m] = stopped[m]
    BY <1>0, <1>3 DEF StopHandle, MarkStopped
  <2> QED BY <1>2, <1>3, <2>1, <2>2, <2>3 DEF StopHandle
<1>4. CASE StopWorker(n)
  <2>1. NextHandle(n) \/ GoOn(n, "kill")
    BY <1>4 DEF StopWorker
  <2>2. wk'[m] = wk[m]
    BY <1>0, <1>4 DEF StopWorker, KillWorker
  <2> QED BY <1>2, <1>4, <2>1, <2>2 DEF StopWorker, Steps
<1>5. CASE StopCoordinator(n)
  <2>1. NextHandle(n) \/ GoOn(n, "server")
    BY <1>5 DEF StopCoordinator
  <2> QED BY <1>2, <1>5, <2>1 DEF StopCoordinator, Steps
<1>6. CASE Exit(n)
  BY <1>0, <1>6 DEF Exit
<1>7. CASE WorkerStep(n)
  BY <1>0, <1>7 DEF WorkerStep, StartWorker, EndWorker, main
<1>8. ASSUME NEW s \in Signals, NEW group \in BOOLEAN, Signal(n, s, group)
      PROVE  /\ topo' = topo
             /\ pc'[m] = pc[m] /\ at'[m] = at[m] /\ step'[m] = step[m]
             /\ handles'[m] = handles[m] /\ stopped'[m] = stopped[m]
             /\ installed'[m] = installed[m] /\ signals'[m] = signals[m] /\ wk'[m] = wk[m]
  <2>1. \/ (\E f \in {"handler", "finally"} : Enter(n, f)) \/ Leave(n)
        \/ pc' = [pc EXCEPT ![n] = "killed"] /\ UNCHANGED <<at, step>>
    BY <1>8 DEF Signal
  <2>2. pc'[m] = pc[m] /\ at'[m] = at[m] /\ step'[m] = step[m]
    BY <1>0, <1>2, <2>1
  <2>3. signals'[m] = signals[m] /\ wk'[m] = wk[m]
    BY <1>0, <1>8 DEF Signal
  <2> QED BY <1>8, <2>2, <2>3 DEF Signal
<1> QED
  BY <1>1, <1>3, <1>4, <1>5, <1>6, <1>7, <1>8 DEF Step, StopStep

\* What moving on does at the handle it leaves.
LEMMA Moved ==
    ASSUME LauncherTypeOK, NEW n \in Nodes, NextHandle(n)
    PROVE  \/ at[n] = 0 /\ pc'[n] = "leave"
           \/ at[n] = 0 /\ pc'[n] = "stop" /\ at'[n] = Count(n) /\ step'[n] = "look"
           \/ at[n] # 0 /\ pc'[n] = pc[n] /\ at'[n] = at[n] - 1 /\ step'[n] = "look"
<1> USE DEF Goto
<1>0. pc \in [Nodes -> Pcs] /\ at \in [Nodes -> HandleIds] /\ step \in [Nodes -> Steps]
  BY DEF LauncherTypeOK
<1>1. CASE at[n] = 0
  <2>1. Enter(n, "finally") \/ Leave(n)
    BY <1>1 DEF NextHandle, FrameEnds
  <2> QED BY <1>0, <1>1, <2>1 DEF Enter, Leave
<1>2. CASE at[n] # 0
  BY <1>0, <1>2 DEF NextHandle
<1> QED BY <1>1, <1>2

\* A stop that leaves a handle: its flag is set, and if it is a worker's, the worker
\* is gone.
LEMMA OrderMoves ==
    ASSUME LauncherTypeOK, NEW n \in Nodes, OrderAt(n), pc[n] = "stop", NextHandle(n),
           UNCHANGED <<topo, handles, stopped, installed, signals>>,
           at[n] \in stopped[n] \/ at[n] \notin Mine(n),
           signals[n] <= 1 /\ at[n] \in stopped[n] \cap Workers =>
               wk'[n][at[n]] \in {"none", "dead"},
           \A w \in Workers : wk'[n][w] = wk[n][w] \/ (w = at[n] /\ wk[n][w] # "none")
    PROVE  OrderAt(n)'
<1>0. /\ at[n] \in Int /\ Count(n) \in Int /\ Count(n) >= 0 /\ Mine(n) \subseteq HandleIds
      /\ HandleIds \subseteq Int /\ signals[n] \in Int /\ stopped[n] \subseteq HandleIds
      /\ 0 \notin Workers
  BY CountType, BoundsAssumption DEF LauncherTypeOK, HandleIds, Workers
<1>1. Mine(n)' = Mine(n) /\ Count(n)' = Count(n)
  BY DEF Mine, Count, Owns
<1>2. /\ pc'[n] \in {"stop", "leave"}
      /\ pc'[n] = "stop" => step'[n] = "look"
  BY Moved
<1>3. \A w \in Workers \ Mine(n) : wk'[n][w] = "none"
  BY DEF OrderAt
<1>4. ASSUME signals[n] <= 1
      PROVE  /\ \A w \in stopped[n] \cap Workers : wk'[n][w] \in {"none", "dead"}
             /\ 0 \in stopped[n] => \A w \in Workers : wk'[n][w] \in {"none", "dead"}
             /\ pc'[n] = "stop" => \A w \in Mine(n) : w > at'[n] => w \in stopped[n]
  <2>1. \A w \in stopped[n] \cap Workers : wk'[n][w] \in {"none", "dead"}
    BY <1>4 DEF OrderAt, Alive
  <2>2. 0 \in stopped[n] => \A w \in Workers : wk'[n][w] \in {"none", "dead"}
    <3> SUFFICES ASSUME 0 \in stopped[n], NEW w \in Workers PROVE wk'[n][w] \in {"none", "dead"}
      OBVIOUS
    <3>1. wk[n][w] \in {"none", "dead"}
      BY <1>4 DEF OrderAt, Alive
    <3>2. CASE w = at[n] /\ w \in Mine(n)
      BY <2>1, <3>2
    <3>3. CASE w \notin Mine(n)
      BY <1>3, <3>3
    <3> QED BY <3>1, <3>2, <3>3
  <2>3. ASSUME pc'[n] = "stop", NEW w \in Mine(n), w > at'[n] PROVE w \in stopped[n]
    <3>1. CASE at[n] = 0
      <4>1. at'[n] = Count(n)
        BY <2>3, <3>1, Moved
      <4>2. w \in {0} \cup 1..Count(n)
        BY DEF Mine
      <4> QED BY <1>0, <2>3, <4>1, <4>2
    <3>2. CASE at[n] # 0
      <4>1. at'[n] = at[n] - 1
        BY <3>2, Moved
      <4>2. w \in Int /\ w >= at[n]
        <5>1. w \in Int /\ at[n] \in Int
          BY <1>0
        <5>2. w > at[n] - 1
          BY <2>3, <4>1
        <5> QED BY <5>1, <5>2
      <4>3. CASE w = at[n]
        BY <4>3
      <4>4. CASE w > at[n]
        BY <1>4, <4>4 DEF OrderAt
      <4> QED BY <1>0, <4>2, <4>3, <4>4
    <3> QED BY <3>1, <3>2
  <2> QED BY <2>1, <2>2, <2>3
<1>5. /\ (handles[n] = Mine(n))' /\ handles'[n] \in {{}, Mine(n)'}
  BY <1>1 DEF OrderAt
<1>6. signals'[n] # 0
  BY DEF OrderAt
<1> QED BY <1>1, <1>2, <1>3, <1>4, <1>5, <1>6 DEF OrderAt, Alive

LEMMA OrderStep ==
    ASSUME LaunchInv, OrderInv, NEW n \in Nodes, Step(n) PROVE OrderInv'
<1> USE DEF Goto
<1>0. /\ LauncherTypeOK /\ pc \in [Nodes -> Pcs] /\ at \in [Nodes -> HandleIds]
      /\ step \in [Nodes -> Steps] /\ handles \in [Nodes -> SUBSET HandleIds]
      /\ stopped \in [Nodes -> SUBSET HandleIds] /\ installed \in [Nodes -> SUBSET Signals]
      /\ signals \in [Nodes -> 0..MaxSignals] /\ wk \in [Nodes -> [Workers -> WorkerStates]]
      /\ OrderAt(n)
  BY DEF LaunchInv, LauncherTypeOK, OrderInv
<1>1. topo' = topo
  BY <1>0 DEF Step, LaunchStep, StopStep, WorkerStep, Validate, StartCoordinator, WaitForEndpoint,
         LaunchWorkers, InstallHandler, LaunchFails, StopHandle, StopWorker, StopCoordinator, Exit,
         StartWorker, EndWorker, Signal
<1>2. \A m \in Nodes : Mine(m)' = Mine(m) /\ Count(m)' = Count(m)
  BY <1>1 DEF Mine, Count, Owns
<1>3. SUFFICES OrderAt(n)'
  <2>1. ASSUME NEW m \in Nodes, m # n PROVE OrderAt(m)'
    <3>1. OrderAt(m)
      BY DEF OrderInv
    <3> QED BY <1>0, <1>2, <2>1, <3>1, OtherNodes DEF OrderAt, Alive
  <2> QED BY <2>1 DEF OrderInv
<1>4. /\ Mine(n) \subseteq HandleIds /\ Workers \subseteq HandleIds /\ HandleIds \subseteq Int
      /\ Count(n) \in Int /\ Count(n) >= 0 /\ 0 \notin Workers /\ 0 \notin 1..Count(n)
      /\ at[n] \in Int /\ signals[n] \in Int
  BY <1>0, CountType, BoundsAssumption DEF LauncherTypeOK, HandleIds, Workers, Count
<1>5. CASE Validate(n) \/ StartCoordinator(n) \/ WaitForEndpoint(n) \/ LaunchFails(n)
  <2>1. /\ UNCHANGED <<at, step, handles, stopped, installed, signals, wk>>
        /\ pc[n] \in Launching \cup {"validate"}
    BY <1>5 DEF Validate, StartCoordinator, WaitForEndpoint, LaunchFails, UnchangedFrame, Launching
  <2>2. pc'[n] \in Launching \cup {"leave"}
    BY <1>0, <1>5 DEF Validate, StartCoordinator, WaitForEndpoint, LaunchFails, AfterCoordinator,
       Launching
  <2>3. stopped[n] = {}
    BY <1>0, <2>1 DEF OrderAt, Launching
  <2> QED BY <1>0, <1>2, <2>1, <2>2, <2>3 DEF OrderAt, Alive, Launching
<1>6. CASE LaunchWorkers(n)
  <2>1. UNCHANGED <<at, step, stopped, installed, signals>> /\ pc[n] = "workers" /\ stopped[n] = {}
    BY <1>0, <1>6 DEF LaunchWorkers, UnchangedFrame, OrderAt
  <2>2. \/ UNCHANGED <<pc, handles>> /\ \E w \in 1..Count(n) : wk' = [wk EXCEPT ![n][w] = "boot"]
        \/ handles'[n] = Mine(n) /\ pc'[n] = "install" /\ UNCHANGED wk
    BY <1>0, <1>6 DEF LaunchWorkers
  <2>3. \A w \in Workers \ Mine(n) : wk'[n][w] = "none"
    BY <1>0, <2>2 DEF OrderAt, Mine
  <2> QED BY <1>0, <1>2, <2>1, <2>2, <2>3 DEF OrderAt
<1>7. CASE InstallHandler(n)
  <2>1. UNCHANGED <<at, step, handles, stopped, signals, wk>> /\ pc[n] = "install"
    BY <1>7 DEF InstallHandler, UnchangedFrame
  <2>2. pc'[n] \in {"install", "sleep"}
    BY <1>0, <1>7 DEF InstallHandler
  <2>3. handles[n] = Mine(n) /\ stopped[n] = {}
    BY <1>0, <2>1 DEF OrderAt
  <2> QED BY <1>0, <1>2, <2>1, <2>2, <2>3 DEF OrderAt, Alive
<1>8. CASE WorkerStep(n)
  <2>1. UNCHANGED main
    BY <1>8 DEF WorkerStep, StartWorker, EndWorker
  <2>2. PICK w \in Workers, s \in WorkerStates :
          /\ wk' = [wk EXCEPT ![n][w] = s] /\ wk[n][w] \notin {"none", "dead"}
    BY <1>8 DEF WorkerStep, StartWorker, EndWorker, WorkerStates
  <2>3. \A v \in Workers : wk[n][v] \in {"none", "dead"} => wk'[n][v] = wk[n][v]
    BY <1>0, <2>2
  <2> QED BY <1>0, <1>2, <2>1, <2>3 DEF OrderAt, Alive, main
<1>9. ASSUME NEW s \in Signals, NEW group \in BOOLEAN, Signal(n, s, group) PROVE OrderAt(n)'
  <2>1. UNCHANGED <<handles, stopped, installed>> /\ signals'[n] = signals[n] + 1
    BY <1>0, <1>9 DEF Signal
  <2>2. \A w \in Workers : wk[n][w] \in {"none", "dead"} => wk'[n][w] = wk[n][w]
    BY <1>0, <1>9 DEF Signal, Signalled
  <2>3. \/ pc'[n] \in {"leave", "killed"}
        \/ /\ pc'[n] = "stop" /\ at'[n] = Count(n) /\ step'[n] = "look"
           /\ handles[n] = Mine(n)
    <3>1. CASE Enter(n, "handler") /\ s \in installed[n]
      BY <1>0, <3>1 DEF Enter, OrderAt
    <3>2. CASE Enter(n, "finally") /\ handles[n] # {}
      BY <1>0, <3>2 DEF Enter, OrderAt
    <3>3. CASE pc' = [pc EXCEPT ![n] = "leave"] \/ pc' = [pc EXCEPT ![n] = "killed"]
      BY <1>0, <3>3
    <3> QED BY <1>9, <3>1, <3>2, <3>3 DEF Signal, Leave
  <2>4. signals'[n] # 0 /\ (signals'[n] <= 1 => stopped[n] = {})
    <3>1. signals[n] \in Nat
      BY <1>0
    <3>2. signals[n] = 0 => stopped[n] = {}
      BY <1>0 DEF OrderAt
    <3> QED BY <2>1, <3>1, <3>2
  <2>5. pc'[n] = "stop" => \A w \in Mine(n) : ~(w > at'[n])
    BY <1>4, <2>3 DEF Mine
  <2>6. \A w \in Workers \ Mine(n) : wk'[n][w] = "none"
    BY <1>0, <2>2 DEF OrderAt
  <2>7. /\ installed'[n] # {} => handles'[n] = Mine(n)
        /\ handles'[n] \in {{}, Mine(n)}
    BY <1>0, <2>1 DEF OrderAt
  <2> QED BY <1>2, <2>1, <2>3, <2>4, <2>5, <2>6, <2>7 DEF OrderAt
<1>10. CASE StopHandle(n)
  <2>1. UNCHANGED <<handles, installed, signals, wk>> /\ pc[n] = "stop" /\ step[n] = "look"
    BY <1>10 DEF StopHandle
  <2>2. handles[n] = Mine(n)
    BY <1>0, <2>1 DEF OrderAt
  <2>3. CASE at[n] \in Mine(n) \ stopped[n]
    <3>1. /\ stopped'[n] = stopped[n] \cup {at[n]} /\ pc'[n] = "stop" /\ at'[n] = at[n]
          /\ step'[n] = FirstStep(at[n])
      BY <1>0, <1>10, <2>1, <2>2, <2>3 DEF StopHandle, MarkStopped, GoOn
    <3>2. FirstStep(at[n]) # "look"
      BY DEF FirstStep
    <3>3. signals[n] <= 1 /\ at[n] = 0 => \A w \in Workers : ~Alive(n, w)
      <4> SUFFICES ASSUME signals[n] <= 1, at[n] = 0, NEW w \in Workers PROVE ~Alive(n, w)
        OBVIOUS
      <4>1. CASE w \in Mine(n)
        <5>1. w > at[n]
          BY <1>4 DEF Workers
        <5>2. w \in stopped[n]
          BY <1>0, <2>1, <4>1, <5>1 DEF OrderAt
        <5> QED BY <1>0, <1>4, <5>2 DEF OrderAt
      <4>2. CASE w \notin Mine(n)
        BY <1>0, <4>2 DEF OrderAt, Alive
      <4> QED BY <4>1, <4>2
    <3> QED BY <1>0, <1>2, <2>1, <2>2, <3>1, <3>2, <3>3 DEF OrderAt, Alive
  <2>4. CASE at[n] \notin Mine(n) \ stopped[n]
    <3>1. UNCHANGED stopped /\ NextHandle(n)
      BY <1>10, <2>2, <2>4 DEF StopHandle
    <3>2. signals[n] <= 1 /\ at[n] \in stopped[n] \cap Workers =>
            wk'[n][at[n]] \in {"none", "dead"}
      BY <1>0, <2>1 DEF OrderAt, Alive
    <3> QED BY <1>0, <1>1, <2>1, <2>4, <3>1, <3>2, OrderMoves
  <2> QED BY <2>3, <2>4
<1>11. CASE StopWorker(n)
  <2>1. UNCHANGED <<handles, stopped, installed, signals>> /\ pc[n] = "stop" /\ at[n] > 0
        /\ step[n] \in {"terminate", "kill"}
    BY <1>11 DEF StopWorker
  <2>2. at[n] \in stopped[n] /\ at[n] \in Workers
    BY <1>0, <1>4, <2>1 DEF OrderAt, HandleIds, Workers
  <2>3. /\ \A v \in Workers : v # at[n] \/ wk[n][v] = "none" => wk'[n][v] = wk[n][v]
        /\ wk[n][at[n]] = "dead" => wk'[n][at[n]] = "dead"
        /\ step[n] = "kill" => wk'[n][at[n]] \in {"none", "dead"}
    BY <1>0, <1>11, <2>2 DEF StopWorker, KillWorker, Alive
  <2>4. CASE step[n] = "terminate"
    <3>1. step'[n] = "kill" /\ pc'[n] = "stop" /\ at'[n] = at[n]
      BY <1>0, <1>11, <2>1, <2>4 DEF StopWorker, GoOn
    <3> QED BY <1>0, <1>2, <2>1, <2>2, <2>3, <3>1 DEF OrderAt, Alive
  <2>5. CASE step[n] = "kill"
    <3>1. NextHandle(n)
      BY <1>11, <2>5 DEF StopWorker
    <3> QED BY <1>0, <1>1, <2>1, <2>2, <2>3, <2>5, <3>1, OrderMoves
  <2> QED BY <2>1, <2>4, <2>5
<1>12. CASE StopCoordinator(n)
  <2>1. UNCHANGED <<handles, stopped, installed, signals, wk>> /\ pc[n] = "stop" /\ at[n] = 0
        /\ step[n] \in {"shutdown", "server"}
    BY <1>12 DEF StopCoordinator
  <2>2. 0 \in stopped[n]
    BY <1>0, <2>1 DEF OrderAt
  <2>3. CASE GoOn(n, "server")
    BY <1>0, <1>2, <2>1, <2>2, <2>3 DEF GoOn, OrderAt, Alive
  <2>4. CASE NextHandle(n)
    BY <1>0, <1>1, <1>4, <2>1, <2>2, <2>4, OrderMoves
  <2> QED BY <1>12, <2>3, <2>4 DEF StopCoordinator
<1>13. CASE Exit(n)
  <2>1. UNCHANGED <<at, step, handles, stopped, installed, signals>> /\ pc'[n] \in {"join", "exited"}
        /\ pc[n] \in {"leave", "join"}
    BY <1>0, <1>13 DEF Exit
  <2>2. \A w \in Workers : wk[n][w] \in {"none", "dead"} => wk'[n][w] = wk[n][w]
    BY <1>0, <1>13 DEF Exit, Alive
  <2> QED BY <1>0, <1>2, <2>1, <2>2 DEF OrderAt, Alive
<1> QED
  BY <1>5, <1>6, <1>7, <1>8, <1>9, <1>10, <1>11, <1>12, <1>13 DEF Step, LaunchStep, StopStep

\* With one signal, whenever it comes and whatever it interrupts, stop_all takes the
\* workers of the node before the coordinator, and leaves none of them running.
THEOREM WorkersFirst == Spec => []StopOrder
<1>1. Init => LaunchInv /\ OrderInv
  <2>1. ASSUME Init, NEW n \in Nodes PROVE OrderAt(n)
    BY <2>1 DEF Init, OrderAt, Alive
  <2> QED BY <2>1, LaunchInit DEF OrderInv
<1>2. LaunchInv /\ OrderInv /\ [Next]_vars => (LaunchInv /\ OrderInv)'
  <2>1. ASSUME LaunchInv, OrderInv, Next PROVE (LaunchInv /\ OrderInv)'
    BY <2>1, TypeStep, OrderStep DEF Next, Step, LaunchInv
  <2>2. ASSUME LaunchInv, OrderInv, UNCHANGED vars PROVE (LaunchInv /\ OrderInv)'
    <3>1. LaunchInv'
      BY <2>2 DEF vars, main, LaunchInv, LauncherTypeOK, ValidLaunch, WorkerPort, Owns
    <3>2. ASSUME NEW n \in Nodes PROVE OrderAt(n)'
      BY <2>2 DEF vars, main, OrderInv, OrderAt, Alive, Mine, Owns, Count
    <3> QED BY <3>1, <3>2 DEF OrderInv
  <2> QED BY <2>1, <2>2
<1>3. LaunchInv /\ OrderInv => StopOrder
  BY DEF OrderInv, OrderAt, StopOrder, Alive
<1> QED BY <1>1, <1>2, <1>3, PTL DEF Spec
=============================================================================
