------------------------------- MODULE Swarm -------------------------------
(***************************************************************************)
(* The swarm simulation of scratch/non-ideal: main.cc sets up one central  *)
(* and some peripheral UAV applications (uav.cc) and runs them under the   *)
(* ns-3 event loop.  Every UAV periodically sends its position and its     *)
(* role to all addresses of the swarm, keeps the last datum heard from     *)
(* each peer, and periodically turns what it knows into a velocity and a   *)
(* next waypoint.                                                          *)
(*                                                                         *)
(* Time is counted in ticks.  The event queue holds the timers of the      *)
(* program, ordered as the scheduler orders them: by timestamp, then by    *)
(* the uid given at scheduling.  The radio (Wi-Fi, ARP, IP) is abstracted  *)
(* to the packets in flight of each directed pair of UAVs, which it        *)
(* delays, reorders and loses: nothing in the program looks at the age or  *)
(* the number of a packet.                                                 *)
(*                                                                         *)
(* Positions are members of a small set that only tells apart whether two  *)
(* UAVs are at the same place; floating point enters through NaN, which is *)
(* what the force computation yields when it divides by a zero distance.   *)
(***************************************************************************)
EXTENDS Integers, Sequences

CONSTANTS
  UavCount,            \* 1 + s_Parameters.peripheralNodes
  PacketInterval,      \* ticks between two Send events of a UAV
  CalculateInterval,   \* ticks between two Calculate events of a UAV
  LogInterval,         \* ticks between two LogPositions events (50 ms)
  StartDelay,          \* start time of the peripheral UAVs (1 s)
  AttackDelay,         \* ticks from start to Cyberattack (15 s)
  Duration,            \* s_Parameters.duration
  DoCyberAttack,       \* what ShouldDoCyberAttack returns
  Pos, Origin, NaN,    \* positions, the origin, not-a-number
  NoData               \* absence of an entry in m_swarmData

ASSUME SwarmAssumption ==
  /\ UavCount \in Nat \ {0}
  /\ PacketInterval \in Nat \ {0}
  /\ CalculateInterval \in Nat \ {0}
  /\ LogInterval \in Nat \ {0}
  /\ StartDelay \in Nat
  /\ AttackDelay \in Nat
  /\ Duration \in Nat
  /\ DoCyberAttack \in BOOLEAN
  /\ Origin \in Pos
  /\ NaN \notin Pos

\* A UAV is named by the low byte of its address, so m_rootAddress + i is
\* UAV Root + i.
UAV  == 1 .. UavCount
Root == 1

VIRTUAL_FORCES_POSITION         == 0
VIRTUAL_FORCES_CENTRAL_POSITION == 1
UAVDataType == {VIRTUAL_FORCES_POSITION, VIRTUAL_FORCES_CENTRAL_POSITION}

\* The payload of a packet.
UAVData == [position : Pos \cup {NaN}, type : UAVDataType]

Waypoint == [current : Pos \cup {NaN}, next : Pos \cup {NaN}, time : Nat]

ASSUME NoDataAssumption == NoData \notin UAVData

Kind  == {"Initialize", "Start", "Send", "Calculate", "Cyberattack",
          "LogPositions", "Stop"}
Event == [ts : Nat, uid : Nat, kind : Kind, node : UAV]

VARIABLES
  now,        \* Simulator::Now ()
  queue,      \* the pending timers
  uid,        \* m_uid of the simulator: the uid of the next event
  status,     \* the process: running, stopped by the Stop event, crashed
  s_csvFile,  \* whether the positions file has been opened
  bound,      \* m_socket of the UAV exists and is bound
  uavType,    \* m_uavType
  swarmData,  \* m_swarmData: receiver -> sender -> last datum
  sendCount,  \* m_packetSendCount: sender -> receiver -> number
  recvCount,  \* m_packetRecvCount: receiver -> sender -> number
  velocity,   \* m_velocity: at rest, moving or not-a-number
  waypoint,   \* the WaypointMobilityModel of the UAV's node
  net         \* packets in flight: sender -> receiver -> in the order sent

simVars    == <<now, queue, uid, status>>
uavVars    == <<bound, uavType, swarmData, sendCount, recvCount>>
motionVars == <<velocity, waypoint>>
vars == <<simVars, s_csvFile, uavVars, motionVars, net>>

-----------------------------------------------------------------------------
(***************************************************************************)
(* The event loop: DefaultSimulatorImpl::ProcessOneEvent takes the least   *)
(* event of the queue; an event scheduled while another runs gets the next *)
(* uid, so it runs after everything already due at the same time.          *)
(***************************************************************************)
\* Fault: events are ordered by time alone.
PrecedesByTimeOnly(e, f) == e.ts < f.ts

Precedes(e, f) == e.ts < f.ts \/ (e.ts = f.ts /\ e.uid < f.uid)

IsNext(e) == e \in queue /\ \A f \in queue \ {e} : Precedes(e, f)

NewEvent(t, i, k, u) == [ts |-> t, uid |-> i, kind |-> k, node |-> u]

\* Takes event e off the queue and schedules the given new events.
ProcessOneEvent(e, new, n) ==
  /\ status = "running"
  /\ IsNext(e)
  /\ now' = e.ts
  /\ queue' = (queue \ {e}) \cup new
  /\ uid' = uid + n

(***************************************************************************)
(* Addresses: ns3::Address compares the types, unless one of them is the   *)
(* unknown type 0, and the bytes.                                          *)
(***************************************************************************)
Unknown == 0

Ipv4AsAddress(u) == [type |-> 1, bytes |-> <<u>>]
GetSockName(u)   == [type |-> 2, bytes |-> <<u, "port", "tos">>]
AddressEqual(a, b) ==
  /\ a.type = b.type \/ Unknown \in {a.type, b.type}
  /\ Len(a.bytes) = Len(b.bytes)
  /\ a.bytes = b.bytes

(***************************************************************************)
(* The position a UAV's WaypointMobilityModel reports at time t: the next  *)
(* waypoint once its time has come, before that some place on the way, or  *)
(* NaN on the way to NaN.  Right after a Calculate the UAV is already on   *)
(* the way: Calculate asks for the position when the last waypoint is      *)
(* reached, which sets that waypoint's time to -1 s, and Update            *)
(* interpolates from there.                                                *)
(***************************************************************************)
GetPosition(u, t) ==
  LET w == waypoint[u]
  IN  IF t >= w.time \/ w.next = w.current \/ w.next = NaN
      THEN {w.next}
      ELSE Pos

-----------------------------------------------------------------------------
(* UAV::StartApplication and the events that lead to it. *)

StartTime(u) == IF u = Root THEN 0 ELSE StartDelay

\* Node::Initialize: Application::DoInitialize schedules the start.
Initialize(e) ==
  /\ e.kind = "Initialize"
  /\ ProcessOneEvent(e, {NewEvent(e.ts + StartTime(e.node), uid, "Start", e.node)}, 1)
  /\ UNCHANGED <<status, s_csvFile, uavVars, motionVars, net>>

\* SetColor writes through s_csvFile, which crashes when it is still null.
SetColor == status' = IF s_csvFile THEN status ELSE "crashed"

Attacked(u) == DoCyberAttack /\ u = 2

StartApplication(e) ==
  LET u     == e.node
      timers == {NewEvent(e.ts, uid, "Send", u), NewEvent(e.ts, uid + 1, "Calculate", u)}
      attack == {NewEvent(e.ts + AttackDelay, uid + 2, "Cyberattack", u)}
  IN  /\ e.kind = "Start"
      /\ ProcessOneEvent(e, IF Attacked(u) THEN timers \cup attack ELSE timers,
                            IF Attacked(u) THEN 3 ELSE 2)
      /\ bound' = [bound EXCEPT ![u] = TRUE]
      /\ IF uavType[u] = VIRTUAL_FORCES_CENTRAL_POSITION
         THEN SetColor
         ELSE UNCHANGED status
      /\ UNCHANGED <<s_csvFile, uavType, swarmData, sendCount, recvCount,
                     motionVars, net>>

\* Fault: the attacker also announces its new role at once.
CyberattackAnnounces(e) ==
  /\ e.kind = "Cyberattack"
  /\ ProcessOneEvent(e, {NewEvent(e.ts, uid, "Send", e.node)}, 1)
  /\ uavType' = [uavType EXCEPT ![e.node] = VIRTUAL_FORCES_CENTRAL_POSITION]
  /\ SetColor
  /\ UNCHANGED <<s_csvFile, bound, swarmData, sendCount, recvCount, motionVars, net>>

Cyberattack(e) ==
  /\ e.kind = "Cyberattack"
  /\ ProcessOneEvent(e, {}, 0)
  /\ uavType' = [uavType EXCEPT ![e.node] = VIRTUAL_FORCES_CENTRAL_POSITION]
  /\ SetColor
  /\ UNCHANGED <<s_csvFile, bound, swarmData, sendCount, recvCount, motionVars, net>>

-----------------------------------------------------------------------------
(* UAV::HandleRead and UAV::Send. *)

\* Fault: no check of the source address.
AcceptsOwn(u, v) == TRUE

\* A packet whose source is the receiver itself is dropped.  Every packet of
\* the program has the size of UAVData, so the size check always passes.
Accepts(u, v) == v # u

\* Fault: only the position is copied out of the packet.
ReceivedPositionOnly(u, v, data) ==
  IF Accepts(u, v) THEN [swarmData EXCEPT ![u][v] = data.position] ELSE swarmData

Received(u, v, data) ==
  IF Accepts(u, v) THEN [swarmData EXCEPT ![u][v] = data] ELSE swarmData

Counted(u, v) ==
  IF Accepts(u, v) THEN [recvCount EXCEPT ![u][v] = @ + 1] ELSE recvCount

\* The peer loop of Send skips the addresses equal to the socket's own.
SkipsPeer(u, v) == AddressEqual(Ipv4AsAddress(v), GetSockName(u))

\* Fault: payload.type is left at a constant.
PayloadConstantType(u, p) ==
  [position |-> p, type |-> VIRTUAL_FORCES_CENTRAL_POSITION]

Payload(u, p) == [position |-> p, type |-> uavType[u]]

\* Send reads the position and passes one packet per peer to the socket.  A
\* packet to the sender's own address does not reach the radio: the IP
\* interface hands it back up within the call.
Send(e) ==
  LET u     == e.node
      peers == {v \in UAV : ~SkipsPeer(u, v)}
  IN  /\ e.kind = "Send"
      /\ ProcessOneEvent(e, {NewEvent(e.ts + PacketInterval, uid, "Send", u)}, 1)
      /\ \E p \in GetPosition(u, e.ts) :
           LET payload == Payload(u, p)
           IN  /\ net' = [net EXCEPT ![u] = [v \in UAV |->
                            IF v \in peers \ {u} THEN Append(@[v], payload) ELSE @[v]]]
               /\ swarmData' = IF u \in peers THEN Received(u, u, payload) ELSE swarmData
               /\ recvCount' = IF u \in peers THEN Counted(u, u) ELSE recvCount
      /\ sendCount' = [sendCount EXCEPT ![u] = [v \in UAV |->
                          IF v \in peers THEN @[v] + 1 ELSE @[v]]]
      /\ UNCHANGED <<status, s_csvFile, bound, uavType, motionVars>>

\* The link without its k-th packet.
Without(link, k) == [i \in 1 .. Len(link) - 1 |-> link[IF i < k THEN i ELSE i + 1]]

\* Fault: the packet is read but stays in the receive buffer.
HandleReadPeeks(v, u, k) ==
  /\ status = "running"
  /\ bound[u]
  /\ k \in 1 .. Len(net[v][u])
  /\ swarmData' = Received(u, v, net[v][u][k])
  /\ recvCount' = Counted(u, v)
  /\ UNCHANGED <<simVars, s_csvFile, bound, uavType, sendCount, motionVars, net>>

\* The radio delivers a packet of a link, not necessarily the oldest, and it
\* replaces what was known of the sender; a UAV that has not started has no
\* socket, and the packet goes nowhere.
HandleRead(v, u, k) ==
  /\ status = "running"
  /\ k \in 1 .. Len(net[v][u])
  /\ net' = [net EXCEPT ![v][u] = Without(@, k)]
  /\ IF bound[u]
     THEN /\ swarmData' = Received(u, v, net[v][u][k])
          /\ recvCount' = Counted(u, v)
     ELSE UNCHANGED <<swarmData, recvCount>>
  /\ UNCHANGED <<simVars, s_csvFile, bound, uavType, sendCount, motionVars>>

\* The radio loses a packet of a link (collision, retry limit, a full ARP
\* queue).
Lose(v, u, k) ==
  /\ status = "running"
  /\ k \in 1 .. Len(net[v][u])
  /\ net' = [net EXCEPT ![v][u] = Without(@, k)]
  /\ UNCHANGED <<simVars, s_csvFile, uavVars, motionVars>>

-----------------------------------------------------------------------------
(* UAV::Calculate. *)

\* Fault: forces act on every UAV.
ForcesOnAnyone(u) == {v \in UAV : swarmData[u][v] # NoData}

\* The peers whose last datum exerts a force on u: both kinds of force act
\* on peripheral UAVs only.
Forces(u) ==
  {v \in UAV : /\ uavType[u] = VIRTUAL_FORCES_POSITION
               /\ swarmData[u][v] # NoData
               /\ swarmData[u][v].type \in UAVDataType}

\* Both kinds divide by the distance, so a peer at u's own position yields
\* NaN, as does a position that is already NaN.
ForceIsNaN(u, my) ==
  \E v \in Forces(u) : my = NaN \/ swarmData[u][v].position \in {my, NaN}

\* Fault: the acceleration is not initialised to zero.
NewVelocityUninitialised(u, my) ==
  IF velocity[u] = "nan" \/ ForceIsNaN(u, my) THEN {"nan"} ELSE {"rest", "moving"}

\* Fault: a velocity that is not a number is reset.
NewVelocityReset(u, my) ==
  IF velocity[u] = "nan" THEN {"rest"}
  ELSE IF ForceIsNaN(u, my) THEN {"nan"}
  ELSE IF Forces(u) = {} THEN {velocity[u]}
  ELSE {"rest", "moving"}

\* Forces may cancel or not; without a force the velocity stays.  Dampening
\* scales the velocity by a factor in (0, 1], which keeps all three cases.
NewVelocity(u, my) ==
  IF velocity[u] = "nan" \/ ForceIsNaN(u, my) THEN {"nan"}
  ELSE IF Forces(u) = {} THEN {velocity[u]}
  ELSE {"rest", "moving"}

NewPosition(my, vel) ==
  CASE vel = "nan"    -> {NaN}
    [] vel = "rest"   -> {my}
    [] vel = "moving" -> Pos

\* Fault: the waypoint is due after the packet interval.
NextWaypointLate(my, p, t) == [current |-> my, next |-> p, time |-> t + PacketInterval]

NextWaypoint(my, p, t) == [current |-> my, next |-> p, time |-> t + CalculateInterval]

\* Fault: a UAV on which no force acts does not reschedule.
CalculateGivesUp(e) ==
  LET u    == e.node
      next == {NewEvent(e.ts + CalculateInterval, uid, "Calculate", u)}
  IN  /\ e.kind = "Calculate"
      /\ ProcessOneEvent(e, IF Forces(u) = {} THEN {} ELSE next, 1)
      /\ \E my \in GetPosition(u, e.ts) : \E vel \in NewVelocity(u, my) :
         \E p \in NewPosition(my, vel) :
           /\ velocity' = [velocity EXCEPT ![u] = vel]
           /\ waypoint' = [waypoint EXCEPT ![u] = NextWaypoint(my, p, e.ts)]
      /\ UNCHANGED <<status, s_csvFile, uavVars, net>>

Calculate(e) ==
  LET u == e.node
  IN  /\ e.kind = "Calculate"
      /\ ProcessOneEvent(e, {NewEvent(e.ts + CalculateInterval, uid, "Calculate", u)}, 1)
      /\ \E my \in GetPosition(u, e.ts) : \E vel \in NewVelocity(u, my) :
         \E p \in NewPosition(my, vel) :
           /\ velocity' = [velocity EXCEPT ![u] = vel]
           /\ waypoint' = [waypoint EXCEPT ![u] = NextWaypoint(my, p, e.ts)]
      /\ UNCHANGED <<status, s_csvFile, uavVars, net>>

-----------------------------------------------------------------------------
(* main.cc: LogPositions, Simulator::Stop and the set-up before the run. *)

LogPositions(e) ==
  /\ e.kind = "LogPositions"
  /\ ProcessOneEvent(e, {NewEvent(e.ts + LogInterval, uid, "LogPositions", e.node)}, 1)
  /\ s_csvFile' = TRUE
  /\ UNCHANGED <<status, uavVars, motionVars, net>>

\* The Stop event ends Simulator::Run; main then flushes and closes the file,
\* through the same pointer as SetColor.
Stop(e) ==
  /\ e.kind = "Stop"
  /\ ProcessOneEvent(e, {}, 0)
  /\ status' = IF s_csvFile THEN "stopped" ELSE "crashed"
  /\ UNCHANGED <<s_csvFile, uavVars, motionVars, net>>

\* Fault: the first LogPositions is due only after the first interval.
InitialQueueLateLog ==
  {NewEvent(0, u, "Initialize", u) : u \in UAV}
    \cup {NewEvent(Duration, UavCount + 1, "Stop", Root),
          NewEvent(LogInterval, UavCount + 2, "LogPositions", Root)}

\* What main has scheduled when it calls Simulator::Run: NodeContainer::Create
\* first, then Stop, then the first LogPositions.
InitialQueue ==
  {NewEvent(0, u, "Initialize", u) : u \in UAV}
    \cup {NewEvent(Duration, UavCount + 1, "Stop", Root),
          NewEvent(0, UavCount + 2, "LogPositions", Root)}

\* The central UAV spawns at the origin, the others anywhere in the radius.
Init ==
  /\ now = 0
  /\ queue = InitialQueue
  /\ uid = UavCount + 3
  /\ status = "running"
  /\ s_csvFile = FALSE
  /\ bound = [u \in UAV |-> FALSE]
  /\ uavType = [u \in UAV |-> IF u = Root THEN VIRTUAL_FORCES_CENTRAL_POSITION
                                          ELSE VIRTUAL_FORCES_POSITION]
  /\ swarmData = [u \in UAV |-> [v \in UAV |-> NoData]]
  /\ sendCount = [u \in UAV |-> [v \in UAV |-> 0]]
  /\ recvCount = [u \in UAV |-> [v \in UAV |-> 0]]
  /\ velocity = [u \in UAV |-> "rest"]
  /\ \E spawn \in [UAV -> Pos] :
       /\ spawn[Root] = Origin
       /\ waypoint = [u \in UAV |-> [current |-> spawn[u], next |-> spawn[u], time |-> 0]]
  /\ net = [v \in UAV |-> [u \in UAV |-> <<>>]]

RunEvent(e) ==
  \/ Initialize(e)
  \/ StartApplication(e)
  \/ Cyberattack(e)
  \/ Send(e)
  \/ Calculate(e)
  \/ LogPositions(e)
  \/ Stop(e)

Radio ==
  \E v, u \in UAV : \E k \in 1 .. Len(net[v][u]) : HandleRead(v, u, k) \/ Lose(v, u, k)

Next == (\E e \in queue : RunEvent(e)) \/ Radio

Spec == Init /\ [][Next]_vars

\* The event loop keeps running until it is stopped.
FairSpec == Spec /\ WF_vars(\E e \in queue : RunEvent(e))

-----------------------------------------------------------------------------
(* Properties. *)

TypeOK ==
  /\ now \in Nat
  /\ queue \in SUBSET Event
  /\ uid \in Nat
  /\ status \in {"running", "stopped", "crashed"}
  /\ s_csvFile \in BOOLEAN
  /\ bound \in [UAV -> BOOLEAN]
  /\ uavType \in [UAV -> UAVDataType]
  /\ swarmData \in [UAV -> [UAV -> UAVData \cup {NoData}]]
  /\ sendCount \in [UAV -> [UAV -> Nat]]
  /\ recvCount \in [UAV -> [UAV -> Nat]]
  /\ velocity \in [UAV -> {"rest", "moving", "nan"}]
  /\ waypoint \in [UAV -> Waypoint]
  /\ net \in [UAV -> [UAV -> Seq(UAVData)]]

\* The event loop's own assertions: no pending event lies in the past (the
\* NS_ASSERT of ProcessOneEvent), and the uids that break ties are distinct
\* and already given out.
QueueOrdered ==
  /\ \A e \in queue : e.ts >= now /\ e.uid < uid
  /\ \A e, f \in queue : e.uid = f.uid => e = f

\* A UAV never has two timers of the same kind pending: Send asserts that
\* m_sendEvent has expired, and a second Calculate chain would integrate the
\* motion twice and add waypoints out of order.
OneTimerEach ==
  \A e, f \in queue : e.kind = f.kind /\ e.node = f.node => e = f

Pending(k, u) == \E e \in queue : e.kind = k /\ e.node = u

\* Once started, a UAV keeps announcing itself and recalculating for as long
\* as the simulation runs: both timers are always pending, at most one
\* interval ahead.
Heartbeat ==
  status = "running" =>
    \A u \in UAV : bound[u] =>
      /\ \E e \in queue : e.kind = "Send" /\ e.node = u /\ e.ts <= now + PacketInterval
      /\ \E e \in queue : e.kind = "Calculate" /\ e.node = u
                              /\ e.ts <= now + CalculateInterval

\* Nothing writes to the positions file before LogPositions has opened it:
\* the first log and the start of the central UAV are due at the same time,
\* and only the order of the uids puts the log first.
NoCrash == status # "crashed"

\* A UAV keeps no datum about itself.  Its own packets do come back, and a
\* stored one would put it at distance zero from itself.
NoSelfEntry == \A u \in UAV : swarmData[u][u] = NoData /\ recvCount[u][u] = 0

\* Nobody is taken for a central UAV, by a datum stored or in flight, that is
\* not one, though packets are overtaken and the last one read is not the last
\* one sent; a datum that calls a central UAV peripheral is an old one, sent
\* before it changed its role.
Claims(d, v) ==
  /\ d.type = VIRTUAL_FORCES_CENTRAL_POSITION => uavType[v] = VIRTUAL_FORCES_CENTRAL_POSITION
  /\ d.type = VIRTUAL_FORCES_POSITION => v # Root
  /\ d.position = NaN => velocity[v] = "nan"

KnowledgeSound ==
  \A u, v \in UAV :
    /\ swarmData[u][v] # NoData => Claims(swarmData[u][v], v)
    /\ \A i \in 1 .. Len(net[v][u]) : Claims(net[v][u][i], v)

\* The central UAV never moves: no force acts on it, whatever it hears.
CentralFixed ==
  /\ velocity[Root] = "rest"
  /\ waypoint[Root].current = Origin
  /\ waypoint[Root].next = Origin

\* A UAV that has not heard from any peer stays where it spawned.
StationaryUntilHeard ==
  \A u \in UAV : (\A v \in UAV : swarmData[u][v] = NoData) =>
    velocity[u] = "rest" /\ waypoint[u].next = waypoint[u].current

\* Every Calculate but the first runs exactly when the last waypoint is
\* reached, so that it integrates from the position it had aimed at and the
\* next waypoint is later than the last.
WaypointsInStep ==
  \A e \in queue : e.kind = "Calculate" =>
    \/ e.ts = waypoint[e.node].time
    \/ waypoint[e.node].time = 0 /\ e.ts >= StartTime(e.node)

\* NaN is never left again: dampening and later forces keep it.
NaNAbsorbing ==
  [][\A u \in UAV : velocity[u] = "nan" => velocity'[u] = "nan" /\ waypoint'[u].next = NaN]_vars

\* No packet is received that was not sent, nor received twice.
PacketAccounting ==
  \A u, v \in UAV : recvCount[u][v] + Len(net[v][u]) <= sendCount[v][u]

\* The simulation comes to its end: no chain of events holds back time.
SimulationEnds == <>(status = "stopped")

=============================================================================
