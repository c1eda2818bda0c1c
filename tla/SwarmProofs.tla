---------------------------- MODULE SwarmProofs ----------------------------
(***************************************************************************)
(* Theorems about the swarm simulation for every number of UAVs, every     *)
(* choice of the intervals and every way in which the radio delays,        *)
(* reorders and loses packets: the simulator runs its events in order, and *)
(* what the UAVs send, know and do with it stays true and in step.         *)
(***************************************************************************)
EXTENDS Swarm, TLAPS

USE SwarmAssumption, NoDataAssumption

-----------------------------------------------------------------------------
(* Facts about the operators of the model. *)

\* The root UAV is a UAV.
LEMMA RootIsUAV == Root \in UAV
BY DEF Root, UAV

\* The events the handlers schedule are events.
LEMMA NewEventType ==
  ASSUME NEW t \in Nat, NEW i \in Nat, NEW k \in Kind, NEW u \in UAV
  PROVE  NewEvent(t, i, k, u) \in Event
BY DEF NewEvent, Event

\* Taking events off the queue and putting events in keeps the types of the
\* event loop's state.
LEMMA ProcessType ==
  ASSUME TypeOK, NEW e \in queue, NEW new \in SUBSET Event, NEW n \in Nat,
         ProcessOneEvent(e, new, n)
  PROVE  /\ now' \in Nat
         /\ queue' \in SUBSET Event
         /\ uid' \in Nat
BY DEF TypeOK, ProcessOneEvent, Event

\* What a waypoint model reports is a position or NaN.
LEMMA GetPositionType ==
  ASSUME TypeOK, NEW u \in UAV, NEW t \in Nat, NEW p \in GetPosition(u, t)
  PROVE  p \in Pos \cup {NaN}
BY DEF TypeOK, GetPosition, Waypoint

\* The position, the velocity and the target that Calculate computes, with
\* their types.
LEMMA CalculateStep ==
  ASSUME TypeOK, NEW e \in queue, Calculate(e)
  PROVE  \E my \in Pos \cup {NaN}, vel \in {"rest", "moving", "nan"}, p \in Pos \cup {NaN} :
           /\ my \in GetPosition(e.node, e.ts)
           /\ vel \in NewVelocity(e.node, my)
           /\ p \in NewPosition(my, vel)
           /\ velocity' = [velocity EXCEPT ![e.node] = vel]
           /\ waypoint' = [waypoint EXCEPT ![e.node] = NextWaypoint(my, p, e.ts)]
<1> e.node \in UAV /\ e.ts \in Nat
  BY DEF TypeOK, Event
<1>1. PICK my \in GetPosition(e.node, e.ts) : \E vel \in NewVelocity(e.node, my) :
      \E p \in NewPosition(my, vel) :
        /\ velocity' = [velocity EXCEPT ![e.node] = vel]
        /\ waypoint' = [waypoint EXCEPT ![e.node] = NextWaypoint(my, p, e.ts)]
  BY DEF Calculate
<1>2. PICK vel \in NewVelocity(e.node, my) : \E p \in NewPosition(my, vel) :
        /\ velocity' = [velocity EXCEPT ![e.node] = vel]
        /\ waypoint' = [waypoint EXCEPT ![e.node] = NextWaypoint(my, p, e.ts)]
  BY <1>1
<1>3. PICK p \in NewPosition(my, vel) :
        /\ velocity' = [velocity EXCEPT ![e.node] = vel]
        /\ waypoint' = [waypoint EXCEPT ![e.node] = NextWaypoint(my, p, e.ts)]
  BY <1>2
<1>4. my \in Pos \cup {NaN}
  BY GetPositionType
<1>5. vel \in {"rest", "moving", "nan"}
  BY DEF NewVelocity, TypeOK
<1>6. p \in Pos \cup {NaN}
  BY <1>4, <1>5 DEF NewPosition
<1>7. QED
  BY <1>3, <1>4, <1>5, <1>6

\* A packet that is read is either dropped without a trace or counted and
\* stored under the address of another UAV.
LEMMA HandleReadStep ==
  ASSUME NEW v \in UAV, NEW u \in UAV, NEW k \in 1 .. Len(net[v][u]), HandleRead(v, u, k)
  PROVE  \/ UNCHANGED <<swarmData, recvCount>>
         \/ /\ u # v
            /\ swarmData' = [swarmData EXCEPT ![u][v] = net[v][u][k]]
            /\ recvCount' = [recvCount EXCEPT ![u][v] = recvCount[u][v] + 1]
BY DEF HandleRead, Received, Counted, Accepts

\* A link without one of its packets is a link that is shorter by one and has
\* only packets it had before.
LEMMA WithoutPacket ==
  ASSUME NEW link \in Seq(UAVData), NEW k \in 1 .. Len(link)
  PROVE  /\ Without(link, k) \in Seq(UAVData)
         /\ Len(link) \in Nat /\ Len(link) > 0
         /\ Len(Without(link, k)) = Len(link) - 1
         /\ \A i \in 1 .. Len(Without(link, k)) :
              \E j \in 1 .. Len(link) : Without(link, k)[i] = link[j]
<1> DEFINE n == Len(link) - 1
           From(i) == IF i < k THEN i ELSE i + 1
<1>1. Len(link) \in Nat /\ Len(link) > 0 /\ n \in Nat
  OBVIOUS
<1>2. \A i \in 1 .. n : From(i) \in 1 .. Len(link)
  BY <1>1
<1>3. \A j \in 1 .. Len(link) : link[j] \in UAVData
  OBVIOUS
<1>4. Without(link, k) = [i \in 1 .. n |-> link[From(i)]]
  BY DEF Without
<1> HIDE DEF n, From
<1>5. [i \in 1 .. n |-> link[From(i)]] \in Seq(UAVData)
  BY <1>1, <1>2, <1>3
<1>6. Len(Without(link, k)) = n
  BY <1>1, <1>2, <1>3, <1>4, <1>5
<1>7. ASSUME NEW i \in 1 .. n
      PROVE  \E j \in 1 .. Len(link) : Without(link, k)[i] = link[j]
  BY <1>2, <1>4
<1>8. QED
  BY <1>1, <1>4, <1>5, <1>6, <1>7 DEF n

-----------------------------------------------------------------------------
(* Type correctness. *)

\* The types hold before the first event.
LEMMA InitType == Init => TypeOK
<1> SUFFICES ASSUME Init PROVE TypeOK
  OBVIOUS
<1>1. InitialQueue \in SUBSET Event
  BY RootIsUAV DEF InitialQueue, NewEvent, Event, Kind, UAV
<1>2. uavType \in [UAV -> UAVDataType]
  BY DEF Init, UAVDataType, VIRTUAL_FORCES_POSITION, VIRTUAL_FORCES_CENTRAL_POSITION
<1>3. waypoint \in [UAV -> Waypoint]
  BY DEF Init, Waypoint
<1>4. net \in [UAV -> [UAV -> Seq(UAVData)]]
  BY DEF Init
<1>5. /\ swarmData \in [UAV -> [UAV -> UAVData \cup {NoData}]]
      /\ sendCount \in [UAV -> [UAV -> Nat]]
      /\ recvCount \in [UAV -> [UAV -> Nat]]
  BY DEF Init
<1>6. bound \in [UAV -> BOOLEAN] /\ velocity \in [UAV -> {"rest", "moving", "nan"}]
  BY DEF Init
<1>7. now \in Nat /\ queue \in SUBSET Event /\ uid \in Nat
  BY <1>1 DEF Init
<1>8. s_csvFile \in BOOLEAN
  BY Zenon DEF Init
<1>9. status \in {"running", "stopped", "crashed"}
  BY DEF Init
<1>10. QED
  BY <1>2, <1>3, <1>4, <1>5, <1>6, <1>7, <1>8, <1>9 DEF TypeOK

\* Every event keeps the types.
LEMMA RunEventType ==
  ASSUME TypeOK, NEW e \in queue, RunEvent(e)
  PROVE  TypeOK'
<1> e \in Event /\ e.node \in UAV /\ e.ts \in Nat
  BY DEF TypeOK, Event
<1>1. CASE Initialize(e)
  <2>1. StartTime(e.node) \in Nat
    BY DEF StartTime
  <2>2. {NewEvent(e.ts + StartTime(e.node), uid, "Start", e.node)} \in SUBSET Event
    BY <2>1, NewEventType DEF TypeOK, Kind
  <2>3. QED
    BY <1>1, <2>2, ProcessType DEF Initialize, TypeOK, uavVars, motionVars
<1>2. CASE StartApplication(e)
  <2> DEFINE timers == {NewEvent(e.ts, uid, "Send", e.node),
                        NewEvent(e.ts, uid + 1, "Calculate", e.node)}
             attack == {NewEvent(e.ts + AttackDelay, uid + 2, "Cyberattack", e.node)}
  <2>1. timers \in SUBSET Event /\ timers \cup attack \in SUBSET Event
    <3>1. e.ts + AttackDelay \in Nat /\ uid \in Nat /\ uid + 1 \in Nat /\ uid + 2 \in Nat
      BY DEF TypeOK
    <3>2. NewEvent(e.ts, uid, "Send", e.node) \in Event
      BY <3>1, NewEventType DEF Kind
    <3>3. NewEvent(e.ts, uid + 1, "Calculate", e.node) \in Event
      BY <3>1, NewEventType DEF Kind
    <3>4. NewEvent(e.ts + AttackDelay, uid + 2, "Cyberattack", e.node) \in Event
      BY <3>1, NewEventType DEF Kind
    <3>5. QED
      BY <3>2, <3>3, <3>4
  <2>2. now' \in Nat /\ queue' \in SUBSET Event /\ uid' \in Nat
    <3>1. CASE Attacked(e.node)
      BY <1>2, <2>1, <3>1, ProcessType DEF StartApplication
    <3>2. CASE ~Attacked(e.node)
      BY <1>2, <2>1, <3>2, ProcessType DEF StartApplication
    <3>3. QED
      BY <3>1, <3>2
  <2>3. status' \in {"running", "stopped", "crashed"}
    BY <1>2 DEF StartApplication, SetColor, TypeOK
  <2>4. bound' \in [UAV -> BOOLEAN]
    BY <1>2 DEF StartApplication, TypeOK
  <2>5. QED
    BY <1>2, <2>2, <2>3, <2>4 DEF StartApplication, TypeOK, motionVars
<1>3. CASE Cyberattack(e)
  <2>1. now' \in Nat /\ queue' \in SUBSET Event /\ uid' \in Nat
    BY <1>3, ProcessType DEF Cyberattack
  <2>2. uavType' \in [UAV -> UAVDataType]
    BY <1>3 DEF Cyberattack, TypeOK, UAVDataType
  <2>3. QED
    BY <1>3, <2>1, <2>2 DEF Cyberattack, SetColor, TypeOK, motionVars
<1>4. CASE Send(e)
  <2>1. now' \in Nat /\ queue' \in SUBSET Event /\ uid' \in Nat
    <3>1. {NewEvent(e.ts + PacketInterval, uid, "Send", e.node)} \in SUBSET Event
      BY NewEventType DEF TypeOK, Kind
    <3>2. QED
      BY <1>4, <3>1, ProcessType DEF Send
  <2> DEFINE peers == {v \in UAV : ~SkipsPeer(e.node, v)}
  <2>2. PICK p \in GetPosition(e.node, e.ts) :
          LET payload == Payload(e.node, p)
          IN  /\ net' = [net EXCEPT ![e.node] = [v \in UAV |->
                          IF v \in peers \ {e.node} THEN Append(@[v], payload) ELSE @[v]]]
              /\ swarmData' = IF e.node \in peers THEN Received(e.node, e.node, payload)
                                                  ELSE swarmData
              /\ recvCount' = IF e.node \in peers THEN Counted(e.node, e.node) ELSE recvCount
    BY <1>4 DEF Send
  <2> DEFINE payload == Payload(e.node, p)
  <2>3. payload \in UAVData
    BY <2>2, GetPositionType DEF Payload, UAVData, TypeOK
  <2> HIDE DEF payload
  <2>4. net' \in [UAV -> [UAV -> Seq(UAVData)]]
    <3>1. \A v \in UAV : Append(net[e.node][v], payload) \in Seq(UAVData)
      BY <2>3 DEF TypeOK
    <3>2. QED
      BY <2>2, <3>1 DEF TypeOK, payload
  <2>5. swarmData' \in [UAV -> [UAV -> UAVData \cup {NoData}]]
    BY <2>2, <2>3 DEF TypeOK, Received, payload
  <2>6. recvCount' \in [UAV -> [UAV -> Nat]]
    <3>1. Counted(e.node, e.node) \in [UAV -> [UAV -> Nat]]
      BY SMTT(30) DEF TypeOK, Counted
    <3>2. recvCount' = Counted(e.node, e.node) \/ recvCount' = recvCount
      BY <2>2, Zenon
    <3>3. QED
      BY <3>1, <3>2, Zenon DEF TypeOK
  <2>7. sendCount' \in [UAV -> [UAV -> Nat]]
    <3> DEFINE more == [v \in UAV |-> IF v \in peers THEN sendCount[e.node][v] + 1
                                                     ELSE sendCount[e.node][v]]
    <3>1. more \in [UAV -> Nat]
      <4>1. \A v \in UAV : sendCount[e.node][v] \in Nat
        BY DEF TypeOK
      <4>2. QED
        BY <4>1
    <3>2. sendCount' = [sendCount EXCEPT ![e.node] = more]
      BY <1>4 DEF Send
    <3> HIDE DEF more
    <3>3. QED
      BY <3>1, <3>2 DEF TypeOK
  <2>8. QED
    BY <1>4, <2>1, <2>4, <2>5, <2>6, <2>7 DEF Send, TypeOK, motionVars
<1>5. CASE Calculate(e)
  <2>1. now' \in Nat /\ queue' \in SUBSET Event /\ uid' \in Nat
    <3>1. {NewEvent(e.ts + CalculateInterval, uid, "Calculate", e.node)} \in SUBSET Event
      BY NewEventType DEF TypeOK, Kind
    <3>2. QED
      BY <1>5, <3>1, ProcessType DEF Calculate
  <2>2. PICK my \in Pos \cup {NaN}, vel \in {"rest", "moving", "nan"}, p \in Pos \cup {NaN} :
          /\ velocity' = [velocity EXCEPT ![e.node] = vel]
          /\ waypoint' = [waypoint EXCEPT ![e.node] = NextWaypoint(my, p, e.ts)]
    BY <1>5, CalculateStep
  <2>3. NextWaypoint(my, p, e.ts) \in Waypoint
    BY DEF NextWaypoint, Waypoint
  <2>4. QED
    BY <1>5, <2>1, <2>2, <2>3 DEF Calculate, TypeOK, uavVars
<1>6. CASE LogPositions(e)
  <2>1. {NewEvent(e.ts + LogInterval, uid, "LogPositions", e.node)} \in SUBSET Event
    BY NewEventType DEF TypeOK, Kind
  <2>2. QED
    BY <1>6, <2>1, ProcessType DEF LogPositions, TypeOK, uavVars, motionVars
<1>7. CASE Stop(e)
  <2>1. now' \in Nat /\ queue' \in SUBSET Event /\ uid' \in Nat
    BY <1>7, ProcessType DEF Stop
  <2>2. QED
    BY <1>7, <2>1 DEF Stop, TypeOK, uavVars, motionVars
<1>8. QED
  BY <1>1, <1>2, <1>3, <1>4, <1>5, <1>6, <1>7 DEF RunEvent

\* A packet that is read or lost keeps them.
LEMMA RadioType ==
  ASSUME TypeOK, Radio
  PROVE  TypeOK'
<1>1. PICK v \in UAV, u \in UAV : \E k \in 1 .. Len(net[v][u]) :
        HandleRead(v, u, k) \/ Lose(v, u, k)
  BY DEF Radio
<1>1a. PICK k \in 1 .. Len(net[v][u]) : HandleRead(v, u, k) \/ Lose(v, u, k)
  BY <1>1
<1>2. net' = [net EXCEPT ![v][u] = Without(@, k)]
  BY <1>1a DEF HandleRead, Lose
<1>3. net[v][u][k] \in UAVData /\ Without(net[v][u], k) \in Seq(UAVData)
  <2>1. net[v][u] \in Seq(UAVData)
    BY DEF TypeOK
  <2>2. QED
    BY <2>1, WithoutPacket
<1>4. net' \in [UAV -> [UAV -> Seq(UAVData)]]
  BY <1>2, <1>3 DEF TypeOK
<1>5. CASE HandleRead(v, u, k)
  <2>1. swarmData' \in [UAV -> [UAV -> UAVData \cup {NoData}]]
    <3>1. swarmData' = swarmData \/ swarmData' = [swarmData EXCEPT ![u][v] = net[v][u][k]]
      BY <1>5, HandleReadStep
    <3>2. swarmData \in [UAV -> [UAV -> UAVData \cup {NoData}]]
      BY DEF TypeOK
    <3>3. [swarmData EXCEPT ![u][v] = net[v][u][k]]
            \in [UAV -> [UAV -> UAVData \cup {NoData}]]
      BY <1>3, <3>2
    <3>4. QED
      BY <3>1, <3>2, <3>3
  <2>2. recvCount' \in [UAV -> [UAV -> Nat]]
    <3>1. recvCount' = recvCount \/ recvCount' = [recvCount EXCEPT ![u][v] = recvCount[u][v] + 1]
      BY <1>5, HandleReadStep
    <3>2. recvCount[u][v] + 1 \in Nat
      BY DEF TypeOK
    <3>3. [recvCount EXCEPT ![u][v] = recvCount[u][v] + 1] \in [UAV -> [UAV -> Nat]]
      BY <3>2 DEF TypeOK
    <3>4. QED
      BY <3>1, <3>3 DEF TypeOK
  <2>3. QED
    BY <1>5, <1>4, <2>1, <2>2 DEF HandleRead, TypeOK, simVars, motionVars
<1>6. CASE Lose(v, u, k)
  BY <1>6, <1>4 DEF Lose, TypeOK, simVars, uavVars, motionVars
<1>7. QED
  BY <1>1a, <1>5, <1>6

\* So does a step that changes nothing.
LEMMA StutterType == TypeOK /\ UNCHANGED vars => TypeOK'
BY DEF TypeOK, vars, simVars, uavVars, motionVars

\* The state of the simulation keeps its types, for every number of UAVs.
THEOREM TypeCorrect == Spec => []TypeOK
<1>1. TypeOK /\ [Next]_vars => TypeOK'
  BY RunEventType, RadioType, StutterType DEF Next
<1>2. QED
  BY InitType, <1>1, PTL DEF Spec
-----------------------------------------------------------------------------
(***************************************************************************)
(* The positions file is open before anyone writes to it.  LogPositions    *)
(* and the start of the central UAV are both due at time 0; the log goes   *)
(* first because its uid was given out before the run, and the uid of a    *)
(* start while Node::Initialize runs.                                      *)
(***************************************************************************)
LogUid == UavCount + 2

LogFirst ==
  /\ uid > LogUid
  /\ s_csvFile \/ NewEvent(0, LogUid, "LogPositions", Root) \in queue
  /\ \A e \in queue : e.kind \in {"Start", "Cyberattack"} => e.uid > LogUid
  /\ \A e \in queue : e.kind = "Stop" => e.ts = Duration

\* The driver schedules the first log before the applications start.
LEMMA LogFirstInit == Init => LogFirst
<1> SUFFICES ASSUME Init PROVE LogFirst
  OBVIOUS
<1>1. \A e \in InitialQueue : /\ e.kind \notin {"Start", "Cyberattack"}
                              /\ e.kind = "Stop" => e.ts = Duration
  BY DEF InitialQueue, NewEvent
<1>2. NewEvent(0, LogUid, "LogPositions", Root) \in InitialQueue
  BY DEF InitialQueue, LogUid
<1>3. uid > LogUid
  BY DEF Init, LogUid
<1>4. QED
  BY <1>1, <1>2, <1>3 DEF Init, LogFirst

\* The file is open whenever a handler runs that writes to it.
LEMMA LogIsDone ==
  ASSUME TypeOK, LogFirst, Duration > 0, NEW e \in queue, IsNext(e),
         e.kind \in {"Start", "Cyberattack", "Stop"}
  PROVE  s_csvFile
<1> SUFFICES ASSUME NewEvent(0, LogUid, "LogPositions", Root) \in queue PROVE FALSE
  BY DEF LogFirst
<1> DEFINE log == NewEvent(0, LogUid, "LogPositions", Root)
<1>1. log.ts = 0 /\ log.uid = LogUid /\ log.kind = "LogPositions"
  BY DEF NewEvent
<1>2. Precedes(e, log)
  BY <1>1 DEF IsNext
<1>3. e.ts \in Nat /\ e.uid \in Nat /\ LogUid \in Nat
  <2>1. e \in Event
    BY Zenon DEF TypeOK
  <2>2. e.ts \in Nat /\ e.uid \in Nat
    BY <2>1 DEF Event
  <2>3. LogUid \in Nat
    BY DEF LogUid
  <2>4. QED
    BY <2>2, <2>3
<1> HIDE DEF log
<1>4. e.ts = 0 /\ e.uid < LogUid
  BY <1>1, <1>2, <1>3 DEF Precedes
<1>5. QED
  BY <1>3, <1>4 DEF LogFirst

\* A step of the event loop that schedules only harmless events, or starts
\* under new uids, keeps LogFirst.
LEMMA LogFirstProcess ==
  ASSUME TypeOK, LogFirst, NEW e \in queue, NEW new \in SUBSET Event, NEW n \in Nat,
         ProcessOneEvent(e, new, n),
         e.kind = "LogPositions" => s_csvFile',
         s_csvFile => s_csvFile',
         \A f \in new : f.kind # "Stop" /\ f.uid >= uid
  PROVE  LogFirst'
<1> LogUid \in Nat
  BY DEF LogUid
<1>1. uid' > LogUid
  BY DEF ProcessOneEvent, LogFirst, TypeOK
<1>2. s_csvFile' \/ NewEvent(0, LogUid, "LogPositions", Root) \in queue'
  <2>1. CASE s_csvFile
    BY <2>1
  <2>2. CASE NewEvent(0, LogUid, "LogPositions", Root) \in queue
    <3>1. CASE e = NewEvent(0, LogUid, "LogPositions", Root)
      BY <3>1 DEF NewEvent
    <3>2. CASE e # NewEvent(0, LogUid, "LogPositions", Root)
      BY <2>2, <3>2 DEF ProcessOneEvent
    <3>3. QED
      BY <3>1, <3>2
  <2>3. QED
    BY <2>1, <2>2 DEF LogFirst
<1>3. \A f \in queue' : /\ f.kind \in {"Start", "Cyberattack"} => f.uid > LogUid
                        /\ f.kind = "Stop" => f.ts = Duration
  <2> SUFFICES ASSUME NEW f \in queue'
               PROVE  /\ f.kind \in {"Start", "Cyberattack"} => f.uid > LogUid
                      /\ f.kind = "Stop" => f.ts = Duration
    OBVIOUS
  <2>1. f \in queue \/ f \in new
    BY DEF ProcessOneEvent
  <2>2. CASE f \in queue
    BY <2>2 DEF LogFirst
  <2>3. CASE f \in new
    <3>1. f.uid \in Nat /\ uid \in Nat
      BY <2>3 DEF TypeOK, Event
    <3>2. QED
      BY <2>3, <3>1 DEF LogFirst
  <2>4. QED
    BY <2>1, <2>2, <2>3
<1>4. QED
  BY <1>1, <1>2, <1>3 DEF LogFirst
-----------------------------------------------------------------------------
(* What a handler schedules, whichever handler it is. *)

Successors(k) ==
  CASE k = "Initialize" -> {"Start"}
    [] k = "Start"      -> {"Send", "Calculate", "Cyberattack"}
    [] k \in {"Send", "Calculate", "LogPositions"} -> {k}
    [] OTHER            -> {}

Schedules(e, new, n) ==
  /\ ProcessOneEvent(e, new, n)
  /\ \A f \in new : /\ f.node = e.node
                    /\ f.kind \in Successors(e.kind)
                    /\ f.ts >= e.ts
                    /\ f.uid >= uid
                    /\ f.uid < uid + n
  /\ \A f, g \in new : f.uid = g.uid \/ f.kind = g.kind => f = g

\* A handler that reschedules one event under the next uid.
LEMMA SchedulesOne ==
  ASSUME TypeOK, NEW e \in queue, NEW t \in Nat, t >= e.ts, NEW k \in Successors(e.kind),
         k \in Kind, ProcessOneEvent(e, {NewEvent(t, uid, k, e.node)}, 1)
  PROVE  /\ {NewEvent(t, uid, k, e.node)} \in SUBSET Event
         /\ Schedules(e, {NewEvent(t, uid, k, e.node)}, 1)
<1>1. uid \in Nat /\ e.node \in UAV
  BY DEF TypeOK, Event
<1>2. NewEvent(t, uid, k, e.node) \in Event
  BY <1>1, NewEventType
<1>3. QED
  BY <1>1, <1>2 DEF Schedules, NewEvent

\* Every handler schedules, for its own node, events that its kind may lead
\* to, not in the past, under new and distinct uids.
LEMMA Scheduling ==
  ASSUME TypeOK, NEW e \in queue, RunEvent(e)
  PROVE  \E new \in SUBSET Event, n \in Nat : Schedules(e, new, n)
<1> e \in Event /\ e.node \in UAV /\ e.ts \in Nat /\ uid \in Nat
  BY DEF TypeOK, Event
<1>1. CASE Initialize(e)
  <2>1. StartTime(e.node) \in Nat
    BY DEF StartTime
  <2>2. "Start" \in Successors(e.kind)
    BY <1>1 DEF Initialize, Successors
  <2>3. QED
    BY <1>1, <2>1, <2>2, SchedulesOne DEF Initialize, Kind
<1>2. CASE StartApplication(e)
  <2> DEFINE send   == NewEvent(e.ts, uid, "Send", e.node)
             calc   == NewEvent(e.ts, uid + 1, "Calculate", e.node)
             attack == NewEvent(e.ts + AttackDelay, uid + 2, "Cyberattack", e.node)
  <2>1. /\ send \in Event /\ calc \in Event /\ attack \in Event
    BY NewEventType DEF Kind
  <2>2. {"Send", "Calculate", "Cyberattack"} = Successors(e.kind)
    BY <1>2 DEF StartApplication, Successors
  <2>3. CASE Attacked(e.node)
    <3>1. ProcessOneEvent(e, {send, calc} \cup {attack}, 3)
      BY <1>2, <2>3 DEF StartApplication
    <3>2. Schedules(e, {send, calc} \cup {attack}, 3)
      BY <3>1, <2>2 DEF Schedules, NewEvent
    <3>3. QED
      BY <2>1, <3>2
  <2>4. CASE ~Attacked(e.node)
    <3>1. ProcessOneEvent(e, {send, calc}, 2)
      BY <1>2, <2>4 DEF StartApplication
    <3>2. Schedules(e, {send, calc}, 2)
      BY <3>1, <2>2 DEF Schedules, NewEvent
    <3>3. QED
      BY <2>1, <3>2
  <2>5. QED
    BY <2>3, <2>4
<1>3. CASE Cyberattack(e)
  BY <1>3 DEF Cyberattack, Schedules
<1>4. CASE Send(e)
  <2>1. "Send" \in Successors(e.kind)
    BY <1>4 DEF Send, Successors
  <2>2. e.ts + PacketInterval \in Nat /\ e.ts + PacketInterval >= e.ts
    OBVIOUS
  <2>3. ProcessOneEvent(e, {NewEvent(e.ts + PacketInterval, uid, "Send", e.node)}, 1)
    BY <1>4 DEF Send
  <2>4. "Send" \in Kind
    BY DEF Kind
  <2>5. QED
    BY <2>1, <2>2, <2>3, <2>4, SchedulesOne
<1>5. CASE Calculate(e)
  <2>1. "Calculate" \in Successors(e.kind)
    BY <1>5 DEF Calculate, Successors
  <2>2. e.ts + CalculateInterval \in Nat /\ e.ts + CalculateInterval >= e.ts
    OBVIOUS
  <2>3. ProcessOneEvent(e, {NewEvent(e.ts + CalculateInterval, uid, "Calculate", e.node)}, 1)
    BY <1>5 DEF Calculate
  <2>4. "Calculate" \in Kind
    BY DEF Kind
  <2>5. QED
    BY <2>1, <2>2, <2>3, <2>4, SchedulesOne
<1>6. CASE LogPositions(e)
  <2>1. "LogPositions" \in Successors(e.kind)
    BY <1>6 DEF LogPositions, Successors
  <2>2. e.ts + LogInterval \in Nat /\ e.ts + LogInterval >= e.ts
    OBVIOUS
  <2>3. ProcessOneEvent(e, {NewEvent(e.ts + LogInterval, uid, "LogPositions", e.node)}, 1)
    BY <1>6 DEF LogPositions
  <2>4. "LogPositions" \in Kind
    BY DEF Kind
  <2>5. QED
    BY <2>1, <2>2, <2>3, <2>4, SchedulesOne
<1>7. CASE Stop(e)
  BY <1>7 DEF Stop, Schedules
<1>8. QED
  BY <1>1, <1>2, <1>3, <1>4, <1>5, <1>6, <1>7 DEF RunEvent

-----------------------------------------------------------------------------
(* No access to the positions file before it is open. *)

\* Every step keeps that order.
LEMMA LogFirstStep ==
  ASSUME TypeOK, LogFirst, [Next]_vars
  PROVE  LogFirst'
<1>1. ASSUME NEW e \in queue, RunEvent(e) PROVE LogFirst'
  <2>1. PICK new \in SUBSET Event, n \in Nat : Schedules(e, new, n)
    BY <1>1, Scheduling
  <2>2. \A f \in new : f.kind # "Stop" /\ f.uid >= uid
    BY <2>1 DEF Schedules, Successors
  <2>3. (e.kind = "LogPositions" => s_csvFile') /\ (s_csvFile => s_csvFile')
    BY <1>1 DEF RunEvent, Initialize, StartApplication, Cyberattack, Send, Calculate,
                LogPositions, Stop
  <2>4. QED
    BY <2>1, <2>2, <2>3, LogFirstProcess DEF Schedules
<1>2. ASSUME Radio \/ UNCHANGED vars PROVE LogFirst'
  <2>1. UNCHANGED <<queue, uid, s_csvFile>>
    BY <1>2 DEF Radio, HandleRead, Lose, simVars, vars
  <2>2. QED
    BY <2>1 DEF LogFirst
<1>3. QED
  BY <1>1, <1>2 DEF Next

\* The simulation never writes through the null s_csvFile, neither to colour
\* a UAV nor to flush at the end, unless it is told to run for no time at all.
THEOREM FileOpenBeforeUse ==
  ASSUME Duration > 0
  PROVE  Spec => []NoCrash
<1>1. Init => NoCrash
  BY DEF Init, NoCrash
<1>2. TypeOK /\ LogFirst /\ NoCrash /\ [Next]_vars => NoCrash'
  <2> SUFFICES ASSUME TypeOK, LogFirst, NoCrash, [Next]_vars PROVE NoCrash'
    OBVIOUS
  <2>1. ASSUME NEW e \in queue, RunEvent(e) PROVE NoCrash'
    <3>1. IsNext(e)
      BY <2>1 DEF RunEvent, Initialize, StartApplication, Cyberattack, Send, Calculate,
                  LogPositions, Stop, ProcessOneEvent
    <3>2. CASE e.kind \in {"Start", "Cyberattack", "Stop"}
      <4>1. s_csvFile
        BY <3>1, <3>2, LogIsDone
      <4>2. status' \in {status, "stopped"}
        BY <2>1, <4>1 DEF RunEvent, Initialize, StartApplication, Cyberattack, Send,
                          Calculate, LogPositions, Stop, SetColor
      <4>3. QED
        BY <4>2 DEF NoCrash
    <3>3. CASE e.kind \notin {"Start", "Cyberattack", "Stop"}
      BY <2>1, <3>3 DEF RunEvent, Initialize, StartApplication, Cyberattack, Send,
                        Calculate, LogPositions, Stop, NoCrash
    <3>4. QED
      BY <3>2, <3>3
  <2>2. ASSUME Radio \/ UNCHANGED vars PROVE NoCrash'
    BY <2>2 DEF Radio, HandleRead, Lose, simVars, vars, NoCrash
  <2>3. QED
    BY <2>1, <2>2 DEF Next
<1>3. TypeOK /\ LogFirst /\ [Next]_vars => LogFirst'
  BY LogFirstStep
<1>4. QED
  BY <1>1, <1>2, <1>3, LogFirstInit, TypeCorrect, PTL DEF Spec
-----------------------------------------------------------------------------
(***************************************************************************)
(* Timers.  That a UAV has one Send chain and one Calculate chain follows  *)
(* from the phases a UAV goes through: its node is initialised once, which *)
(* schedules one start, and only the start begins the chains.              *)
(***************************************************************************)
Chains == {"Send", "Calculate", "Cyberattack"}

Phases ==
  \A e, f \in queue : e.node = f.node =>
    /\ e.kind = "Initialize" => f.kind \notin Chains \cup {"Start"}
    /\ e.kind = "Start" => f.kind \notin Chains

TimerInv == QueueOrdered /\ OneTimerEach /\ Phases

\* At the start no timer is scheduled.
LEMMA TimerInit == Init => TimerInv
<1> SUFFICES ASSUME Init PROVE TimerInv
  OBVIOUS
<1> DEFINE inits == {NewEvent(0, u, "Initialize", u) : u \in UAV}
           stop  == NewEvent(Duration, UavCount + 1, "Stop", Root)
           log   == NewEvent(0, UavCount + 2, "LogPositions", Root)
<1>1. \A e \in queue : e \in inits \/ e = stop \/ e = log
  BY DEF Init, InitialQueue
<1>2. \A e \in inits : /\ e.ts = 0 /\ e.kind = "Initialize"
                       /\ e.uid \in 1 .. UavCount
                       /\ e = NewEvent(0, e.uid, "Initialize", e.uid)
                       /\ e.node = e.uid
  BY DEF NewEvent, UAV
<1>3. /\ stop.ts = Duration /\ stop.uid = UavCount + 1 /\ stop.kind = "Stop"
      /\ log.ts = 0 /\ log.uid = UavCount + 2 /\ log.kind = "LogPositions"
  BY DEF NewEvent
<1> HIDE DEF inits, stop, log
<1>4. QueueOrdered
  <2>1. now = 0 /\ uid = UavCount + 3
    BY DEF Init
  <2>2. \A e \in queue : e.ts >= now /\ e.uid < uid
    BY <1>1, <1>2, <1>3, <2>1
  <2>3. ASSUME NEW e \in queue, NEW f \in queue, e.uid = f.uid PROVE e = f
    BY <1>1, <1>2, <1>3, <2>3
  <2>4. QED
    BY <2>2, <2>3 DEF QueueOrdered
<1>5. OneTimerEach
  BY <1>1, <1>2, <1>3 DEF OneTimerEach
<1>6. Phases
  BY <1>1, <1>2, <1>3 DEF Phases, Chains
<1>7. QED
  BY <1>4, <1>5, <1>6 DEF TimerInv

\* Every event keeps the timers of its node.
LEMMA TimerStep ==
  ASSUME TypeOK, TimerInv, NEW e \in queue, RunEvent(e)
  PROVE  TimerInv'
<1>1. PICK new \in SUBSET Event, n \in Nat : Schedules(e, new, n)
  BY Scheduling
<1>2. /\ queue' = (queue \ {e}) \cup new
      /\ now' = e.ts
      /\ uid' = uid + n
      /\ IsNext(e)
  BY <1>1 DEF Schedules, ProcessOneEvent
<1>3. \A f \in new : /\ f.node = e.node /\ f.kind \in Successors(e.kind)
                     /\ f.ts >= e.ts /\ f.uid >= uid /\ f.uid < uid + n
  BY <1>1 DEF Schedules
<1>4. \A f, g \in new : f.uid = g.uid \/ f.kind = g.kind => f = g
  BY <1>1 DEF Schedules
<1>5. uid \in Nat /\ now \in Nat /\ \A f \in queue : f.ts \in Nat /\ f.uid \in Nat
  BY DEF TypeOK, Event
<1>6. \A f \in new : f.ts \in Nat /\ f.uid \in Nat
  BY DEF Event
<1>7. QueueOrdered'
  <2>1. \A f \in queue \ {e} : f.ts >= e.ts
    BY <1>2, <1>5 DEF IsNext, Precedes
  <2>2. \A f \in queue' : f.ts >= now' /\ f.uid < uid'
    BY <1>2, <1>3, <1>5, <1>6, <2>1 DEF TimerInv, QueueOrdered
  <2>3. ASSUME NEW f \in queue', NEW g \in queue', f.uid = g.uid PROVE f = g
    BY <1>2, <1>3, <1>4, <1>5, <1>6, <2>3 DEF TimerInv, QueueOrdered
  <2>4. QED
    BY <2>2, <2>3 DEF QueueOrdered
<1>8. ASSUME NEW f \in queue \ {e}, NEW k \in Successors(e.kind), f.node = e.node
      PROVE  /\ f.kind # k
             /\ f.kind = "Initialize" => k \notin Chains \cup {"Start"}
             /\ k = "Start" => f.kind \notin Chains
             /\ f.kind = "Start" => k \notin Chains
  <2>1. /\ f.kind # e.kind
        /\ f.kind = "Initialize" => e.kind \notin Chains \cup {"Start"}
        /\ f.kind = "Start" => e.kind \notin Chains
        /\ e.kind = "Initialize" => f.kind \notin Chains \cup {"Start"}
        /\ e.kind = "Start" => f.kind \notin Chains
    BY <1>8 DEF TimerInv, OneTimerEach, Phases
  <2>2. QED
    BY <2>1 DEF Successors, Chains
<1>9. OneTimerEach'
  <2> SUFFICES ASSUME NEW f \in queue', NEW g \in queue', f.kind = g.kind, f.node = g.node
               PROVE  f = g
    BY DEF OneTimerEach
  <2>1. CASE f \in queue \ {e} /\ g \in queue \ {e}
    BY <2>1 DEF TimerInv, OneTimerEach
  <2>2. CASE f \in new /\ g \in new
    BY <1>4, <2>2
  <2>3. CASE f \in new /\ g \in queue \ {e}
    BY <1>3, <1>8, <2>3
  <2>4. CASE f \in queue \ {e} /\ g \in new
    BY <1>3, <1>8, <2>4
  <2>5. QED
    BY <1>2, <2>1, <2>2, <2>3, <2>4
<1>10. Phases'
  <2> SUFFICES ASSUME NEW f \in queue', NEW g \in queue', f.node = g.node
               PROVE  /\ f.kind = "Initialize" => g.kind \notin Chains \cup {"Start"}
                      /\ f.kind = "Start" => g.kind \notin Chains
    BY DEF Phases
  <2>1. CASE f \in queue \ {e} /\ g \in queue \ {e}
    BY <2>1 DEF TimerInv, Phases
  <2>2. CASE f \in new /\ g \in new
    BY <1>3, <2>2 DEF Successors, Chains
  <2>3. CASE f \in new /\ g \in queue \ {e}
    <3>1. f.kind # "Initialize"
      BY <1>3, <2>3 DEF Successors
    <3>2. QED
      BY <1>3, <1>8, <2>3, <3>1
  <2>4. CASE f \in queue \ {e} /\ g \in new
    BY <1>3, <1>8, <2>4
  <2>5. QED
    BY <1>2, <2>1, <2>2, <2>3, <2>4
<1>11. QED
  BY <1>7, <1>9, <1>10 DEF TimerInv

\* The timers are correct in every state.
LEMMA TimerInvariant == Spec => []TimerInv
<1>1. TypeOK /\ TimerInv /\ [Next]_vars => TimerInv'
  <2> SUFFICES ASSUME TypeOK, TimerInv, [Next]_vars PROVE TimerInv'
    OBVIOUS
  <2>1. CASE \E e \in queue : RunEvent(e)
    BY <2>1, TimerStep
  <2>2. CASE Radio \/ UNCHANGED vars
    <3>1. UNCHANGED <<now, queue, uid>>
      BY <2>2 DEF Radio, HandleRead, Lose, simVars, vars
    <3>2. QED
      BY <3>1 DEF TimerInv, QueueOrdered, OneTimerEach, Phases
  <2>3. QED
    BY <2>1, <2>2 DEF Next
<1>2. QED
  BY <1>1, TimerInit, TypeCorrect, PTL DEF Spec

\* No event is ever in the past, ties are always broken, and no UAV ever has
\* two Send or two Calculate timers pending: the assertions of the event loop
\* and of UAV::Send hold.
THEOREM TimersCorrect == Spec => [](QueueOrdered /\ OneTimerEach)
BY TimerInvariant, PTL DEF TimerInv
-----------------------------------------------------------------------------
(* What the UAVs know and how they move. *)

\* The central UAV is central, and stays where it is.
RootInv == uavType[Root] = VIRTUAL_FORCES_CENTRAL_POSITION /\ CentralFixed

\* The root holds the central position at the start.
LEMMA RootInit == Init => RootInv
BY RootIsUAV DEF Init, RootInv, CentralFixed

\* No step gives it up.
LEMMA RootStep ==
  ASSUME TypeOK, RootInv, [Next]_vars
  PROVE  RootInv'
<1>1. ASSUME NEW e \in queue, Calculate(e) PROVE RootInv'
  <2>0. e.node \in UAV /\ e.ts \in Nat /\ Root \in UAV
    BY RootIsUAV DEF TypeOK, Event
  <2>1. PICK my \in Pos \cup {NaN}, vel \in {"rest", "moving", "nan"}, p \in Pos \cup {NaN} :
          /\ my \in GetPosition(e.node, e.ts)
          /\ vel \in NewVelocity(e.node, my)
          /\ p \in NewPosition(my, vel)
          /\ velocity' = [velocity EXCEPT ![e.node] = vel]
          /\ waypoint' = [waypoint EXCEPT ![e.node] = NextWaypoint(my, p, e.ts)]
    BY <1>1, CalculateStep
  <2>2. uavType' = uavType
    BY <1>1 DEF Calculate, uavVars
  <2>3. CASE e.node # Root
    BY <2>0, <2>1, <2>2, <2>3 DEF RootInv, CentralFixed, TypeOK
  <2>4. CASE e.node = Root
    <3>1. Forces(Root) = {}
      BY DEF Forces, RootInv, VIRTUAL_FORCES_POSITION, VIRTUAL_FORCES_CENTRAL_POSITION
    <3>2. my = Origin
      BY <2>1, <2>4 DEF GetPosition, RootInv, CentralFixed
    <3>3. vel = "rest"
      BY <2>1, <2>4, <3>1 DEF NewVelocity, ForceIsNaN, RootInv, CentralFixed
    <3>4. p = Origin
      BY <2>1, <3>2, <3>3 DEF NewPosition
    <3>5. QED
      BY <2>0, <2>1, <2>2, <2>4, <3>2, <3>3, <3>4 DEF RootInv, CentralFixed, NextWaypoint, TypeOK
  <2>5. QED
    BY <2>3, <2>4
<1>2. ASSUME NEW e \in queue, Cyberattack(e) PROVE RootInv'
  <2>1. e.node \in UAV /\ Root \in UAV
    BY RootIsUAV DEF TypeOK, Event
  <2>2. UNCHANGED <<velocity, waypoint>>
    BY <1>2 DEF Cyberattack, motionVars
  <2>3. uavType'[Root] = VIRTUAL_FORCES_CENTRAL_POSITION
    BY <1>2, <2>1 DEF Cyberattack, RootInv, TypeOK
  <2>4. QED
    BY <2>2, <2>3 DEF RootInv, CentralFixed
<1>3. ASSUME UNCHANGED <<uavType, velocity, waypoint>> PROVE RootInv'
  BY <1>3 DEF RootInv, CentralFixed
<1>4. QED
  BY <1>1, <1>2, <1>3
  DEF Next, RunEvent, Initialize, StartApplication, Send, LogPositions, Stop, Radio,
      HandleRead, Lose, vars, simVars, uavVars, motionVars

\* Whatever the central UAV hears, it never leaves the origin.
THEOREM CentralNeverMoves == Spec => []CentralFixed
<1>1. TypeOK /\ RootInv /\ [Next]_vars => RootInv'
  BY RootStep
<1>2. QED
  BY <1>1, RootInit, TypeCorrect, PTL DEF Spec, RootInv

\* Although its own packets are handed back to it, a UAV never stores a datum
\* about itself.
THEOREM NoSelfKnowledge == Spec => []NoSelfEntry
<1>1. Init => NoSelfEntry
  BY DEF Init, NoSelfEntry
<1>2. TypeOK /\ NoSelfEntry /\ [Next]_vars => NoSelfEntry'
  <2> SUFFICES ASSUME TypeOK, NoSelfEntry, [Next]_vars PROVE NoSelfEntry'
    OBVIOUS
  <2>1. ASSUME NEW e \in queue, Send(e) PROVE NoSelfEntry'
    <3>1. UNCHANGED <<swarmData, recvCount>>
      BY <2>1 DEF Send, Received, Counted, Accepts
    <3>2. QED
      BY <3>1 DEF NoSelfEntry
  <2>2. ASSUME NEW v \in UAV, NEW u \in UAV, NEW k \in 1 .. Len(net[v][u]),
               HandleRead(v, u, k)
        PROVE  NoSelfEntry'
    <3>1. CASE UNCHANGED <<swarmData, recvCount>>
      BY <3>1 DEF NoSelfEntry
    <3>2. CASE /\ u # v
               /\ swarmData' = [swarmData EXCEPT ![u][v] = net[v][u][k]]
               /\ recvCount' = [recvCount EXCEPT ![u][v] = recvCount[u][v] + 1]
      <4>1. \A w \in UAV : swarmData'[w][w] = swarmData[w][w]
        BY <3>2 DEF TypeOK
      <4>2. \A w \in UAV : recvCount'[w][w] = recvCount[w][w]
        BY <3>2 DEF TypeOK
      <4>3. QED
        BY <4>1, <4>2 DEF NoSelfEntry
    <3>3. QED
      BY <2>2, <3>1, <3>2, HandleReadStep
  <2>3. ASSUME UNCHANGED <<swarmData, recvCount>> PROVE NoSelfEntry'
    BY <2>3 DEF NoSelfEntry
  <2>4. QED
    BY <2>1, <2>2, <2>3
    DEF Next, RunEvent, Initialize, StartApplication, Cyberattack, Calculate, LogPositions,
        Stop, Radio, Lose, vars, simVars, uavVars, motionVars
<1>3. QED
  BY <1>1, <1>2, TypeCorrect, PTL DEF Spec

-----------------------------------------------------------------------------
(***************************************************************************)
(* What a step does to the data of the UAVs.  Only UAV::Send puts packets  *)
(* on the air, only the radio takes them off, and only UAV::HandleRead     *)
(* changes what a UAV has heard.                                           *)
(***************************************************************************)

dataVars == <<swarmData, sendCount, recvCount, net>>

\* The socket's own name is never equal to the address of a peer, so that the
\* test of Send never skips anyone: the types of the two addresses differ, and both are known.
LEMMA NobodySkipped == \A u, v \in UAV : ~SkipsPeer(u, v)
BY DEF SkipsPeer, AddressEqual, Ipv4AsAddress, GetSockName, Unknown

\* Send counts one packet for every UAV, itself included, and puts one on the
\* air for every other UAV.
LEMMA SendStep ==
  ASSUME TypeOK, NEW e \in queue, Send(e)
  PROVE  /\ UNCHANGED <<swarmData, recvCount>>
         /\ \A v, u \in UAV : sendCount'[v][u] =
              IF v = e.node THEN sendCount[v][u] + 1 ELSE sendCount[v][u]
         /\ \E p \in Pos \cup {NaN} :
              /\ p \in GetPosition(e.node, e.ts)
              /\ Payload(e.node, p) \in UAVData
              /\ \A v, u \in UAV : net'[v][u] =
                   IF v = e.node /\ u # v THEN Append(net[v][u], Payload(e.node, p))
                                          ELSE net[v][u]
<1> e.node \in UAV /\ e.ts \in Nat
  BY DEF TypeOK, Event
<1> DEFINE peers == {v \in UAV : ~SkipsPeer(e.node, v)}
<1>1. peers = UAV
  BY NobodySkipped
<1>2. PICK p \in GetPosition(e.node, e.ts) :
        net' = [net EXCEPT ![e.node] = [v \in UAV |->
                  IF v \in peers \ {e.node} THEN Append(@[v], Payload(e.node, p))
                                            ELSE @[v]]]
  BY DEF Send
<1>3. p \in Pos \cup {NaN}
  BY GetPositionType
<1>4. Payload(e.node, p) \in UAVData
  BY <1>3 DEF Payload, UAVData, TypeOK
<1>5. UNCHANGED <<swarmData, recvCount>>
  BY DEF Send, Received, Counted, Accepts
<1>6. sendCount' = [sendCount EXCEPT ![e.node] = [v \in UAV |->
                      IF v \in peers THEN @[v] + 1 ELSE @[v]]]
  BY DEF Send
<1>7. \A v, u \in UAV : sendCount'[v][u] =
        IF v = e.node THEN sendCount[v][u] + 1 ELSE sendCount[v][u]
  BY <1>1, <1>6 DEF TypeOK
<1> DEFINE payload == Payload(e.node, p)
<1> HIDE DEF payload
<1>8. \A v, u \in UAV : net'[v][u] =
        IF v = e.node /\ u # v THEN Append(net[v][u], payload) ELSE net[v][u]
  <2>1. net' = [net EXCEPT ![e.node] = [v \in UAV |->
                  IF v \in UAV \ {e.node} THEN Append(@[v], payload) ELSE @[v]]]
    BY <1>1, <1>2 DEF payload
  <2>2. QED
    BY <2>1 DEF TypeOK
<1>9. QED
  BY <1>3, <1>4, <1>5, <1>7, <1>8 DEF payload

\* The radio takes one packet of one link, whichever; if that changes what the
\* receiver has heard, then it has heard that packet, once.
LEMMA RadioStep ==
  ASSUME TypeOK, Radio
  PROVE  \E a, b \in UAV, k \in Nat :
           /\ k \in 1 .. Len(net[a][b])
           /\ net[a][b][k] \in UAVData
           /\ \A v, u \in UAV : net'[v][u] =
                IF v = a /\ u = b THEN Without(net[v][u], k) ELSE net[v][u]
           /\ \/ UNCHANGED <<swarmData, recvCount>>
              \/ \A u, v \in UAV :
                   /\ swarmData'[u][v] =
                        IF v = a /\ u = b THEN net[v][u][k] ELSE swarmData[u][v]
                   /\ recvCount'[u][v] =
                        IF v = a /\ u = b THEN recvCount[u][v] + 1 ELSE recvCount[u][v]
           /\ UNCHANGED <<simVars, s_csvFile, bound, uavType, sendCount, motionVars>>
<1>1. PICK a \in UAV, b \in UAV : \E k \in 1 .. Len(net[a][b]) :
        HandleRead(a, b, k) \/ Lose(a, b, k)
  BY DEF Radio
<1>2. PICK k \in 1 .. Len(net[a][b]) : HandleRead(a, b, k) \/ Lose(a, b, k)
  BY <1>1
<1>3. net[a][b][k] \in UAVData
  <2>1. net[a][b] \in Seq(UAVData)
    BY DEF TypeOK
  <2>2. QED
    BY <2>1
<1>4. \A v, u \in UAV :
        net'[v][u] = IF v = a /\ u = b THEN Without(net[v][u], k) ELSE net[v][u]
  <2>1. net' = [net EXCEPT ![a][b] = Without(@, k)]
    BY <1>2 DEF HandleRead, Lose
  <2>2. QED
    BY <2>1 DEF TypeOK
<1>5. \/ UNCHANGED <<swarmData, recvCount>>
      \/ /\ swarmData' = [swarmData EXCEPT ![b][a] = net[a][b][k]]
         /\ recvCount' = [recvCount EXCEPT ![b][a] = recvCount[b][a] + 1]
  BY <1>2, HandleReadStep DEF Lose, uavVars
<1>6. \/ UNCHANGED <<swarmData, recvCount>>
      \/ \A u, v \in UAV :
           /\ swarmData'[u][v] =
                IF v = a /\ u = b THEN net[v][u][k] ELSE swarmData[u][v]
           /\ recvCount'[u][v] =
                IF v = a /\ u = b THEN recvCount[u][v] + 1 ELSE recvCount[u][v]
  <2>1. ASSUME swarmData' = [swarmData EXCEPT ![b][a] = net[a][b][k]],
               NEW u \in UAV, NEW v \in UAV
        PROVE  swarmData'[u][v] = IF v = a /\ u = b THEN net[v][u][k] ELSE swarmData[u][v]
    BY <2>1 DEF TypeOK
  <2>2. ASSUME recvCount' = [recvCount EXCEPT ![b][a] = recvCount[b][a] + 1],
               NEW u \in UAV, NEW v \in UAV
        PROVE  recvCount'[u][v] = IF v = a /\ u = b THEN recvCount[u][v] + 1 ELSE recvCount[u][v]
    BY <2>2 DEF TypeOK
  <2>3. QED
    BY <1>5, <2>1, <2>2
<1>7. UNCHANGED <<simVars, s_csvFile, bound, uavType, sendCount, motionVars>>
  BY <1>2 DEF HandleRead, Lose, uavVars
<1>8. k \in Nat
  OBVIOUS
<1>9. QED
  BY <1>3, <1>4, <1>6, <1>7, <1>8

\* Every step is one of three kinds, seen from the data: a Send, a step of the
\* radio, or one that leaves the data alone.
LEMMA DataSteps ==
  [Next]_vars => \/ \E e \in queue : Send(e)
                 \/ Radio
                 \/ UNCHANGED dataVars
BY DEF Next, RunEvent, Initialize, StartApplication, Cyberattack, Calculate, LogPositions,
       Stop, vars, uavVars, motionVars, dataVars

-----------------------------------------------------------------------------
(* At most once. *)

\* Sending counts before the packet is on its way, reading after it has left.
LEMMA AccountingStep ==
  ASSUME TypeOK, PacketAccounting, [Next]_vars
  PROVE  PacketAccounting'
<1> SUFFICES ASSUME NEW u \in UAV, NEW v \in UAV
             PROVE  recvCount'[u][v] + Len(net'[v][u]) <= sendCount'[v][u]
  BY DEF PacketAccounting
<1>0. net[v][u] \in Seq(UAVData)
  BY DEF TypeOK
<1>1. recvCount[u][v] \in Nat /\ sendCount[v][u] \in Nat /\ Len(net[v][u]) \in Nat
  BY <1>0 DEF TypeOK
<1>2. recvCount[u][v] + Len(net[v][u]) <= sendCount[v][u]
  BY DEF PacketAccounting
<1>3. ASSUME NEW e \in queue, Send(e)
      PROVE  recvCount'[u][v] + Len(net'[v][u]) <= sendCount'[v][u]
  <2>1. PICK d \in UAVData : net'[v][u] =
          IF v = e.node /\ u # v THEN Append(net[v][u], d) ELSE net[v][u]
    BY <1>3, SendStep
  <2>2. /\ Len(net'[v][u]) \in {Len(net[v][u]), Len(net[v][u]) + 1}
        /\ v # e.node => Len(net'[v][u]) = Len(net[v][u])
    <3>1. Len(Append(net[v][u], d)) = Len(net[v][u]) + 1
      BY <1>0
    <3>2. QED
      BY <1>1, <2>1, <3>1
  <2>3. /\ recvCount' = recvCount
        /\ sendCount'[v][u] = IF v = e.node THEN sendCount[v][u] + 1 ELSE sendCount[v][u]
    BY <1>3, SendStep
  <2>4. CASE v = e.node
    <3>1. sendCount'[v][u] = sendCount[v][u] + 1
      BY <2>3, <2>4
    <3>2. recvCount'[u][v] = recvCount[u][v]
      BY <2>3
    <3>3. Len(net'[v][u]) \in Nat /\ Len(net'[v][u]) <= Len(net[v][u]) + 1
      <4>1. \A k, l \in Nat : k \in {l, l + 1} => k <= l + 1
        OBVIOUS
      <4>2. \A l \in Nat : l + 1 \in Nat
        OBVIOUS
      <4>3. Len(net'[v][u]) \in Nat
        BY <1>1, <2>2, <4>2, Zenon
      <4>4. QED
        BY <1>1, <2>2, <4>1, <4>3, Zenon
    <3>4. QED
      <4>1. \A r, l, k, s \in Nat : r + l <= s /\ k <= l + 1 => r + k <= s + 1
        OBVIOUS
      <4>2. QED
        BY <1>1, <1>2, <3>1, <3>2, <3>3, <4>1, ZenonT(40)
  <2>5. CASE v # e.node
    BY <1>1, <1>2, <2>2, <2>3, <2>5
  <2>6. QED
    BY <2>4, <2>5
<1>4. ASSUME Radio
      PROVE  recvCount'[u][v] + Len(net'[v][u]) <= sendCount'[v][u]
  <2>1. PICK a \in UAV, b \in UAV, k \in Nat :
          /\ k \in 1 .. Len(net[a][b])
          /\ net'[v][u] = IF v = a /\ u = b THEN Without(net[v][u], k) ELSE net[v][u]
          /\ \/ UNCHANGED <<swarmData, recvCount>>
             \/ recvCount'[u][v] =
                  IF v = a /\ u = b THEN recvCount[u][v] + 1 ELSE recvCount[u][v]
          /\ sendCount' = sendCount
    BY <1>4, RadioStep
  <2>2. v = a /\ u = b =>
          Len(net[v][u]) > 0 /\ Len(Without(net[v][u], k)) = Len(net[v][u]) - 1
    BY <1>0, <2>1, WithoutPacket
  <2>3. QED
    BY <1>1, <1>2, <2>1, <2>2, SMTT(30)
<1>5. QED
  BY <1>2, <1>3, <1>4, DataSteps DEF dataVars

\* No UAV ever counts a packet that was not sent, or counts one twice,
\* although the sender counts before the socket sends and the radio drops
\* what it likes.
THEOREM PacketsAccountedFor == Spec => []PacketAccounting
<1>1. Init => PacketAccounting
  BY DEF Init, PacketAccounting
<1>2. TypeOK /\ PacketAccounting /\ [Next]_vars => PacketAccounting'
  BY AccountingStep
<1>3. QED
  BY <1>1, <1>2, TypeCorrect, PTL DEF Spec

-----------------------------------------------------------------------------
(***************************************************************************)
(* NaN.  A UAV reports a position that is not a number only after its      *)
(* velocity has become one, and a velocity that is not a number is never   *)
(* left: the next position is computed from it.                            *)
(***************************************************************************)
NaNInStep ==
  \A u \in UAV :
    /\ waypoint[u].current = NaN => velocity[u] = "nan"
    /\ waypoint[u].next = NaN <=> velocity[u] = "nan"

\* Steps that change the motion of a UAV are its Calculate events.
LEMMA MotionSteps ==
  [Next]_vars => (\E e \in queue : Calculate(e)) \/ UNCHANGED <<velocity, waypoint>>
BY DEF Next, RunEvent, Initialize, StartApplication, Cyberattack, Send, LogPositions, Stop,
       Radio, HandleRead, Lose, vars, motionVars

\* What a waypoint model reports is a number as long as the velocity is one.
LEMMA PositionIsNumber ==
  ASSUME TypeOK, NaNInStep, NEW u \in UAV, NEW t \in Nat, NaN \in GetPosition(u, t)
  PROVE  velocity[u] = "nan"
BY SwarmAssumption DEF GetPosition, NaNInStep

\* The velocity and the target of a UAV that calculates become NaN together,
\* and a velocity that is NaN stays NaN.
LEMMA CalculateNaN ==
  ASSUME TypeOK, NaNInStep, NEW e \in queue, Calculate(e), NEW u \in UAV
  PROVE  /\ velocity[u] = "nan" => velocity'[u] = "nan"
         /\ waypoint'[u].current = NaN => velocity'[u] = "nan"
         /\ waypoint'[u].next = NaN <=> velocity'[u] = "nan"
<1>0. e.node \in UAV /\ e.ts \in Nat
  BY DEF TypeOK, Event
<1>1. PICK my \in Pos \cup {NaN}, vel \in {"rest", "moving", "nan"}, p \in Pos \cup {NaN} :
        /\ my \in GetPosition(e.node, e.ts)
        /\ vel \in NewVelocity(e.node, my)
        /\ p \in NewPosition(my, vel)
        /\ velocity' = [velocity EXCEPT ![e.node] = vel]
        /\ waypoint' = [waypoint EXCEPT ![e.node] = NextWaypoint(my, p, e.ts)]
  BY CalculateStep
<1>2. CASE u # e.node
  BY <1>0, <1>1, <1>2 DEF NaNInStep, TypeOK
<1>3. CASE u = e.node
  <2>1. my = NaN => velocity[e.node] = "nan"
    BY <1>0, <1>1, PositionIsNumber
  <2>2. velocity[e.node] = "nan" => vel = "nan"
    BY <1>1 DEF NewVelocity
  <2>3. p = NaN <=> vel = "nan"
    BY <1>1, <2>1, <2>2, SwarmAssumption DEF NewPosition
  <2>4. velocity'[u] = vel /\ waypoint'[u] = [current |-> my, next |-> p,
                                              time |-> e.ts + CalculateInterval]
    BY <1>0, <1>1, <1>3 DEF TypeOK, NextWaypoint
  <2>5. QED
    BY <1>3, <2>1, <2>2, <2>3, <2>4
<1>4. QED
  BY <1>2, <1>3

\* No velocity is NaN at the start.
LEMMA NaNInit == Init => NaNInStep
BY SwarmAssumption DEF Init, NaNInStep

\* No step turns a velocity that is NaN into a number.
LEMMA NaNStep ==
  ASSUME TypeOK, NaNInStep, [Next]_vars
  PROVE  /\ NaNInStep'
         /\ \A u \in UAV : velocity[u] = "nan" => velocity'[u] = "nan"
<1>1. CASE \E e \in queue : Calculate(e)
  BY <1>1, CalculateNaN DEF NaNInStep
<1>2. CASE UNCHANGED <<velocity, waypoint>>
  BY <1>2 DEF NaNInStep
<1>3. QED
  BY <1>1, <1>2, MotionSteps

\* A UAV whose velocity has become NaN keeps heading for NaN: neither
\* dampening nor any later force leads out of it.
THEOREM NaNNeverLeft == Spec => NaNAbsorbing
<1>1. TypeOK /\ NaNInStep /\ [Next]_vars =>
        /\ NaNInStep'
        /\ \A u \in UAV : velocity[u] = "nan" =>
             velocity'[u] = "nan" /\ waypoint'[u].next = NaN
  <2> SUFFICES ASSUME TypeOK, NaNInStep, [Next]_vars
               PROVE  /\ NaNInStep'
                      /\ \A u \in UAV : velocity[u] = "nan" =>
                           velocity'[u] = "nan" /\ waypoint'[u].next = NaN
    OBVIOUS
  <2>1. NaNInStep' /\ \A u \in UAV : velocity[u] = "nan" => velocity'[u] = "nan"
    BY NaNStep
  <2>2. QED
    BY <2>1 DEF NaNInStep
<1>2. QED
  BY <1>1, NaNInit, TypeCorrect, PTL DEF Spec, NaNAbsorbing

-----------------------------------------------------------------------------
(***************************************************************************)
(* Nobody is told anything untrue.  Roles only change from peripheral to   *)
(* central and velocities only from numbers to NaN, so a claim that was    *)
(* true when the packet was built is true when it is read and for as long  *)
(* as it is kept.                                                          *)
(***************************************************************************)
\* What Claims(d, v) says after the step, of a datum d.
Stands(d, v) ==
  /\ d.type = VIRTUAL_FORCES_CENTRAL_POSITION
       => uavType'[v] = VIRTUAL_FORCES_CENTRAL_POSITION
  /\ d.type = VIRTUAL_FORCES_POSITION => v # Root
  /\ d.position = NaN => velocity'[v] = "nan"

\* What a packet says of its sender stays true of it.
LEMMA ClaimStands ==
  ASSUME TypeOK, NaNInStep, [Next]_vars, NEW v \in UAV
  PROVE  \A d : Claims(d, v) => Stands(d, v)
<1>1. uavType[v] = VIRTUAL_FORCES_CENTRAL_POSITION
        => uavType'[v] = VIRTUAL_FORCES_CENTRAL_POSITION
  <2>1. ASSUME NEW e \in queue, Cyberattack(e)
        PROVE  uavType' = [uavType EXCEPT ![e.node] = VIRTUAL_FORCES_CENTRAL_POSITION]
    BY <2>1 DEF Cyberattack
  <2>2. (\E e \in queue : Cyberattack(e)) \/ uavType' = uavType
    BY DEF Next, RunEvent, Initialize, StartApplication, Send, Calculate, LogPositions,
           Stop, Radio, HandleRead, Lose, vars, uavVars
  <2>3. QED
    BY <2>1, <2>2 DEF TypeOK
<1>2. velocity[v] = "nan" => velocity'[v] = "nan"
  BY NaNStep
<1>3. QED
  BY <1>1, <1>2 DEF Claims, Stands

\* A read stores what a packet on its way said.
LEMMA KnowledgeStep ==
  ASSUME TypeOK, NaNInStep, RootInv, KnowledgeSound, [Next]_vars
  PROVE  KnowledgeSound'
<1> SUFFICES ASSUME NEW u \in UAV, NEW v \in UAV
             PROVE  /\ swarmData'[u][v] # NoData => Stands(swarmData'[u][v], v)
                    /\ \A i \in 1 .. Len(net'[v][u]) : Stands(net'[v][u][i], v)
  BY DEF KnowledgeSound, Claims, Stands
<1>0. net[v][u] \in Seq(UAVData)
  BY DEF TypeOK
<1>1. /\ swarmData[u][v] # NoData => Stands(swarmData[u][v], v)
      /\ \A i \in 1 .. Len(net[v][u]) : Stands(net[v][u][i], v)
  BY ClaimStands DEF KnowledgeSound
<1>2. ASSUME NEW e \in queue, Send(e)
      PROVE  /\ swarmData'[u][v] # NoData => Stands(swarmData'[u][v], v)
             /\ \A i \in 1 .. Len(net'[v][u]) : Stands(net'[v][u][i], v)
  <2>1. e.node \in UAV /\ e.ts \in Nat
    BY DEF TypeOK, Event
  <2>2. PICK p \in Pos \cup {NaN} :
          /\ p \in GetPosition(e.node, e.ts)
          /\ Payload(e.node, p) \in UAVData
          /\ net'[v][u] = IF v = e.node /\ u # v
                          THEN Append(net[v][u], Payload(e.node, p))
                          ELSE net[v][u]
    BY <1>2, SendStep
  <2> DEFINE payload == Payload(e.node, p)
  <2>3. Claims(payload, e.node)
    <3>1. p = NaN => velocity[e.node] = "nan"
      BY <2>1, <2>2, PositionIsNumber
    <3>2. uavType[e.node] = VIRTUAL_FORCES_POSITION => e.node # Root
      BY DEF RootInv, VIRTUAL_FORCES_POSITION, VIRTUAL_FORCES_CENTRAL_POSITION
    <3>3. QED
      BY <3>1, <3>2 DEF Payload, Claims
  <2>4. v = e.node => Stands(payload, v)
    BY <2>3, ClaimStands
  <2> HIDE DEF payload
  <2>5. ASSUME v = e.node, NEW i \in 1 .. Len(Append(net[v][u], payload))
        PROVE  Stands(Append(net[v][u], payload)[i], v)
    <3>1. /\ i \in 1 .. Len(net[v][u]) \/ i = Len(net[v][u]) + 1
          /\ i \in 1 .. Len(net[v][u]) => Append(net[v][u], payload)[i] = net[v][u][i]
          /\ i = Len(net[v][u]) + 1 => Append(net[v][u], payload)[i] = payload
      BY <1>0
    <3>2. QED
      BY <1>1, <2>4, <2>5, <3>1
  <2>6. net'[v][u] = net[v][u] \/ (v = e.node /\ net'[v][u] = Append(net[v][u], payload))
    BY <2>2 DEF payload
  <2>7. swarmData' = swarmData
    BY <1>2, SendStep
  <2>8. QED
    BY <1>1, <2>5, <2>6, <2>7
<1>3. ASSUME Radio
      PROVE  /\ swarmData'[u][v] # NoData => Stands(swarmData'[u][v], v)
             /\ \A i \in 1 .. Len(net'[v][u]) : Stands(net'[v][u][i], v)
  <2>1. PICK a \in UAV, b \in UAV, k \in Nat :
          /\ k \in 1 .. Len(net[a][b])
          /\ net'[v][u] = IF v = a /\ u = b THEN Without(net[v][u], k) ELSE net[v][u]
          /\ \/ swarmData' = swarmData
             \/ swarmData'[u][v] = IF v = a /\ u = b THEN net[v][u][k] ELSE swarmData[u][v]
    BY <1>3, RadioStep
  <2>2. CASE v = a /\ u = b
    <3>1. \A i \in 1 .. Len(Without(net[v][u], k)) :
            \E j \in 1 .. Len(net[v][u]) : Without(net[v][u], k)[i] = net[v][u][j]
      <4>1. k \in 1 .. Len(net[v][u])
        BY <2>1, <2>2, Zenon
      <4>2. QED
        BY <1>0, <4>1, WithoutPacket
    <3>2. QED
      BY <1>1, <2>1, <2>2, <3>1
  <2>3. CASE ~(v = a /\ u = b)
    BY <1>1, <2>1, <2>3
  <2>4. QED
    BY <2>2, <2>3
<1>4. QED
  BY <1>1, <1>2, <1>3, DataSteps DEF dataVars

\* No UAV ever takes a UAV for central that is not, nor the root for
\* peripheral, and it hears of a NaN position only from a UAV whose velocity is
\* NaN: nothing it has stored or will receive says otherwise.  That an attacker
\* is peripheral is all it can still believe wrongly.
THEOREM NobodyMisled == Spec => []KnowledgeSound
<1>1. Init => KnowledgeSound
  BY DEF Init, KnowledgeSound
<1>2. TypeOK /\ NaNInStep /\ RootInv /\ KnowledgeSound /\ [Next]_vars => KnowledgeSound'
  BY KnowledgeStep
<1>3. TypeOK /\ NaNInStep /\ [Next]_vars => NaNInStep'
  BY NaNStep
<1>4. TypeOK /\ RootInv /\ [Next]_vars => RootInv'
  BY RootStep
<1>5. QED
  BY <1>1, <1>2, <1>3, <1>4, NaNInit, RootInit, TypeCorrect, PTL DEF Spec

-----------------------------------------------------------------------------
(* Without news there is no motion. *)

\* A UAV that has heard of nobody adds up no force.
LEMMA StationaryStep ==
  ASSUME TypeOK, StationaryUntilHeard, [Next]_vars
  PROVE  StationaryUntilHeard'
<1> SUFFICES ASSUME NEW u \in UAV, \A v \in UAV : swarmData'[u][v] = NoData
             PROVE  velocity'[u] = "rest" /\ waypoint'[u].next = waypoint'[u].current
  BY DEF StationaryUntilHeard
<1>1. \A v \in UAV : swarmData[u][v] = NoData
  <2> SUFFICES ASSUME NEW v \in UAV PROVE swarmData[u][v] = NoData
    OBVIOUS
  <2>1. ASSUME Radio PROVE swarmData'[u][v] = swarmData[u][v]
    <3>1. PICK a \in UAV, b \in UAV, k \in Nat :
            /\ k \in 1 .. Len(net[a][b])
            /\ net[a][b][k] \in UAVData
            /\ \/ swarmData' = swarmData
               \/ swarmData'[u][v] = IF v = a /\ u = b THEN net[v][u][k]
                                                       ELSE swarmData[u][v]
      BY <2>1, RadioStep
    <3>2. QED
      BY <3>1, NoDataAssumption
  <2>2. QED
    BY <2>1, DataSteps, SendStep DEF dataVars
<1>2. velocity[u] = "rest" /\ waypoint[u].next = waypoint[u].current
  BY <1>1 DEF StationaryUntilHeard
<1>3. ASSUME NEW e \in queue, Calculate(e)
      PROVE  velocity'[u] = "rest" /\ waypoint'[u].next = waypoint'[u].current
  <2>0. e.node \in UAV /\ e.ts \in Nat
    BY DEF TypeOK, Event
  <2>1. PICK my \in Pos \cup {NaN}, vel \in {"rest", "moving", "nan"}, p \in Pos \cup {NaN} :
          /\ my \in GetPosition(e.node, e.ts)
          /\ vel \in NewVelocity(e.node, my)
          /\ p \in NewPosition(my, vel)
          /\ velocity' = [velocity EXCEPT ![e.node] = vel]
          /\ waypoint' = [waypoint EXCEPT ![e.node] = NextWaypoint(my, p, e.ts)]
    BY <1>3, CalculateStep
  <2>2. CASE u # e.node
    BY <1>2, <2>0, <2>1, <2>2 DEF TypeOK
  <2>3. CASE u = e.node
    <3>1. Forces(u) = {}
      BY <1>1 DEF Forces
    <3>2. vel = "rest"
      BY <1>2, <2>1, <2>3, <3>1 DEF NewVelocity, ForceIsNaN
    <3>3. p = my
      BY <2>1, <3>2 DEF NewPosition
    <3>4. QED
      BY <2>0, <2>1, <2>3, <3>2, <3>3 DEF NextWaypoint, TypeOK
  <2>4. QED
    BY <2>2, <2>3
<1>4. QED
  BY <1>2, <1>3, MotionSteps

\* A UAV that has never heard from a peer is still where it spawned, however
\* often it has recalculated: the acceleration starts at zero each time.
THEOREM StationaryWithoutNews == Spec => []StationaryUntilHeard
<1>1. Init => StationaryUntilHeard
  BY DEF Init, StationaryUntilHeard
<1>2. TypeOK /\ StationaryUntilHeard /\ [Next]_vars => StationaryUntilHeard'
  BY StationaryStep
<1>3. QED
  BY <1>1, <1>2, TypeCorrect, PTL DEF Spec

-----------------------------------------------------------------------------
(***************************************************************************)
(* The chains of timers.  A UAV's first Send and Calculate are scheduled   *)
(* together with its socket, and each of the two handlers schedules its    *)
(* successor; the waypoint Calculate adds is due when that successor is.   *)
(***************************************************************************)

\* A step of the event loop removes nothing from the queue but the event that
\* runs.
LEMMA LoopStep ==
  ASSUME TypeOK, QueueOrdered, NEW e \in queue, RunEvent(e)
  PROVE  /\ e \in Event
         /\ now \in Nat /\ now' = e.ts /\ e.ts >= now
         /\ queue \ {e} \subseteq queue'
         /\ \A f \in queue : f.ts \in Nat
BY DEF TypeOK, Event, QueueOrdered, RunEvent, Initialize, StartApplication, Cyberattack, Send,
       Calculate, LogPositions, Stop, ProcessOneEvent

\* The timers a UAV has pending, at most one interval ahead.
Beats(u) ==
  /\ \E e \in queue : e.kind = "Send" /\ e.node = u /\ e.ts <= now + PacketInterval
  /\ \E e \in queue : e.kind = "Calculate" /\ e.node = u /\ e.ts <= now + CalculateInterval

BoundBeats == \A u \in UAV : bound[u] => Beats(u)

\* The handler of a heartbeat schedules the next one.
LEMMA BeatsStep ==
  ASSUME TypeOK, QueueOrdered, BoundBeats, NEW e \in queue, RunEvent(e)
  PROVE  BoundBeats'
<1> USE SwarmAssumption
<1> SUFFICES ASSUME NEW u \in UAV, bound'[u] PROVE Beats(u)'
  BY DEF BoundBeats
<1>1. /\ e \in Event /\ e.node \in UAV /\ e.ts \in Nat
      /\ now \in Nat /\ now' = e.ts /\ e.ts >= now
      /\ queue \ {e} \subseteq queue'
      /\ \A f \in queue : f.ts \in Nat
  BY LoopStep DEF Event
<1>2. ASSUME NEW f \in queue \ {e}, NEW d \in Nat, f.ts <= now + d
      PROVE  f \in queue' /\ f.ts <= now' + d
  BY <1>1, <1>2
<1>3. CASE StartApplication(e) /\ u = e.node
  <2>1. {NewEvent(e.ts, uid, "Send", u), NewEvent(e.ts, uid + 1, "Calculate", u)}
          \subseteq queue'
    BY <1>3 DEF StartApplication, ProcessOneEvent
  <2>2. e.ts <= now' + PacketInterval /\ e.ts <= now' + CalculateInterval
    BY <1>1
  <2>3. QED
    BY <2>1, <2>2 DEF Beats, NewEvent
<1>4. CASE ~(StartApplication(e) /\ u = e.node)
  <2>1. bound[u]
    <3>1. CASE StartApplication(e)
      BY <1>1, <1>4, <3>1 DEF StartApplication, TypeOK
    <3>2. CASE ~StartApplication(e)
      BY <3>2 DEF RunEvent, Initialize, Cyberattack, Send, Calculate, LogPositions, Stop,
                  uavVars
    <3>3. QED
      BY <3>1, <3>2
  <2>2. PICK s \in queue : s.kind = "Send" /\ s.node = u /\ s.ts <= now + PacketInterval
    BY <2>1 DEF BoundBeats, Beats
  <2>3. PICK c \in queue : c.kind = "Calculate" /\ c.node = u /\ c.ts <= now + CalculateInterval
    BY <2>1 DEF BoundBeats, Beats
  <2>4. \E f \in queue' : f.kind = "Send" /\ f.node = u /\ f.ts <= now' + PacketInterval
    <3>1. CASE s # e
      BY <1>2, <2>2, <3>1
    <3>2. CASE s = e
      <4>1. Send(e)
        BY <2>2, <3>2 DEF RunEvent, Initialize, StartApplication, Cyberattack, Calculate,
                          LogPositions, Stop
      <4>2. NewEvent(e.ts + PacketInterval, uid, "Send", u) \in queue'
        BY <2>2, <3>2, <4>1 DEF Send, ProcessOneEvent
      <4>3. QED
        BY <1>1, <4>2 DEF NewEvent
    <3>3. QED
      BY <3>1, <3>2
  <2>5. \E f \in queue' : f.kind = "Calculate" /\ f.node = u /\ f.ts <= now' + CalculateInterval
    <3>1. CASE c # e
      BY <1>2, <2>3, <3>1
    <3>2. CASE c = e
      <4>1. Calculate(e)
        BY <2>3, <3>2 DEF RunEvent, Initialize, StartApplication, Cyberattack, Send,
                          LogPositions, Stop
      <4>2. NewEvent(e.ts + CalculateInterval, uid, "Calculate", u) \in queue'
        BY <2>3, <3>2, <4>1 DEF Calculate, ProcessOneEvent
      <4>3. QED
        BY <1>1, <4>2 DEF NewEvent
    <3>3. QED
      BY <3>1, <3>2
  <2>6. QED
    BY <2>4, <2>5 DEF Beats
<1>5. QED
  BY <1>3, <1>4

\* A UAV that has started never stops announcing itself and recalculating:
\* whatever else happens, both timers are pending and due within an interval.
THEOREM HeartbeatNeverStops == Spec => []Heartbeat
<1>1. Init => BoundBeats
  BY DEF Init, BoundBeats
<1>2. TypeOK /\ QueueOrdered /\ BoundBeats /\ [Next]_vars => BoundBeats'
  <2> SUFFICES ASSUME TypeOK, QueueOrdered, BoundBeats, [Next]_vars PROVE BoundBeats'
    OBVIOUS
  <2>1. CASE \E e \in queue : RunEvent(e)
    BY <2>1, BeatsStep
  <2>2. CASE Radio \/ UNCHANGED vars
    <3>1. UNCHANGED <<now, queue, bound>>
      BY <2>2 DEF Radio, HandleRead, Lose, simVars, uavVars, vars
    <3>2. QED
      BY <3>1 DEF BoundBeats, Beats
  <2>3. QED
    BY <2>1, <2>2 DEF Next
<1>3. BoundBeats => Heartbeat
  BY DEF BoundBeats, Beats, Heartbeat
<1>4. QED
  BY <1>1, <1>2, <1>3, TypeCorrect, TimersCorrect, PTL DEF Spec

\* Until its first Calculate a UAV has the waypoint it spawned with, and that
\* Calculate is not due before the UAV's start time.
InStep ==
  /\ WaypointsInStep
  /\ \A e \in queue : e.kind \in {"Initialize", "Start"} => waypoint[e.node].time = 0
  /\ \A e \in queue : e.kind = "Start" => e.ts >= StartTime(e.node)

\* No waypoint has been set.
LEMMA InStepInit == Init => InStep
<1> SUFFICES ASSUME Init PROVE InStep
  OBVIOUS
<1>1. \A e \in queue : e.kind \in {"Initialize", "Stop", "LogPositions"}
  BY DEF Init, InitialQueue, NewEvent
<1>2. \A e \in queue : e.node \in UAV
  BY InitType DEF TypeOK, Event
<1>3. \A u \in UAV : waypoint[u].time = 0
  BY DEF Init
<1>4. QED
  BY <1>1, <1>2, <1>3 DEF InStep, WaypointsInStep

\* The timers that move a UAV keep the two waypoints one interval apart.
LEMMA InStepStep ==
  ASSUME TypeOK, TimerInv, InStep, NEW e \in queue, RunEvent(e)
  PROVE  InStep'
<1> USE SwarmAssumption
<1>1. /\ e.node \in UAV /\ e.ts \in Nat
      /\ \A f \in queue : f.node \in UAV /\ f.ts \in Nat
  BY DEF TypeOK, Event
<1>2. CASE Calculate(e)
  <2>1. queue' = (queue \ {e}) \cup {NewEvent(e.ts + CalculateInterval, uid, "Calculate", e.node)}
    BY <1>2 DEF Calculate, ProcessOneEvent
  <2>2. PICK my, p : waypoint' = [waypoint EXCEPT ![e.node] = NextWaypoint(my, p, e.ts)]
    BY <1>2, CalculateStep
  <2>3. waypoint'[e.node].time = e.ts + CalculateInterval
    BY <1>1, <2>2 DEF NextWaypoint, TypeOK
  <2>4. \A f \in queue \ {e} : f.kind \in {"Initialize", "Start", "Calculate"} => f.node # e.node
    BY <1>2 DEF Calculate, TimerInv, OneTimerEach, Phases, Chains
  <2>5. \A f \in queue : f.node # e.node => waypoint'[f.node] = waypoint[f.node]
    BY <1>1, <2>2 DEF TypeOK
  <2>6. QED
    BY <2>1, <2>3, <2>4, <2>5 DEF InStep, WaypointsInStep, NewEvent
<1>3. CASE Initialize(e)
  <2>1. queue' = (queue \ {e}) \cup {NewEvent(e.ts + StartTime(e.node), uid, "Start", e.node)}
    BY <1>3 DEF Initialize, ProcessOneEvent
  <2>2. e.kind = "Initialize" /\ waypoint' = waypoint
    BY <1>3 DEF Initialize, motionVars
  <2>3. e.ts + StartTime(e.node) >= StartTime(e.node)
    BY <1>1 DEF StartTime
  <2>4. QED
    BY <2>1, <2>2, <2>3 DEF InStep, WaypointsInStep, NewEvent
<1>4. CASE StartApplication(e)
  <2>1. PICK new \in SUBSET Event, n \in Nat : Schedules(e, new, n)
    BY Scheduling
  <2>2. e.kind = "Start" /\ waypoint' = waypoint
    BY <1>4 DEF StartApplication, motionVars
  <2>3. /\ queue' = (queue \ {e}) \cup new
        /\ \A f \in new : f.node = e.node /\ f.ts >= e.ts /\ f.ts \in Nat
                            /\ f.kind \in {"Send", "Calculate", "Cyberattack"}
    BY <2>1, <2>2 DEF Schedules, ProcessOneEvent, Successors, Event
  <2>4. waypoint[e.node].time = 0 /\ e.ts >= StartTime(e.node) /\ StartTime(e.node) \in Nat
    BY <2>2 DEF InStep, StartTime
  <2>5. \A f \in new : waypoint'[f.node].time = 0 /\ f.ts >= StartTime(f.node)
    BY <1>1, <2>2, <2>3, <2>4
  <2>6. QED
    BY <2>2, <2>3, <2>5 DEF InStep, WaypointsInStep
<1>5. CASE Cyberattack(e) \/ Send(e) \/ LogPositions(e) \/ Stop(e)
  <2>1. PICK new \in SUBSET Event, n \in Nat : Schedules(e, new, n)
    BY Scheduling
  <2>2. /\ e.kind \in {"Cyberattack", "Send", "LogPositions", "Stop"}
        /\ waypoint' = waypoint
    BY <1>5 DEF Cyberattack, Send, LogPositions, Stop, motionVars
  <2>3. /\ queue' = (queue \ {e}) \cup new
        /\ \A f \in new : f.kind \in {"Send", "LogPositions"}
    BY <2>1, <2>2 DEF Schedules, ProcessOneEvent, Successors
  <2>4. QED
    BY <2>2, <2>3 DEF InStep, WaypointsInStep
<1>6. QED
  BY <1>2, <1>3, <1>4, <1>5 DEF RunEvent

\* Every Calculate but the first runs exactly when the UAV reaches its last
\* waypoint, so waypoints are never added out of order and the motion is
\* integrated once per interval.
THEOREM WaypointsNeverDrift == Spec => []WaypointsInStep
<1>1. TypeOK /\ TimerInv /\ InStep /\ [Next]_vars => InStep'
  <2> SUFFICES ASSUME TypeOK, TimerInv, InStep, [Next]_vars PROVE InStep'
    OBVIOUS
  <2>1. CASE \E e \in queue : RunEvent(e)
    BY <2>1, InStepStep
  <2>2. CASE Radio \/ UNCHANGED vars
    <3>1. UNCHANGED <<queue, waypoint>>
      BY <2>2 DEF Radio, HandleRead, Lose, simVars, motionVars, vars
    <3>2. QED
      BY <3>1 DEF InStep, WaypointsInStep
  <2>3. QED
    BY <2>1, <2>2 DEF Next
<1>2. InStep => WaypointsInStep
  BY DEF InStep
<1>3. QED
  BY <1>1, <1>2, InStepInit, TimerInvariant, TypeCorrect, PTL DEF Spec
=============================================================================
