---------------------------- MODULE ParserProofs ----------------------------
(***************************************************************************)
(* Theorems about the position parser, for every file and every sequence   *)
(* of queries at times that do not decrease: the key frames are the file,  *)
(* and pos_at_time, which resumes its search where it left off, neither    *)
(* fails nor gives a wrong answer.  The lines of the file may come in any  *)
(* order, except for the last theorem.                                     *)
(***************************************************************************)
EXTENDS PositionParser, NatOrder

USE ParserAssumption

-----------------------------------------------------------------------------
(* Facts about the operators of the model. *)

\* The maps from some of the UAVs to positions.
Maps == UNION {[S -> Coord] : S \in SUBSET Uav}

KeyFrame == [time : Time, inner : Maps]

\* A map is a function on some of the UAVs.
LEMMA MapType ==
  ASSUME NEW m \in Maps
  PROVE  /\ DOMAIN m \subseteq Uav
         /\ m = [u \in DOMAIN m |-> m[u]]
         /\ \A u \in DOMAIN m : m[u] \in Coord
BY DEF Maps

\* The map std::mem::take leaves behind is a map, of no UAV.
LEMMA EmptyMapType == EmptyMap \in Maps /\ DOMAIN EmptyMap = {}
<1>1. EmptyMap \in [{} -> Coord]
  BY DEF EmptyMap
<1>2. QED
  BY <1>1 DEF Maps, EmptyMap

\* HashMap::insert adds one UAV and changes no other.
LEMMA InsertType ==
  ASSUME NEW m \in Maps, NEW u \in Uav, NEW p \in Coord
  PROVE  /\ Insert(m, u, p) \in Maps
         /\ DOMAIN Insert(m, u, p) = DOMAIN m \cup {u}
         /\ Insert(m, u, p)[u] = p
         /\ \A v \in DOMAIN m : v # u => Insert(m, u, p)[v] = m[v]
<1>1. DOMAIN m \cup {u} \in SUBSET Uav
  BY MapType
<1>2. Insert(m, u, p) \in [DOMAIN m \cup {u} -> Coord]
  BY MapType DEF Insert
<1>3. Insert(m, u, p) \in Maps
  BY <1>1, <1>2 DEF Maps
<1>4. QED
  BY <1>3 DEF Insert

\* The frames of a UAV are numbered by naturals, up to the number of frames.
LEMMA IndicesType ==
  ASSUME NEW fs \in Seq(KeyFrame), NEW u
  PROVE  /\ Len(fs) \in Nat
         /\ Indices(fs, u) \subseteq 0 .. Len(fs)
         /\ Indices(fs, u) \subseteq Nat \ {0}
         /\ \A i \in Indices(fs, u) : /\ i \in 1 .. Len(fs)
                                      /\ i \in Nat
                                      /\ fs[i].time \in Time
                                      /\ fs[i].time \in Nat
                                      /\ u \in DOMAIN fs[i].inner
                                      /\ fs[i].inner[u] \in Coord
<1>1. Len(fs) \in Nat
  OBVIOUS
<1>2. \A i \in Indices(fs, u) : i \in 1 .. Len(fs) /\ u \in DOMAIN fs[i].inner
  BY DEF Indices
<1>3. \A i \in Indices(fs, u) : fs[i] \in KeyFrame
  BY <1>2
<1>4. \A i \in Indices(fs, u) : fs[i].time \in Time /\ fs[i].inner \in Maps
  BY <1>3 DEF KeyFrame
<1>5. \A i \in Indices(fs, u) : fs[i].time \in Nat /\ i \in Nat
  <2>1. \A t \in Time : t \in Nat
    OBVIOUS
  <2>2. \A i \in Indices(fs, u) : fs[i].time \in Nat
    BY <1>4, <2>1, Zenon
  <2>3. \A i \in Indices(fs, u) : i \in Nat
    BY <1>1, <1>2
  <2>4. QED
    BY <2>2, <2>3, Zenon
<1>6. \A i \in Indices(fs, u) : fs[i].inner[u] \in Coord
  BY <1>2, <1>4, MapType
<1>7. Indices(fs, u) \subseteq 0 .. Len(fs) /\ Indices(fs, u) \subseteq Nat \ {0}
  BY <1>1, <1>2
<1>8. QED
  BY <1>1, <1>2, <1>4, <1>5, <1>6, <1>7

-----------------------------------------------------------------------------
(* Types. *)

States == [kind : {"Before", "Interpolate", "After", "Unknown"}, first : Nat, second : Nat]

TypeInv ==
  /\ file \in Files
  /\ line \in Nat \ {0}
  /\ inner_map \in Maps
  /\ last_line \in Time \cup {None}
  /\ frames \in Seq(KeyFrame)
  /\ phase \in {"parsing", "ready", "panicked"}
  /\ state \in [Uav -> States]
  /\ last_time \in Time \cup {None}
  /\ phase = "parsing" => answer = NoAnswer

\* The line parse looks at.
LEMMA LineType ==
  ASSUME TypeInv, line <= Len(file)
  PROVE  /\ line \in 1 .. Len(file)
         /\ file[line] \in Line
         /\ file[line].time \in Time /\ file[line].ip \in Uav /\ file[line].pos \in Coord
<1>1. file \in Seq(Line)
  BY DEF TypeInv
<1>2. line \in 1 .. Len(file)
  BY <1>1 DEF TypeInv
<1>3. file[line] \in Line
  BY <1>1, <1>2
<1>4. QED
  BY <1>2, <1>3 DEF Line

\* The types hold before the first line is parsed.
LEMMA TypeInit == Init => TypeInv
<1> SUFFICES ASSUME Init PROVE TypeInv
  OBVIOUS
<1>1. FirstLine \in Nat \ {0}
  BY DEF FirstLine
<1>2. Unknown \in States
  BY DEF Unknown, States
<1>3. QED
  BY <1>1, <1>2, EmptyMapType DEF Init, TypeInv

\* The frame being collected is a frame.
LEMMA FrameType ==
  ASSUME TypeInv, last_line # None
  PROVE  /\ Frame(last_line, inner_map) \in KeyFrame
         /\ Append(frames, Frame(last_line, inner_map)) \in Seq(KeyFrame)
<1>1. Frame(last_line, inner_map) \in KeyFrame
  BY DEF Frame, KeyFrame, TypeInv
<1>2. QED
  BY <1>1 DEF TypeInv

-----------------------------------------------------------------------------
(* The search of pos_at_time. *)

\* What is remembered about the UAV that is asked about.
Asked(u, now) ==
  /\ TypeInv /\ StateValid
  /\ phase = "ready"
  /\ u \in Uav /\ now \in Time
  /\ last_time <= now
  /\ state[u].kind # "Unknown"

Later(u, start, now) == {i \in Indices(frames, u) : i > start /\ IsAfter(frames[i].time, now)}

\* What is remembered of a UAV when its position is asked for.
LEMMA AskedState ==
  ASSUME NEW u, NEW now, Asked(u, now)
  PROVE  /\ state[u] \in States
         /\ {state[u].first, state[u].second} \subseteq Indices(frames, u)
         /\ state[u].kind = "Before" => state[u].first = Least(Indices(frames, u))
         /\ state[u].kind = "Interpolate" => frames[state[u].first].time <= last_time
         /\ state[u].kind = "After" => /\ state[u].first = Greatest(Indices(frames, u))
                                       /\ frames[state[u].first].time <= last_time
BY DEF Asked, TypeInv, StateValid

\* The search starts at a frame of the UAV that is not after the time asked
\* for: the two assertions of pos_at_time hold.
LEMMA SearchStart ==
  ASSUME NEW u, NEW now, Asked(u, now), ~Settled(state[u], now)
  PROVE  /\ StartIndex(state[u], now) \in Indices(frames, u)
         /\ frames[StartIndex(state[u], now)].time <= now
<1>1. frames \in Seq(KeyFrame) /\ now \in Int /\ last_time \in Int /\ last_time <= now
  BY DEF Asked, TypeInv, None
<1>2. \A i \in Indices(frames, u) : frames[i].time \in Nat
  BY <1>1, IndicesType
<1> DEFINE s == state[u]
<1>s. /\ s \in States
      /\ s.first \in Indices(frames, u) /\ s.second \in Indices(frames, u)
      /\ s.kind = "Interpolate" => frames[s.first].time <= last_time
  BY AskedState
<1>3. CASE s.kind = "Before"
  <2>1. StartIndex(s, now) = s.first
    BY <1>3 DEF StartIndex
  <2>2. ~(now <= frames[s.first].time)
    BY <1>3 DEF Settled
  <2>3. QED
    BY <1>1, <1>2, <1>s, <2>1, <2>2
<1>4. CASE s.kind = "Interpolate"
  <2>1. StartIndex(s, now) = IF frames[s.second].time <= now THEN s.second ELSE s.first
    BY <1>4 DEF StartIndex
  <2>2. frames[s.first].time <= now
    BY <1>1, <1>2, <1>s, <1>4
  <2>3. QED
    BY <1>s, <2>1, <2>2
<1>5. s.kind \in {"Before", "Interpolate"}
  BY AskedState DEF Settled, Asked, States
<1>6. QED
  BY <1>3, <1>4, <1>5

\* A search that finds no later frame ends at the last frame of the UAV.
LEMMA SearchLast ==
  ASSUME NEW u, NEW now, Asked(u, now), NEW start \in Indices(frames, u),
         frames[start].time <= now, Later(u, start, now) = {}
  PROVE  /\ LastIndex(u, start) \in Indices(frames, u)
         /\ LastIndex(u, start) >= start
         /\ LastIndex(u, start) = Greatest(Indices(frames, u))
         /\ frames[LastIndex(u, start)].time <= now
<1> DEFINE I    == Indices(frames, u)
           rest == I \ (0 .. start - 1)
           last == LastIndex(u, start)
           n    == Len(frames)
<1>1. /\ n \in Nat /\ I \subseteq 0 .. n /\ start \in Nat
      /\ \A i \in I : i \in Nat /\ frames[i].time \in Nat
      /\ now \in Int
  <2>1. frames \in Seq(KeyFrame) /\ now \in Int
    BY DEF Asked, TypeInv
  <2>2. \A i \in I : frames[i].time \in Nat /\ i \in Nat
    BY <2>1, IndicesType
  <2>3. n \in Nat /\ I \subseteq 0 .. n
    BY <2>1, IndicesType
  <2>4. QED
    BY <2>1, <2>2, <2>3
<1>2. last = Greatest(rest)
  BY DEF LastIndex
<1>3. rest \subseteq 0 .. n /\ start \in rest
  BY <1>1
<1> HIDE DEF last, I, n
<1>4. last \in rest /\ \A i \in rest : i <= last
  <2> HIDE DEF rest
  <2> QED
    BY <1>1, <1>2, <1>3, GreatestIsGreatest
<1>5. last \in I /\ last >= start
  BY <1>1, <1>4
<1>6. \A i \in I : i <= last
  BY <1>1, <1>4, <1>5
<1>7. last = Greatest(I)
  BY <1>1, <1>5, <1>6, GreatestUnique
<1>8. frames[last].time <= now
  <2>1. CASE last = start
    BY <2>1
  <2>2. CASE last > start
    <3>1. ~IsAfter(frames[last].time, now)
      BY <1>5, <2>2 DEF Later, I
    <3>2. QED
      BY <1>1, <1>5, <3>1 DEF IsAfter
  <2>3. QED
    BY <1>1, <1>5, <2>1, <2>2
<1>9. QED
  BY <1>5, <1>7, <1>8 DEF last, I

\* A search that finds a later frame ends at the first of them.
LEMMA SearchNext ==
  ASSUME NEW u, NEW now, Asked(u, now), NEW start \in Indices(frames, u),
         Later(u, start, now) # {}
  PROVE  LET next == Least(Later(u, start, now))
         IN  /\ next \in Indices(frames, u)
             /\ next > start
             /\ frames[next].time >= now
             /\ \A i \in Later(u, start, now) : next <= i
<1>1. Later(u, start, now) \subseteq Nat
  BY IndicesType DEF Later, Asked, TypeInv
<1>2. /\ Least(Later(u, start, now)) \in Later(u, start, now)
      /\ \A i \in Later(u, start, now) : Least(Later(u, start, now)) <= i
  BY <1>1, LeastIsLeast
<1>3. QED
  BY <1>2 DEF Later, IsAfter

\* The three outcomes of a query about a UAV that is in the file.
LEMMA QueryOutcomes ==
  ASSUME NEW u, NEW now, Asked(u, now), AnswerSettled(u, now) \/ AnswerSearched(u, now)
  PROVE  /\ phase' = phase
         /\ \/ /\ Settled(state[u], now)
               /\ state' = state
               /\ answer' = Answer(u, now, Exact(PosAt(u, state[u].first)),
                                   state[u].first, state[u].first)
            \/ /\ ~Settled(state[u], now)
               /\ Later(u, StartIndex(state[u], now), now) = {}
               /\ LET last == LastIndex(u, StartIndex(state[u], now))
                  IN  /\ state' = [state EXCEPT ![u] = After(last)]
                      /\ answer' = Answer(u, now, Exact(PosAt(u, last)), last, last)
            \/ /\ ~Settled(state[u], now)
               /\ Later(u, StartIndex(state[u], now), now) # {}
               /\ LET start == StartIndex(state[u], now)
                      next  == Least(Later(u, start, now))
                  IN  /\ state' = [state EXCEPT ![u] = Interpolate(start, next)]
                      /\ answer' = Answer(u, now, Map(u, start, next, now), start, next)
<1>1. CASE AnswerSettled(u, now)
  BY <1>1 DEF AnswerSettled
<1>2. CASE AnswerSearched(u, now)
  <2> DEFINE start == StartIndex(state[u], now)
             later == {i \in Indices(frames, u) : i > start /\ IsAfter(frames[i].time, now)}
  <2>1. ~Settled(state[u], now)
    BY <1>2 DEF AnswerSearched
  <2>2. start \in Indices(frames, u) /\ frames[start].time <= now
    BY <2>1, SearchStart
  <2>3. u \in DOMAIN frames[start].inner
    BY <2>2 DEF Indices
  <2>4. later = Later(u, start, now)
    BY DEF Later
  <2>5. IF later = {}
        THEN /\ state' = [state EXCEPT ![u] = After(LastIndex(u, start))]
             /\ answer' = Answer(u, now, Exact(PosAt(u, LastIndex(u, start))),
                                 LastIndex(u, start), LastIndex(u, start))
             /\ UNCHANGED phase
        ELSE /\ state' = [state EXCEPT ![u] = Interpolate(start, Least(later))]
             /\ answer' = Answer(u, now, Map(u, start, Least(later), now), start, Least(later))
             /\ UNCHANGED phase
    BY <1>2, <2>2, <2>3 DEF AnswerSearched
  <2> HIDE DEF start, later
  <2>6. QED
    BY <2>1, <2>4, <2>5 DEF start
<1>3. QED
  BY <1>1, <1>2

-----------------------------------------------------------------------------
(* What is remembered stays valid. *)

\* A query is about a UAV that is in the file, or changes nothing it will use.
LEMMA QueryCases ==
  ASSUME TypeInv, StateValid, NEW u \in Uav, NEW now \in Time, pos_at_time(u, now)
  PROVE  /\ phase = "ready" /\ last_time <= now /\ last_time' = now
         /\ UNCHANGED parseVars
         /\ \/ Asked(u, now) /\ (AnswerSettled(u, now) \/ AnswerSearched(u, now))
            \/ UNCHANGED <<state, phase>> /\ answer' = NoAnswer
BY DEF pos_at_time, AnswerSettled, AnswerSearched, AnswerNone, Asked

\* The state of the UAV that is asked about, after the query.
LEMMA QueryState ==
  ASSUME NEW u, NEW now, Asked(u, now), AnswerSettled(u, now) \/ AnswerSearched(u, now)
  PROVE  \E s \in States :
           /\ state' = [state EXCEPT ![u] = s]
           /\ s.kind # "Unknown"
           /\ {s.first, s.second} \subseteq Indices(frames, u)
           /\ s.kind = "Before" => s.first = Least(Indices(frames, u))
           /\ s.kind = "Interpolate" => s.first < s.second /\ frames[s.first].time <= now
           /\ s.kind = "After" => /\ s.first = Greatest(Indices(frames, u))
                                  /\ frames[s.first].time <= now
<1> DEFINE start == StartIndex(state[u], now)
           last  == LastIndex(u, start)
           next  == Least(Later(u, start, now))
<1>1. /\ frames \in Seq(KeyFrame) /\ state \in [Uav -> States] /\ u \in Uav
      /\ now \in Nat /\ last_time \in Int /\ last_time <= now
  BY DEF Asked, TypeInv, None
<1>2. \A i \in Indices(frames, u) : i \in Nat /\ frames[i].time \in Nat
  BY <1>1, IndicesType
<1>3. CASE state' = state
  <2>1. state' = [state EXCEPT ![u] = state[u]]
    BY <1>1, <1>3
  <2>2. /\ state[u] \in States /\ state[u].kind # "Unknown"
        /\ {state[u].first, state[u].second} \subseteq Indices(frames, u)
        /\ state[u].kind = "Before" => state[u].first = Least(Indices(frames, u))
        /\ state[u].kind = "Interpolate" => /\ state[u].first < state[u].second
                                            /\ frames[state[u].first].time <= last_time
        /\ state[u].kind = "After" => /\ state[u].first = Greatest(Indices(frames, u))
                                      /\ frames[state[u].first].time <= last_time
    BY DEF Asked, TypeInv, StateValid
  <2>3. frames[state[u].first].time <= last_time => frames[state[u].first].time <= now
    BY <1>1, <1>2, <2>2
  <2>4. QED
    BY <2>1, <2>2, <2>3
<1>4. CASE /\ ~Settled(state[u], now)
           /\ Later(u, start, now) = {}
           /\ state' = [state EXCEPT ![u] = After(last)]
  <2>1. start \in Indices(frames, u) /\ frames[start].time <= now
    BY <1>4, SearchStart
  <2>2. /\ last \in Indices(frames, u)
        /\ last = Greatest(Indices(frames, u)) /\ frames[last].time <= now
    BY <1>4, <2>1, SearchLast
  <2> HIDE DEF last
  <2>3. After(last) \in States
    BY <1>2, <2>2 DEF After, States
  <2>4. QED
    BY <1>4, <2>2, <2>3 DEF After
<1>5. CASE /\ ~Settled(state[u], now)
           /\ Later(u, start, now) # {}
           /\ state' = [state EXCEPT ![u] = Interpolate(start, next)]
  <2>1. start \in Indices(frames, u) /\ frames[start].time <= now
    BY <1>5, SearchStart
  <2>2. next \in Indices(frames, u) /\ next > start
    BY <1>5, <2>1, SearchNext
  <2> HIDE DEF start, next
  <2>3. Interpolate(start, next) \in States /\ start < next
    BY <1>2, <2>1, <2>2 DEF Interpolate, States
  <2>4. QED
    BY <1>5, <2>1, <2>2, <2>3 DEF Interpolate
<1>6. QED
  BY <1>3, <1>4, <1>5, QueryOutcomes

\* Every step keeps the types.
LEMMA TypeStep ==
  ASSUME TypeInv, StateValid, [Next]_vars
  PROVE  TypeInv'
<1>1. CASE ParsePosition
  <2> DEFINE l == file[line]
  <2>1. l.time \in Time /\ l.ip \in Uav /\ l.pos \in Coord
    BY <1>1, LineType DEF ParsePosition
  <2>2. Collected(l.time) \in Maps
    BY EmptyMapType DEF Collected, TypeInv
  <2>3. inner_map' \in Maps
    BY <1>1, <2>1, <2>2, InsertType DEF ParsePosition
  <2>4. frames' \in Seq(KeyFrame)
    BY <1>1, FrameType DEF ParsePosition, FrameEnds, TypeInv
  <2>5. line' \in Nat \ {0} /\ last_line' \in Time \cup {None}
    BY <1>1, <2>1 DEF ParsePosition, TypeInv
  <2>6. QED
    BY <1>1, <2>3, <2>4, <2>5 DEF ParsePosition, TypeInv, queryVars
<1>2. CASE ParseColor
  BY <1>2 DEF ParseColor, TypeInv, queryVars
<1>3. CASE FinishParse
  <2>1. frames' \in Seq(KeyFrame)
    BY <1>3, FrameType DEF FinishParse, TypeInv
  <2>2. ASSUME NEW u \in Uav, Indices(frames', u) # {}
        PROVE  Before(Least(Indices(frames', u))) \in States
    <3>1. Indices(frames', u) \subseteq Nat
      BY <2>1, IndicesType
    <3>2. Least(Indices(frames', u)) \in Nat
      BY <2>2, <3>1, LeastIsLeast
    <3>3. QED
      BY <3>2 DEF Before, States
  <2>3. Unknown \in States
    BY DEF Unknown, States
  <2>4. state' \in [Uav -> States]
    BY <1>3, <2>2, <2>3 DEF FinishParse
  <2>5. phase' \in {"ready", "panicked"}
    BY <1>3 DEF FinishParse
  <2>6. QED
    BY <1>3, <2>1, <2>4, <2>5, EmptyMapType DEF FinishParse, TypeInv
<1>4. ASSUME NEW u \in Uav, NEW now \in Time, pos_at_time(u, now)
      PROVE  TypeInv'
  <2>1. UNCHANGED parseVars /\ last_time' = now /\ phase = "ready"
    BY <1>4, QueryCases
  <2>2. phase' = phase /\ state' \in [Uav -> States]
    <3>1. CASE Asked(u, now) /\ (AnswerSettled(u, now) \/ AnswerSearched(u, now))
      <4>1. PICK s \in States : state' = [state EXCEPT ![u] = s]
        BY <3>1, QueryState
      <4>2. QED
        BY <3>1, <4>1, QueryOutcomes DEF TypeInv
    <3>2. CASE UNCHANGED <<state, phase>>
      BY <3>2 DEF TypeInv
    <3>3. QED
      BY <1>4, <3>1, <3>2, QueryCases
  <2>3. QED
    BY <2>1, <2>2 DEF TypeInv, parseVars
<1>5. CASE UNCHANGED vars
  BY <1>5 DEF TypeInv, vars, parseVars, queryVars
<1>6. QED
  BY <1>1, <1>2, <1>3, <1>4, <1>5 DEF Next

\* Every step keeps the remembered indices on frames of their UAV.
LEMMA StateValidStep ==
  ASSUME TypeInv, StateValid, [Next]_vars
  PROVE  StateValid'
<1>1. CASE ParsePosition \/ ParseColor
  BY <1>1 DEF ParsePosition, ParseColor, StateValid
<1>2. CASE FinishParse
  <2>1. frames' \in Seq(KeyFrame)
    BY TypeStep DEF TypeInv
  <2>2. \A u \in Uav : Indices(frames', u) # {} =>
          Least(Indices(frames', u)) \in Indices(frames', u)
    <3> SUFFICES ASSUME NEW u \in Uav, Indices(frames', u) # {}
                 PROVE  Least(Indices(frames', u)) \in Indices(frames', u)
      OBVIOUS
    <3>1. Indices(frames', u) \subseteq Nat
      BY <2>1, IndicesType
    <3>2. QED
      BY <3>1, LeastIsLeast
  <2>3. \A u \in Uav : state'[u] = IF Indices(frames', u) = {} THEN Unknown
                                   ELSE Before(Least(Indices(frames', u)))
    BY <1>2 DEF FinishParse
  <2>4. ASSUME NEW u \in Uav
        PROVE  LET s == state'[u]
               IN  /\ s.kind = "Unknown" <=> Indices(frames', u) = {}
                   /\ s.kind # "Unknown" => {s.first, s.second} \subseteq Indices(frames', u)
                   /\ s.kind = "Before" => s.first = Least(Indices(frames', u))
                   /\ s.kind \notin {"Interpolate", "After"}
    <3>1. CASE Indices(frames', u) = {}
      BY <2>3, <3>1 DEF Unknown
    <3>2. CASE Indices(frames', u) # {}
      <4> DEFINE i == Least(Indices(frames', u))
      <4>1. i \in Indices(frames', u)
        BY <2>2, <3>2
      <4>2. state'[u] = Before(i)
        BY <2>3, <3>2
      <4> HIDE DEF i
      <4>3. state'[u].kind = "Before" /\ state'[u].first = i /\ state'[u].second = i
        BY <4>2 DEF Before
      <4>4. QED
        BY <3>2, <4>1, <4>3 DEF i
    <3>3. QED
      BY <3>1, <3>2
  <2>5. QED
    BY <2>4 DEF StateValid
<1>3. ASSUME NEW u \in Uav, NEW now \in Time, pos_at_time(u, now)
      PROVE  StateValid'
  <2>1. /\ UNCHANGED parseVars
        /\ phase = "ready" /\ last_time' = now /\ last_time <= now
    BY <1>3, QueryCases
  <2>2. /\ last_time \in Int /\ now \in Nat /\ frames \in Seq(KeyFrame)
        /\ state \in [Uav -> States]
    BY DEF TypeInv, None
  <2> DEFINE Valid(v, s, t) ==
        /\ s.kind = "Unknown" <=> Indices(frames, v) = {}
        /\ s.kind # "Unknown" => {s.first, s.second} \subseteq Indices(frames, v)
        /\ s.kind = "Before" => s.first = Least(Indices(frames, v))
        /\ s.kind = "Interpolate" => s.first < s.second /\ frames[s.first].time <= t
        /\ s.kind = "After" => /\ s.first = Greatest(Indices(frames, v))
                               /\ frames[s.first].time <= t
  <2>3. ASSUME NEW v \in Uav PROVE Valid(v, state[v], now)
    <3>1. Valid(v, state[v], last_time)
      BY <2>1 DEF StateValid
    <3>2. \A i \in Indices(frames, v) : frames[i].time \in Nat
      BY <2>2, IndicesType
    <3>3. QED
      BY <2>1, <2>2, <3>1, <3>2
  <2>4. \A v \in Uav : Valid(v, state'[v], now)
    <3>1. CASE Asked(u, now) /\ (AnswerSettled(u, now) \/ AnswerSearched(u, now))
      <4>1. PICK s \in States :
              /\ state' = [state EXCEPT ![u] = s]
              /\ s.kind # "Unknown"
              /\ {s.first, s.second} \subseteq Indices(frames, u)
              /\ s.kind = "Before" => s.first = Least(Indices(frames, u))
              /\ s.kind = "Interpolate" => s.first < s.second /\ frames[s.first].time <= now
              /\ s.kind = "After" => /\ s.first = Greatest(Indices(frames, u))
                                     /\ frames[s.first].time <= now
        BY <3>1, QueryState
      <4>2. Valid(u, s, now)
        BY <4>1
      <4>3. \A v \in Uav : state'[v] = IF v = u THEN s ELSE state[v]
        BY <2>2, <4>1
      <4> HIDE DEF Valid
      <4>4. QED
        BY <2>3, <4>2, <4>3
    <3>2. CASE UNCHANGED state
      BY <2>3, <3>2
    <3>3. QED
      BY <1>3, <3>1, <3>2, QueryCases
  <2>5. QED
    BY <2>1, <2>4 DEF StateValid, parseVars
<1>4. CASE UNCHANGED vars
  BY <1>4 DEF StateValid, vars, parseVars, queryVars
<1>5. QED
  BY <1>1, <1>2, <1>3, <1>4 DEF Next

\* Nothing is remembered before the first question.
LEMMA StateValidInit == Init => StateValid
BY DEF Init, StateValid

\* The two hold together.
LEMMA StateInvariant == Spec => [](TypeInv /\ StateValid)
<1>1. TypeInv /\ StateValid /\ [Next]_vars => TypeInv' /\ StateValid'
  BY TypeStep, StateValidStep
<1>2. QED
  BY <1>1, TypeInit, StateValidInit, PTL DEF Spec

\* Whatever is asked, in whatever order of the UAVs, the frames remembered for
\* a UAV exist, hold it, and the first is not after the last query: the
\* indices pos_at_time keeps across calls never go stale.
THEOREM RememberedFramesValid == Spec => []StateValid
BY StateInvariant, PTL

-----------------------------------------------------------------------------
(***************************************************************************)
(* The frames are the file.  At every point of the loop in parse, the      *)
(* frames pushed so far and the one being collected hold exactly the       *)
(* position lines read so far.                                             *)
(***************************************************************************)
ReadLines(f, n) == {i \in FirstLine .. n : i <= Len(f) /\ f[i].kind = "pos"}

\* No line in L after line i has the same time and UAV.
LastOfItsKey(f, L, i) ==
  \A j \in L : j > i => f[j].time # f[i].time \/ f[j].ip # f[i].ip

Holds(fs, f, L) ==
  /\ \A i \in L : \E k \in 1 .. Len(fs) :
       /\ fs[k].time = f[i].time
       /\ f[i].ip \in DOMAIN fs[k].inner
       /\ LastOfItsKey(f, L, i) => fs[k].inner[f[i].ip] = f[i].pos
  /\ \A k \in 1 .. Len(fs) : \A u \in DOMAIN fs[k].inner : \E i \in L :
       f[i] = [kind |-> "pos", time |-> fs[k].time, ip |-> u, pos |-> fs[k].inner[u]]

\* The frames, with the one being collected.
Collecting ==
  IF last_line = None THEN frames ELSE Append(frames, Frame(last_line, inner_map))

ParseInv ==
  /\ phase = "parsing" =>
       /\ line >= FirstLine
       /\ last_line = None => inner_map = EmptyMap /\ frames = <<>>
       /\ last_line = None => ReadLines(file, line - 1) = {}
       /\ Holds(Collecting, file, ReadLines(file, line - 1))
  /\ phase # "parsing" => Holds(frames, file, PosLines)
  /\ phase = "panicked" => PosLines = {}

\* Frames gs that differ from frames fs only in the entry of line n, the next
\* one to be read, hold that line as well.
LEMMA HoldsMore ==
  ASSUME NEW fs, NEW gs, NEW f, NEW n, NEW L, NEW k0 \in 1 .. Len(gs),
         L \subseteq Int, n \in Int, \A i \in L : i < n,
         f[n] \in Line, f[n].kind = "pos",
         gs[k0].time = f[n].time, f[n].ip \in DOMAIN gs[k0].inner,
         gs[k0].inner[f[n].ip] = f[n].pos,
         \A k \in 1 .. Len(fs) :
           /\ k \in 1 .. Len(gs) /\ gs[k].time = fs[k].time
           /\ \A u \in DOMAIN fs[k].inner :
                /\ u \in DOMAIN gs[k].inner
                /\ \/ gs[k].inner[u] = fs[k].inner[u]
                   \/ fs[k].time = f[n].time /\ u = f[n].ip,
         \A k \in 1 .. Len(gs) : \A u \in DOMAIN gs[k].inner :
           \/ k = k0 /\ u = f[n].ip
           \/ /\ k \in 1 .. Len(fs) /\ u \in DOMAIN fs[k].inner
              /\ gs[k].inner[u] = fs[k].inner[u],
         Holds(fs, f, L)
  PROVE  Holds(gs, f, L \cup {n})
<1>1. ASSUME NEW i \in L \cup {n}
      PROVE  \E k \in 1 .. Len(gs) :
               /\ gs[k].time = f[i].time
               /\ f[i].ip \in DOMAIN gs[k].inner
               /\ LastOfItsKey(f, L \cup {n}, i) => gs[k].inner[f[i].ip] = f[i].pos
  <2>1. CASE i = n
    BY <2>1
  <2>2. CASE i \in L
    <3>1. PICK k \in 1 .. Len(fs) :
            /\ fs[k].time = f[i].time
            /\ f[i].ip \in DOMAIN fs[k].inner
            /\ LastOfItsKey(f, L, i) => fs[k].inner[f[i].ip] = f[i].pos
      BY <2>2 DEF Holds
    <3>2. n > i
      BY <2>2
    <3>3. LastOfItsKey(f, L \cup {n}, i) =>
            LastOfItsKey(f, L, i) /\ (f[n].time # f[i].time \/ f[n].ip # f[i].ip)
      BY <3>2 DEF LastOfItsKey
    <3>4. QED
      BY <3>1, <3>3
  <2>3. QED
    BY <2>1, <2>2
<1>2. ASSUME NEW k \in 1 .. Len(gs), NEW u \in DOMAIN gs[k].inner
      PROVE  \E i \in L \cup {n} :
               f[i] = [kind |-> "pos", time |-> gs[k].time, ip |-> u, pos |-> gs[k].inner[u]]
  <2>1. CASE k = k0 /\ u = f[n].ip
    <3>1. f[n] = [kind |-> "pos", time |-> f[n].time, ip |-> f[n].ip, pos |-> f[n].pos]
      BY DEF Line
    <3>2. QED
      BY <2>1, <3>1
  <2>2. CASE /\ k \in 1 .. Len(fs) /\ u \in DOMAIN fs[k].inner
             /\ gs[k].inner[u] = fs[k].inner[u]
    <3>1. PICK i \in L : f[i] = [kind |-> "pos", time |-> fs[k].time, ip |-> u,
                                 pos |-> fs[k].inner[u]]
      BY <2>2 DEF Holds
    <3>2. QED
      BY <2>2, <3>1
  <2>3. QED
    BY <2>1, <2>2
<1>3. QED
  BY <1>1, <1>2 DEF Holds

\* The first line of a frame.
LEMMA HoldsNewFrame ==
  ASSUME NEW fs \in Seq(KeyFrame), NEW f, NEW n \in Int, NEW L \in SUBSET Int,
         \A i \in L : i < n, f[n] \in Line, f[n].kind = "pos", Holds(fs, f, L)
  PROVE  Holds(Append(fs, Frame(f[n].time, Insert(EmptyMap, f[n].ip, f[n].pos))), f, L \cup {n})
<1> DEFINE m  == Insert(EmptyMap, f[n].ip, f[n].pos)
           gs == Append(fs, Frame(f[n].time, m))
           k0 == Len(fs) + 1
<1>1. f[n].time \in Time /\ f[n].ip \in Uav /\ f[n].pos \in Coord
  BY DEF Line
<1>2. m \in Maps /\ DOMAIN m = {f[n].ip} /\ m[f[n].ip] = f[n].pos
  <2>1. \A u \in Uav, p \in Coord : /\ Insert(EmptyMap, u, p) \in Maps
                                     /\ DOMAIN Insert(EmptyMap, u, p) = {u}
                                     /\ Insert(EmptyMap, u, p)[u] = p
    BY EmptyMapType, InsertType, ZenonT(40)
  <2>2. QED
    BY <1>1, <2>1
<1> HIDE DEF m
<1>3. /\ Len(fs) \in Nat /\ Len(gs) = Len(fs) + 1
      /\ gs[k0] = Frame(f[n].time, m)
      /\ \A k \in 1 .. Len(fs) : gs[k] = fs[k]
  OBVIOUS
<1>4. gs[k0].time = f[n].time /\ gs[k0].inner = m
  BY <1>3 DEF Frame
<1> HIDE DEF gs
<1>5. \A k \in 1 .. Len(gs) : k \in 1 .. Len(fs) \/ k = k0
  BY <1>3
<1>6. k0 \in 1 .. Len(gs) /\ \A k \in 1 .. Len(fs) : k \in 1 .. Len(gs)
  BY <1>3
<1>7. Holds(gs, f, L \cup {n})
  <2> HIDE DEF k0
  <2>1. \A k \in 1 .. Len(fs) :
           /\ k \in 1 .. Len(gs) /\ gs[k].time = fs[k].time
           /\ \A u \in DOMAIN fs[k].inner :
                /\ u \in DOMAIN gs[k].inner
                /\ \/ gs[k].inner[u] = fs[k].inner[u]
                   \/ fs[k].time = f[n].time /\ u = f[n].ip
    BY <1>3, <1>6
  <2>2. \A k \in 1 .. Len(gs) : \A u \in DOMAIN gs[k].inner :
           \/ k = k0 /\ u = f[n].ip
           \/ /\ k \in 1 .. Len(fs) /\ u \in DOMAIN fs[k].inner
              /\ gs[k].inner[u] = fs[k].inner[u]
    BY <1>2, <1>3, <1>4, <1>5
  <2>3. f[n].ip \in DOMAIN gs[k0].inner /\ gs[k0].inner[f[n].ip] = f[n].pos
    BY <1>2, <1>4
  <2>4. L \subseteq Int /\ n \in Int
    OBVIOUS
  <2>5. QED
    BY <1>4, <1>6, <2>1, <2>2, <2>3, <2>4, HoldsMore
<1>8. QED
  BY <1>7 DEF gs, m

\* A further line of the frame being collected.
LEMMA HoldsSameFrame ==
  ASSUME NEW done \in Seq(KeyFrame), NEW m \in Maps, NEW f, NEW n \in Int, NEW L \in SUBSET Int,
         \A i \in L : i < n, f[n] \in Line, f[n].kind = "pos",
         Holds(Append(done, Frame(f[n].time, m)), f, L)
  PROVE  Holds(Append(done, Frame(f[n].time, Insert(m, f[n].ip, f[n].pos))), f, L \cup {n})
<1> DEFINE m2 == Insert(m, f[n].ip, f[n].pos)
           fs == Append(done, Frame(f[n].time, m))
           gs == Append(done, Frame(f[n].time, m2))
           k0 == Len(done) + 1
<1>1. f[n].time \in Time /\ f[n].ip \in Uav /\ f[n].pos \in Coord
  BY DEF Line
<1>2. /\ m2 \in Maps /\ DOMAIN m2 = DOMAIN m \cup {f[n].ip} /\ m2[f[n].ip] = f[n].pos
      /\ \A u \in DOMAIN m : u # f[n].ip => m2[u] = m[u]
  <2>1. \A u \in Uav, p \in Coord :
          /\ Insert(m, u, p) \in Maps
          /\ DOMAIN Insert(m, u, p) = DOMAIN m \cup {u}
          /\ Insert(m, u, p)[u] = p
          /\ \A v \in DOMAIN m : v # u => Insert(m, u, p)[v] = m[v]
    BY InsertType
  <2>2. QED
    BY <1>1, <2>1
<1> HIDE DEF m2
<1>3. /\ Len(done) \in Nat /\ Len(gs) = k0 /\ Len(fs) = k0
      /\ gs[k0] = Frame(f[n].time, m2)
      /\ fs[k0] = Frame(f[n].time, m)
      /\ \A k \in 1 .. Len(done) : gs[k] = done[k] /\ fs[k] = done[k]
  OBVIOUS
<1>4. /\ gs[k0].time = f[n].time /\ gs[k0].inner = m2
      /\ fs[k0].time = f[n].time /\ fs[k0].inner = m
  BY <1>3 DEF Frame
<1>5. Holds(fs, f, L)
  OBVIOUS
<1> HIDE DEF gs, fs
<1>6. /\ k0 \in 1 .. Len(gs)
      /\ \A k \in 1 .. Len(fs) : k \in 1 .. Len(gs)
      /\ \A k \in 1 .. Len(gs) : k \in 1 .. Len(fs)
      /\ \A k \in 1 .. Len(gs) : k = k0 \/ gs[k] = fs[k]
  BY <1>3
<1>7. Holds(gs, f, L \cup {n})
  <2> HIDE DEF k0
  <2>1. \A k \in 1 .. Len(fs) :
           /\ k \in 1 .. Len(gs) /\ gs[k].time = fs[k].time
           /\ \A u \in DOMAIN fs[k].inner :
                /\ u \in DOMAIN gs[k].inner
                /\ \/ gs[k].inner[u] = fs[k].inner[u]
                   \/ fs[k].time = f[n].time /\ u = f[n].ip
    BY <1>2, <1>4, <1>6
  <2>2. \A k \in 1 .. Len(gs) : \A u \in DOMAIN gs[k].inner :
           \/ k = k0 /\ u = f[n].ip
           \/ /\ k \in 1 .. Len(fs) /\ u \in DOMAIN fs[k].inner
              /\ gs[k].inner[u] = fs[k].inner[u]
    BY <1>2, <1>4, <1>6
  <2>3. QED
    BY <1>2, <1>4, <1>5, <1>6, <2>1, <2>2, HoldsMore
<1>8. QED
  BY <1>7 DEF gs, m2

\* The lines read once another line has been looked at.
LEMMA ReadMore ==
  ASSUME TypeInv, line >= FirstLine, line <= Len(file)
  PROVE  /\ ReadLines(file, line - 1) \in SUBSET Int
         /\ \A i \in ReadLines(file, line - 1) : i < line
         /\ file[line].kind = "pos" =>
              ReadLines(file, line) = ReadLines(file, line - 1) \cup {line}
         /\ file[line].kind # "pos" => ReadLines(file, line) = ReadLines(file, line - 1)
<1>1. line \in Nat /\ FirstLine \in Nat /\ file \in Seq(Line) /\ Len(file) \in Nat
  BY DEF TypeInv, FirstLine
<1>2. \A i \in FirstLine .. line - 1 : i \in Int /\ i < line
  BY <1>1
<1>3. \A i : i \in FirstLine .. line <=> i \in FirstLine .. line - 1 \/ i = line
  BY <1>1
<1>4. QED
  BY <1>1, <1>2, <1>3 DEF ReadLines

\* No line has been read.
LEMMA ParseInit == Init => ParseInv
<1> SUFFICES ASSUME Init PROVE ParseInv
  OBVIOUS
<1>1. ReadLines(file, line - 1) = {}
  <2>1. FirstLine \in Nat
    BY DEF FirstLine
  <2>2. QED
    BY <2>1 DEF Init, ReadLines
<1>2. Collecting = <<>>
  BY DEF Init, Collecting
<1>3. Holds(<<>>, file, {})
  BY DEF Holds
<1>4. line >= FirstLine
  BY DEF Init, FirstLine
<1>5. QED
  BY <1>1, <1>2, <1>3, <1>4 DEF Init, ParseInv

\* Reading a line adds its frame; a question adds none.
LEMMA ParseStep ==
  ASSUME TypeInv, StateValid, ParseInv, [Next]_vars
  PROVE  ParseInv'
<1>1. CASE ParsePosition
  <2> DEFINE l == file[line]
             L == ReadLines(file, line - 1)
  <2>0. /\ phase = "parsing" /\ phase' = "parsing"
        /\ line <= Len(file) /\ line' = line + 1 /\ file' = file
        /\ l.kind = "pos" /\ last_line' = l.time
        /\ line \in Int /\ FirstLine \in Int
        /\ line >= FirstLine
    BY <1>1 DEF ParsePosition, TypeInv, ParseInv, FirstLine
  <2>1. l \in Line /\ l.time \in Time /\ l.time # None
    BY <2>0, LineType DEF None
  <2>2. /\ L \in SUBSET Int /\ \A i \in L : i < line
        /\ ReadLines(file', line' - 1) = L \cup {line}
    <3>1. line' - 1 = line
      BY <2>0
    <3>2. QED
      BY <2>0, <3>1, ReadMore
  <2>3. Holds(Collecting, file, L)
    BY <2>0 DEF ParseInv
  <2>4. frames \in Seq(KeyFrame) /\ inner_map \in Maps /\ Collecting \in Seq(KeyFrame)
    BY FrameType DEF TypeInv, Collecting
  <2>5. Collecting' = Append(frames', Frame(l.time, inner_map'))
    BY <2>0, <2>1 DEF Collecting
  <2>6. Holds(Collecting', file, L \cup {line})
    <3>1. CASE FrameEnds(l.time)
      <4>1. frames' = Collecting /\ inner_map' = Insert(EmptyMap, l.ip, l.pos)
        BY <1>1, <3>1 DEF ParsePosition, FrameEnds, Collected, Collecting
      <4>2. QED
        BY <2>0, <2>1, <2>2, <2>3, <2>4, <2>5, <4>1, HoldsNewFrame
    <3>2. CASE last_line = None
      <4>1. Collecting = frames /\ inner_map = EmptyMap
        BY <2>0, <3>2 DEF Collecting, ParseInv
      <4>2. frames' = Collecting /\ inner_map' = Insert(EmptyMap, l.ip, l.pos)
        BY <1>1, <3>2, <4>1 DEF ParsePosition, FrameEnds, Collected
      <4>3. QED
        BY <2>0, <2>1, <2>2, <2>3, <2>4, <2>5, <4>2, HoldsNewFrame
    <3>3. CASE last_line = l.time
      <4>1. Collecting = Append(frames, Frame(l.time, inner_map))
        BY <2>1, <3>3 DEF Collecting
      <4>2. frames' = frames /\ inner_map' = Insert(inner_map, l.ip, l.pos)
        BY <1>1, <3>3 DEF ParsePosition, FrameEnds, Collected
      <4>3. QED
        BY <2>0, <2>1, <2>2, <2>3, <2>4, <2>5, <4>1, <4>2, HoldsSameFrame
    <3>4. QED
      BY <3>1, <3>2, <3>3 DEF FrameEnds
  <2>7. line' >= FirstLine /\ last_line' # None
    BY <2>0, <2>1
  <2>8. QED
    BY <2>0, <2>2, <2>6, <2>7 DEF ParseInv
<1>2. CASE ParseColor
  <2>0. /\ phase = "parsing" /\ phase' = "parsing"
        /\ line <= Len(file) /\ line' = line + 1 /\ file[line].kind # "pos"
        /\ UNCHANGED <<file, inner_map, last_line, frames>>
        /\ line \in Int /\ FirstLine \in Int /\ line >= FirstLine
    BY <1>2 DEF ParseColor, TypeInv, ParseInv, FirstLine
  <2>1. ReadLines(file', line' - 1) = ReadLines(file, line - 1)
    <3>1. line' - 1 = line
      BY <2>0
    <3>2. QED
      BY <2>0, <3>1, ReadMore
  <2>2. Collecting' = Collecting
    BY <2>0 DEF Collecting
  <2>3. line' >= FirstLine
    BY <2>0
  <2>4. QED
    BY <2>0, <2>1, <2>2, <2>3 DEF ParseInv
<1>3. CASE FinishParse
  <2>0. /\ phase = "parsing" /\ phase' \in {"ready", "panicked"}
        /\ line > Len(file) /\ file' = file
        /\ frames' = Collecting
        /\ phase' = "panicked" => frames' = <<>>
    BY <1>3 DEF FinishParse, Collecting
  <2>1. ReadLines(file, line - 1) = PosLines
    <3>1. line \in Int /\ FirstLine \in Int /\ Len(file) \in Nat
      BY DEF TypeInv, FirstLine
    <3>2. \A i : i \in FirstLine .. line - 1 /\ i <= Len(file) <=> i \in FirstLine .. Len(file)
      BY <2>0, <3>1
    <3>3. QED
      BY <3>2 DEF ReadLines, PosLines
  <2>2. Holds(frames', file, PosLines)
    BY <2>0, <2>1 DEF ParseInv
  <2>3. PosLines' = PosLines
    BY <2>0 DEF PosLines
  <2>4. phase' = "panicked" => PosLines = {}
    <3>1. frames' = <<>> => PosLines = {}
      BY <2>2 DEF Holds
    <3>2. QED
      BY <2>0, <3>1
  <2>5. QED
    BY <2>0, <2>2, <2>3, <2>4 DEF ParseInv
<1>4. ASSUME NEW u \in Uav, NEW now \in Time, pos_at_time(u, now)
      PROVE  ParseInv'
  <2>1. UNCHANGED parseVars /\ phase = "ready" /\ phase' = phase
    <3>1. UNCHANGED parseVars /\ phase = "ready"
      BY <1>4, QueryCases
    <3>2. CASE Asked(u, now) /\ (AnswerSettled(u, now) \/ AnswerSearched(u, now))
      BY <3>1, <3>2, QueryOutcomes
    <3>3. CASE UNCHANGED <<state, phase>>
      BY <3>1, <3>3
    <3>4. QED
      BY <1>4, <3>2, <3>3, QueryCases
  <2>2. PosLines' = PosLines
    BY <2>1 DEF PosLines, parseVars
  <2>3. QED
    BY <2>1, <2>2 DEF ParseInv, parseVars
<1>5. CASE UNCHANGED vars
  BY <1>5 DEF ParseInv, vars, parseVars, queryVars, PosLines, Collecting
<1>6. QED
  BY <1>1, <1>2, <1>3, <1>4, <1>5 DEF Next

\* The frames are those of the lines read so far.
LEMMA ParseInvariant == Spec => []ParseInv
<1>1. TypeInv /\ StateValid /\ ParseInv /\ [Next]_vars => ParseInv'
  BY ParseStep
<1>2. QED
  BY <1>1, ParseInit, StateInvariant, PTL DEF Spec

\* Parsing loses no position line, keeps the last of several for the same UAV
\* and time, and invents none: std::mem::take hands over each frame once.
THEOREM FramesHoldFile == Spec => []FramesAreFile
<1>1. ParseInv => FramesAreFile
  BY DEF ParseInv, FramesAreFile, Holds, LastOfItsKey
<1>2. QED
  BY <1>1, ParseInvariant, PTL

\* No unwrap, index or assertion of parse and pos_at_time fails on a file that
\* has a position, whatever is asked for at times that do not decrease.
THEOREM ParserNeverPanics == Spec => []NoPanic
<1>1. ParseInv => NoPanic
  BY DEF ParseInv, NoPanic
<1>2. QED
  BY <1>1, ParseInvariant, PTL

-----------------------------------------------------------------------------
(* The answers. *)

\* Until the file is parsed nothing has been answered, and then the frames no
\* longer change.
LEMMA AnswerSteps ==
  ASSUME TypeInv, StateValid, [Next]_vars
  PROVE  \/ answer' = NoAnswer
         \/ UNCHANGED <<answer, frames>>
         \/ \E u \in Uav, now \in Time :
              /\ Asked(u, now) /\ (AnswerSettled(u, now) \/ AnswerSearched(u, now))
              /\ UNCHANGED <<file, frames>>
<1>1. CASE ParsePosition \/ ParseColor \/ FinishParse
  BY <1>1 DEF ParsePosition, ParseColor, FinishParse, TypeInv, queryVars
<1>2. ASSUME NEW u \in Uav, NEW now \in Time, pos_at_time(u, now)
      PROVE  \/ answer' = NoAnswer
             \/ /\ Asked(u, now) /\ (AnswerSettled(u, now) \/ AnswerSearched(u, now))
                /\ UNCHANGED <<file, frames>>
  BY <1>2, QueryCases DEF parseVars
<1>3. CASE UNCHANGED vars
  BY <1>3 DEF vars, parseVars, queryVars
<1>4. QED
  BY <1>1, <1>2, <1>3 DEF Next

-----------------------------------------------------------------------------
(***************************************************************************)
(* Exact answers, for files whose lines are in the order of time, as the   *)
(* simulation writes them.                                                 *)
(***************************************************************************)
SortedFiles ==
  \A f \in Files : \A i, j \in 1 .. Len(f) :
    i <= j /\ f[i].kind = "pos" /\ f[j].kind = "pos" => f[i].time <= f[j].time

FramesInOrder ==
  /\ \A i, j \in 1 .. Len(frames) : i < j => frames[i].time < frames[j].time
  /\ phase = "parsing" => \A i \in 1 .. Len(frames) : frames[i].time < last_line
  /\ phase = "parsing" /\ last_line # None =>
       \E i \in 1 .. Len(file) : i < line /\ file[i].kind = "pos" /\ file[i].time = last_line

\* Times are numbers, and so is the mark for no time.
LEMMA TimeType ==
  /\ \A t \in Time : t \in Nat
  /\ \A t \in Time \cup {None} : t \in Int
BY DEF None

\* The time of a frame is a number.
LEMMA FrameTime == \A h \in KeyFrame : h.time \in Int
<1>1. \A h \in KeyFrame : h.time \in Time
  BY DEF KeyFrame
<1>2. \A t \in Time : t \in Int
  OBVIOUS
<1>3. QED
  BY <1>1, <1>2, Zenon

\* A frame later than all others goes to the end.
LEMMA OrderedAppend ==
  ASSUME NEW fs \in Seq(KeyFrame), NEW g \in KeyFrame, NEW t \in Int,
         \A i, j \in 1 .. Len(fs) : i < j => fs[i].time < fs[j].time,
         \A i \in 1 .. Len(fs) : fs[i].time < g.time,
         g.time < t
  PROVE  LET gs == Append(fs, g)
         IN  /\ \A i, j \in 1 .. Len(gs) : i < j => gs[i].time < gs[j].time
             /\ \A i \in 1 .. Len(gs) : gs[i].time < t
<1> DEFINE gs == Append(fs, g)
<1>1. /\ Len(fs) \in Nat /\ Len(gs) = Len(fs) + 1
      /\ \A i \in 1 .. Len(fs) : gs[i] = fs[i] /\ gs[i] \in KeyFrame
      /\ gs[Len(fs) + 1] = g
  OBVIOUS
<1>2. \A h \in KeyFrame : h.time \in Int
  BY FrameTime
<1> HIDE DEF gs
<1>3. \A i \in 1 .. Len(gs) : i \in 1 .. Len(fs) \/ i = Len(fs) + 1
  BY <1>1
<1>4. \A i \in 1 .. Len(gs) : gs[i].time < t
  <2> SUFFICES ASSUME NEW i \in 1 .. Len(gs) PROVE gs[i].time < t
    OBVIOUS
  <2>1. CASE i \in 1 .. Len(fs)
    <3>1. gs[i].time \in Int /\ g.time \in Int /\ gs[i].time < g.time
      BY <1>1, <1>2, <2>1
    <3>2. QED
      BY <3>1
  <2>2. QED
    BY <1>1, <1>3, <2>1
<1>5. \A i, j \in 1 .. Len(gs) : i < j => gs[i].time < gs[j].time
  <2> SUFFICES ASSUME NEW i \in 1 .. Len(gs), NEW j \in 1 .. Len(gs), i < j
               PROVE  gs[i].time < gs[j].time
    OBVIOUS
  <2>1. i \in 1 .. Len(fs)
    BY <1>1, <1>3
  <2>2. QED
    BY <1>1, <1>3, <2>1
<1>6. QED
  BY <1>4, <1>5 DEF gs

\* A sorted file appends each frame after the earlier ones of its UAV.
LEMMA InOrderStep ==
  ASSUME SortedFiles, TypeInv, StateValid, ParseInv, FramesInOrder, [Next]_vars
  PROVE  FramesInOrder'
<1>1. CASE ParsePosition
  <2> DEFINE l == file[line]
  <2>0. /\ phase = "parsing" /\ phase' = "parsing"
        /\ line <= Len(file) /\ line' = line + 1 /\ file' = file
        /\ l.kind = "pos" /\ last_line' = l.time
    BY <1>1 DEF ParsePosition
  <2>10. line \in Nat /\ last_line \in Int
    BY DEF TypeInv, None
  <2>1. line \in 1 .. Len(file) /\ l.time \in Nat
    BY <2>0, LineType
  <2>2. last_line # None => last_line <= l.time
    <3> SUFFICES ASSUME last_line # None PROVE last_line <= l.time
      OBVIOUS
    <3>1. PICK i \in 1 .. Len(file) : i < line /\ file[i].kind = "pos" /\ file[i].time = last_line
      BY <2>0 DEF FramesInOrder
    <3>2. i <= line
      BY <2>10, <3>1
    <3>3. QED
      BY <2>0, <2>1, <3>1, <3>2 DEF SortedFiles, TypeInv
  <2>3. /\ \A i, j \in 1 .. Len(frames') : i < j => frames'[i].time < frames'[j].time
        /\ \A i \in 1 .. Len(frames') : frames'[i].time < last_line'
    <3>1. CASE FrameEnds(l.time)
      <4> DEFINE g == Frame(last_line, inner_map)
      <4>1. frames' = Append(frames, g) /\ last_line < l.time
        BY <1>1, <2>1, <2>10, <2>2, <3>1 DEF ParsePosition, FrameEnds
      <4>2. g \in KeyFrame /\ g.time = last_line
        BY <3>1, FrameType DEF FrameEnds, Frame
      <4> HIDE DEF g
      <4>3. /\ frames \in Seq(KeyFrame)
            /\ \A i, j \in 1 .. Len(frames) : i < j => frames[i].time < frames[j].time
            /\ \A i \in 1 .. Len(frames) : frames[i].time < g.time
            /\ g.time < l.time /\ l.time \in Int
        <5>1. frames \in Seq(KeyFrame)
          BY DEF TypeInv
        <5>2. g.time < l.time /\ l.time \in Int
          BY <2>1, <4>1, <4>2
        <5>3. QED
          BY <2>0, <4>2, <5>1, <5>2 DEF FramesInOrder
      <4>4. QED
        BY <2>0, <4>1, <4>2, <4>3, OrderedAppend
    <3>2. CASE ~FrameEnds(l.time)
      <4>1. frames' = frames
        BY <1>1, <3>2 DEF ParsePosition
      <4>2. CASE last_line = None
        <5>1. frames = <<>>
          BY <2>0, <4>2 DEF ParseInv
        <5>2. QED
          BY <4>1, <5>1
      <4>3. CASE last_line = l.time
        BY <2>0, <4>1, <4>3 DEF FramesInOrder
      <4>4. QED
        BY <3>2, <4>2, <4>3 DEF FrameEnds
    <3>3. QED
      BY <3>1, <3>2
  <2>4. line < line' /\ file'[line].kind = "pos" /\ file'[line].time = last_line'
    BY <2>0, <2>10
  <2>5. QED
    BY <2>0, <2>1, <2>3, <2>4 DEF FramesInOrder
<1>2. CASE ParseColor
  <2>1. /\ UNCHANGED <<file, frames, last_line, phase>> /\ line' = line + 1 /\ line \in Nat
    BY <1>2 DEF ParseColor, TypeInv
  <2>2. \A i \in 1 .. Len(file) : i < line => i < line'
    BY <2>1
  <2>3. QED
    BY <2>1, <2>2 DEF FramesInOrder
<1>3. CASE FinishParse
  <2>1. phase = "parsing" /\ phase' # "parsing"
    BY <1>3 DEF FinishParse
  <2>2. CASE last_line = None
    BY <1>3, <2>1, <2>2 DEF FinishParse, FramesInOrder
  <2>3. CASE last_line # None
    <3> DEFINE g == Frame(last_line, inner_map)
    <3>1. frames' = Append(frames, g)
      BY <1>3, <2>3 DEF FinishParse
    <3>2. g \in KeyFrame /\ g.time = last_line /\ last_line \in Int
      BY <2>3, FrameType DEF Frame, TypeInv
    <3> HIDE DEF g
    <3>3. /\ frames \in Seq(KeyFrame)
          /\ \A i, j \in 1 .. Len(frames) : i < j => frames[i].time < frames[j].time
          /\ \A i \in 1 .. Len(frames) : frames[i].time < g.time
          /\ g.time < last_line + 1 /\ last_line + 1 \in Int
      BY <2>1, <3>2 DEF FramesInOrder, TypeInv
    <3>4. \A i, j \in 1 .. Len(frames') : i < j => frames'[i].time < frames'[j].time
      BY <3>1, <3>2, <3>3, OrderedAppend
    <3>5. QED
      BY <2>1, <3>4 DEF FramesInOrder
  <2>4. QED
    BY <2>2, <2>3
<1>4. ASSUME NEW u \in Uav, NEW now \in Time, pos_at_time(u, now)
      PROVE  FramesInOrder'
  <2>1. UNCHANGED parseVars /\ phase = "ready"
    BY <1>4, QueryCases
  <2>2. phase' # "parsing"
    <3>1. CASE Asked(u, now) /\ (AnswerSettled(u, now) \/ AnswerSearched(u, now))
      BY <2>1, <3>1, QueryOutcomes
    <3>2. CASE UNCHANGED <<state, phase>>
      BY <2>1, <3>2
    <3>3. QED
      BY <1>4, <3>1, <3>2, QueryCases
  <2>3. QED
    BY <2>1, <2>2 DEF FramesInOrder, parseVars
<1>5. CASE UNCHANGED vars
  BY <1>5 DEF FramesInOrder, vars, parseVars, queryVars
<1>6. QED
  BY <1>1, <1>2, <1>3, <1>4, <1>5 DEF Next


\* The frames of a sorted file are in the order of their times.
LEMMA InOrderInvariant ==
  ASSUME SortedFiles
  PROVE  Spec => []FramesInOrder
<1>1. Init => FramesInOrder
  BY DEF Init, FramesInOrder
<1>2. TypeInv /\ StateValid /\ ParseInv /\ FramesInOrder /\ [Next]_vars => FramesInOrder'
  BY InOrderStep
<1>3. QED
  BY <1>1, <1>2, StateInvariant, ParseInvariant, PTL DEF Spec

\* The frames of a UAV, as numbers in strict order.
LEMMA OrderOfFrames ==
  ASSUME TypeInv, FramesInOrder, NEW u, NEW i \in Indices(frames, u), NEW j \in Indices(frames, u)
  PROVE  /\ i \in Nat /\ j \in Nat /\ frames[i].time \in Nat /\ frames[j].time \in Nat
         /\ i < j => frames[i].time < frames[j].time
<1>1. frames \in Seq(KeyFrame)
  BY DEF TypeInv
<1>2. /\ i \in 1 .. Len(frames) /\ j \in 1 .. Len(frames) /\ i \in Nat /\ j \in Nat
      /\ frames[i].time \in Nat /\ frames[j].time \in Nat
  BY <1>1, IndicesType
<1>3. QED
  BY <1>2 DEF FramesInOrder

\* The answer of an interpolation at one of its two ends.
LEMMA MapEnds ==
  ASSUME NEW a \in Int, NEW b \in Int, NEW span \in Int
  PROVE  /\ a * span + (b - a) * 0 = a * span
         /\ a * span + (b - a) * span = b * span
OBVIOUS

\* A query at the time of frame i answers with the position of frame i.
LEMMA AnswerExact ==
  ASSUME TypeInv, StateValid, FramesInOrder, NEW u \in Uav, NEW now \in Time, Asked(u, now),
         AnswerSettled(u, now) \/ AnswerSearched(u, now), UNCHANGED frames,
         NEW i \in Indices(frames, u), frames[i].time = now
  PROVE  answer'.pos.num = PosAt(u, i) * answer'.pos.den
<1> DEFINE s     == state[u]
           start == StartIndex(s, now)
           last  == LastIndex(u, start)
           next  == Least(Later(u, start, now))
<1>1. /\ frames \in Seq(KeyFrame) /\ now \in Nat /\ last_time \in Int /\ last_time <= now
  <2>1. frames \in Seq(KeyFrame) /\ last_time \in Time \cup {None} /\ last_time <= now
    BY DEF Asked, TypeInv
  <2>2. now \in Nat /\ last_time \in Int
    BY <2>1, TimeType, Zenon
  <2>3. QED
    BY <2>1, <2>2
<1>2. \A k \in Indices(frames, u) : PosAt(u, k) \in Int
  <2> SUFFICES ASSUME NEW k \in Indices(frames, u) PROVE PosAt(u, k) \in Int
    OBVIOUS
  <2>1. frames[k] \in KeyFrame /\ u \in DOMAIN frames[k].inner
    BY <1>1, IndicesType DEF Indices
  <2>2. frames[k].inner \in Maps
    BY <2>1 DEF KeyFrame
  <2>3. QED
    BY <2>1, <2>2, MapType DEF PosAt
<1>3. s.first \in Indices(frames, u) /\ Indices(frames, u) \subseteq 0 .. Len(frames) /\ Len(frames) \in Nat
  BY <1>1, AskedState, IndicesType
<1>4. CASE Settled(s, now) /\ answer' = Answer(u, now, Exact(PosAt(u, s.first)), s.first, s.first)
  <2>1. i = s.first
    <3>1. CASE s.kind = "After"
      <4>1. s.first = Greatest(Indices(frames, u)) /\ frames[s.first].time <= last_time
        BY <3>1, AskedState
      <4>2. i <= s.first
        BY <1>3, <4>1, GreatestIsGreatest
      <4>3. i < s.first => frames[i].time < frames[s.first].time
        BY <1>3, OrderOfFrames
      <4>4. i \in Nat /\ s.first \in Nat /\ frames[s.first].time \in Nat
        BY <1>3, OrderOfFrames
      <4>5. QED
        BY <1>1, <4>1, <4>2, <4>3, <4>4
    <3>2. CASE s.kind = "Before" /\ now <= frames[s.first].time
      <4>1. s.first = Least(Indices(frames, u))
        BY <3>2, AskedState
      <4>2. s.first <= i
        <5>1. Indices(frames, u) \subseteq Nat
          BY <1>1, IndicesType
        <5>2. QED
          BY <4>1, <5>1, LeastIsLeast
      <4>3. s.first < i => frames[s.first].time < frames[i].time
        BY <1>3, OrderOfFrames
      <4>4. i \in Nat /\ s.first \in Nat /\ frames[s.first].time \in Nat
        BY <1>3, OrderOfFrames
      <4>5. QED
        BY <1>1, <3>2, <4>2, <4>3, <4>4
    <3>3. QED
      BY <1>4, <3>1, <3>2 DEF Settled
  <2>2. answer'.pos.num = PosAt(u, i) /\ answer'.pos.den = 1
    BY <1>4, <2>1 DEF Answer, Exact
  <2>3. QED
    BY <1>2, <2>2
<1>5. CASE /\ ~Settled(s, now)
           /\ Later(u, start, now) = {}
           /\ answer' = Answer(u, now, Exact(PosAt(u, last)), last, last)
  <2>1. start \in Indices(frames, u) /\ frames[start].time <= now
    BY <1>5, SearchStart
  <2>2. last \in Indices(frames, u) /\ frames[last].time <= now /\ last = Greatest(Indices(frames, u))
    BY <1>5, <2>1, SearchLast
  <2> HIDE DEF last
  <2>3. i <= last
    BY <1>3, <2>2, GreatestIsGreatest
  <2>4. i < last => frames[i].time < frames[last].time
    BY <2>2, OrderOfFrames
  <2>5. i \in Nat /\ last \in Nat /\ frames[last].time \in Nat
    BY <2>2, OrderOfFrames
  <2>6. i = last
    BY <1>1, <2>2, <2>3, <2>4, <2>5
  <2>7. answer'.pos.num = PosAt(u, i) /\ answer'.pos.den = 1
    BY <1>5, <2>6 DEF Answer, Exact
  <2>8. QED
    BY <1>2, <2>7
<1>6. CASE /\ ~Settled(s, now)
           /\ Later(u, start, now) # {}
           /\ answer' = Answer(u, now, Map(u, start, next, now), start, next)
  <2>1. start \in Indices(frames, u) /\ frames[start].time <= now
    BY <1>6, SearchStart
  <2>2. /\ next \in Indices(frames, u) /\ next > start /\ frames[next].time >= now
        /\ \A k \in Later(u, start, now) : next <= k
    BY <1>6, <2>1, SearchNext
  <2> HIDE DEF start, next
  <2> DEFINE span == frames[next].time - frames[start].time
             a    == PosAt(u, start)
             b    == PosAt(u, next)
  <2>3. /\ i \in Nat /\ start \in Nat /\ next \in Nat
        /\ frames[start].time \in Nat /\ frames[next].time \in Nat
    BY <2>1, <2>2, OrderOfFrames
  <2>4. i = start \/ i = next
    <3>1. i < start => frames[i].time < frames[start].time
      BY <2>1, OrderOfFrames
    <3>2. i < next => frames[i].time < frames[next].time
      BY <2>2, OrderOfFrames
    <3>3. next < i => frames[next].time < frames[i].time
      BY <2>2, OrderOfFrames
    <3>4. i >= start
      BY <1>1, <2>1, <2>3, <3>1
    <3>5. CASE i > start
      <4>1. i \in Later(u, start, now)
        BY <1>1, <3>5 DEF Later, IsAfter
      <4>2. next <= i
        BY <2>2, <4>1
      <4>3. QED
        BY <1>1, <2>2, <2>3, <3>3, <4>2
    <3>6. QED
      BY <2>3, <3>4, <3>5
  <2>5. /\ answer'.pos.num = a * span + (b - a) * (now - frames[start].time)
        /\ answer'.pos.den = span
    BY <1>6 DEF Answer, Map
  <2>6. a \in Int /\ b \in Int /\ span \in Int
    BY <1>2, <2>1, <2>2, <2>3
  <2>7. CASE i = start
    <3>1. now - frames[start].time = 0
      BY <1>1, <2>7
    <3>2. a = PosAt(u, i)
      BY <2>7
    <3> HIDE DEF a, b, span
    <3>3. QED
      BY <2>5, <2>6, <3>1, <3>2, MapEnds
  <2>8. CASE i = next
    <3>1. now - frames[start].time = span
      BY <2>8
    <3>2. b = PosAt(u, i)
      BY <2>8
    <3> HIDE DEF a, b, span
    <3>3. QED
      BY <2>5, <2>6, <3>1, <3>2, MapEnds
  <2>9. QED
    BY <2>4, <2>7, <2>8
<1>7. QED
  BY <1>4, <1>5, <1>6, QueryOutcomes

\* Asked for the time of a key frame, pos_at_time gives the position of the
\* file whatever the state it remembers: on the last frame, before the first,
\* at either end of an interpolation.  The lines have to be in the order of
\* time, as the simulation writes them.
THEOREM ExactInSortedFiles ==
  ASSUME SortedFiles
  PROVE  Spec => []ExactAtFrames
<1>1. Init => ExactAtFrames
  BY DEF Init, ExactAtFrames
<1>2. TypeInv /\ StateValid /\ FramesInOrder /\ ExactAtFrames /\ [Next]_vars => ExactAtFrames'
  <2> SUFFICES ASSUME TypeInv, StateValid, FramesInOrder, ExactAtFrames, [Next]_vars
               PROVE  ExactAtFrames'
    OBVIOUS
  <2>1. CASE answer' = NoAnswer
    BY <2>1 DEF ExactAtFrames, NoAnswer, Answer
  <2>2. CASE UNCHANGED <<answer, frames>>
    BY <2>2 DEF ExactAtFrames, PosAt
  <2>3. ASSUME NEW u \in Uav, NEW now \in Time,
               Asked(u, now), AnswerSettled(u, now) \/ AnswerSearched(u, now),
               UNCHANGED <<file, frames>>
        PROVE  ExactAtFrames'
    <3>1. answer'.uav = u /\ answer'.now = now
      BY <2>3, QueryOutcomes DEF Answer
    <3>2. \A i \in Indices(frames, u) : frames[i].time = now =>
            answer'.pos.num = PosAt(u, i) * answer'.pos.den
      BY <2>3, AnswerExact
    <3>3. QED
      BY <2>3, <3>1, <3>2 DEF ExactAtFrames, PosAt
  <2>4. QED
    BY <2>1, <2>2, <2>3, AnswerSteps
<1>3. QED
  BY <1>1, <1>2, StateInvariant, InOrderInvariant, PTL DEF Spec

=============================================================================
