--------------------------- MODULE PositionParser --------------------------
(***************************************************************************)
(* parameter_optimizer/src/position_parser.rs: SimulationData::parse turns *)
(* the lines of a positions file into key frames, and pos_at_time answers  *)
(* where a UAV was at times that never decrease, remembering for each UAV  *)
(* the frames it last interpolated between.                                *)
(*                                                                         *)
(* A line is already scanned: a record of a position or a colour change.   *)
(* Times and coordinates are integers (one coordinate stands for three); a *)
(* position that pos_at_time returns is a fraction.                        *)
(***************************************************************************)
EXTENDS Integers, Sequences, Ordering

CONSTANTS
  Uav,            \* the addresses in the file
  Time,           \* the times of lines and of queries
  Coord,          \* the coordinates in the file
  Files,          \* the files under consideration, without their header
  HeaderNewline   \* whether a newline separates the header from the first line

Line == [kind : {"pos", "color"}, time : Time, ip : Uav, pos : Coord]

ASSUME ParserAssumption ==
  /\ Time \subseteq Nat
  /\ Coord \subseteq Int
  /\ HeaderNewline \in BOOLEAN
  /\ Files \subseteq Seq(Line)

VARIABLES
  file,       \* the file being parsed
  line,       \* the next line of the loop in parse
  inner_map,  \* the positions of the frame being collected
  last_line,  \* last_time of parse: the time of that frame, or none
  frames,     \* the key frames: time and a map from UAVs to positions
  events,     \* the colour changes
  phase,      \* parsing, ready or panicked
  state,      \* UAV -> InterpolationState
  last_time,  \* the time of the last query, or none
  answer      \* what the last query returned

parseVars == <<file, line, inner_map, last_line, frames, events>>
queryVars == <<state, last_time, answer>>
vars == <<parseVars, phase, queryVars>>

None == -1
EmptyMap == [u \in {} |-> 0]

Before(i)         == [kind |-> "Before", first |-> i, second |-> i]
Interpolate(i, j) == [kind |-> "Interpolate", first |-> i, second |-> j]
After(i)          == [kind |-> "After", first |-> i, second |-> i]
Unknown           == [kind |-> "Unknown", first |-> 0, second |-> 0]

\* HashMap::insert.
Insert(m, u, p) == [v \in DOMAIN m \cup {u} |-> IF v = u THEN p ELSE m[v]]

Exact(p) == [num |-> p, den |-> 1]

Answer(u, now, pos, i, j) == [uav |-> u, now |-> now, pos |-> pos, from |-> i, to |-> j]

NoAnswer == Answer(None, None, Exact(0), 0, 0)

Frame(t, m) == [time |-> t, inner |-> m]

\* lines().skip(1) drops the header and what follows it on the same line.
FirstLine == IF HeaderNewline THEN 1 ELSE 2

-----------------------------------------------------------------------------
(* SimulationData::parse *)

Init ==
  /\ file \in Files
  /\ line = FirstLine
  /\ inner_map = EmptyMap
  /\ last_line = None
  /\ frames = <<>>
  /\ events = <<>>
  /\ phase = "parsing"
  /\ state = [u \in Uav |-> Unknown]
  /\ last_time = None
  /\ answer = NoAnswer

\* A line at another time ends the frame.
FrameEnds(t) == last_line # None /\ last_line # t

\* Fault: the map of the last frame is copied, not taken.
CollectedCopies(t) == inner_map

\* The map to insert into: std::mem::take leaves an empty one.
Collected(t) == IF FrameEnds(t) THEN EmptyMap ELSE inner_map

ParsePosition ==
  /\ phase = "parsing" /\ line <= Len(file)
  /\ file[line].kind = "pos"
  /\ LET l == file[line]
     IN  /\ frames' = IF FrameEnds(l.time) THEN Append(frames, Frame(last_line, inner_map))
                                           ELSE frames
         /\ inner_map' = Insert(Collected(l.time), l.ip, l.pos)
         /\ last_line' = l.time
  /\ line' = line + 1
  /\ UNCHANGED <<file, events, phase, queryVars>>

ParseColor ==
  /\ phase = "parsing" /\ line <= Len(file)
  /\ file[line].kind = "color"
  /\ events' = Append(events, [time |-> file[line].time, ip |-> file[line].ip])
  /\ line' = line + 1
  /\ UNCHANGED <<file, inner_map, last_line, frames, phase, queryVars>>

\* The frames in which a UAV occurs.
Indices(fs, u) == {i \in 1 .. Len(fs) : u \in DOMAIN fs[i].inner}

\* The last frame is pushed and every UAV starts before its first frame.  A
\* file without positions fails at frames[frames.len() - 1].
FinishParse ==
  /\ phase = "parsing" /\ line > Len(file)
  /\ frames' = IF last_line = None THEN frames ELSE Append(frames, Frame(last_line, inner_map))
  /\ inner_map' = EmptyMap
  /\ phase' = IF frames' = <<>> THEN "panicked" ELSE "ready"
  /\ state' = [u \in Uav |-> IF Indices(frames', u) = {} THEN Unknown
                             ELSE Before(Least(Indices(frames', u)))]
  /\ UNCHANGED <<file, line, last_line, events, last_time, answer>>

-----------------------------------------------------------------------------
(* SimulationData::pos_at_time *)

PosAt(u, i) == frames[i].inner[u]

\* util::map: the position at time now on the line from frame i to frame j.
Map(u, i, j, now) ==
  LET span == frames[j].time - frames[i].time
  IN  [num |-> PosAt(u, i) * span + (PosAt(u, j) - PosAt(u, i)) * (now - frames[i].time),
       den |-> span]

\* Where the search for the next frame starts.
StartIndex(s, now) ==
  IF s.kind = "Interpolate" /\ frames[s.second].time <= now THEN s.second ELSE s.first

\* Fault: the position before the first frame is not a case of its own.
SettledLate(s, now) == s.kind = "After"

\* The cases that return without a search.
Settled(s, now) ==
  \/ s.kind = "After"
  \/ s.kind = "Before" /\ now <= frames[s.first].time

\* Fault: only frames strictly later than the time end the search.
IsAfterStrictly(t, now) == t > now

\* TimePoint::is_after.
IsAfter(t, now) == t >= now

\* Fault: the search does not move the index on.
LastIndexStart(u, start) == start

\* The last frame of the UAV from start on.
LastIndex(u, start) == Greatest(Indices(frames, u) \ (0 .. start - 1))

\* Returns the position at a time at which nothing is interpolated.
AnswerSettled(u, now) ==
  /\ state[u].kind # "Unknown"
  /\ Settled(state[u], now)
  /\ answer' = Answer(u, now, Exact(PosAt(u, state[u].first)), state[u].first, state[u].first)
  /\ UNCHANGED <<state, phase>>

\* Searches on from the start index; the assertions are that its frame is not
\* after now and has the UAV.
AnswerSearched(u, now) ==
  LET start == StartIndex(state[u], now)
      later == {i \in Indices(frames, u) : i > start /\ IsAfter(frames[i].time, now)}
      last  == LastIndex(u, start)
      next  == Least(later)
  IN  /\ state[u].kind # "Unknown"
      /\ ~Settled(state[u], now)
      /\ IF later = {}
         THEN /\ state' = [state EXCEPT ![u] = After(last)]
              /\ answer' = Answer(u, now, Exact(PosAt(u, last)), last, last)
              /\ UNCHANGED phase
         ELSE IF frames[start].time <= now /\ u \in DOMAIN frames[start].inner
         THEN /\ state' = [state EXCEPT ![u] = Interpolate(start, next)]
              /\ answer' = Answer(u, now, Map(u, start, next, now), start, next)
              /\ UNCHANGED phase
         ELSE /\ phase' = "panicked"
              /\ UNCHANGED <<state, answer>>

\* A UAV that is not in the file has no position.
AnswerNone(u, now) ==
  /\ state[u].kind = "Unknown"
  /\ answer' = NoAnswer
  /\ UNCHANGED <<state, phase>>

\* The caller asks for times that never decrease, as get_error does.
pos_at_time(u, now) ==
  /\ phase = "ready"
  /\ last_time <= now
  /\ last_time' = now
  /\ AnswerSettled(u, now) \/ AnswerSearched(u, now) \/ AnswerNone(u, now)
  /\ UNCHANGED parseVars

Next ==
  \/ ParsePosition
  \/ ParseColor
  \/ FinishParse
  \/ \E u \in Uav, now \in Time : pos_at_time(u, now)

Spec == Init /\ [][Next]_vars

-----------------------------------------------------------------------------
(* Properties. *)

PosLines == {i \in FirstLine .. Len(file) : file[i].kind = "pos"}

\* The frames are the file, no more and no less: every position line that is
\* read is in the frame of its time, and every entry of a frame is a line.
FramesAreFile ==
  phase # "parsing" =>
    /\ \A i \in PosLines : \E k \in 1 .. Len(frames) :
         /\ frames[k].time = file[i].time
         /\ file[i].ip \in DOMAIN frames[k].inner
         /\ (\A j \in PosLines : j > i =>
               file[j].time # file[i].time \/ file[j].ip # file[i].ip)
            => frames[k].inner[file[i].ip] = file[i].pos
    /\ \A k \in 1 .. Len(frames) : \A u \in DOMAIN frames[k].inner : \E i \in PosLines :
         file[i] = [kind |-> "pos", time |-> frames[k].time, ip |-> u,
                    pos |-> frames[k].inner[u]]

\* No assertion or unwrap of the parser or of pos_at_time fails on a file
\* with at least one position.
NoPanic == PosLines # {} => phase # "panicked"

\* What is remembered about a UAV stays valid as other UAVs are asked about
\* and time goes on: the frames exist, hold the UAV, and the first of the two
\* is not after the last query.
StateValid ==
  phase = "ready" => \A u \in Uav :
    LET s == state[u]
    IN  /\ s.kind = "Unknown" <=> Indices(frames, u) = {}
        /\ s.kind # "Unknown" => {s.first, s.second} \subseteq Indices(frames, u)
        /\ s.kind = "Before" => s.first = Least(Indices(frames, u))
        /\ s.kind = "Interpolate" => /\ s.first < s.second
                                     /\ frames[s.first].time <= last_time
        /\ s.kind = "After" => /\ s.first = Greatest(Indices(frames, u))
                               /\ frames[s.first].time <= last_time

\* A position asked for at the time of a key frame is the one in the file.
ExactAtFrames ==
  answer # NoAnswer => \A i \in Indices(frames, answer.uav) :
    frames[i].time = answer.now =>
      answer.pos.num = PosAt(answer.uav, i) * answer.pos.den

\* The two frames of an interpolation are neighbours, so that the answer is
\* "the position of the specified UAV at the given point in time".
Neighbours ==
  answer # NoAnswer =>
    \A i \in Indices(frames, answer.uav) : ~(answer.from < i /\ i < answer.to)

\* The first frame of a file that begins with a line for every UAV has all of
\* them, as the test of the parser asserts.
FirstFrameComplete ==
  phase = "ready" /\ {file[i].ip : i \in {j \in DOMAIN file : file[j].time = file[1].time}} = Uav
    => DOMAIN frames[1].inner = Uav

=============================================================================
