-------------------------- MODULE MCPositionParser -------------------------
(* The files for the runs of PositionParser. *)
EXTENDS PositionParser, SequencesExt

CONSTANTS
  FrameTimes,  \* the times of the lines
  MaxLines     \* the length of the longest file

\* The order in which LogPositions writes the lines.
Written(k, l) == k.time < l.time \/ (k.time = l.time /\ k.ip < l.ip)

Keys == [time : FrameTimes, ip : Uav]

\* A file for a set of keys and a coordinate for each of them.
FileOf(c) ==
  LET keys == SetToSortSeq(DOMAIN c, Written)
  IN  [i \in DOMAIN keys |-> [kind |-> "pos", time |-> keys[i].time, ip |-> keys[i].ip,
                              pos |-> c[keys[i]]]]

Color == [kind |-> "color", time |-> 0, ip |-> 1, pos |-> 0]

\* Files with up to MaxLines positions, and a colour change after the first
\* or at the end.
AllFiles ==
  LET plain == {FileOf(c) : c \in UNION {[S -> Coord] : S \in
                  {T \in SUBSET Keys : Cardinality(T) \in 1 .. MaxLines}}}
  IN  plain \cup {InsertAt(f, 2, Color) : f \in plain}

\* Files as LogPositions writes them: every UAV at every time.
LoggedFiles == {FileOf(c) : c \in [Keys -> Coord]}
=============================================================================
