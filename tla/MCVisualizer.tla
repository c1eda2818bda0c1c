---------------------------- MODULE MCVisualizer ---------------------------
(* The files for the runs of Visualizer. *)
EXTENDS Visualizer

CONSTANTS
  Ips,        \* the last bytes of the addresses
  FileTimes   \* the times of the lines

Header == [kind |-> "header", time |-> 0, ip |-> 0]

\* Positions in the order of time, as LogPositions writes them; a UAV may have
\* several lines of the same time.
Positions(n, ips) ==
  {f \in [1 .. n -> [kind : {"position"}, time : FileTimes, ip : ips]] :
     \A i \in 1 .. n - 1 : f[i].time <= f[i + 1].time}

\* A colour after the first position, as SetColor writes it.
Colored(f) == <<Header, f[1], [kind |-> "color", time |-> f[1].time, ip |-> f[1].ip]>> \o Tail(f)

\* No lines, only the first line, up to three lines of all UAVs, four of two
\* UAVs, and files with a colour.
AllFiles ==
  {<<>>, <<Header>>}
    \cup {<<Header>> \o f : f \in UNION {Positions(n, Ips) : n \in 1 .. 3}}
    \cup {<<Header>> \o f : f \in Positions(4, {1, 2})}
    \cup {Colored(f) : f \in Positions(2, Ips)}
=============================================================================
