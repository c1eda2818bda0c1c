----------------------------- MODULE Visualizer ----------------------------
(***************************************************************************)
(* Visualizer/vis.py: replays a positions file.  Every pass of the main    *)
(* loop handles the events of the window, looks up, for every UAV, the     *)
(* last line that is not after the simulation time and the first line that *)
(* is, starting from where the last pass left off, draws the UAVs, records *)
(* the spread of the swarm around the central UAV, and advances the        *)
(* simulation time.                                                        *)
(*                                                                         *)
(* Times are in ticks; coordinates and what is computed from them do not   *)
(* influence the control and are left out.                                 *)
(***************************************************************************)
EXTENDS Integers, Sequences, Ordering

CONSTANTS
  Files,       \* the files under consideration, each a sequence of lines
  UseMad,      \* not --skip-mad
  Step,        \* 1 / target_fps, the step without a window
  MaxDelta,    \* bound on the time between two passes with a window
  MaxSetBack,  \* bound on how far the clock may be set back
  TimeLimit,   \* the simulation time beyond which it does not advance (25 s)
  Keys         \* the keys that move the camera

\* The keys whose direction is computed from the last event.
SideKeys == {"A", "D", "SPACE", "LSHIFT"}

Line == [kind : {"header", "position", "color"}, time : Nat, ip : Nat]

ASSUME VisualizerAssumption ==
  /\ UseMad \in BOOLEAN
  /\ Step \in Nat \ {0} /\ MaxDelta \in Nat /\ MaxSetBack \in Nat /\ TimeLimit \in Nat
  /\ Keys \subseteq SideKeys \cup {"W", "S"}
  /\ Files \subseteq Seq(Line)

VARIABLES
  graph_only,       \* args.graph_only: fixed steps, no window
  lines,            \* the position lines
  list_uavs,        \* the addresses in the order of list(uavs)
  central,          \* the UAV taken for the central one
  uav_last_index,   \* UAV -> where its next search starts
  uav_before,       \* UAV -> line before the simulation time, or none
  uav_after,        \* UAV -> line after it, or none
  simulation_time,
  mad_times,        \* the time of the last value appended to the list, if any
  keymap,           \* the keys that are down
  camera_right,     \* whether an event has assigned camera_up and camera_right
  status            \* loading, no_data, looping, done or crashed

inputVars  == <<graph_only, lines, list_uavs, central>>
replayVars == <<uav_last_index, uav_before, uav_after, simulation_time, mad_times>>
windowVars == <<keymap, camera_right>>
vars == <<inputVars, replayVars, windowVars, status>>

None == 0

-----------------------------------------------------------------------------
(* Up to the loop. *)

\* Everything but the first line, which is taken for the header, is parsed;
\* the colours are stored and never used.
PositionLines(f) ==
  LET parsed[i \in 0 .. Len(f)] ==
        IF i > 1 /\ f[i].kind = "position" THEN Append(parsed[i - 1], f[i])
        ELSE IF i > 0 THEN parsed[i - 1] ELSE <<>>
  IN  parsed[Len(f)]

HasPositions(f) == f # <<>> /\ PositionLines(f) # <<>>

Uavs(f) == {f[i].ip : i \in 1 .. Len(f)}

\* The orders in which the set of addresses may be listed: a set of strings
\* has no fixed order.
Orders(f) ==
  {s \in UNION {[1 .. n -> Uavs(f)] : n \in 0 .. Len(f)} :
     /\ \A i, j \in DOMAIN s : s[i] = s[j] => i = j
     /\ {s[i] : i \in DOMAIN s} = Uavs(f)}

\* The loop that looks for the smallest last byte.  smallest[i] is its entry
\* after i rounds: nothing before the first, when -1 stands for the last entry,
\* and round i looks at the i-th entry after the first one.
Smallest(l) ==
  LET smallest[i \in 0 .. Len(l) - 1] ==
        IF i = 0 THEN None
        ELSE IF smallest[i - 1] = None \/ l[i + 1] < l[smallest[i - 1]] THEN i + 1
        ELSE smallest[i - 1]
      found == smallest[Len(l) - 1]
  IN  IF found = None THEN Len(l) ELSE found

Init ==
  /\ graph_only \in BOOLEAN
  /\ lines = <<>>
  /\ list_uavs = <<>>
  /\ central = None
  /\ uav_last_index = <<>>
  /\ uav_before = <<>>
  /\ uav_after = <<>>
  /\ simulation_time = 0
  /\ mad_times = <<>>
  /\ keymap = {}
  /\ camera_right = FALSE
  /\ status = "loading"

Load(f) ==
  /\ status = "loading"
  /\ HasPositions(f)
  /\ lines' = PositionLines(f)
  /\ list_uavs' \in Orders(lines')
  /\ central' = list_uavs'[Smallest(list_uavs')]
  /\ uav_last_index' = [u \in Uavs(lines') |-> 1]
  /\ uav_before' = [u \in Uavs(lines') |-> None]
  /\ uav_after' = [u \in Uavs(lines') |-> None]
  /\ status' = "looping"
  /\ UNCHANGED <<graph_only, simulation_time, mad_times, windowVars>>

\* Without a first line, or without a UAV to be the central one, the program
\* fails with an index error.
LoadNothing(f) ==
  /\ status = "loading"
  /\ ~HasPositions(f)
  /\ status' = "no_data"
  /\ UNCHANGED <<inputVars, replayVars, windowVars>>

-----------------------------------------------------------------------------
(* The events of the window, handled at the start of a pass. *)

Window == status = "looping" /\ ~graph_only

\* Fault: the directions are computed only when the mouse moves.
KeyDownOnly(k) ==
  /\ Window
  /\ keymap' = keymap \cup {k}
  /\ UNCHANGED <<inputVars, replayVars, camera_right, status>>

\* Every event computes camera_up and camera_right, and then is told apart.
KeyDown(k) ==
  /\ Window
  /\ camera_right' = TRUE
  /\ keymap' = keymap \cup {k}
  /\ UNCHANGED <<inputVars, replayVars, status>>

KeyUp(k) ==
  /\ Window
  /\ camera_right' = TRUE
  /\ keymap' = keymap \ {k}
  /\ UNCHANGED <<inputVars, replayVars, status>>

\* Moving the mouse, and any event that is not looked at.
MouseMotion ==
  /\ Window
  /\ camera_right' = TRUE
  /\ UNCHANGED <<inputVars, replayVars, keymap, status>>

\* The user closes the window or presses escape.
Quit ==
  /\ Window
  /\ status' = "done"
  /\ UNCHANGED <<inputVars, replayVars, windowVars>>

-----------------------------------------------------------------------------
(* One pass of the main loop. *)

\* The lines of a UAV that its search looks at.
Searched(u) == {i \in uav_last_index[u] .. Len(lines) : lines[i].ip = u}

\* The search ends at the first line after the simulation time, or at the end
\* of the file.
AfterIndex(u) ==
  LET later == {i \in Searched(u) : lines[i].time > simulation_time}
  IN  IF later = {} THEN None ELSE Least(later)

SearchEnd(u) == IF AfterIndex(u) = None THEN Len(lines) + 1 ELSE AfterIndex(u)

\* Fault: the first suitable line is kept.
BeforeIndexFirst(u) ==
  LET earlier == {i \in Searched(u) : i < SearchEnd(u)}
  IN  IF earlier = {} THEN None ELSE Least(earlier)

BeforeIndex(u) ==
  LET earlier == {i \in Searched(u) : i < SearchEnd(u)}
  IN  IF earlier = {} THEN None ELSE Greatest(earlier)

\* Fault: at the end of the file the search starts over.
LastIndexRestarts(u) ==
  IF AfterIndex(u) = None THEN 1
  ELSE IF BeforeIndex(u) # None THEN BeforeIndex(u) ELSE SearchEnd(u)

\* Where the search of the next pass starts.
LastIndex(u) == IF BeforeIndex(u) # None THEN BeforeIndex(u) ELSE SearchEnd(u)

\* Fault: a UAV is done only when it has no line before the time either.
AllDoneNever == \A u \in Uavs(lines) : AfterIndex(u) = None /\ BeforeIndex(u) = None

\* uav_done_with_pos_cout = len(uavs)
AllDone == \A u \in Uavs(lines) : AfterIndex(u) = None

\* What ends the pass with an error: a key that moves the camera in a
\* direction no event has computed, and reading the position at
\* uav_last_index, when the spread is recorded, beyond the lines.
Fails ==
  \/ ~graph_only /\ keymap \cap SideKeys # {} /\ ~camera_right
  \/ UseMad /\ \E u \in Uavs(lines) : LastIndex(u) > Len(lines)

\* The time without a window advances by fixed steps, with a window by what
\* the clock says has passed, and not at all from the limit on.
Advance ==
  IF simulation_time < TimeLimit
  THEN \E d \in (IF graph_only THEN {Step} ELSE -MaxSetBack .. MaxDelta) :
         /\ simulation_time + d >= -MaxSetBack
         /\ simulation_time' = simulation_time + d
  ELSE UNCHANGED simulation_time

Pass ==
  /\ status = "looping"
  /\ uav_before' = [u \in Uavs(lines) |-> BeforeIndex(u)]
  /\ uav_after' = [u \in Uavs(lines) |-> AfterIndex(u)]
  /\ uav_last_index' = [u \in Uavs(lines) |-> LastIndex(u)]
  /\ IF Fails
     THEN status' = "crashed" /\ UNCHANGED <<simulation_time, mad_times>>
     ELSE /\ mad_times' = IF UseMad THEN <<lines[LastIndex(central)].time>> ELSE <<>>
          /\ IF graph_only /\ AllDone
             THEN status' = "done" /\ UNCHANGED simulation_time
             ELSE Advance /\ UNCHANGED status
  /\ UNCHANGED <<inputVars, windowVars>>

Next ==
  \/ \E f \in Files : Load(f) \/ LoadNothing(f)
  \/ \E k \in Keys : KeyDown(k) \/ KeyUp(k)
  \/ MouseMotion
  \/ Quit
  \/ Pass

Spec == Init /\ [][Next]_vars

\* The program keeps running.
FairSpec == Spec /\ WF_vars(Pass)

-----------------------------------------------------------------------------
(* Properties. *)

Index == 1 .. Len(lines)

\* Whatever the clock and the user do, no pass fails: the cursors stay on the
\* file and, from the first pass on, each on a line of its own UAV, and no key
\* moves the camera before its direction is computed.
NoCrash ==
  /\ status # "crashed"
  /\ mad_times # <<>> => \A u \in Uavs(lines) : lines[uav_last_index[u]].ip = u

Of(u) == {i \in Index : lines[i].ip = u}

\* What a search through the whole file finds: the latest line of the UAV that
\* is not after the simulation time and the first one that is.
Exact(u, before, after) ==
  LET earlier == {i \in Of(u) : lines[i].time <= simulation_time}
      later   == Of(u) \ earlier
  IN  /\ before = IF earlier = {} THEN None ELSE Greatest(earlier)
      /\ after = IF later = {} THEN None ELSE Least(later)

\* Each pass finds, though it resumes where the last one stopped, what a
\* search through the whole file finds.  Only while the clock has been set
\* back before the line of the cursor does the UAV stay at that line.
Brackets ==
  [][Pass => \A u \in Uavs(lines) :
       \/ Exact(u, uav_before'[u], uav_after'[u])
       \/ LET cursor == uav_last_index[u]
          IN  /\ lines[cursor].ip = u /\ lines[cursor].time > simulation_time
              /\ uav_before'[u] = None /\ uav_after'[u] = cursor]_vars

\* The times on the axis of the graph never run backwards, even though the
\* first values are taken from a line that is still ahead and the clock may be
\* set back.
GraphForward ==
  [][mad_times # <<>> => mad_times'[1] >= mad_times[1]]_vars

WithinLimit == graph_only /\ status = "looping" /\ \A i \in Index : lines[i].time <= TimeLimit

\* Without a window, the graph of a file that ends within the time limit is
\* finished.
FinishesWithinLimit == WithinLimit ~> status = "done"

\* Without a window the program generates the graph and ends.  (A pass that
\* finds what the one before found, at the same time, only lengthens the lists
\* of recorded values: it is a stuttering step here, repeated for ever.)
GraphFinishes == (graph_only /\ status = "looping") ~> status = "done"

=============================================================================
