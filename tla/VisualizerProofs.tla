-------------------------- MODULE VisualizerProofs -------------------------
(***************************************************************************)
(* That a replay fails in no pass, finds in each pass what a search        *)
(* through the whole file finds, and draws a graph that runs forward, for  *)
(* any file, any clock and any keys.                                       *)
(***************************************************************************)
EXTENDS Visualizer, NatOrder

USE VisualizerAssumption

-----------------------------------------------------------------------------
(***************************************************************************)
(* The lines that are loaded.  The loop over the file is a recursive       *)
(* function; that it has a value at every line, and what the value is, is  *)
(* shown by looking at the first line where it would not.                  *)
(***************************************************************************)
ParsedStep(f, g, i) ==
  IF i > 1 /\ f[i].kind = "position" THEN Append(g[i - 1], f[i])
  ELSE IF i > 0 THEN g[i - 1] ELSE <<>>

Parses(f, g, n) == g = [i \in 0 .. n |-> ParsedStep(f, g, i)]

\* The loop can be carried on to every line.
LEMMA ParsedExists ==
  ASSUME NEW f, NEW n \in Nat
  PROVE  \E g : Parses(f, g, n)
<1> DEFINE Stuck == {k \in Nat : ~\E g : Parses(f, g, k)}
<1> SUFFICES ASSUME Stuck # {} PROVE FALSE
  OBVIOUS
<1>1. PICK k \in Stuck : \A j \in Stuck : k <= j
  <2>1. Stuck \subseteq Nat
    OBVIOUS
  <2> HIDE DEF Stuck
  <2>2. QED
    BY <2>1, LeastExists
<1>2. k # 0
  <2> DEFINE g == [i \in 0 .. 0 |-> <<>>]
  <2>1. \A i \in 0 .. 0 : ParsedStep(f, g, i) = <<>>
    BY DEF ParsedStep
  <2>2. Parses(f, g, 0)
    BY <2>1 DEF Parses
  <2>3. QED
    BY <2>2
<1>3. k - 1 \in Nat /\ k - 1 \notin Stuck
  BY <1>1, <1>2
<1>4. PICK g : Parses(f, g, k - 1)
  BY <1>3
<1> DEFINE h == [i \in 0 .. k |-> IF i = k THEN ParsedStep(f, g, k) ELSE g[i]]
<1>5. \A i \in 0 .. k : ParsedStep(f, h, i) = ParsedStep(f, g, i)
  <2> SUFFICES ASSUME NEW i \in 0 .. k PROVE ParsedStep(f, h, i) = ParsedStep(f, g, i)
    OBVIOUS
  <2>1. i > 0 => h[i - 1] = g[i - 1]
    BY <1>3
  <2> HIDE DEF h
  <2>2. QED
    BY <2>1 DEF ParsedStep
<1>6. \A i \in 0 .. k - 1 : g[i] = ParsedStep(f, g, i)
  BY <1>4 DEF Parses
<1>7. \A i \in 0 .. k : h[i] = ParsedStep(f, g, i)
  BY <1>3, <1>6
<1>8. h = [i \in 0 .. k |-> ParsedStep(f, h, i)]
  BY <1>5, <1>7
<1>9. Parses(f, h, k)
  <2> HIDE DEF h
  <2> QED
    BY <1>8 DEF Parses
<1>10. QED
  BY <1>1, <1>9

\* PositionLines is what the loop has by the last line.
LEMMA ParsedLines ==
  ASSUME NEW f, Len(f) \in Nat
  PROVE  \E g : Parses(f, g, Len(f)) /\ PositionLines(f) = g[Len(f)]
<1> DEFINE g == CHOOSE g : Parses(f, g, Len(f))
<1>1. Parses(f, g, Len(f))
  BY ParsedExists
<1>2. PositionLines(f) = g[Len(f)]
  BY DEF PositionLines, Parses, ParsedStep
<1>3. QED
  BY <1>1, <1>2

\* The lines of a file are in the order of time, as the simulation writes them.
SortedFile(f) ==
  \A i, j \in 2 .. Len(f) :
    i < j /\ f[i].kind = "position" /\ f[j].kind = "position" => f[i].time <= f[j].time

InOrder(s) == \A k, l \in 1 .. Len(s) : k < l => s[k].time <= s[l].time

\* What the loop has by line i: lines of the file up to there.
From(f, s, i) ==
  /\ s \in Seq(Line)
  /\ \A k \in 1 .. Len(s) : \E j \in 2 .. i : f[j].kind = "position" /\ s[k] = f[j]

\* One more line keeps it that way.
LEMMA FromStep ==
  ASSUME NEW f \in Seq(Line), NEW i \in 1 .. Len(f), NEW g, From(f, g[i - 1], i - 1)
  PROVE  /\ From(f, ParsedStep(f, g, i), i)
         /\ SortedFile(f) /\ InOrder(g[i - 1]) => InOrder(ParsedStep(f, g, i))
<1> DEFINE s == g[i - 1]
<1>1. /\ Len(f) \in Nat /\ i \in Nat /\ i > 0 /\ s \in Seq(Line) /\ Len(s) \in Nat
      /\ \A j \in 1 .. Len(f) : f[j] \in Line
      /\ \A k \in 1 .. Len(s) : s[k] \in Line
  BY DEF From
<1>2. \A l \in Line : l.time \in Nat
  BY DEF Line
<1>3. CASE i > 1 /\ f[i].kind = "position"
  <2> DEFINE t == Append(s, f[i])
  <2>1. ParsedStep(f, g, i) = t
    BY <1>3 DEF ParsedStep
  <2>2. /\ t \in Seq(Line) /\ Len(t) = Len(s) + 1
        /\ \A k \in 1 .. Len(s) : t[k] = s[k]
        /\ t[Len(s) + 1] = f[i]
    BY <1>1
  <2>3. \A k \in 1 .. Len(t) : k \in 1 .. Len(s) \/ k = Len(s) + 1
    BY <1>1, <2>2
  <2> HIDE DEF t
  <2>4. \A k \in 1 .. Len(s) : \E j \in 2 .. i - 1 : f[j].kind = "position" /\ s[k] = f[j]
    BY DEF From
  <2>5. \A j \in 2 .. i - 1 : j \in 2 .. i
    BY <1>1
  <2>6. i \in 2 .. i
    BY <1>1, <1>3
  <2>7. \A k \in 1 .. Len(t) : \E j \in 2 .. i : f[j].kind = "position" /\ t[k] = f[j]
    <3> SUFFICES ASSUME NEW k \in 1 .. Len(t)
                 PROVE  \E j \in 2 .. i : f[j].kind = "position" /\ t[k] = f[j]
      OBVIOUS
    <3>1. CASE k \in 1 .. Len(s)
      <4>1. PICK j \in 2 .. i - 1 : f[j].kind = "position" /\ s[k] = f[j]
        BY <2>4, <3>1, Zenon
      <4>2. j \in 2 .. i /\ t[k] = f[j]
        BY <2>2, <2>5, <3>1, <4>1, Zenon
      <4>3. QED
        BY <4>1, <4>2, Zenon
    <3>2. CASE k = Len(s) + 1
      BY <1>3, <2>2, <2>6, <3>2
    <3>3. QED
      BY <2>3, <3>1, <3>2
  <2>8. ASSUME SortedFile(f), InOrder(s) PROVE InOrder(t)
    <3> SUFFICES ASSUME NEW k \in 1 .. Len(t), NEW l \in 1 .. Len(t), k < l
                 PROVE  t[k].time <= t[l].time
      BY DEF InOrder
    <3>1. k \in 1 .. Len(s)
      BY <1>1, <2>2, <2>3
    <3>2. CASE l \in 1 .. Len(s)
      BY <2>2, <2>8, <3>1, <3>2 DEF InOrder
    <3>3. CASE l = Len(s) + 1
      <4>1. PICK j \in 2 .. i - 1 : f[j].kind = "position" /\ s[k] = f[j]
        BY <2>4, <3>1
      <4>2. j \in 2 .. Len(f) /\ i \in 2 .. Len(f) /\ j < i
        BY <1>1, <1>3
      <4>3. f[j].time <= f[i].time
        BY <1>3, <2>8, <4>1, <4>2 DEF SortedFile
      <4>4. QED
        BY <2>2, <3>1, <3>3, <4>1, <4>3
    <3>4. QED
      BY <2>3, <3>2, <3>3
  <2>9. QED
    BY <2>1, <2>2, <2>7, <2>8 DEF From
<1>4. CASE ~(i > 1 /\ f[i].kind = "position")
  <2>1. ParsedStep(f, g, i) = s
    BY <1>1, <1>4 DEF ParsedStep
  <2>2. \A j \in 2 .. i - 1 : j \in 2 .. i
    BY <1>1
  <2>3. QED
    BY <2>1, <2>2 DEF From
<1>5. QED
  BY <1>3, <1>4

\* The lines that are loaded are position lines of the file, in its order.
LEMMA LoadedLines ==
  ASSUME NEW f \in Seq(Line)
  PROVE  /\ PositionLines(f) \in Seq(Line)
         /\ SortedFile(f) => InOrder(PositionLines(f))
<1>1. Len(f) \in Nat
  OBVIOUS
<1>2. PICK g : Parses(f, g, Len(f)) /\ PositionLines(f) = g[Len(f)]
  BY <1>1, ParsedLines
<1>3. \A i \in 0 .. Len(f) : g[i] = ParsedStep(f, g, i)
  BY <1>2 DEF Parses
<1> DEFINE Fine(i) == From(f, g[i], i) /\ (SortedFile(f) => InOrder(g[i]))
           Odd == {i \in 0 .. Len(f) : ~Fine(i)}
<1>4. Odd = {}
  <2> SUFFICES ASSUME Odd # {} PROVE FALSE
    OBVIOUS
  <2>1. PICK i \in Odd : \A j \in Odd : i <= j
    <3>1. Odd \subseteq Nat
      BY <1>1
    <3> HIDE DEF Odd
    <3>2. QED
      BY <3>1, LeastExists
  <2>2. i \in 0 .. Len(f) /\ ~Fine(i)
    OBVIOUS
  <2>3. i # 0
    <3>1. g[0] = <<>>
      BY <1>1, <1>3 DEF ParsedStep
    <3>2. Fine(0)
      BY <3>1 DEF From, InOrder
    <3>3. QED
      BY <2>2, <3>2
  <2>4. i - 1 \in 0 .. Len(f) /\ ~(i <= i - 1) /\ i \in 1 .. Len(f)
    BY <1>1, <2>2, <2>3
  <2>5. Fine(i - 1)
    BY <2>1, <2>4
  <2>6. Fine(i)
    BY <1>3, <2>2, <2>4, <2>5, FromStep
  <2>7. QED
    BY <2>2, <2>6
<1>5. Fine(Len(f))
  <2>1. Len(f) \in 0 .. Len(f)
    BY <1>1
  <2>2. QED
    BY <1>4, <2>1
<1>6. QED
  BY <1>2, <1>5 DEF From

-----------------------------------------------------------------------------
(***************************************************************************)
(* The cursors.  Each stays on the file, with a line of its UAV at it or   *)
(* behind it, and is on such a line unless it is still where it started.   *)
(***************************************************************************)
CursorOf(u) ==
  /\ uav_last_index[u] \in 1 .. Len(lines)
  /\ \E i \in uav_last_index[u] .. Len(lines) : lines[i].ip = u
  /\ uav_last_index[u] = 1 \/ lines[uav_last_index[u]].ip = u

ReplayInv ==
  /\ lines \in Seq(Line)
  /\ simulation_time \in Int
  /\ status # "crashed"
  /\ \A u \in Uavs(lines) : CursorOf(u)
  /\ status = "loading" => lines = <<>> /\ mad_times = <<>>
  /\ status = "looping" => central \in Uavs(lines)
  /\ mad_times # <<>> =>
       /\ UseMad
       /\ \A u \in Uavs(lines) : lines[uav_last_index[u]].ip = u
       /\ central \in Uavs(lines)
       /\ mad_times = <<lines[uav_last_index[central]].time>>
  /\ keymap \cap SideKeys # {} => camera_right = TRUE

\* The lines and the times the searches compare are numbers.
LEMMA LineType ==
  ASSUME lines \in Seq(Line)
  PROVE  /\ Len(lines) \in Nat
         /\ \A i \in 1 .. Len(lines) : i \in Nat /\ lines[i].time \in Nat /\ lines[i].ip \in Nat
<1>1. Len(lines) \in Nat /\ \A i \in 1 .. Len(lines) : i \in Nat /\ lines[i] \in Line
  OBVIOUS
<1>2. \A l \in Line : l.time \in Nat /\ l.ip \in Nat
  BY DEF Line
<1>3. QED
  BY <1>1, <1>2

\* What a search that starts at the cursor finds: something, since a line of
\* the UAV is at the cursor or behind it.
LEMMA SearchResult ==
  ASSUME ReplayInv, NEW u \in Uavs(lines)
  PROVE  LET c == uav_last_index[u]
             a == AfterIndex(u)
             b == BeforeIndex(u)
         IN  /\ Searched(u) # {} /\ Searched(u) \subseteq c .. Len(lines)
             /\ c \in 1 .. Len(lines) /\ Len(lines) \in Nat
             /\ a = None => \A i \in Searched(u) : lines[i].time <= simulation_time
             /\ a # None => /\ a \in Searched(u) /\ lines[a].time > simulation_time
                            /\ \A i \in Searched(u) : i < a => lines[i].time <= simulation_time
             /\ SearchEnd(u) \in Nat /\ \A i \in Searched(u) : a = None => i < SearchEnd(u)
             /\ a # None => SearchEnd(u) = a
             /\ b = None => \A i \in Searched(u) : ~(i < SearchEnd(u))
             /\ b # None => /\ b \in Searched(u) /\ b < SearchEnd(u)
                            /\ \A i \in Searched(u) : i < SearchEnd(u) => i <= b
             /\ LastIndex(u) \in Searched(u)
<1> DEFINE c     == uav_last_index[u]
           a     == AfterIndex(u)
           b     == BeforeIndex(u)
           S     == Searched(u)
           later == {i \in S : lines[i].time > simulation_time}
           earlier == {i \in S : i < SearchEnd(u)}
           n     == Len(lines)
<1>1. /\ n \in Nat /\ simulation_time \in Int /\ c \in 1 .. n
      /\ \A i \in 1 .. n : lines[i].time \in Nat /\ i \in Nat
  BY LineType DEF ReplayInv, CursorOf
<1>2. S # {} /\ S \subseteq c .. n /\ \A i \in S : i \in 1 .. n
  BY <1>1 DEF ReplayInv, CursorOf, Searched
<1>3. S \subseteq Nat \ {0} /\ S \subseteq 0 .. n
  BY <1>1, <1>2
<1>4. a = IF later = {} THEN None ELSE Least(later)
  BY DEF AfterIndex
<1>5. b = IF earlier = {} THEN None ELSE Greatest(earlier)
  BY DEF BeforeIndex
<1>6. SearchEnd(u) = IF a = None THEN n + 1 ELSE a
  BY DEF SearchEnd
<1> HIDE DEF c, a, b, S, n
<1>7. later # {} => /\ a \in later /\ \A j \in later : a <= j
                    /\ a # None
  <2> SUFFICES ASSUME later # {} PROVE a \in later /\ (\A j \in later : a <= j) /\ a # None
    OBVIOUS
  <2>1. later \subseteq Nat
    BY <1>3
  <2> HIDE DEF later
  <2>2. a \in later /\ \A j \in later : a <= j
    BY <1>4, <2>1, LeastIsLeast
  <2>3. QED
    BY <1>3, <2>2 DEF later, None
<1>8. later = {} => a = None /\ \A i \in S : lines[i].time <= simulation_time
  BY <1>1, <1>2, <1>4
<1>9. a # None => /\ a \in S /\ lines[a].time > simulation_time
                  /\ \A i \in S : i < a => lines[i].time <= simulation_time
  <2> SUFFICES ASSUME a # None, later # {}
               PROVE  /\ a \in S /\ lines[a].time > simulation_time
                      /\ \A i \in S : i < a => lines[i].time <= simulation_time
    BY <1>8
  <2>1. a \in S /\ lines[a].time > simulation_time
    BY <1>7
  <2>2. \A i \in S : i < a => i \notin later
    <3>1. \A i \in S : i \in Nat
      BY <1>3
    <3>2. \A j \in later : a <= j
      BY <1>7
    <3>3. \A i \in S : i < a => ~(a <= i)
      BY <2>1, <3>1
    <3> HIDE DEF later
    <3>4. QED
      BY <3>2, <3>3
  <2>3. QED
    BY <1>1, <1>2, <2>1, <2>2
<1>10. SearchEnd(u) \in Nat /\ \A i \in S : a = None => i < SearchEnd(u)
  <2>1. CASE a = None
    <3>1. SearchEnd(u) = n + 1
      BY <1>6, <2>1
    <3>2. \A i \in 1 .. n : i < n + 1
      BY <1>1
    <3>3. QED
      BY <1>1, <1>2, <3>1, <3>2
  <2>2. CASE a # None
    <3>1. SearchEnd(u) = a /\ a \in S
      BY <1>6, <1>9, <2>2
    <3>2. QED
      BY <1>3, <2>2, <3>1
  <2>3. QED
    BY <2>1, <2>2
<1>11. earlier # {} => /\ b \in earlier /\ \A j \in earlier : j <= b
                       /\ b # None
  <2> SUFFICES ASSUME earlier # {}
               PROVE  b \in earlier /\ (\A j \in earlier : j <= b) /\ b # None
    OBVIOUS
  <2>1. earlier \subseteq 0 .. n
    BY <1>3
  <2> HIDE DEF earlier
  <2>2. b \in earlier /\ \A j \in earlier : j <= b
    BY <1>1, <1>5, <2>1, GreatestIsGreatest
  <2>3. QED
    BY <1>3, <2>2 DEF earlier, None
<1>12. earlier = {} => b = None
  BY <1>5
<1>13. b = None => \A i \in S : ~(i < SearchEnd(u))
  BY <1>11
<1>14. b # None => /\ b \in S /\ b < SearchEnd(u)
                   /\ \A i \in S : i < SearchEnd(u) => i <= b
  BY <1>11, <1>12
<1>15. LastIndex(u) \in S
  <2>1. CASE b # None
    BY <1>14, <2>1 DEF LastIndex, b
  <2>2. CASE b = None
    <3>1. a # None
      BY <1>2, <1>10, <1>13, <2>2
    <3>2. SearchEnd(u) \in S
      BY <1>6, <1>9, <3>1
    <3>3. QED
      BY <2>2, <3>2 DEF LastIndex, b
  <2>3. QED
    BY <2>1, <2>2
<1>16. a = None => \A i \in S : lines[i].time <= simulation_time
  BY <1>7, <1>8
<1>17. QED
  BY <1>1, <1>2, <1>6, <1>9, <1>10, <1>13, <1>14, <1>15, <1>16 DEF a, b, c, S, n

-----------------------------------------------------------------------------
(* The central UAV. *)

\* An order of the addresses is a list of all of them.
LEMMA OrderType ==
  ASSUME NEW f \in Seq(Line), f # <<>>, NEW l \in Orders(f)
  PROVE  /\ Len(l) \in Nat \ {0}
         /\ \A i \in 1 .. Len(l) : l[i] \in Uavs(f) /\ l[i] \in Nat
         /\ \A u \in Uavs(f) : \E i \in 1 .. Len(l) : l[i] = u
<1>1. PICK n \in 0 .. Len(f) : l \in [1 .. n -> Uavs(f)]
  BY DEF Orders
<1>2. {l[i] : i \in DOMAIN l} = Uavs(f)
  BY DEF Orders
<1>3. n \in Nat /\ l \in Seq(Uavs(f)) /\ Len(l) = n /\ DOMAIN l = 1 .. n
  BY <1>1
<1>4. \A u \in Uavs(f) : u \in Nat
  <2>1. \A i \in 1 .. Len(f) : f[i] \in Line
    OBVIOUS
  <2>2. QED
    BY <2>1 DEF Uavs, Line
<1>5. f[1].ip \in Uavs(f)
  BY DEF Uavs
<1>6. \A u \in Uavs(f) : \E i \in 1 .. Len(l) : l[i] = u
  BY <1>2, <1>3
<1>7. \A i \in 1 .. Len(l) : l[i] \in Uavs(f)
  BY <1>1, <1>3
<1>8. n # 0
  BY <1>3, <1>5, <1>6
<1>9. QED
  BY <1>3, <1>4, <1>6, <1>7, <1>8

\* The loop over list_uavs is a recursive function too.
LookedStep(l, g, i) ==
  IF i = 0 THEN None
  ELSE IF g[i - 1] = None \/ l[i + 1] < l[g[i - 1]] THEN i + 1
  ELSE g[i - 1]

Looks(l, g, n) == g = [i \in 0 .. n |-> LookedStep(l, g, i)]

\* The loop can be carried on to every round.
LEMMA LooksExists ==
  ASSUME NEW l, NEW n \in Nat
  PROVE  \E g : Looks(l, g, n)
<1> DEFINE Stuck == {k \in Nat : ~\E g : Looks(l, g, k)}
<1> SUFFICES ASSUME Stuck # {} PROVE FALSE
  OBVIOUS
<1>1. PICK k \in Stuck : \A j \in Stuck : k <= j
  <2>1. Stuck \subseteq Nat
    OBVIOUS
  <2> HIDE DEF Stuck
  <2>2. QED
    BY <2>1, LeastExists
<1>2. k # 0
  <2> DEFINE g == [i \in 0 .. 0 |-> None]
  <2>1. \A i \in 0 .. 0 : LookedStep(l, g, i) = None
    BY DEF LookedStep
  <2>2. Looks(l, g, 0)
    BY <2>1 DEF Looks
  <2>3. QED
    BY <2>2
<1>3. k - 1 \in Nat /\ k - 1 \notin Stuck
  BY <1>1, <1>2
<1>4. PICK g : Looks(l, g, k - 1)
  BY <1>3
<1> DEFINE h == [i \in 0 .. k |-> IF i = k THEN LookedStep(l, g, k) ELSE g[i]]
<1>5. \A i \in 0 .. k : LookedStep(l, h, i) = LookedStep(l, g, i)
  <2> SUFFICES ASSUME NEW i \in 0 .. k PROVE LookedStep(l, h, i) = LookedStep(l, g, i)
    OBVIOUS
  <2>1. i # 0 => h[i - 1] = g[i - 1]
    BY <1>3
  <2> HIDE DEF h
  <2>2. QED
    BY <2>1 DEF LookedStep
<1>6. \A i \in 0 .. k - 1 : g[i] = LookedStep(l, g, i)
  BY <1>4 DEF Looks
<1>7. \A i \in 0 .. k : h[i] = LookedStep(l, g, i)
  BY <1>3, <1>6
<1>8. h = [i \in 0 .. k |-> LookedStep(l, h, i)]
  BY <1>5, <1>7
<1>9. Looks(l, h, k)
  <2> HIDE DEF h
  <2> QED
    BY <1>8 DEF Looks
<1>10. QED
  BY <1>1, <1>9

\* The loop ends with an entry of the list.
LEMMA SmallestFound ==
  ASSUME NEW l, Len(l) \in Nat \ {0}
  PROVE  Smallest(l) \in 1 .. Len(l)
<1> DEFINE n == Len(l) - 1
           g == CHOOSE g : Looks(l, g, n)
           G == {i \in 0 .. n : g[i] \in 0 .. i + 1}
<1>1. n \in Nat
  OBVIOUS
<1>2. Looks(l, g, n)
  BY <1>1, LooksExists
<1>3. Smallest(l) = IF g[n] = None THEN Len(l) ELSE g[n]
  BY DEF Smallest, Looks, LookedStep
<1>4. \A i \in 0 .. n : g[i] = LookedStep(l, g, i)
  BY <1>2 DEF Looks
<1> HIDE DEF g
<1>5. 0 \in G
  <2>1. 0 \in 0 .. n
    BY <1>1
  <2>2. g[0] = 0
    BY <1>4, <2>1 DEF LookedStep, None
  <2>3. QED
    BY <2>1, <2>2
<1>6. ASSUME NEW i \in 1 .. n, i - 1 \in G PROVE i \in G
  <2>1. i \in 0 .. n /\ i # 0 /\ i \in Nat
    BY <1>1
  <2>2. g[i] = i + 1 \/ g[i] = g[i - 1]
    BY <1>4, <2>1 DEF LookedStep
  <2>3. g[i - 1] \in 0 .. (i - 1) + 1
    BY <1>6
  <2>4. \A a, b \in Int : a \in 0 .. (b - 1) + 1 => a \in 0 .. b + 1
    OBVIOUS
  <2>5. g[i] \in 0 .. i + 1
    BY <2>1, <2>2, <2>3, <2>4
  <2>6. QED
    BY <2>1, <2>5
<1>7. n \in G
  <2>1. n \in 0 .. n
    BY <1>1
  <2> HIDE DEF n, G
  <2>2. QED
    BY <1>1, <1>5, <1>6, <2>1, UpTo
<1>8. g[n] \in 0 .. Len(l)
  BY <1>7
<1>9. QED
  BY <1>3, <1>8 DEF None

\* What is loaded from a file with positions.
LEMMA Loaded ==
  ASSUME NEW f \in Files, Load(f)
  PROVE  /\ lines' \in Seq(Line) /\ lines' # <<>>
         /\ SortedFile(f) => InOrder(lines')
         /\ central' \in Uavs(lines')
<1>1. f \in Seq(Line)
  OBVIOUS
<1>2. /\ lines' = PositionLines(f) /\ lines' # <<>>
      /\ list_uavs' \in Orders(lines') /\ central' = list_uavs'[Smallest(list_uavs')]
  BY DEF Load, HasPositions
<1>3. lines' \in Seq(Line) /\ (SortedFile(f) => InOrder(lines'))
  BY <1>1, <1>2, LoadedLines
<1>4. /\ Len(list_uavs') \in Nat \ {0}
      /\ \A i \in 1 .. Len(list_uavs') : list_uavs'[i] \in Uavs(lines') /\ list_uavs'[i] \in Nat
      /\ \A u \in Uavs(lines') : \E i \in 1 .. Len(list_uavs') : list_uavs'[i] = u
  BY <1>2, <1>3, OrderType
<1>5. Smallest(list_uavs') \in 1 .. Len(list_uavs')
  BY <1>4, SmallestFound
<1>6. QED
  BY <1>2, <1>3, <1>4, <1>5

-----------------------------------------------------------------------------
(* No pass fails. *)

\* Nothing that ends a pass with an error is the case.
LEMMA PassGoesOn ==
  ASSUME ReplayInv
  PROVE  ~Fails
<1>1. ~(keymap \cap SideKeys # {} /\ ~camera_right)
  BY DEF ReplayInv
<1>2. ASSUME NEW u \in Uavs(lines) PROVE ~(LastIndex(u) > Len(lines))
  <2>1. /\ LastIndex(u) \in Searched(u) /\ Searched(u) \subseteq uav_last_index[u] .. Len(lines)
        /\ uav_last_index[u] \in 1 .. Len(lines) /\ Len(lines) \in Nat
    BY SearchResult
  <2>2. QED
    BY <2>1
<1>3. QED
  BY <1>1, <1>2 DEF Fails

\* The cursors after a pass: each on a line of its UAV, none moved back.
LEMMA CursorsAfter ==
  ASSUME ReplayInv, Pass
  PROVE  /\ lines' = lines /\ central' = central
         /\ \A u \in Uavs(lines) :
              /\ uav_last_index'[u] = LastIndex(u)
              /\ uav_last_index'[u] \in uav_last_index[u] .. Len(lines)
              /\ uav_last_index'[u] \in 1 .. Len(lines)
              /\ lines[uav_last_index'[u]].ip = u
         /\ mad_times' = IF UseMad THEN <<lines[LastIndex(central)].time>> ELSE <<>>
         /\ status' # "crashed" /\ simulation_time' \in Int
         /\ status' \in {"looping", "done"}
<1>1. lines' = lines /\ central' = central /\ status = "looping"
  BY DEF Pass, inputVars
<1>2. uav_last_index' = [u \in Uavs(lines) |-> LastIndex(u)]
  BY DEF Pass
<1>3. ASSUME NEW u \in Uavs(lines)
      PROVE  /\ uav_last_index'[u] = LastIndex(u)
             /\ uav_last_index'[u] \in uav_last_index[u] .. Len(lines)
             /\ uav_last_index'[u] \in 1 .. Len(lines)
             /\ lines[uav_last_index'[u]].ip = u
  <2>1. /\ LastIndex(u) \in Searched(u) /\ Searched(u) \subseteq uav_last_index[u] .. Len(lines)
        /\ uav_last_index[u] \in 1 .. Len(lines) /\ Len(lines) \in Nat
    BY SearchResult
  <2>2. lines[LastIndex(u)].ip = u
    BY <2>1 DEF Searched
  <2>3. LastIndex(u) \in uav_last_index[u] .. Len(lines) /\ LastIndex(u) \in 1 .. Len(lines)
    BY <2>1
  <2>4. uav_last_index'[u] = LastIndex(u)
    BY <1>2
  <2>5. QED
    BY <2>2, <2>3, <2>4
<1>4. /\ mad_times' = IF UseMad THEN <<lines[LastIndex(central)].time>> ELSE <<>>
      /\ IF graph_only /\ AllDone
         THEN status' = "done" /\ UNCHANGED simulation_time
         ELSE Advance /\ UNCHANGED status
  BY PassGoesOn DEF Pass
<1>5. simulation_time' \in Int
  <2>1. simulation_time \in Int
    BY DEF ReplayInv
  <2>2. CASE Advance
    <3>1. \A d \in (IF graph_only THEN {Step} ELSE -MaxSetBack .. MaxDelta) : d \in Int
      OBVIOUS
    <3>2. QED
      BY <2>1, <2>2, <3>1 DEF Advance
  <2>3. QED
    BY <1>4, <2>1, <2>2
<1>6. QED
  BY <1>1, <1>3, <1>4, <1>5

\* Nothing is loaded.
LEMMA ReplayInit == Init => ReplayInv
<1> SUFFICES ASSUME Init PROVE ReplayInv
  OBVIOUS
<1>1. lines \in Seq(Line) /\ Uavs(lines) = {}
  BY DEF Init, Uavs
<1>2. QED
  BY <1>1 DEF Init, ReplayInv

\* Loading, a pass of the loop and a key keep the cursors on their lines.
LEMMA ReplayStep ==
  ASSUME ReplayInv, [Next]_vars
  PROVE  ReplayInv'
<1>1. ASSUME NEW f \in Files, Load(f) PROVE ReplayInv'
  <2>1. lines' \in Seq(Line) /\ lines' # <<>> /\ central' \in Uavs(lines')
    BY <1>1, Loaded
  <2>2. /\ status = "loading" /\ status' = "looping"
        /\ uav_last_index' = [u \in Uavs(lines') |-> 1]
        /\ UNCHANGED <<simulation_time, mad_times, keymap, camera_right>>
    BY <1>1 DEF Load, windowVars
  <2>3. Len(lines') \in Nat /\ 1 \in 1 .. Len(lines')
    BY <2>1
  <2>4. ASSUME NEW u \in Uavs(lines') PROVE CursorOf(u)'
    <3>1. uav_last_index'[u] = 1
      BY <2>2
    <3>2. \E i \in 1 .. Len(lines') : lines'[i].ip = u
      BY DEF Uavs
    <3>3. QED
      BY <2>3, <3>1, <3>2 DEF CursorOf
  <2>5. QED
    BY <2>1, <2>2, <2>4 DEF ReplayInv
<1>2. ASSUME NEW f \in Files, LoadNothing(f) PROVE ReplayInv'
  BY <1>2 DEF LoadNothing, ReplayInv, CursorOf, inputVars, replayVars, windowVars
<1>3. ASSUME NEW k \in Keys, KeyDown(k) \/ KeyUp(k) PROVE ReplayInv'
  BY <1>3 DEF KeyDown, KeyUp, Window, ReplayInv, CursorOf, inputVars, replayVars
<1>4. CASE MouseMotion \/ Quit
  BY <1>4 DEF MouseMotion, Quit, Window, ReplayInv, CursorOf, inputVars, replayVars, windowVars
<1>5. CASE Pass
  <2>1. /\ lines' = lines /\ central' = central
        /\ \A u \in Uavs(lines) :
             /\ uav_last_index'[u] = LastIndex(u)
             /\ uav_last_index'[u] \in 1 .. Len(lines)
             /\ lines[uav_last_index'[u]].ip = u
        /\ mad_times' = IF UseMad THEN <<lines[LastIndex(central)].time>> ELSE <<>>
        /\ simulation_time' \in Int /\ status' \in {"looping", "done"}
    BY <1>5, CursorsAfter
  <2>2. central \in Uavs(lines) /\ lines \in Seq(Line) /\ UNCHANGED <<keymap, camera_right>>
    BY <1>5 DEF Pass, ReplayInv, windowVars
  <2>3. ASSUME NEW u \in Uavs(lines) PROVE CursorOf(u)'
    <3>1. uav_last_index'[u] \in uav_last_index'[u] .. Len(lines)
      BY <2>1
    <3>2. QED
      BY <2>1, <3>1 DEF CursorOf
  <2>4. mad_times' # <<>> => UseMad /\ mad_times' = <<lines[uav_last_index'[central]].time>>
    BY <2>1, <2>2
  <2>5. QED
    BY <2>1, <2>2, <2>3, <2>4 DEF ReplayInv
<1>6. CASE UNCHANGED vars
  BY <1>6 DEF vars, ReplayInv, CursorOf, inputVars, replayVars, windowVars
<1>7. QED
  BY <1>1, <1>2, <1>3, <1>4, <1>5, <1>6 DEF Next

\* The cursors are on their lines in every state.
LEMMA ReplayInvariant == Spec => []ReplayInv
BY ReplayInit, ReplayStep, PTL DEF Spec

\* No file, no clock and no key makes a pass of the main loop fail, and the
\* cursors stay on lines of their own UAVs.
THEOREM ReplayNeverFails == Spec => []NoCrash
<1>1. ReplayInv => NoCrash
  BY DEF ReplayInv, NoCrash
<1>2. QED
  BY <1>1, ReplayInvariant, PTL

-----------------------------------------------------------------------------
(***************************************************************************)
(* For files whose positions are in the order of time, as the simulation   *)
(* writes them: the graph runs forward, and resuming a search loses        *)
(* nothing.                                                                *)
(***************************************************************************)
SortedFiles == \A f \in Files : SortedFile(f)

\* The lines of a sorted file stay in the order of their times.
LEMMA OrderInvariant ==
  ASSUME SortedFiles
  PROVE  Spec => []InOrder(lines)
<1>1. Init => InOrder(lines)
  BY DEF Init, InOrder
<1>2. InOrder(lines) /\ [Next]_vars => InOrder(lines)'
  <2> SUFFICES ASSUME InOrder(lines), [Next]_vars PROVE InOrder(lines)'
    OBVIOUS
  <2>1. ASSUME NEW f \in Files, Load(f) PROVE InOrder(lines)'
    BY <2>1, Loaded DEF SortedFiles
  <2>2. CASE UNCHANGED inputVars
    BY <2>2 DEF InOrder, inputVars
  <2>3. QED
    BY <2>1, <2>2 DEF Next, LoadNothing, KeyDown, KeyUp, MouseMotion, Quit, Pass, vars
<1>3. QED
  BY <1>1, <1>2, PTL DEF Spec

\* Times in order, as numbers.
LEMMA TimesInOrder ==
  ASSUME lines \in Seq(Line), InOrder(lines), NEW i \in 1 .. Len(lines), NEW j \in 1 .. Len(lines),
         i <= j
  PROVE  lines[i].time <= lines[j].time
<1>1. i \in Nat /\ j \in Nat /\ lines[i].time \in Nat
  BY LineType
<1>2. CASE i = j
  BY <1>1, <1>2
<1>3. CASE i < j
  BY <1>3 DEF InOrder
<1>4. QED
  BY <1>1, <1>2, <1>3

\* The times recorded for the graph never run backwards, whatever the clock
\* does: the cursor of the central UAV never moves back.
THEOREM GraphRunsForward ==
  ASSUME SortedFiles
  PROVE  Spec => GraphForward
<1>1. ReplayInv /\ InOrder(lines) /\ [Next]_vars =>
        [mad_times # <<>> => mad_times'[1] >= mad_times[1]]_vars
  <2> SUFFICES ASSUME ReplayInv, InOrder(lines), Next, mad_times # <<>>
               PROVE  mad_times'[1] >= mad_times[1]
    OBVIOUS
  <2> DEFINE c == uav_last_index[central]
             d == uav_last_index'[central]
  <2>1. /\ central \in Uavs(lines) /\ mad_times = <<lines[c].time>> /\ lines \in Seq(Line)
        /\ CursorOf(central)
    BY DEF ReplayInv
  <2>2. c \in 1 .. Len(lines) /\ lines[c].time \in Nat /\ Len(lines) \in Nat
    BY <2>1, LineType DEF CursorOf
  <2>3. mad_times[1] = lines[c].time
    BY <2>1
  <2>4. CASE UNCHANGED mad_times
    BY <2>2, <2>3, <2>4
  <2>5. CASE Pass
    <3>1. /\ d = LastIndex(central) /\ d \in c .. Len(lines) /\ d \in 1 .. Len(lines)
          /\ mad_times' = IF UseMad THEN <<lines[LastIndex(central)].time>> ELSE <<>>
      BY <2>1, <2>5, CursorsAfter
    <3>2. lines[c].time <= lines[d].time
      <4>1. c <= d
        BY <2>2, <3>1
      <4>2. QED
        BY <2>1, <2>2, <3>1, <4>1, TimesInOrder
    <3>3. lines[d].time \in Nat
      BY <2>1, <3>1, LineType
    <3>4. mad_times'[1] = lines[d].time
      BY <3>1 DEF ReplayInv
    <3>5. QED
      BY <2>2, <2>3, <3>2, <3>3, <3>4
  <2>6. QED
    BY <2>4, <2>5 DEF Next, Load, LoadNothing, KeyDown, KeyUp, MouseMotion, Quit, replayVars
<1>2. QED
  BY <1>1, ReplayInvariant, OrderInvariant, PTL DEF Spec, GraphForward

\* A search that has left behind only lines not after the simulation time
\* finds what a search through the whole file finds.
LEMMA NothingLost ==
  ASSUME ReplayInv, InOrder(lines), NEW u \in Uavs(lines),
         \A i \in Of(u) : i < uav_last_index[u] => lines[i].time <= simulation_time,
         uav_last_index[u] = 1 \/ lines[uav_last_index[u]].time <= simulation_time
  PROVE  Exact(u, BeforeIndex(u), AfterIndex(u))
<1> DEFINE c == uav_last_index[u]
           a == AfterIndex(u)
           b == BeforeIndex(u)
           S == Searched(u)
           n == Len(lines)
           earlier == {i \in Of(u) : lines[i].time <= simulation_time}
           later   == Of(u) \ earlier
<1>1. /\ S # {} /\ c \in 1 .. n /\ n \in Nat
      /\ a = None => \A i \in S : lines[i].time <= simulation_time
      /\ a # None => /\ a \in S /\ lines[a].time > simulation_time
                     /\ \A i \in S : i < a => lines[i].time <= simulation_time
      /\ SearchEnd(u) \in Nat
      /\ \A i \in S : a = None => i < SearchEnd(u)
      /\ a # None => SearchEnd(u) = a
      /\ b = None => \A i \in S : ~(i < SearchEnd(u))
      /\ b # None => /\ b \in S /\ b < SearchEnd(u)
                     /\ \A i \in S : i < SearchEnd(u) => i <= b
  BY SearchResult
<1>2. /\ simulation_time \in Int /\ lines \in Seq(Line)
      /\ \A i \in 1 .. n : lines[i].time \in Nat /\ i \in Nat
  BY LineType DEF ReplayInv
<1>3. /\ \A i \in Of(u) : i \in 1 .. n /\ i \in Nat /\ lines[i].time \in Nat
      /\ \A i \in Of(u) : i < c \/ i \in S
      /\ \A i \in S : i \in Of(u) /\ i >= c
  BY <1>1, <1>2 DEF Of, Index, Searched
<1>4. \A i \in Of(u) : i < c => lines[i].time <= simulation_time
  OBVIOUS
<1> HIDE DEF a, b, S, c, n
<1>5. \A i \in later : i \in S /\ lines[i].time > simulation_time
  BY <1>2, <1>3, <1>4
<1>6. a = IF later = {} THEN None ELSE Least(later)
  <2>1. CASE a = None
    <3>1. later = {}
      BY <1>1, <1>2, <1>3, <1>5, <2>1
    <3>2. QED
      BY <2>1, <3>1
  <2>2. CASE a # None
    <3>1. a \in later
      BY <1>1, <1>2, <1>3, <2>2
    <3>2. \A i \in later : a <= i
      BY <1>1, <1>2, <1>3, <1>5, <2>2
    <3>3. later \subseteq Nat
      BY <1>3
    <3> HIDE DEF later
    <3>4. QED
      BY <3>1, <3>2, <3>3, LeastUnique
  <2>3. QED
    BY <2>1, <2>2
<1>7. \A i \in S : i < SearchEnd(u) <=> i \in earlier
  <2> SUFFICES ASSUME NEW i \in S PROVE i < SearchEnd(u) <=> lines[i].time <= simulation_time
    BY <1>3
  <2>1. CASE a = None
    BY <1>1, <2>1
  <2>2. CASE a # None
    <3>1. SearchEnd(u) = a /\ a \in Nat /\ i \in Nat /\ lines[a].time \in Nat /\ lines[i].time \in Nat
      BY <1>1, <1>2, <1>3, <2>2
    <3>2. i < a => lines[i].time <= simulation_time
      BY <1>1, <2>2
    <3>3. a <= i => lines[a].time <= lines[i].time
      <4>1. a \in 1 .. Len(lines) /\ i \in 1 .. Len(lines)
        BY <1>1, <1>3, <2>2 DEF n
      <4>2. QED
        BY <1>2, <4>1, TimesInOrder
    <3>4. lines[a].time > simulation_time
      BY <1>1, <2>2
    <3>5. QED
      BY <1>2, <3>1, <3>2, <3>3, <3>4
  <2>3. QED
    BY <2>1, <2>2
<1>8. b = IF earlier = {} THEN None ELSE Greatest(earlier)
  <2>1. CASE b = None
    <3>1. \A i \in S : i \notin earlier
      BY <1>1, <1>7, <2>1
    <3>2. c = 1
      <4>1. CASE lines[c].time <= simulation_time /\ c # 1
        <5>1. c \in Of(u)
          BY <1>1, <4>1 DEF ReplayInv, CursorOf, Of, Index, c, n
        <5>2. c \in S
          BY <1>1, <1>3, <5>1
        <5>3. QED
          BY <3>1, <4>1, <5>1, <5>2
      <4>2. QED
        BY <4>1 DEF c
    <3>3. \A i \in Of(u) : i \in S
      BY <1>3, <3>2
    <3>4. earlier = {}
      BY <3>1, <3>3
    <3>5. QED
      BY <2>1, <3>4
  <2>2. CASE b # None
    <3>1. b \in S /\ b \in earlier
      BY <1>1, <1>7, <2>2
    <3>2. ASSUME NEW i \in earlier PROVE i <= b
      <4>1. CASE i \in S
        BY <1>1, <1>7, <2>2, <4>1
      <4>2. CASE i < c
        <5>1. c <= b /\ i \in Nat /\ b \in Nat /\ c \in Nat
          BY <1>1, <1>3, <3>1
        <5>2. QED
          BY <4>2, <5>1
      <4>3. QED
        BY <1>3, <4>1, <4>2
    <3>3. earlier \subseteq 0 .. n
      BY <1>1, <1>3
    <3> HIDE DEF earlier
    <3>4. QED
      BY <1>1, <3>1, <3>2, <3>3, GreatestUnique
  <2>3. QED
    BY <2>1, <2>2
<1>9. QED
  BY <1>6, <1>8 DEF Exact, a, b

\* Each pass, though it resumes where the last one stopped, finds what a
\* search through the whole file would find, or waits at the line of the
\* cursor while the clock is before it.
THEOREM ResumedSearchExact ==
  ASSUME SortedFiles
  PROVE  Spec => Brackets
<1>1. ASSUME ReplayInv, InOrder(lines), Pass, NEW u \in Uavs(lines)
      PROVE  \/ Exact(u, uav_before'[u], uav_after'[u])
             \/ /\ lines[uav_last_index[u]].ip = u
                /\ lines[uav_last_index[u]].time > simulation_time
                /\ uav_before'[u] = None /\ uav_after'[u] = uav_last_index[u]
  <2> DEFINE c == uav_last_index[u]
  <2>1. uav_before'[u] = BeforeIndex(u) /\ uav_after'[u] = AfterIndex(u)
    BY <1>1 DEF Pass
  <2>2. /\ c \in 1 .. Len(lines) /\ lines \in Seq(Line) /\ simulation_time \in Int
        /\ c = 1 \/ lines[c].ip = u
    BY <1>1 DEF ReplayInv, CursorOf
  <2>3. /\ Len(lines) \in Nat /\ c \in Nat
        /\ \A i \in 1 .. Len(lines) : i \in Nat /\ lines[i].time \in Nat
    BY <2>2, LineType
  <2>4. CASE lines[c].ip = u /\ lines[c].time > simulation_time
    <3>1. c \in Searched(u) /\ \A i \in Searched(u) : i >= c
      BY <2>2, <2>3, <2>4 DEF Searched
    <3>2. AfterIndex(u) = c
      <4>1. AfterIndex(u) # None
        BY <1>1, <2>2, <2>3, <2>4, <3>1, SearchResult
      <4>2. ~(c < AfterIndex(u)) /\ AfterIndex(u) \in Searched(u)
        BY <1>1, <2>2, <2>3, <2>4, <3>1, <4>1, SearchResult
      <4>3. AfterIndex(u) \in 1 .. Len(lines)
        BY <2>2, <2>3, <4>2 DEF Searched
      <4>4. QED
        BY <2>3, <3>1, <4>2, <4>3
    <3>3. c # None
      BY <2>2 DEF None
    <3>4. SearchEnd(u) = c
      BY <3>2, <3>3 DEF SearchEnd
    <3>5. BeforeIndex(u) = None
      <4>1. BeforeIndex(u) # None => BeforeIndex(u) \in Searched(u) /\ BeforeIndex(u) < c
        BY <1>1, <3>4, SearchResult
      <4>2. \A i \in Searched(u) : i \in Nat
        BY <2>2, <2>3 DEF Searched
      <4>3. QED
        BY <2>3, <3>1, <4>1, <4>2
    <3>6. QED
      BY <2>1, <2>4, <3>2, <3>5
  <2>5. CASE ~(lines[c].ip = u /\ lines[c].time > simulation_time)
    <3>1. c = 1 \/ lines[c].time <= simulation_time
      BY <2>2, <2>3, <2>5
    <3>2. \A i \in Of(u) : i < c => lines[i].time <= simulation_time
      <4> SUFFICES ASSUME NEW i \in Of(u), i < c PROVE lines[i].time <= simulation_time
        OBVIOUS
      <4>1. i \in 1 .. Len(lines)
        BY DEF Of, Index
      <4>2. i <= c /\ c # 1
        BY <2>3, <4>1
      <4>3. lines[i].time <= lines[c].time
        BY <1>1, <2>2, <4>1, <4>2, TimesInOrder
      <4>4. QED
        BY <2>2, <2>3, <3>1, <4>1, <4>2, <4>3
    <3>3. QED
      BY <1>1, <2>1, <3>1, <3>2, NothingLost
  <2>6. QED
    BY <2>4, <2>5
<1>2. ReplayInv /\ InOrder(lines) =>
        [Pass => \A u \in Uavs(lines) :
           \/ Exact(u, uav_before'[u], uav_after'[u])
           \/ LET cursor == uav_last_index[u]
              IN  /\ lines[cursor].ip = u /\ lines[cursor].time > simulation_time
                  /\ uav_before'[u] = None /\ uav_after'[u] = cursor]_vars
  BY <1>1
<1>3. QED
  BY <1>2, ReplayInvariant, OrderInvariant, PTL DEF Spec, Brackets

=============================================================================
