----------------------------- MODULE GenGraphs -----------------------------
(***************************************************************************)
(* parameter_optimizer/gen_graphs.py: draws the saved results of one       *)
(* search, or of all searches below a directory.  export_single reads one  *)
(* file, drops the results far from the mean and, for the single graph of  *)
(* --one-graph, all but the best, colours and weighs the rest by the       *)
(* percentiles of their errors, and adds them to what is collected for the *)
(* distance parameter d given in label.txt.  --one-graph then fits the     *)
(* collected points and draws a bar for every tx and d.                    *)
(*                                                                         *)
(* Coordinates and errors are integers, and means, deviations and          *)
(* percentiles are compared exactly, multiplied out.  The regressions and  *)
(* the drawing are left out; the mean of a file is represented by its      *)
(* place in the order of export.                                           *)
(***************************************************************************)
EXTENDS Integers, Sequences, FiniteSets, Ordering

CONSTANTS
  Batches,  \* the files that may be found, in the order of os.walk
  P         \* the number of percentiles, 256

\* A file has a place, a label, parameters and results.  The label names d and
\* tx in the order it has them, or names no tx, or is empty, or is missing.
Label == [kind : {"d tx", "tx d", "d", "empty", "missing"}, d : Nat, tx : Nat]
Row   == [x : Nat, y : Nat, error : Nat]
File  == [dir : Nat, label : Label, expected : BOOLEAN, data : Seq(Row)]

ASSUME GenGraphsAssumption ==
  /\ P \in Nat \ {0}
  /\ \A b \in Batches : b.multiple \in BOOLEAN /\ b.files \in Seq(File)
                        /\ (~b.multiple => Len(b.files) = 1)

VARIABLES
  one_graph,     \* args.one_graph
  to_export,     \* the files in the order of export
  current,       \* the file being exported
  pc,            \* where the program is; exit and error are its failures
  x_values, y_values, errors,  \* the columns of the current file
  i,             \* the index of the loops that pop from them
  percentiles,   \* of the errors, times P
  colors,        \* the percentile of each point drawn, or none
  d_values_map,  \* d -> the points collected for it
  keys, values,  \* average_origin_distance_keys and _values
  hot_cold,      \* directory -> the file its hot_cold.png shows
  bars           \* tx -> d -> the value shown in distances.png

columns == <<x_values, y_values, errors>>
fileVars == <<columns, i, percentiles, colors>>
collected == <<d_values_map, keys, values, hot_cold>>
vars == <<one_graph, to_export, current, pc, fileVars, collected, bars>>

file == to_export[current]

-----------------------------------------------------------------------------
(* The files. *)

\* The number after the first "=" of the label, whatever it belongs to.
SortKey(f) == IF f.label.kind = "tx d" THEN f.label.tx ELSE f.label.d

Init ==
  /\ one_graph \in BOOLEAN
  /\ to_export = <<>>
  /\ current = 1
  /\ pc = "list"
  /\ x_values = <<>> /\ y_values = <<>> /\ errors = <<>>
  /\ i = 1
  /\ percentiles = <<>>
  /\ colors = <<>>
  /\ d_values_map = <<>>
  /\ keys = <<>> /\ values = <<>>
  /\ hot_cold = <<>>
  /\ bars = <<>>

\* A single file is not sorted.  Sorting fails on a label that is missing or
\* has no number.
ListFiles(b) ==
  /\ pc = "list"
  /\ IF b.multiple /\ \E n \in DOMAIN b.files : b.files[n].label.kind \in {"missing", "empty"}
     THEN pc' = "error" /\ UNCHANGED to_export
     ELSE /\ pc' = IF b.files = <<>> THEN "finish" ELSE "open"
          /\ LET order == StableSort([n \in DOMAIN b.files |-> SortKey(b.files[n])])
             IN  to_export' = [n \in DOMAIN b.files |-> b.files[order[n]]]
  /\ UNCHANGED <<one_graph, current, fileVars, collected, bars>>

-----------------------------------------------------------------------------
(* export_single *)

Column(rows, c) == [n \in DOMAIN rows |-> rows[n][c]]

\* A file that is not as expected: sys.exit(1) for other parameters, an
\* exception if it cannot be parsed or lacks a key.
Open ==
  /\ pc = "open"
  /\ IF ~file.expected
     THEN pc' \in {"exit", "error"} /\ UNCHANGED <<columns, i>>
     ELSE /\ x_values' = Column(file.data, "x")
          /\ y_values' = Column(file.data, "y")
          /\ errors' = Column(file.data, "error")
          /\ i' = 1
          /\ pc' = "filter"
  /\ UNCHANGED <<one_graph, to_export, current, percentiles, colors, collected, bars>>

\* The sums of the first members of s, as many as wanted.
Sums(s) ==
  LET sum[n \in 0 .. Len(s)] == IF n = 0 THEN 0 ELSE sum[n - 1] + s[n]
  IN  sum
Sum(s) == Sums(s)[Len(s)]

Squares(s) == [n \in DOMAIN s |-> s[n] * s[n]]

\* The squares of the standard deviation of s and of the distance of v from
\* its mean, both times Len(s) * Len(s).
Variance(s)  == Len(s) * Sum(Squares(s)) - Sum(s) * Sum(s)
Offset(v, s) == (Len(s) * v - Sum(s)) * (Len(s) * v - Sum(s))

\* Whether v is more than 1.5 standard deviations from the mean of s.  The
\* lower bound is at least 0, as are the values.
Outlier(v, s) == 4 * Offset(v, s) > 9 * Variance(s)

\* The bounds are those of the columns as they were read.
Removed(x, y, rows) == Outlier(x, Column(rows, "x")) \/ Outlier(y, Column(rows, "y"))

RemoveAt(s, k) == [n \in 1 .. Len(s) - 1 |-> s[IF n < k THEN n ELSE n + 1]]

\* Fault: the index advances also when an element was popped.
PopOrAdvanceSkips(remove, next) ==
  IF i > Len(errors)
  THEN pc' = next /\ UNCHANGED <<columns, i>>
  ELSE /\ i' = i + 1
       /\ UNCHANGED pc
       /\ IF remove
          THEN /\ x_values' = RemoveAt(x_values, i)
               /\ y_values' = RemoveAt(y_values, i)
               /\ errors' = RemoveAt(errors, i)
          ELSE UNCHANGED columns

\* One turn of a loop that pops from the columns what is to be removed.
PopOrAdvance(remove, next) ==
  IF i > Len(errors)
  THEN pc' = next /\ UNCHANGED <<columns, i>>
  ELSE /\ UNCHANGED pc
       /\ IF remove
          THEN /\ x_values' = RemoveAt(x_values, i)
               /\ y_values' = RemoveAt(y_values, i)
               /\ errors' = RemoveAt(errors, i)
               /\ UNCHANGED i
          ELSE i' = i + 1 /\ UNCHANGED columns

Filter ==
  /\ pc = "filter"
  /\ PopOrAdvance(Removed(x_values[i], y_values[i], file.data), "rank")
  /\ UNCHANGED <<one_graph, to_export, current, percentiles, colors, collected, bars>>

\* Fault: bisect_right.
RankRight(error, quantiles) == Cardinality({k \in 1 .. P : quantiles[k] <= error * P})

\* bisect_left: how many percentiles are below the error.
Rank(error, quantiles) == Cardinality({k \in 1 .. P : quantiles[k] < error * P})

\* numpy.percentile, times P: a value between two neighbours of the sorted errors.
Percentile(sorted, k) ==
  LET at   == (k - 1) * (Len(sorted) - 1)
      low  == sorted[1 + at \div P]
      high == sorted[Least({Len(sorted), 2 + at \div P})]
  IN  low * P + (high - low) * (at % P)

\* No errors have no percentiles.  --one-graph forgets the colours.
RankErrors ==
  /\ pc = "rank"
  /\ IF errors = <<>>
     THEN pc' = "error" /\ UNCHANGED <<i, percentiles, colors>>
     ELSE /\ percentiles' = [k \in 1 .. P |-> Percentile(Sorted(errors), k)]
          /\ colors' = IF one_graph THEN <<>> ELSE [n \in DOMAIN errors |-> Rank(errors[n], percentiles')]
          /\ i' = 1
          /\ pc' = IF one_graph THEN "top" ELSE "label"
  /\ UNCHANGED <<one_graph, to_export, current, columns, collected, bars>>

\* The loop that keeps the best 20 % for the single graph.
Top ==
  /\ pc = "top"
  /\ PopOrAdvance(100 * Rank(errors[i], percentiles) > 20 * P, "label")
  /\ UNCHANGED <<one_graph, to_export, current, percentiles, colors, collected, bars>>

\* Fault: a result at the percentile has no weight.
WeightedStrictly == {n \in DOMAIN errors : errors[n] * P < percentiles[1 + (10 * P) \div 100]}

\* The results with a weight; the weight is 1000 / error.
Weighted == {n \in DOMAIN errors : errors[n] * P <= percentiles[1 + (10 * P) \div 100]}

Points == [n \in DOMAIN errors |-> <<x_values[n], y_values[n]>>]

\* d_values_map[d], the new points included.
Pooled(d) == IF d \in DOMAIN d_values_map THEN d_values_map[d] \o Points ELSE Points

Put(f, a, v) == [b \in DOMAIN f \cup {a} |-> IF b = a THEN v ELSE f[b]]

\* Weights, regression, label, means and the graph of the file.
Collect ==
  /\ pc = "label"
  /\ IF \/ \E n \in Weighted : errors[n] = 0
        \/ Weighted = {}
        \/ file.label.kind \in {"d", "empty", "missing"}
     THEN /\ pc' = IF /\ \A n \in Weighted : errors[n] # 0
                      /\ file.label.kind \in {"empty", "missing"}
                   THEN "exit" ELSE "error"
          /\ UNCHANGED <<collected, current>>
     ELSE /\ d_values_map' = Put(d_values_map, file.label.d, Pooled(file.label.d))
          /\ keys' = Append(keys, [d |-> file.label.d, tx |-> file.label.tx])
          /\ values' = Append(values, current)
          /\ hot_cold' = IF one_graph THEN hot_cold ELSE Put(hot_cold, file.dir, current)
          /\ current' = current + 1
          /\ pc' = IF current < Len(to_export) THEN "open" ELSE "finish"
  /\ UNCHANGED <<one_graph, to_export, fileVars, bars>>

-----------------------------------------------------------------------------
(* The single graph. *)

\* The figure is made by the first export.
Finish ==
  /\ pc = "finish"
  /\ pc' = CASE ~one_graph -> "done"
             [] to_export = <<>> -> "error"
             [] OTHER -> "fit"
  /\ UNCHANGED <<one_graph, to_export, current, fileVars, collected, bars>>

\* run_distance_analysis: curve_fit refuses fewer points than it has
\* parameters, and may not find an optimum.
Fit ==
  /\ pc = "fit"
  /\ \/ Cardinality(DOMAIN d_values_map) >= 3 /\ pc' = "bars"
     \/ pc' = "error"
  /\ UNCHANGED <<one_graph, to_export, current, fileVars, collected, bars>>

\* Fault: only the keys are sorted.
ByTxKeysOnly ==
  LET order == StableSort([n \in DOMAIN keys |-> keys[n].tx])
  IN  [n \in DOMAIN keys |-> [key |-> keys[order[n]], value |-> values[n]]]

\* The keys and their values in the order of tx.
ByTx ==
  LET order == StableSort([n \in DOMAIN keys |-> keys[n].tx])
  IN  [n \in DOMAIN keys |-> [key |-> keys[order[n]], value |-> values[order[n]]]]

\* A row for every tx and a column for every d; a later value overwrites an
\* earlier one, and 0 stands where there is none.  There are three colours.
Bars ==
  /\ pc = "bars"
  /\ LET txs == {keys[n].tx : n \in DOMAIN keys}
         at(tx, d) == {n \in DOMAIN keys : ByTx[n].key = [d |-> d, tx |-> tx]}
     IN  IF Cardinality(txs) > 3
         THEN pc' = "error" /\ UNCHANGED bars
         ELSE /\ bars' = [tx \in txs |-> [d \in DOMAIN d_values_map |->
                             IF at(tx, d) = {} THEN 0 ELSE ByTx[Greatest(at(tx, d))].value]]
              /\ pc' = "done"
  /\ UNCHANGED <<one_graph, to_export, current, fileVars, collected>>

Ended == pc \in {"done", "exit", "error"} /\ UNCHANGED vars

Next ==
  \/ \E b \in Batches : ListFiles(b)
  \/ Open \/ Filter \/ RankErrors \/ Top \/ Collect
  \/ Finish \/ Fit \/ Bars
  \/ Ended

Spec == Init /\ [][Next]_vars

-----------------------------------------------------------------------------
(* Properties. *)

\* The first n of some sequences, joined.
Joined(ss) ==
  LET join[n \in 0 .. Len(ss)] == IF n = 0 THEN <<>> ELSE join[n - 1] \o ss[n]
  IN  join

\* The members of the first n of s that are in S.
Kept(s, S) == Joined([n \in 1 .. Len(s) |-> IF s[n] \in S THEN <<s[n]>> ELSE <<>>])

\* The results of a file that belong on the graphs, in the order of the file:
\* within 1.5 standard deviations and, on the single graph, with errors not
\* above the 20th percentile of those.
Within(f) == {r \in Row : ~Removed(r.x, r.y, f.data)}
Near(f) == Kept(f.data, Within(f))[Len(f.data)]
Best(f) ==
  LET limit == Percentile(Sorted(Column(Near(f), "error")), 1 + (20 * P) \div 100)
  IN  {r \in Row : r.error * P <= limit}
Belonging(f) == IF one_graph THEN Kept(Near(f), Best(f))[Len(Near(f))] ELSE Near(f)

Exported == 1 .. current - 1

PointsOf(rows) == [n \in DOMAIN rows |-> <<rows[n].x, rows[n].y>>]

\* What each file adds to the points of d.
Shares(d) == [n \in DOMAIN to_export |->
  IF to_export[n].label.d = d THEN PointsOf(Belonging(to_export[n])) ELSE <<>>]

\* The points collected for a d are those of all files labelled with it and of
\* no other, each file's exactly the ones that belong on the graph: popping
\* while iterating skips none, and the columns stay aligned.
PooledByDistance ==
  /\ DOMAIN d_values_map = {to_export[n].label.d : n \in Exported}
  /\ \A d \in DOMAIN d_values_map : d_values_map[d] = Joined(Shares(d))[current - 1]

\* The export of a file fails only for what is wrong with that file: it is not
\* as expected, there are no results, one of them has the error 0, or the label
\* lacks a number.  In particular the filters never empty the columns of a file
\* with results, and the mean always has a positive weight.
FailuresExplained ==
  pc \in {"error", "exit"} /\ current <= Len(to_export) =>
    \/ ~file.expected
    \/ file.data = <<>>
    \/ \E n \in DOMAIN file.data : file.data[n].error = 0
    \/ file.label.kind \in {"d", "empty", "missing"}

\* On a graph of its own, better results are greener and worse ones redder: the
\* best is all green, and unless there are more results than percentiles two
\* different errors never have the same colour.
ColorsByRank ==
  pc = "label" /\ ~one_graph =>
    /\ Len(colors) = Len(errors)
    /\ \A m, n \in DOMAIN errors :
         /\ colors[n] \in 0 .. P
         /\ (\A k \in DOMAIN errors : errors[n] <= errors[k]) => colors[n] = 0
         /\ errors[m] < errors[n] =>
              colors[m] <= colors[n] /\ (Len(errors) <= P => colors[m] < colors[n])

\* Of several files with the same labels, or in directories of the same name,
\* the last one exported is shown; no bar has the value of another tx or d, and
\* a bar without a file has none.
OutputsTrue ==
  /\ \A dir \in DOMAIN hot_cold :
       hot_cold[dir] = Greatest({n \in Exported : to_export[n].dir = dir})
  /\ \A tx \in DOMAIN bars : \A d \in DOMAIN bars[tx] :
       bars[tx][d] = Greatest({0} \cup {n \in Exported : /\ to_export[n].label.d = d
                                                          /\ to_export[n].label.tx = tx})

=============================================================================
