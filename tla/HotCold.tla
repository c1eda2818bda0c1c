------------------------------ MODULE HotCold ------------------------------
(***************************************************************************)
(* The colours of write_hot_cold in parameter_optimizer/src/               *)
(* optimization.rs: the errors of the results are sorted, RangeSmoother    *)
(* (util.rs) spreads them over a table of limits, and every result is      *)
(* drawn in the colour of the first limit above its error, from green for  *)
(* the best to red for the worst.                                          *)
(*                                                                         *)
(* An error that is not a number is never among the results: tell refuses  *)
(* it (see Optimizer), and the saved form of it cannot be read back.       *)
(*                                                                         *)
(* The placement of the points, the axes and the drawing are left out.     *)
(***************************************************************************)
EXTENDS Integers, Sequences, FiniteSets, Ordering

CONSTANTS
  Results,   \* the sequences of errors under consideration
  Steps,     \* step_size, 256
  ByteSize   \* the number of values of a byte, 256

ASSUME HotColdAssumption ==
  /\ Steps \in Nat \ {0, 1} /\ ByteSize \in Nat \ {0}
  /\ Results \subseteq Seq(Int) \ {<<>>}

VARIABLES
  results,       \* state.results: the errors in the order of the runs
  error_scores,  \* the errors sorted
  data,          \* the limits of the RangeSmoother
  colors         \* the colours of the results drawn so far

vars == <<results, error_scores, data, colors>>

Init ==
  /\ results \in Results
  /\ error_scores = <<>>
  /\ data = <<>>
  /\ colors = <<>>

Sort ==
  /\ error_scores = <<>>
  /\ error_scores' = Sorted(results)
  /\ UNCHANGED <<results, data, colors>>

-----------------------------------------------------------------------------
(* RangeSmoother::new *)

\* i * values.len() / steps
Scaled(i) == (i * Len(error_scores)) \div Steps

\* Fault: the scaled index is taken without the inner loop.
SourceIndexPlain(i) == Scaled(i) + 1

\* The inner loop: the first scaled index beyond that of i, and the value
\* before it.  The values are counted from 1 here.
SourceIndex(i) ==
  LET beyond == {j \in 0 .. Steps : Scaled(i + j) > Scaled(i)}
      first  == CHOOSE j \in beyond : \A k \in beyond : j <= k
  IN  Scaled(i + first)

Push ==
  /\ error_scores # <<>>
  /\ Len(data) < Steps
  /\ data' = Append(data, error_scores[SourceIndex(Len(data))])
  /\ UNCHANGED <<results, error_scores, colors>>

-----------------------------------------------------------------------------
(* draw_series *)

\* Fault: the limits above the error are counted.
LimitIndexCounts(e) == Cardinality({l \in 1 .. Steps : e < data[l]})

\* How many limits the loop has looked at when it ends.
LimitIndex(e) ==
  LET above == {l \in 1 .. Steps : e < data[l]}
  IN  IF above = {} THEN Steps ELSE CHOOSE l \in above : \A m \in above : l <= m

\* i as u8, (256 - i) as u8
Color(e) == [red |-> LimitIndex(e) % ByteSize, green |-> (Steps - LimitIndex(e)) % ByteSize]

Draw ==
  /\ Len(data) = Steps
  /\ Len(colors) < Len(results)
  /\ colors' = Append(colors, Color(results[Len(colors) + 1]))
  /\ UNCHANGED <<results, error_scores, data>>

Next == Sort \/ Push \/ Draw

Spec == Init /\ [][Next]_vars

-----------------------------------------------------------------------------
(* Properties. *)

\* The limits are quantiles of the errors, whether there are fewer or more
\* errors than limits: the l-th of Steps limits is an error whose rank lies in
\* the l-th of Steps parts of the ranks, and is the last rank of that part if
\* it has several.
Quantiles ==
  \A l \in DOMAIN data : \E rank \in DOMAIN error_scores :
    /\ data[l] = error_scores[rank]
    /\ (l - 1) * Len(error_scores) < rank * Steps
    /\ (rank - 1) * Steps < l * Len(error_scores)
    /\ l * Len(error_scores) < (rank + 1) * Steps

\* A result is never drawn less green than a worse one.
GreenByRank ==
  \A k, l \in DOMAIN colors :
    results[k] <= results[l] => colors[k].green >= colors[l].green

\* A result is never drawn more red than a worse one: the comment on the
\* colours has the best green and the worst red.
RedByRank ==
  \A k, l \in DOMAIN colors :
    results[k] <= results[l] => colors[k].red <= colors[l].red

=============================================================================
