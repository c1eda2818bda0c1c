------------------------------ MODULE MCHotCold ----------------------------
(* The results for the runs of HotCold. *)
EXTENDS HotCold

CONSTANTS
  Errors,     \* the errors a result may have
  MaxResults  \* the largest number of results

AllResults == UNION {[1 .. n -> Errors] : n \in 1 .. MaxResults}
=============================================================================
