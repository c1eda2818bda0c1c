------------------------------- MODULE Search ------------------------------
(***************************************************************************)
(* What the parameter search promises, without threads, locks and files:   *)
(* workers are started while the search is running; each gives a result    *)
(* or gives up; the results that beat the default may be kept; the search  *)
(* is stopped, from outside or by the last result it asks for, and is then *)
(* saved as a whole, with the best result kept.                            *)
(***************************************************************************)
EXTENDS Integers, Sequences

CONSTANTS
  Worker,          \* who runs the simulations
  MaxSimulations,  \* the number of results after which the search stops
  DefaultError,    \* what a result has to beat to be kept
  Error,           \* the results
  NotSaved         \* the search is not saved yet

VARIABLES
  running,  \* whether new runs are started
  active,   \* the workers whose result is to come
  results,  \* the results so far
  kept,     \* the results that are kept
  lost,     \* whether a worker has been lost, and maybe a result not kept
  saved     \* the results as saved, or NotSaved

vars == <<running, active, results, kept, lost, saved>>

Obtained == {results[i] : i \in 1 .. Len(results)}

BestKept ==
  \A e \in Obtained : (\A x \in Obtained : e <= x) /\ e < DefaultError => e \in kept

Init ==
  /\ running = TRUE
  /\ active = {}
  /\ results = <<>>
  /\ kept = {}
  /\ lost = FALSE
  /\ saved = NotSaved

Start(w) ==
  /\ running
  /\ saved = NotSaved
  /\ w \notin active
  /\ active' = active \cup {w}
  /\ UNCHANGED <<running, results, kept, lost, saved>>

Finish(w, e) ==
  /\ w \in active
  /\ active' = active \ {w}
  /\ results' = Append(results, e)
  /\ running' = (running /\ Len(results) + 1 # MaxSimulations)
  /\ UNCHANGED <<kept, lost, saved>>

\* A run fails, and maybe its worker with it.
GiveUp(w) ==
  /\ w \in active
  /\ active' = active \ {w}
  /\ lost' \in {lost, TRUE}
  /\ UNCHANGED <<running, results, kept, saved>>

\* A worker is lost on its way to keeping a result.
Lose ==
  /\ saved = NotSaved
  /\ lost' = TRUE
  /\ UNCHANGED <<running, active, results, kept, saved>>

Keep(e) ==
  /\ saved = NotSaved
  /\ e \in Obtained
  /\ e < DefaultError
  /\ kept' = kept \cup {e}
  /\ UNCHANGED <<running, active, results, lost, saved>>

Stop ==
  /\ running' = FALSE
  /\ UNCHANGED <<active, results, kept, lost, saved>>

Save ==
  /\ saved = NotSaved
  /\ active = {}
  /\ lost \/ BestKept
  /\ saved' = results
  /\ UNCHANGED <<running, active, results, kept, lost>>

Next ==
  \/ \E w \in Worker : Start(w) \/ GiveUp(w) \/ \E e \in Error : Finish(w, e)
  \/ \E e \in Error : Keep(e)
  \/ Lose
  \/ Stop
  \/ Save

Spec == Init /\ [][Next]_vars

=============================================================================
