----------------------------- MODULE Optimizer -----------------------------
(***************************************************************************)
(* The parameter search of parameter_optimizer/src/optimization.rs: main   *)
(* spawns one runner thread per core; every runner repeatedly asks the     *)
(* optimizer for parameters, runs the simulation, computes the error of    *)
(* the run from the positions file, and tells the optimizer.  Ctrl-C or    *)
(* the MAX_SIMULATIONS-th result stops the runners; main then joins them   *)
(* and exports the results.                                                *)
(*                                                                         *)
(* STATE is a mutex, and a panic inside its critical section poisons it.   *)
(* A critical section is one step here: what it does besides is to store   *)
(* RUNNING, which the others read without the lock.  RUNNING and           *)
(* LOWEST_ERROR are atomics, read and written in separate steps.           *)
(***************************************************************************)
EXTENDS Integers, Sequences, FiniteSets

CONSTANTS
  Runner,          \* the threads, num_cpus of them
  MaxSimulations,  \* MAX_SIMULATIONS
  DefaultError,    \* the initial LOWEST_ERROR
  Error,           \* the errors a run may have
  NaN,             \* the error that tell refuses
  NoBackup,        \* the output file has not been written
  Faults           \* what may go wrong, among FaultKinds

\* The simulation fails; its file cannot be analysed; the error is NaN; the
\* copy to out/ fails; a positions file cannot be removed; the system clock is
\* set back; an output file of main cannot be written.
FaultKinds == {"binary", "analysis", "nan", "copy", "remove", "clock", "write"}

ASSUME OptimizerAssumption ==
  /\ IsFiniteSet(Runner)
  /\ Runner # {}
  /\ MaxSimulations \in Nat \ {0}
  /\ DefaultError \in Int
  /\ Error \subseteq Int
  /\ NaN \notin Error
  /\ Faults \subseteq FaultKinds

VARIABLES
  RUNNING,       \* the flag that keeps the runners going
  LOWEST_ERROR,  \* the lowest error so far, as far as the runners know
  results,       \* state.results: the errors of the finished runs
  early,         \* whether some result is stamped before the first one
  poisoned,      \* a thread panicked while it held the mutex of STATE
  pc,            \* where each runner is
  error,         \* the error each runner has computed in this iteration
  positions,     \* whether the positions file of the runner's iteration exists
  leaked,        \* whether the file of some earlier iteration still exists
  out,           \* the errors whose positions are kept in out/
  main,          \* where the main thread is, or how the process ended
  FORCE_EXIT,    \* how often Ctrl-C was pressed
  backup,        \* the results written to output-<time>.json
  failed         \* history: "runner" if an analysis, a tell, a copy or a removal
                 \* has failed, "export" if the backup could not be written

threadVars == <<pc, error, positions, leaked>>
sharedVars == <<RUNNING, LOWEST_ERROR, results, early, poisoned, out>>
mainVars   == <<main, FORCE_EXIT, backup>>
vars       == <<threadVars, sharedVars, mainVars, failed>>

ForceExitLimit == 5

Ended == main \in {"done", "panicked", "killed"}

Goto(t, from, to) ==
  /\ ~Ended
  /\ pc[t] = from
  /\ pc' = [pc EXCEPT ![t] = to]

-----------------------------------------------------------------------------
(* run_thread *)

\* The loop condition.  Each iteration has a positions file of a new, random
\* name, so the runner loses sight of one that an earlier iteration left.
Check(t) ==
  /\ Goto(t, "check", IF RUNNING THEN "ask" ELSE "exited")
  /\ IF RUNNING
     THEN /\ positions' = [positions EXCEPT ![t] = FALSE]
          /\ leaked' = (leaked \/ positions[t])
     ELSE UNCHANGED <<positions, leaked>>
  /\ UNCHANGED <<error, sharedVars, mainVars, failed>>

\* Fault: a runner that finds the mutex poisoned tries again.
AskRetries(t) ==
  /\ Goto(t, "ask", IF poisoned THEN "check" ELSE "binary")
  /\ UNCHANGED <<error, positions, leaked, sharedVars, mainVars, failed>>

\* lock().unwrap(), then the parameters are asked for.
Ask(t) ==
  /\ Goto(t, "ask", IF poisoned THEN "panicked" ELSE "binary")
  /\ UNCHANGED <<error, positions, leaked, sharedVars, mainVars, failed>>

\* Something fails that makes a runner leave its positions file behind.
RunnerFails == failed' = failed \cup {"runner"}

\* run_binary: a successful run leaves a positions file; a failed run's file is
\* removed, and that the removal may fail is ignored.
RunBinary(t) ==
  /\ \/ /\ Goto(t, "binary", "analysis")
        /\ positions' = [positions EXCEPT ![t] = TRUE]
        /\ UNCHANGED failed
     \/ /\ "binary" \in Faults
        /\ Goto(t, "binary", "check")
        /\ UNCHANGED <<positions, failed>>
     \/ /\ {"binary", "remove"} \subseteq Faults
        /\ Goto(t, "binary", "check")
        /\ positions' = [positions EXCEPT ![t] = TRUE]
        /\ RunnerFails
  /\ UNCHANGED <<error, leaked, sharedVars, mainVars>>

-----------------------------------------------------------------------------
(* run_analysis *)

\* Reads and parses the file and computes the error.  When reading or parsing
\* fails, run_thread reports it and goes on; when the file has no positions
\* the parser panics.  Either way the file stays.
Analyse(t) ==
  /\ \/ \E e \in Error \cup (IF "nan" \in Faults THEN {NaN} ELSE {}) :
          /\ Goto(t, "analysis", "tell")
          /\ error' = [error EXCEPT ![t] = e]
          /\ UNCHANGED failed
     \/ /\ "analysis" \in Faults
        /\ Goto(t, "analysis", "check") \/ Goto(t, "analysis", "panicked")
        /\ RunnerFails
        /\ UNCHANGED error
  /\ UNCHANGED <<positions, leaked, sharedVars, mainVars>>

\* Fault: the result of tell is not checked.
TellUnchecked(t) ==
  /\ ~poisoned
  /\ Goto(t, "tell", "load")
  /\ results' = Append(results, error[t])
  /\ RUNNING' = (RUNNING /\ Len(results) + 1 # MaxSimulations)
  /\ UNCHANGED <<error, positions, leaked, LOWEST_ERROR, early, poisoned, out, mainVars,
                 failed>>

\* Fault: the results are counted before the new one is pushed.
TellCountsFirst(t) ==
  /\ ~poisoned /\ error[t] # NaN
  /\ Goto(t, "tell", "load")
  /\ results' = Append(results, error[t])
  /\ RUNNING' = (RUNNING /\ Len(results) # MaxSimulations)
  /\ UNCHANGED <<error, positions, leaked, LOWEST_ERROR, early, poisoned, out, mainVars,
                 failed>>

\* The critical section.  A poisoned mutex fails lock().unwrap(); an error
\* that is not a number fails tell().unwrap(), inside the section.  The result
\* is stamped with SystemTime::now(), which is before the time of the first
\* result if the clock was set back.
Tell(t) ==
  \/ /\ poisoned \/ error[t] = NaN
     /\ Goto(t, "tell", "panicked")
     /\ poisoned' = TRUE
     /\ RunnerFails
     /\ UNCHANGED <<error, positions, leaked, RUNNING, LOWEST_ERROR, results, early, out, mainVars>>
  \/ /\ ~poisoned /\ error[t] # NaN
     /\ Goto(t, "tell", "load")
     /\ results' = Append(results, error[t])
     /\ RUNNING' = (RUNNING /\ Len(results) + 1 # MaxSimulations)
     /\ \/ UNCHANGED early
        \/ "clock" \in Faults /\ results # <<>> /\ early' = TRUE
     /\ UNCHANGED <<error, positions, leaked, LOWEST_ERROR, poisoned, out, mainVars, failed>>

\* Fault: returns early when the run is not the best.
LoadReturns(t) ==
  /\ Goto(t, "load", IF error[t] < LOWEST_ERROR THEN "store" ELSE "check")
  /\ UNCHANGED <<error, positions, leaked, sharedVars, mainVars, failed>>

\* LOWEST_ERROR is loaded and compared; the store is a step of its own.
Load(t) ==
  /\ Goto(t, "load", IF error[t] < LOWEST_ERROR THEN "store" ELSE "remove")
  /\ UNCHANGED <<error, positions, leaked, sharedVars, mainVars, failed>>

Store(t) ==
  /\ Goto(t, "store", "copy")
  /\ LOWEST_ERROR' = error[t]
  /\ UNCHANGED <<error, positions, leaked, RUNNING, results, early, poisoned, out, mainVars,
                 failed>>

\* Fault: out/ keeps only the latest best.
CopyReplaces(t) ==
  /\ Goto(t, "copy", "remove")
  /\ out' = {error[t]}
  /\ UNCHANGED <<error, positions, leaked, RUNNING, LOWEST_ERROR, results, early, poisoned,
                 mainVars, failed>>

\* The positions are copied to out/<error>.csv; a failed copy panics, outside
\* the critical section.
Copy(t) ==
  \/ /\ Goto(t, "copy", "remove")
     /\ out' = out \cup {error[t]}
     /\ UNCHANGED <<error, positions, leaked, RUNNING, LOWEST_ERROR, results, early, poisoned,
                 mainVars, failed>>
  \/ /\ "copy" \in Faults
     /\ Goto(t, "copy", "panicked")
     /\ RunnerFails
     /\ UNCHANGED <<error, positions, leaked, sharedVars, mainVars>>

\* remove_file; when it fails, a message is printed and the runner goes on.
RemoveFile(t) ==
  /\ Goto(t, "remove", "check")
  /\ \/ positions' = [positions EXCEPT ![t] = FALSE] /\ UNCHANGED failed
     \/ "remove" \in Faults /\ RunnerFails /\ UNCHANGED positions
  /\ UNCHANGED <<error, leaked, sharedVars, mainVars>>

RunThread(t) ==
  \/ Check(t)
  \/ Ask(t)
  \/ RunBinary(t)
  \/ Analyse(t)
  \/ Tell(t)
  \/ Load(t)
  \/ Store(t)
  \/ Copy(t)
  \/ RemoveFile(t)

-----------------------------------------------------------------------------
(* run: the main thread and the Ctrl-C handler *)

\* Fault: main waits for the first runner to end only.
JoinAny ==
  /\ main = "join"
  /\ \E t \in Runner : pc[t] \in {"exited", "panicked"}
  /\ main' = "export"
  /\ UNCHANGED <<threadVars, sharedVars, FORCE_EXIT, backup, failed>>

\* Fault: main waits for a panicked runner to finish its work.
JoinClean ==
  /\ main = "join"
  /\ \A t \in Runner : pc[t] = "exited"
  /\ main' = "export"
  /\ UNCHANGED <<threadVars, sharedVars, FORCE_EXIT, backup, failed>>

\* A thread is joined when it has ended, cleanly or by a panic: the result of
\* join is ignored.
Join ==
  /\ main = "join"
  /\ \A t \in Runner : pc[t] \in {"exited", "panicked"}
  /\ main' = "export"
  /\ UNCHANGED <<threadVars, sharedVars, FORCE_EXIT, backup, failed>>

\* A graph cannot be written, which main does not handle.
WriteFails ==
  /\ "write" \in Faults
  /\ main' = "panicked"
  /\ UNCHANGED backup

\* Fault: the graphs are drawn before the backup is written.
ExportLater ==
  /\ main = "export"
  /\ main' = IF poisoned THEN "panicked" ELSE "hot_cold"
  /\ UNCHANGED <<threadVars, sharedVars, FORCE_EXIT, backup, failed>>

\* lock().unwrap() and the backup file.  Without a file that can be written,
\* and while the clock is before 1970, main panics and there is no backup.
Export ==
  /\ main = "export"
  /\ \/ /\ poisoned
        /\ main' = "panicked"
        /\ UNCHANGED <<backup, failed>>
     \/ /\ ~poisoned
        /\ main' = "hot_cold"
        /\ backup' = results
        /\ UNCHANGED failed
     \/ /\ Faults \cap {"write", "clock"} # {}
        /\ main' = "panicked"
        /\ failed' = failed \cup {"export"}
        /\ UNCHANGED backup
  /\ UNCHANGED <<threadVars, sharedVars, FORCE_EXIT>>

\* RangeSmoother::new searches for an index that grows with the number of
\* values: without values its loop has no end.
WriteHotCold ==
  /\ main = "hot_cold"
  /\ results # <<>>
  /\ \/ main' = "error_time" /\ UNCHANGED backup
     \/ WriteFails
  /\ UNCHANGED <<threadVars, sharedVars, FORCE_EXIT, failed>>

\* duration_since(start).unwrap() fails for a result stamped before the first.
WriteErrorTime ==
  /\ main = "error_time"
  /\ \/ main' = (IF early THEN "panicked" ELSE "done") /\ UNCHANGED backup
     \/ WriteFails
  /\ UNCHANGED <<threadVars, sharedVars, FORCE_EXIT, failed>>

CtrlC ==
  /\ ~Ended
  /\ FORCE_EXIT' = FORCE_EXIT + 1
  /\ IF FORCE_EXIT = ForceExitLimit
     THEN main' = "killed" /\ UNCHANGED RUNNING
     ELSE RUNNING' = FALSE /\ UNCHANGED main
  /\ UNCHANGED <<threadVars, LOWEST_ERROR, results, early, poisoned, out, backup, failed>>

MainThread == Join \/ Export \/ WriteHotCold \/ WriteErrorTime

\* The state once the runners are spawned; main has told the optimizers the
\* default error, which no variable here depends on.
Init ==
  /\ RUNNING = TRUE
  /\ LOWEST_ERROR = DefaultError
  /\ results = <<>>
  /\ early = FALSE
  /\ poisoned = FALSE
  /\ pc = [t \in Runner |-> "check"]
  /\ error = [t \in Runner |-> NaN]
  /\ positions = [t \in Runner |-> FALSE]
  /\ leaked = FALSE
  /\ out = {}
  /\ main = "join"
  /\ FORCE_EXIT = 0
  /\ backup = NoBackup
  /\ failed = {}

Next == (\E t \in Runner : RunThread(t)) \/ MainThread \/ CtrlC

Spec == Init /\ [][Next]_vars

\* The operating system runs every thread, and every simulation ends.
FairSpec == Spec /\ WF_vars(MainThread) /\ \A t \in Runner : WF_vars(RunThread(t))

-----------------------------------------------------------------------------
(* Properties. *)

Location == {"check", "ask", "binary", "analysis", "tell", "load", "store", "copy",
             "remove", "exited", "panicked"}

\* The types; in particular no result is NaN, which the sort of
\* get_bounds_and_regression relies on.
TypeOK ==
  /\ RUNNING \in BOOLEAN
  /\ LOWEST_ERROR \in Error \cup {DefaultError}
  /\ results \in Seq(Error)
  /\ early \in BOOLEAN
  /\ poisoned \in BOOLEAN
  /\ pc \in [Runner -> Location]
  /\ error \in [Runner -> Error \cup {NaN}]
  /\ positions \in [Runner -> BOOLEAN]
  /\ leaked \in BOOLEAN
  /\ out \in SUBSET Error
  /\ main \in {"join", "export", "hot_cold", "error_time", "done", "panicked", "killed"}
  /\ FORCE_EXIT \in Nat
  /\ backup \in Seq(Error) \cup {NoBackup}
  /\ failed \in SUBSET {"runner", "export"}

Errors(s) == {s[i] : i \in 1 .. Len(s)}

Best(e) == e \in Errors(results) /\ \A x \in Errors(results) : e <= x

\* Although load, compare and store of LOWEST_ERROR race, the positions of the
\* best run are never lost: once every runner has left cleanly they are in
\* out/, if the best run beats the default.
BestExported ==
  (\A t \in Runner : pc[t] = "exited") =>
    \A e \in Errors(results) : Best(e) /\ e < DefaultError => e \in out

\* The runners in the middle of an iteration whose result is still to come.
InFlight == {t \in Runner : pc[t] \in {"ask", "binary", "analysis", "tell"}}

\* The search stops at the limit: while it is on, the limit is not reached,
\* and at most one result per other runner comes in late.
ResultsBound ==
  /\ RUNNING => Len(results) < MaxSimulations
  /\ Len(results) <= MaxSimulations + Cardinality(Runner) - 1

\* When the runners are gone, a positions file is left behind exactly if an
\* analysis, a tell, a copy or a removal has failed on the way: however the
\* runners leave an iteration, no other way leaves one.
NoFileLeft ==
  main \notin {"join", "killed"} =>
    (leaked \/ (\E t \in Runner : positions[t]) <=> "runner" \in failed)

\* Once main has come past the export, however it ends, the backup holds every
\* result of the search: a clock set back, which makes the last graph panic,
\* costs no result.  Only a poisoned mutex, a backup file that cannot be
\* written or a clock before 1970 ends main without a backup.
BackupComplete ==
  /\ main \in {"hot_cold", "error_time", "done"} => backup = results
  /\ main = "panicked" =>
       \/ backup = results
       \/ backup = NoBackup /\ (poisoned \/ "export" \in failed)

-----------------------------------------------------------------------------
(***************************************************************************)
(* The program implements the search of module Search: a worker is active  *)
(* while its result is still to come, what is in out/ is kept, and the     *)
(* backup file is the saved state.                                         *)
(***************************************************************************)
Lost == \E t \in Runner : pc[t] = "panicked"

Abstract ==
  INSTANCE Search WITH
    Worker   <- Runner,
    NotSaved <- NoBackup,
    running  <- RUNNING,
    active   <- InFlight,
    kept     <- out,
    lost     <- Lost,
    saved    <- backup

\* Whatever the runners, main and Ctrl-C do, seen from outside it is a search:
\* results come only from started runs, at most one each, only results are
\* kept, and main saves once, when no result is outstanding and the best run
\* is kept or a runner has been lost; after that nothing changes.
ImplementsSearch == Abstract!Spec

-----------------------------------------------------------------------------
(* Liveness. *)

\* Once the search is stopped with at least one result, the process ends, even
\* if runners panicked or the mutex is poisoned.
ShutdownWithData == (~RUNNING /\ results # <<>>) ~> Ended

\* A poisoned mutex takes every runner and main down: nobody is left waiting.
PoisonEndsAll == poisoned ~> Ended

\* Once the search is stopped the process ends: the graphs are written, or
\* there is "No data to graph".
ShutdownCompletes == ~RUNNING ~> Ended

=============================================================================
