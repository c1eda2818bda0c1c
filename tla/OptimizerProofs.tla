-------------------------- MODULE OptimizerProofs --------------------------
(***************************************************************************)
(* Theorems about the parameter search, for every number of runners, every *)
(* limit and every set of errors and faults.                               *)
(***************************************************************************)
EXTENDS Optimizer, FiniteSetTheorems, TLAPS

USE OptimizerAssumption

\* Pushing an error adds it to the errors of the results.
LEMMA ErrorsAppend ==
  ASSUME NEW s \in Seq(Error), NEW e \in Error
  PROVE  Errors(Append(s, e)) = Errors(s) \cup {e}
<1>1. Len(Append(s, e)) = Len(s) + 1 /\ Len(s) \in Nat
  OBVIOUS
<1>2. \A i \in 1 .. Len(s) : Append(s, e)[i] = s[i]
  OBVIOUS
<1>3. Append(s, e)[Len(s) + 1] = e
  OBVIOUS
<1>4. \A x \in Errors(Append(s, e)) : x \in Errors(s) \cup {e}
  <2> SUFFICES ASSUME NEW i \in 1 .. Len(s) + 1
               PROVE  Append(s, e)[i] \in Errors(s) \cup {e}
    BY <1>1 DEF Errors
  <2>1. i \in 1 .. Len(s) \/ i = Len(s) + 1
    BY <1>1
  <2>2. QED
    BY <1>2, <1>3, <2>1 DEF Errors
<1>5. \A x \in Errors(s) \cup {e} : x \in Errors(Append(s, e))
  <2>1. e \in Errors(Append(s, e))
    <3>1. Len(s) + 1 \in 1 .. Len(Append(s, e))
      BY <1>1
    <3>2. QED
      BY <1>3, <3>1 DEF Errors
  <2>2. ASSUME NEW i \in 1 .. Len(s) PROVE s[i] \in Errors(Append(s, e))
    <3>1. i \in 1 .. Len(Append(s, e))
      BY <1>1
    <3>2. QED
      BY <1>2, <3>1 DEF Errors
  <2>3. QED
    BY <2>1, <2>2 DEF Errors
<1>6. QED
  BY <1>4, <1>5

\* The errors of the results are errors.
LEMMA ErrorsType ==
  ASSUME NEW s \in Seq(Error)
  PROVE  Errors(s) \subseteq Error
BY DEF Errors

-----------------------------------------------------------------------------
(* Type correctness. *)

\* The types hold before the first runner starts.
LEMMA InitType == Init => TypeOK
<1> SUFFICES ASSUME Init PROVE TypeOK
  OBVIOUS
<1>1. RUNNING \in BOOLEAN /\ poisoned \in BOOLEAN /\ leaked \in BOOLEAN /\ early \in BOOLEAN
  BY Zenon DEF Init
<1>2. /\ LOWEST_ERROR \in Error \cup {DefaultError} /\ results \in Seq(Error)
      /\ out \in SUBSET Error /\ FORCE_EXIT \in Nat /\ backup \in Seq(Error) \cup {NoBackup}
  BY DEF Init
<1>3. pc \in [Runner -> Location] /\ error \in [Runner -> Error \cup {NaN}]
  BY DEF Init, Location
<1>4. positions \in [Runner -> BOOLEAN]
  BY DEF Init
<1>5. main = "join" /\ failed = {}
  BY DEF Init
<1>6. QED
  BY <1>1, <1>2, <1>3, <1>4, <1>5 DEF TypeOK

\* A runner only moves to a location.
LEMMA GotoType ==
  ASSUME TypeOK, NEW t \in Runner, NEW from, NEW to \in Location, Goto(t, from, to)
  PROVE  pc' \in [Runner -> Location]
BY DEF Goto, TypeOK

\* The runner's file is there, gone or left behind.
LEMMA PositionsType ==
  ASSUME TypeOK, NEW t \in Runner, NEW b \in BOOLEAN,
         positions' = [positions EXCEPT ![t] = b]
  PROVE  positions' \in [Runner -> BOOLEAN]
BY DEF TypeOK

\* The step of a runner either fails or does not.
LEMMA FailedType ==
  ASSUME TypeOK, NEW t \in Runner, RunThread(t)
  PROVE  failed' \in SUBSET {"runner", "export"}
<1>1. failed' = failed \/ failed' = failed \cup {"runner"}
  BY DEF RunThread, Check, Ask, RunBinary, Analyse, Tell, Load, Store, Copy, RemoveFile,
         RunnerFails
<1>2. QED
  BY <1>1 DEF TypeOK

\* A step that leaves the shared state and main alone.
LEMMA LocalType ==
  ASSUME TypeOK, UNCHANGED <<sharedVars, mainVars>>,
         pc' \in [Runner -> Location], error' \in [Runner -> Error \cup {NaN}],
         positions' \in [Runner -> BOOLEAN], leaked' \in BOOLEAN,
         failed' \in SUBSET {"runner", "export"}
  PROVE  TypeOK'
BY DEF TypeOK, sharedVars, mainVars

\* A runner that only moves.
LEMMA MoveType ==
  ASSUME TypeOK, NEW t \in Runner, NEW from, NEW to \in Location, Goto(t, from, to),
         UNCHANGED <<error, positions, leaked, sharedVars, mainVars, failed>>
  PROVE  TypeOK'
<1>1. pc' \in [Runner -> Location]
  BY GotoType
<1>2. /\ error' \in [Runner -> Error \cup {NaN}]
      /\ positions' \in [Runner -> BOOLEAN] /\ leaked' \in BOOLEAN
      /\ failed' \in SUBSET {"runner", "export"}
  BY DEF TypeOK
<1>3. QED
  BY <1>1, <1>2, LocalType

\* Analysing a file gives an error or ends the runner.
LEMMA AnalyseType ==
  ASSUME TypeOK, NEW t \in Runner, Analyse(t), failed' \in SUBSET {"runner", "export"}
  PROVE  TypeOK'
<1>1. /\ UNCHANGED <<sharedVars, mainVars>>
      /\ positions' \in [Runner -> BOOLEAN] /\ leaked' \in BOOLEAN
  BY DEF Analyse, TypeOK
<1>2. CASE \E e \in Error \cup {NaN} : /\ Goto(t, "analysis", "tell")
                                       /\ error' = [error EXCEPT ![t] = e]
  <2>1. pc' \in [Runner -> Location]
    BY <1>2, GotoType DEF Location
  <2>2. error' \in [Runner -> Error \cup {NaN}]
    BY <1>2 DEF TypeOK
  <2>3. QED
    BY <1>1, <2>1, <2>2, LocalType
<1>3. CASE /\ Goto(t, "analysis", "check") \/ Goto(t, "analysis", "panicked")
           /\ UNCHANGED error
  <2>1. pc' \in [Runner -> Location]
    BY <1>3, GotoType DEF Location
  <2>2. error' \in [Runner -> Error \cup {NaN}]
    BY <1>3 DEF TypeOK
  <2>3. QED
    BY <1>1, <2>1, <2>2, LocalType
<1>4. QED
  BY <1>2, <1>3 DEF Analyse

\* Telling the sampler extends the results or poisons the lock.
LEMMA TellType ==
  ASSUME TypeOK, NEW t \in Runner, Tell(t), failed' \in SUBSET {"runner", "export"}
  PROVE  TypeOK'
<1>1. CASE /\ Goto(t, "tell", "panicked") /\ poisoned' = TRUE
           /\ UNCHANGED <<error, positions, leaked, RUNNING, LOWEST_ERROR, results, early, out,
                          mainVars>>
  <2>1. pc' \in [Runner -> Location]
    BY <1>1, GotoType DEF Location
  <2>2. poisoned' \in BOOLEAN
    BY <1>1
  <2>3. QED
    BY <1>1, <2>1, <2>2 DEF TypeOK, mainVars
<1>2. CASE /\ error[t] # NaN /\ Goto(t, "tell", "load")
           /\ results' = Append(results, error[t])
           /\ RUNNING' = (RUNNING /\ Len(results) + 1 # MaxSimulations)
           /\ (UNCHANGED early) \/ early' = TRUE
           /\ UNCHANGED <<error, positions, leaked, LOWEST_ERROR, poisoned, out, mainVars>>
  <2>1. pc' \in [Runner -> Location]
    BY <1>2, GotoType DEF Location
  <2>2. results' \in Seq(Error)
    BY <1>2 DEF TypeOK
  <2>3. RUNNING' \in BOOLEAN /\ early' \in BOOLEAN
    BY <1>2 DEF TypeOK
  <2>4. QED
    BY <1>2, <2>1, <2>2, <2>3 DEF TypeOK, mainVars
<1>3. QED
  BY <1>1, <1>2 DEF Tell

\* The steps of a runner.
LEMMA RunThreadType ==
  ASSUME TypeOK, NEW t \in Runner, RunThread(t), \A u \in Runner :
           pc[u] \in {"load", "store", "copy"} => error[u] # NaN
  PROVE  TypeOK'
<1>0. failed' \in SUBSET {"runner", "export"}
  BY FailedType
<1>1. CASE Check(t)
  <2>1. UNCHANGED <<error, sharedVars, mainVars>>
    BY <1>1 DEF Check
  <2>2. pc' \in [Runner -> Location]
    BY <1>1, GotoType DEF Check, Location
  <2>3. positions' \in [Runner -> BOOLEAN]
    <3>1. CASE positions' = [positions EXCEPT ![t] = FALSE]
      BY <3>1, PositionsType
    <3>2. CASE UNCHANGED positions
      BY <3>2 DEF TypeOK
    <3>3. QED
      BY <1>1, <3>1, <3>2 DEF Check
  <2>4. error' \in [Runner -> Error \cup {NaN}] /\ leaked' \in BOOLEAN
    <3>1. leaked' = (leaked \/ positions[t]) \/ leaked' = leaked
      BY <1>1, Zenon DEF Check
    <3>2. leaked' \in BOOLEAN
      BY <3>1, Zenon DEF TypeOK
    <3>3. QED
      BY <2>1, <3>2 DEF TypeOK
  <2>5. QED
    BY <1>0, <2>1, <2>2, <2>3, <2>4, LocalType
<1>2. CASE Ask(t)
  <2>1. PICK to \in {"panicked", "binary"} : Goto(t, "ask", to)
    BY <1>2 DEF Ask
  <2>2. to \in Location
    BY DEF Location
  <2>3. QED
    BY <1>2, <2>1, <2>2, MoveType DEF Ask
<1>3. CASE RunBinary(t)
  <2>1. UNCHANGED <<error, leaked, sharedVars, mainVars>>
    BY <1>3 DEF RunBinary
  <2>2. pc' \in [Runner -> Location]
    BY <1>3, GotoType DEF RunBinary, Location
  <2>3. positions' \in [Runner -> BOOLEAN]
    <3>1. CASE positions' = [positions EXCEPT ![t] = TRUE]
      BY <3>1, PositionsType
    <3>2. CASE UNCHANGED positions
      BY <3>2 DEF TypeOK
    <3>3. QED
      BY <1>3, <3>1, <3>2 DEF RunBinary
  <2>4. error' \in [Runner -> Error \cup {NaN}] /\ leaked' \in BOOLEAN
    BY <2>1 DEF TypeOK
  <2>5. QED
    BY <1>0, <2>1, <2>2, <2>3, <2>4, LocalType
<1>4. CASE Analyse(t)
  BY <1>0, <1>4, AnalyseType
<1>5. CASE Tell(t)
  BY <1>0, <1>5, TellType
<1>6. CASE Load(t)
  <2>1. PICK to \in {"store", "remove"} : Goto(t, "load", to)
    BY <1>6 DEF Load
  <2>2. to \in Location
    BY DEF Location
  <2>3. QED
    BY <1>6, <2>1, <2>2, MoveType DEF Load
<1>7. CASE Store(t)
  <2>1. pc[t] = "store" /\ error[t] \in Error
    BY <1>7 DEF Store, Goto, TypeOK
  <2>2. pc' \in [Runner -> Location]
    BY <1>7, GotoType DEF Store, Location
  <2>3. LOWEST_ERROR' \in Error \cup {DefaultError}
    BY <1>7, <2>1 DEF Store
  <2>4. UNCHANGED <<error, positions, leaked, RUNNING, results, early, poisoned, out, mainVars>>
    BY <1>7 DEF Store
  <2>5. QED
    BY <1>0, <2>2, <2>3, <2>4 DEF TypeOK, mainVars
<1>8. CASE Copy(t)
  <2>1. pc[t] = "copy" /\ error[t] \in Error
    BY <1>8 DEF Copy, Goto, TypeOK
  <2>2. CASE /\ Goto(t, "copy", "remove") /\ out' = out \cup {error[t]}
             /\ UNCHANGED <<error, positions, leaked, RUNNING, LOWEST_ERROR, results, early,
                            poisoned, mainVars>>
    <3>1. pc' \in [Runner -> Location]
      BY <2>2, GotoType DEF Location
    <3>2. out' \in SUBSET Error
      BY <2>1, <2>2 DEF TypeOK
    <3>3. QED
      BY <1>0, <2>2, <3>1, <3>2 DEF TypeOK, mainVars
  <2>3. CASE /\ Goto(t, "copy", "panicked")
             /\ UNCHANGED <<error, positions, leaked, sharedVars, mainVars>>
    <3>1. pc' \in [Runner -> Location]
      BY <2>3, GotoType DEF Location
    <3>2. /\ positions' \in [Runner -> BOOLEAN] /\ leaked' \in BOOLEAN
          /\ error' \in [Runner -> Error \cup {NaN}]
      BY <2>3 DEF TypeOK
    <3>3. QED
      BY <1>0, <2>3, <3>1, <3>2, LocalType
  <2>4. QED
    BY <1>8, <2>2, <2>3 DEF Copy
<1>9. CASE RemoveFile(t)
  <2>1. UNCHANGED <<error, leaked, sharedVars, mainVars>>
    BY <1>9 DEF RemoveFile
  <2>2. pc' \in [Runner -> Location]
    BY <1>9, GotoType DEF RemoveFile, Location
  <2>3. positions' \in [Runner -> BOOLEAN]
    <3>1. CASE positions' = [positions EXCEPT ![t] = FALSE]
      BY <3>1, PositionsType
    <3>2. CASE UNCHANGED positions
      BY <3>2 DEF TypeOK
    <3>3. QED
      BY <1>9, <3>1, <3>2 DEF RemoveFile
  <2>4. error' \in [Runner -> Error \cup {NaN}] /\ leaked' \in BOOLEAN
    BY <2>1 DEF TypeOK
  <2>5. QED
    BY <1>0, <2>1, <2>2, <2>3, <2>4, LocalType
<1>10. QED
  BY <1>1, <1>2, <1>3, <1>4, <1>5, <1>6, <1>7, <1>8, <1>9 DEF RunThread

\* What a step of main may change.
LEMMA MainChanges ==
  ASSUME MainThread
  PROVE  /\ UNCHANGED <<threadVars, sharedVars, FORCE_EXIT>>
         /\ main' \in {"export", "hot_cold", "error_time", "done", "panicked"}
         /\ backup' \in {backup, results}
         /\ failed' \in {failed, failed \cup {"export"}}
<1>1. CASE Join
  BY <1>1 DEF Join
<1>2. CASE Export
  BY <1>2 DEF Export, WriteFails
<1>3. CASE WriteHotCold
  BY <1>3 DEF WriteHotCold, WriteFails
<1>4. CASE WriteErrorTime
  BY <1>4 DEF WriteErrorTime, WriteFails
<1>5. QED
  BY <1>1, <1>2, <1>3, <1>4 DEF MainThread

\* The main thread and the Ctrl-C handler.
LEMMA MainType ==
  ASSUME TypeOK, MainThread \/ CtrlC \/ UNCHANGED vars
  PROVE  TypeOK'
<1>1. CASE MainThread
  <2>1. /\ UNCHANGED <<threadVars, sharedVars, FORCE_EXIT>>
        /\ main' \in {"export", "hot_cold", "error_time", "done", "panicked"}
        /\ backup' \in {backup, results}
        /\ failed' \in {failed, failed \cup {"export"}}
    BY <1>1, MainChanges
  <2>2. backup' \in Seq(Error) \cup {NoBackup} /\ failed' \in SUBSET {"runner", "export"}
    BY <2>1 DEF TypeOK
  <2>3. QED
    BY <2>1, <2>2 DEF TypeOK, threadVars, sharedVars
<1>2. CASE CtrlC
  <2>1. RUNNING' \in BOOLEAN
    BY <1>2, Zenon DEF CtrlC, TypeOK
  <2>2. main' \in {main, "killed"} /\ FORCE_EXIT' \in Nat
    BY <1>2 DEF CtrlC, TypeOK
  <2>3. UNCHANGED <<threadVars, LOWEST_ERROR, results, early, poisoned, out, backup, failed>>
    BY <1>2 DEF CtrlC
  <2>4. QED
    BY <2>1, <2>2, <2>3 DEF TypeOK, threadVars
<1>3. CASE UNCHANGED vars
  BY <1>3 DEF TypeOK, vars, threadVars, sharedVars, mainVars
<1>4. QED
  BY <1>1, <1>2, <1>3
-----------------------------------------------------------------------------
(***************************************************************************)
(* The best run.  LOWEST_ERROR itself may end up above the lowest error:   *)
(* a runner may store the error it compared some time ago.  What the race  *)
(* preserves is that the lowest error of the results is exported, or still *)
(* carried by a runner on its way to the copy; and if LOWEST_ERROR is that *)
(* error already, so that others with the same error turn back, then it is *)
(* exported or its copy is the carrier's next step.                        *)
(***************************************************************************)
Told ==
  \A t \in Runner : pc[t] \in {"load", "store", "copy"} => error[t] \in Errors(results)

BelowDefault ==
  /\ LOWEST_ERROR <= DefaultError
  /\ \A t \in Runner : pc[t] \in {"store", "copy"} => error[t] < DefaultError

LowestKnown == LOWEST_ERROR = DefaultError \/ LOWEST_ERROR \in Errors(results)

Exporting(e, locations) ==
  \/ e \in out
  \/ \E t \in Runner : error[t] = e /\ pc[t] \in locations
  \/ \E t \in Runner : pc[t] = "panicked"

BestOnItsWay ==
  \A e \in Errors(results) : Best(e) /\ e < DefaultError =>
    /\ Exporting(e, {"load", "store", "copy"})
    /\ LOWEST_ERROR = e => Exporting(e, {"copy"})

SearchInv == TypeOK /\ Told /\ BelowDefault /\ LowestKnown /\ BestOnItsWay

\* There is no result and no best file yet.
LEMMA SearchInit == Init => SearchInv
<1> SUFFICES ASSUME Init PROVE SearchInv
  OBVIOUS
<1>1. Errors(results) = {}
  BY DEF Init, Errors
<1>2. Told /\ BelowDefault /\ LowestKnown
  BY DEF Init, Told, BelowDefault, LowestKnown
<1>3. BestOnItsWay
  BY <1>1 DEF BestOnItsWay
<1>4. QED
  BY <1>2, <1>3, InitType DEF SearchInv

\* What a step of a runner, other than the ones that tell, store or export,
\* leaves alone.
LEMMA QuietStep ==
  ASSUME SearchInv, NEW t \in Runner, TypeOK',
         UNCHANGED <<results, LOWEST_ERROR, out>>,
         NEW to \in Location, pc' = [pc EXCEPT ![t] = to],
         \A u \in Runner \ {t} : error'[u] = error[u],
         pc[t] \notin {"load", "store", "copy", "panicked"},
         to \notin {"load", "store", "copy"}
  PROVE  SearchInv'
<1>1. \A u \in Runner \ {t} : pc'[u] = pc[u] /\ error'[u] = error[u]
  BY DEF SearchInv, TypeOK
<1>2. pc'[t] = to
  BY DEF SearchInv, TypeOK
<1>3. Errors(results)' = Errors(results)
  BY DEF Errors
<1>4. Told' /\ BelowDefault' /\ LowestKnown'
  BY <1>1, <1>2, <1>3 DEF SearchInv, Told, BelowDefault, LowestKnown
<1>5. BestOnItsWay'
  <2> SUFFICES ASSUME NEW e \in Errors(results), Best(e), e < DefaultError
               PROVE  /\ Exporting(e, {"load", "store", "copy"})'
                      /\ LOWEST_ERROR = e => Exporting(e, {"copy"})'
    BY <1>3 DEF BestOnItsWay, Best
  <2>1. ASSUME NEW L \in SUBSET {"load", "store", "copy"}, Exporting(e, L)
        PROVE  Exporting(e, L)'
    <3>1. CASE e \in out
      BY <3>1 DEF Exporting
    <3>2. CASE \E u \in Runner : error[u] = e /\ pc[u] \in L
      BY <1>1, <3>2 DEF Exporting
    <3>3. CASE \E u \in Runner : pc[u] = "panicked"
      <4>1. PICK u \in Runner : pc[u] = "panicked"
        BY <3>3
      <4>2. CASE u # t
        BY <1>1, <4>1, <4>2 DEF Exporting
      <4>3. QED
        BY <4>1, <4>2
    <3>4. QED
      BY <2>1, <3>1, <3>2, <3>3 DEF Exporting
  <2>2. Exporting(e, {"load", "store", "copy"})
    BY DEF SearchInv, BestOnItsWay
  <2>3. LOWEST_ERROR = e => Exporting(e, {"copy"})
    BY DEF SearchInv, BestOnItsWay
  <2>4. QED
    BY <2>1, <2>2, <2>3
<1>6. QED
  BY <1>4, <1>5 DEF SearchInv
\* The result that is told has yet to be compared with the lowest error.
LEMMA TellStep ==
  ASSUME SearchInv, TypeOK', NEW t \in Runner, Tell(t)
  PROVE  SearchInv'
<1>1. CASE poisoned \/ error[t] = NaN
  <2>1. /\ pc[t] = "tell" /\ pc' = [pc EXCEPT ![t] = "panicked"]
        /\ UNCHANGED <<results, LOWEST_ERROR, out, error>>
    BY <1>1 DEF Tell, Goto
  <2>2. "panicked" \in Location
    BY DEF Location
  <2>3. QED
    BY <2>1, <2>2, QuietStep
<1>2. CASE ~(poisoned \/ error[t] = NaN)
  <2>1. /\ pc[t] = "tell" /\ pc' = [pc EXCEPT ![t] = "load"]
        /\ results' = Append(results, error[t])
        /\ UNCHANGED <<LOWEST_ERROR, out, error>>
    BY <1>2 DEF Tell, Goto
  <2>2. error[t] \in Error /\ results \in Seq(Error)
    BY <1>2 DEF SearchInv, TypeOK
  <2>3. Errors(results') = Errors(results) \cup {error[t]}
    BY <2>1, <2>2, ErrorsAppend
  <2>4. \A u \in Runner \ {t} : pc'[u] = pc[u]
    BY <2>1 DEF SearchInv, TypeOK
  <2>5. pc'[t] = "load"
    BY <2>1 DEF SearchInv, TypeOK
  <2>6. Told' /\ BelowDefault' /\ LowestKnown'
    BY <2>1, <2>3, <2>4, <2>5 DEF SearchInv, Told, BelowDefault, LowestKnown
  <2>7. BestOnItsWay'
    <3> SUFFICES ASSUME NEW e \in Errors(results'), Best(e)', e < DefaultError
                 PROVE  /\ Exporting(e, {"load", "store", "copy"})'
                        /\ LOWEST_ERROR' = e => Exporting(e, {"copy"})'
      BY DEF BestOnItsWay
    <3>1. CASE e \in Errors(results)
      <4>1. Best(e)
        BY <2>3, <3>1 DEF Best
      <4>2. ASSUME NEW L \in SUBSET {"load", "store", "copy"}, Exporting(e, L)
            PROVE  Exporting(e, L)'
        <5>1. CASE e \in out
          BY <2>1, <5>1 DEF Exporting
        <5>2. CASE \E u \in Runner : error[u] = e /\ pc[u] \in L \cup {"panicked"}
          BY <2>1, <2>4, <5>2 DEF Exporting
        <5>3. CASE \E u \in Runner : pc[u] = "panicked"
          BY <2>1, <2>4, <5>3 DEF Exporting
        <5>4. QED
          BY <4>2, <5>1, <5>2, <5>3 DEF Exporting
      <4>3. /\ Exporting(e, {"load", "store", "copy"})
            /\ LOWEST_ERROR = e => Exporting(e, {"copy"})
        BY <3>1, <4>1 DEF SearchInv, BestOnItsWay
      <4>4. QED
        BY <2>1, <4>2, <4>3
    <3>2. CASE e \notin Errors(results)
      <4>1. e = error[t]
        BY <2>3, <3>2
      <4>2. Exporting(e, {"load", "store", "copy"})'
        BY <2>1, <2>5, <4>1 DEF Exporting
      <4>3. LOWEST_ERROR' # e
        BY <2>1, <3>2 DEF SearchInv, LowestKnown
      <4>4. QED
        BY <4>2, <4>3
    <3>3. QED
      BY <3>1, <3>2
  <2>8. QED
    BY <2>6, <2>7 DEF SearchInv
<1>3. QED
  BY <1>1, <1>2

\* The comparison sends the runner to store or to remove.
LEMMA LoadStep ==
  ASSUME SearchInv, TypeOK', NEW t \in Runner, Load(t)
  PROVE  SearchInv'
<1>1. /\ pc[t] = "load"
      /\ pc' = [pc EXCEPT ![t] = IF error[t] < LOWEST_ERROR THEN "store" ELSE "remove"]
      /\ UNCHANGED <<results, LOWEST_ERROR, out, error>>
  BY DEF Load, Goto, sharedVars
<1>2. \A u \in Runner \ {t} : pc'[u] = pc[u]
  BY <1>1 DEF SearchInv, TypeOK
<1>3. pc'[t] = IF error[t] < LOWEST_ERROR THEN "store" ELSE "remove"
  BY <1>1 DEF SearchInv, TypeOK
<1>4. Errors(results)' = Errors(results)
  BY <1>1 DEF Errors
<1>5. error[t] \in Errors(results) /\ error[t] \in Error /\ error[t] \in Int
  <2>1. error[t] \in Errors(results) /\ results \in Seq(Error)
    BY <1>1 DEF SearchInv, Told, TypeOK
  <2>2. QED
    BY <2>1, ErrorsType
<1>6. LOWEST_ERROR \in Int /\ DefaultError \in Int
  BY DEF SearchInv, TypeOK
<1>7. Told' /\ LowestKnown'
  BY <1>1, <1>2, <1>3, <1>4, <1>5 DEF SearchInv, Told, LowestKnown
<1>8. BelowDefault'
  <2>1. pc'[t] = "store" => error[t] < DefaultError
    BY <1>3, <1>5, <1>6 DEF SearchInv, BelowDefault
  <2>2. QED
    BY <1>1, <1>2, <1>3, <2>1 DEF SearchInv, BelowDefault
<1>9. BestOnItsWay'
  <2> SUFFICES ASSUME NEW e \in Errors(results), Best(e), e < DefaultError
               PROVE  /\ Exporting(e, {"load", "store", "copy"})'
                      /\ LOWEST_ERROR = e => Exporting(e, {"copy"})'
    BY <1>1, <1>4 DEF BestOnItsWay, Best
  <2>0. e \in Int
    BY ErrorsType DEF SearchInv, TypeOK
  <2>1. LOWEST_ERROR = e => Exporting(e, {"copy"})
    BY DEF SearchInv, BestOnItsWay
  <2>2. Exporting(e, {"copy"}) => Exporting(e, {"copy"})'
    <3>1. CASE e \in out \/ \E u \in Runner : pc[u] = "panicked"
      BY <1>1, <1>2, <3>1 DEF Exporting
    <3>2. CASE \E u \in Runner : error[u] = e /\ pc[u] = "copy"
      BY <1>1, <1>2, <3>2 DEF Exporting
    <3>3. QED
      BY <3>1, <3>2 DEF Exporting
  <2>3. Exporting(e, {"copy"})' => Exporting(e, {"load", "store", "copy"})'
    BY DEF Exporting
  <2>4. CASE LOWEST_ERROR = e
    BY <2>1, <2>2, <2>3, <2>4
  <2>5. CASE LOWEST_ERROR # e
    <3>1. e < LOWEST_ERROR
      BY <1>6, <2>0, <2>5 DEF SearchInv, LowestKnown, Best
    <3>2. Exporting(e, {"load", "store", "copy"})
      BY DEF SearchInv, BestOnItsWay
    <3>3. CASE e \in out \/ \E u \in Runner : pc[u] = "panicked"
      BY <1>1, <1>2, <2>5, <3>3 DEF Exporting
    <3>4. CASE \E u \in Runner : error[u] = e /\ pc[u] \in {"load", "store", "copy"}
      <4>1. PICK u \in Runner : error[u] = e /\ pc[u] \in {"load", "store", "copy"}
        BY <3>4
      <4>2. pc'[u] \in {"load", "store", "copy"} /\ error'[u] = e
        BY <1>1, <1>2, <1>3, <3>1, <4>1
      <4>3. QED
        BY <2>5, <4>2 DEF Exporting
    <3>5. QED
      BY <3>2, <3>3, <3>4 DEF Exporting
  <2>6. QED
    BY <2>4, <2>5
<1>10. QED
  BY <1>7, <1>8, <1>9 DEF SearchInv
\* The stored error is the one of the file that is copied next.
LEMMA StoreStep ==
  ASSUME SearchInv, TypeOK', NEW t \in Runner, Store(t)
  PROVE  SearchInv'
<1>1. /\ pc[t] = "store"
      /\ pc' = [pc EXCEPT ![t] = "copy"]
      /\ LOWEST_ERROR' = error[t]
      /\ UNCHANGED <<results, out, error>>
  BY DEF Store, Goto
<1>2. \A u \in Runner \ {t} : pc'[u] = pc[u]
  BY <1>1 DEF SearchInv, TypeOK
<1>3. pc'[t] = "copy"
  BY <1>1 DEF SearchInv, TypeOK
<1>4. Errors(results)' = Errors(results)
  BY <1>1 DEF Errors
<1>5. error[t] \in Errors(results) /\ error[t] < DefaultError
  BY <1>1 DEF SearchInv, Told, BelowDefault
<1>6. error[t] \in Int
  BY <1>5, ErrorsType DEF SearchInv, TypeOK
<1>7. Told' /\ LowestKnown' /\ BelowDefault'
  BY <1>1, <1>2, <1>3, <1>4, <1>5, <1>6 DEF SearchInv, Told, LowestKnown, BelowDefault
<1>8. BestOnItsWay'
  <2> SUFFICES ASSUME NEW e \in Errors(results), Best(e), e < DefaultError
               PROVE  /\ Exporting(e, {"load", "store", "copy"})'
                      /\ error[t] = e => Exporting(e, {"copy"})'
    BY <1>1, <1>4 DEF BestOnItsWay, Best
  <2>1. error[t] = e => Exporting(e, {"copy"})'
    BY <1>1, <1>3 DEF Exporting
  <2>2. Exporting(e, {"load", "store", "copy"})
    BY DEF SearchInv, BestOnItsWay
  <2>3. CASE e \in out \/ \E u \in Runner : pc[u] = "panicked"
    BY <1>1, <1>2, <2>1, <2>3 DEF Exporting
  <2>4. CASE \E u \in Runner : error[u] = e /\ pc[u] \in {"load", "store", "copy"}
    BY <1>1, <1>2, <1>3, <2>1, <2>4 DEF Exporting
  <2>5. QED
    BY <2>2, <2>3, <2>4 DEF Exporting
<1>9. QED
  BY <1>7, <1>8 DEF SearchInv

\* The copied file is the one of the stored error.
LEMMA CopyStep ==
  ASSUME SearchInv, TypeOK', NEW t \in Runner, Copy(t)
  PROVE  SearchInv'
<1>1. /\ pc[t] = "copy"
      /\ UNCHANGED <<results, LOWEST_ERROR, error>>
      /\ \/ pc' = [pc EXCEPT ![t] = "remove"] /\ out' = out \cup {error[t]}
         \/ pc' = [pc EXCEPT ![t] = "panicked"] /\ out' = out
  BY DEF Copy, Goto, sharedVars
<1>2. \A u \in Runner \ {t} : pc'[u] = pc[u]
  BY <1>1 DEF SearchInv, TypeOK
<1>3. pc'[t] = "panicked" \/ (pc'[t] = "remove" /\ error[t] \in out')
  BY <1>1 DEF SearchInv, TypeOK
<1>4. Errors(results)' = Errors(results) /\ out \subseteq out'
  BY <1>1 DEF Errors
<1>5. Told' /\ LowestKnown' /\ BelowDefault'
  BY <1>1, <1>2, <1>3, <1>4 DEF SearchInv, Told, LowestKnown, BelowDefault
<1>6. BestOnItsWay'
  <2> SUFFICES ASSUME NEW e \in Errors(results), Best(e), e < DefaultError
               PROVE  /\ Exporting(e, {"load", "store", "copy"})'
                      /\ LOWEST_ERROR = e => Exporting(e, {"copy"})'
    BY <1>1, <1>4 DEF BestOnItsWay, Best
  <2>1. ASSUME NEW L \in SUBSET {"load", "store", "copy"}, Exporting(e, L)
        PROVE  Exporting(e, L)'
    <3>1. CASE e \in out \/ \E u \in Runner : pc[u] = "panicked"
      BY <1>1, <1>2, <1>4, <3>1 DEF Exporting
    <3>2. CASE \E u \in Runner : error[u] = e /\ pc[u] \in L
      <4>1. PICK u \in Runner : error[u] = e /\ pc[u] \in L
        BY <3>2
      <4>2. CASE u = t
        BY <1>3, <4>1, <4>2 DEF Exporting
      <4>3. CASE u # t
        BY <1>1, <1>2, <4>1, <4>3 DEF Exporting
      <4>4. QED
        BY <4>2, <4>3
    <3>3. QED
      BY <2>1, <3>1, <3>2 DEF Exporting
  <2>2. /\ Exporting(e, {"load", "store", "copy"})
        /\ LOWEST_ERROR = e => Exporting(e, {"copy"})
    BY DEF SearchInv, BestOnItsWay
  <2>3. QED
    BY <2>1, <2>2
<1>7. QED
  BY <1>5, <1>6 DEF SearchInv

\* A step that touches none of the state the invariant speaks of.
LEMMA SearchStutter ==
  ASSUME SearchInv, TypeOK', UNCHANGED <<results, LOWEST_ERROR, out, pc, error>>
  PROVE  SearchInv'
<1>1. Errors(results)' = Errors(results)
  BY DEF Errors
<1>2. Told' /\ BelowDefault' /\ LowestKnown'
  BY <1>1 DEF SearchInv, Told, BelowDefault, LowestKnown
<1>3. BestOnItsWay'
  BY <1>1 DEF SearchInv, BestOnItsWay, Best, Exporting
<1>4. QED
  BY <1>2, <1>3 DEF SearchInv

\* Every step keeps the invariant of the search.
LEMMA SearchStep ==
  ASSUME SearchInv, [Next]_vars
  PROVE  SearchInv'
<1>1. ASSUME NEW t \in Runner, RunThread(t) PROVE SearchInv'
  <2>0. TypeOK'
    <3>1. \A u \in Runner : pc[u] \in {"load", "store", "copy"} => error[u] # NaN
      BY ErrorsType DEF SearchInv, Told, TypeOK
    <3>2. QED
      BY <1>1, <3>1, RunThreadType DEF SearchInv
  <2>1. CASE Check(t)
    <3>1. PICK to \in {"ask", "exited"} :
            /\ pc[t] = "check" /\ pc' = [pc EXCEPT ![t] = to]
            /\ UNCHANGED <<results, LOWEST_ERROR, out, error>>
      BY <2>1 DEF Check, Goto, sharedVars
    <3>2. to \in Location
      BY DEF Location
    <3>3. QED
      BY <2>0, <3>1, <3>2, QuietStep
  <2>2. CASE Ask(t)
    <3>1. PICK to \in {"panicked", "binary"} :
            /\ pc[t] = "ask" /\ pc' = [pc EXCEPT ![t] = to]
            /\ UNCHANGED <<results, LOWEST_ERROR, out, error>>
      BY <2>2 DEF Ask, Goto, sharedVars
    <3>2. to \in Location
      BY DEF Location
    <3>3. QED
      BY <2>0, <3>1, <3>2, QuietStep
  <2>3. CASE RunBinary(t)
    <3>1. PICK to \in {"analysis", "check"} :
            /\ pc[t] = "binary" /\ pc' = [pc EXCEPT ![t] = to]
            /\ UNCHANGED <<results, LOWEST_ERROR, out, error>>
      BY <2>3 DEF RunBinary, Goto, sharedVars
    <3>2. to \in Location
      BY DEF Location
    <3>3. QED
      BY <2>0, <3>1, <3>2, QuietStep
  <2>4. CASE Analyse(t)
    <3>1. PICK to \in {"tell", "check", "panicked"} :
            /\ pc[t] = "analysis" /\ pc' = [pc EXCEPT ![t] = to]
            /\ UNCHANGED <<results, LOWEST_ERROR, out>>
      BY <2>4 DEF Analyse, Goto, sharedVars
    <3>2. \A u \in Runner \ {t} : error'[u] = error[u]
      BY <2>4 DEF Analyse, SearchInv, TypeOK
    <3>3. to \in Location
      BY DEF Location
    <3>4. QED
      BY <2>0, <3>1, <3>2, <3>3, QuietStep
  <2>5. CASE Tell(t)
    BY <2>0, <2>5, TellStep
  <2>6. CASE Load(t)
    BY <2>0, <2>6, LoadStep
  <2>7. CASE Store(t)
    BY <2>0, <2>7, StoreStep
  <2>8. CASE Copy(t)
    BY <2>0, <2>8, CopyStep
  <2>9. CASE RemoveFile(t)
    <3>1. /\ pc[t] = "remove" /\ pc' = [pc EXCEPT ![t] = "check"]
          /\ UNCHANGED <<results, LOWEST_ERROR, out, error>>
      BY <2>9 DEF RemoveFile, Goto, sharedVars
    <3>2. "check" \in Location
      BY DEF Location
    <3>3. QED
      BY <2>0, <3>1, <3>2, QuietStep
  <2>10. QED
    BY <1>1, <2>1, <2>2, <2>3, <2>4, <2>5, <2>6, <2>7, <2>8, <2>9 DEF RunThread
<1>2. ASSUME MainThread \/ CtrlC \/ UNCHANGED vars PROVE SearchInv'
  <2>1. TypeOK'
    BY <1>2, MainType DEF SearchInv
  <2>2. UNCHANGED <<results, LOWEST_ERROR, out, pc, error>>
    BY <1>2, MainChanges DEF CtrlC, vars, threadVars, sharedVars
  <2>3. QED
    BY <2>1, <2>2, SearchStutter
<1>3. QED
  BY <1>1, <1>2 DEF Next

\* The types hold, and with them that no result is NaN.
THEOREM TypeCorrect == Spec => []TypeOK
<1>1. SearchInv /\ [Next]_vars => SearchInv'
  BY SearchStep
<1>2. QED
  BY <1>1, SearchInit, PTL DEF Spec, SearchInv

\* However the runners' loads and stores of LOWEST_ERROR interleave, the
\* positions of the best run are in out/ once all runners have left cleanly.
THEOREM BestRunIsKept == Spec => []BestExported
<1>1. SearchInv => BestExported
  <2> SUFFICES ASSUME SearchInv, \A t \in Runner : pc[t] = "exited",
                      NEW e \in Errors(results), Best(e), e < DefaultError
               PROVE  e \in out
    BY DEF BestExported
  <2>1. Exporting(e, {"load", "store", "copy"})
    BY DEF SearchInv, BestOnItsWay
  <2>2. QED
    BY <2>1 DEF Exporting
<1>2. SearchInv /\ [Next]_vars => SearchInv'
  BY SearchStep
<1>3. QED
  BY <1>1, <1>2, SearchInit, PTL DEF Spec

-----------------------------------------------------------------------------
(***************************************************************************)
(* The limit.  Every runner in flight may still add one result, so results *)
(* and runners in flight are bounded together.                             *)
(***************************************************************************)
LimitInv ==
  /\ RUNNING => Len(results) < MaxSimulations
  /\ Len(results) + Cardinality(InFlight) <= MaxSimulations + Cardinality(Runner) - 1

\* The runners in flight are no more than the runners.
LEMMA InFlightSize ==
  /\ Cardinality(InFlight) \in Nat
  /\ Cardinality(InFlight) <= Cardinality(Runner)
  /\ Cardinality(Runner) \in Nat
  /\ IsFiniteSet(InFlight)
<1>1. InFlight \subseteq Runner
  BY DEF InFlight
<1>2. QED
  BY <1>1, FS_Subset, FS_CardinalityType

\* Every step keeps the count of the runs in flight within the limit.
LEMMA LimitStep ==
  ASSUME TypeOK, TypeOK', LimitInv, [Next]_vars
  PROVE  LimitInv'
<1> USE InFlightSize
<1>0. Len(results) \in Nat
  BY DEF TypeOK
<1>1. ASSUME results' = results, InFlight' \subseteq InFlight, RUNNING' => RUNNING
      PROVE  LimitInv'
  <2>1. Cardinality(InFlight') \in Nat /\ Cardinality(InFlight') <= Cardinality(InFlight)
    BY <1>1, FS_Subset, FS_CardinalityType
  <2>2. QED
    BY <1>0, <1>1, <2>1 DEF LimitInv
<1>2. ASSUME NEW t \in Runner, RunThread(t) PROVE LimitInv'
  <2>1. CASE Check(t)
    <3>1. results' = results /\ RUNNING' = RUNNING
      BY <2>1 DEF Check, sharedVars
    <3>2. CASE RUNNING
      <4>1. InFlight' \subseteq Runner
        BY DEF InFlight
      <4>2. Cardinality(InFlight') \in Nat /\ Cardinality(InFlight') <= Cardinality(Runner)
        BY <4>1, FS_Subset, FS_CardinalityType
      <4>3. QED
        BY <1>0, <3>1, <3>2, <4>2 DEF LimitInv
    <3>3. CASE ~RUNNING
      <4>1. InFlight' \subseteq InFlight
        BY <2>1, <3>3 DEF Check, Goto, InFlight, TypeOK
      <4>2. QED
        BY <1>1, <3>1, <4>1
    <3>4. QED
      BY <3>2, <3>3
  <2>2. CASE Tell(t)
    <3>1. CASE poisoned \/ error[t] = NaN
      <4>1. results' = results /\ RUNNING' = RUNNING
        BY <2>2, <3>1 DEF Tell
      <4>2. InFlight' \subseteq InFlight
        BY <2>2, <3>1 DEF Tell, Goto, InFlight, TypeOK
      <4>3. QED
        BY <1>1, <4>1, <4>2
    <3>2. CASE ~(poisoned \/ error[t] = NaN)
      <4>1. /\ pc[t] = "tell" /\ pc' = [pc EXCEPT ![t] = "load"]
            /\ results' = Append(results, error[t])
            /\ RUNNING' = (RUNNING /\ Len(results) + 1 # MaxSimulations)
        BY <2>2, <3>2 DEF Tell, Goto
      <4>2. InFlight' = InFlight \ {t} /\ t \in InFlight
        BY <4>1 DEF InFlight, TypeOK
      <4>3. Cardinality(InFlight') = Cardinality(InFlight) - 1
        BY <4>2, FS_RemoveElement
      <4>4. error[t] \in Error
        BY <3>2 DEF TypeOK
      <4>5. Len(results') = Len(results) + 1
        BY <4>1, <4>4 DEF TypeOK
      <4>6. RUNNING' => RUNNING /\ Len(results) + 1 # MaxSimulations
        BY <4>1, Zenon
      <4>7. RUNNING' => Len(results') < MaxSimulations
        BY <1>0, <4>5, <4>6 DEF LimitInv
      <4>8. Len(results') + Cardinality(InFlight')
              <= MaxSimulations + Cardinality(Runner) - 1
        BY <1>0, <4>3, <4>5 DEF LimitInv
      <4>9. QED
        BY <4>7, <4>8 DEF LimitInv
    <3>3. QED
      BY <3>1, <3>2
  <2>3. CASE ~Check(t) /\ ~Tell(t)
    <3>1. results' = results /\ RUNNING' = RUNNING
      BY <1>2, <2>3 DEF RunThread, Ask, RunBinary, Analyse, Load, Store, Copy, RemoveFile,
                        sharedVars
    <3>2. InFlight' \subseteq InFlight
      BY <1>2, <2>3 DEF RunThread, Ask, RunBinary, Analyse, Load, Store, Copy, RemoveFile,
                        Goto, InFlight, TypeOK
    <3>3. QED
      BY <1>1, <3>1, <3>2
  <2>4. QED
    BY <2>1, <2>2, <2>3
<1>3. ASSUME MainThread \/ CtrlC \/ UNCHANGED vars PROVE LimitInv'
  <2>1. UNCHANGED <<results, pc>> /\ (RUNNING' => RUNNING)
    BY <1>3, MainChanges DEF CtrlC, vars, threadVars, sharedVars
  <2>2. QED
    BY <1>1, <2>1 DEF InFlight
<1>4. QED
  BY <1>2, <1>3 DEF Next

\* The search stops at the limit, and overshoots it by at most one result
\* for every runner but the one that reached it.
THEOREM SearchStopsAtLimit == Spec => []ResultsBound
<1>1. Init => LimitInv
  <2> SUFFICES ASSUME Init PROVE LimitInv
    OBVIOUS
  <2>1. Len(results) = 0
    BY DEF Init
  <2>2. QED
    BY <2>1, InFlightSize DEF LimitInv
<1>2. TypeOK /\ TypeOK' /\ LimitInv /\ [Next]_vars => LimitInv'
  BY LimitStep
<1>3. TypeOK /\ LimitInv => ResultsBound
  BY InFlightSize DEF LimitInv, ResultsBound, TypeOK
<1>4. QED
  BY <1>1, <1>2, <1>3, TypeCorrect, PTL DEF Spec

-----------------------------------------------------------------------------
(***************************************************************************)
(* The end.  Main comes past the join only when every runner has ended, so *)
(* that nothing the backup or the directory shows changes any more.        *)
(***************************************************************************)
EndInv ==
  /\ main \notin {"join", "killed"} => \A t \in Runner : pc[t] \in {"exited", "panicked"}
  /\ main \in {"join", "export"} => backup = NoBackup
  /\ BackupComplete

\* As long as a runner moves, the main thread waits for it.
LEMMA RunnersAtJoin ==
  ASSUME TypeOK, EndInv, NEW t \in Runner, RunThread(t)
  PROVE  main = "join" /\ UNCHANGED mainVars
<1>1. ~Ended /\ pc[t] \notin {"exited", "panicked"}
  BY DEF RunThread, Check, Ask, RunBinary, Analyse, Tell, Load, Store, Copy, RemoveFile, Goto
<1>2. main = "join"
  BY <1>1 DEF EndInv, Ended, TypeOK
<1>3. UNCHANGED mainVars
  BY DEF RunThread, Check, Ask, RunBinary, Analyse, Tell, Load, Store, Copy, RemoveFile
<1>4. QED
  BY <1>2, <1>3

\* Every step keeps the invariant of the shutdown.
LEMMA EndStep ==
  ASSUME TypeOK, EndInv, [Next]_vars
  PROVE  EndInv'
<1>1. ASSUME NEW t \in Runner, RunThread(t) PROVE EndInv'
  BY <1>1, RunnersAtJoin DEF EndInv, BackupComplete, mainVars
<1>2. CASE Join
  BY <1>2 DEF Join, EndInv, BackupComplete, threadVars
<1>3. CASE Export
  BY <1>3 DEF Export, WriteFails, EndInv, BackupComplete, threadVars, sharedVars
<1>4. CASE WriteHotCold
  BY <1>4 DEF WriteHotCold, WriteFails, EndInv, BackupComplete, threadVars, sharedVars
<1>5. CASE WriteErrorTime
  BY <1>5 DEF WriteErrorTime, WriteFails, EndInv, BackupComplete, threadVars, sharedVars
<1>6. CASE CtrlC
  <2>1. /\ UNCHANGED <<pc, results, poisoned, backup, failed>> /\ ~Ended
        /\ main' = main \/ main' = "killed"
    BY <1>6 DEF CtrlC, threadVars
  <2>2. QED
    BY <2>1 DEF EndInv, BackupComplete, Ended
<1>7. CASE UNCHANGED vars
  BY <1>7 DEF EndInv, BackupComplete, vars, threadVars, sharedVars, mainVars
<1>8. QED
  BY <1>1, <1>2, <1>3, <1>4, <1>5, <1>6, <1>7 DEF Next, MainThread

\* Main never gets past the export without a backup of all results, and ends
\* without one only when the mutex is poisoned or writing it has failed.
THEOREM BackupHoldsAll == Spec => []BackupComplete
<1>1. Init => EndInv
  BY DEF Init, EndInv, BackupComplete
<1>2. TypeOK /\ EndInv /\ [Next]_vars => EndInv'
  BY EndStep
<1>3. EndInv => BackupComplete
  BY DEF EndInv
<1>4. QED
  BY <1>1, <1>2, <1>3, TypeCorrect, PTL DEF Spec

-----------------------------------------------------------------------------
(***************************************************************************)
(* The positions files.  While a runner works on a file, the file exists;  *)
(* between two iterations a file exists only if something has failed, and  *)
(* once something has failed a file exists that nobody works on.           *)
(***************************************************************************)
Working == {"analysis", "tell", "load", "store", "copy", "remove"}
Idle    == {"check", "exited", "panicked"}

FileInv ==
  /\ \A t \in Runner : positions[t] => pc[t] \in Working \/ "runner" \in failed
  /\ \A t \in Runner : pc[t] \in Working => positions[t]
  /\ leaked => "runner" \in failed
  /\ "runner" \in failed => leaked \/ \E t \in Runner : positions[t] /\ pc[t] \in Idle

\* What a step of a runner may do to the files: it has a file while it works;
\* if it fails, it stops working and the file stays; and a file that was left
\* stays, if only as one the runner no longer knows.
LEMMA FileMove ==
  ASSUME TypeOK, FileInv, NEW t \in Runner, NEW to, pc' = [pc EXCEPT ![t] = to],
         \A u \in Runner \ {t} : positions'[u] = positions[u],
         failed' = failed \/ failed' = failed \cup {"runner"},
         leaked => leaked', leaked' => leaked \/ "runner" \in failed,
         positions'[t] => to \in Working \/ "runner" \in failed',
         to \in Working => positions'[t],
         "runner" \in failed' => "runner" \in failed \/ (positions'[t] /\ to \in Idle),
         positions[t] /\ pc[t] \in Idle => leaked' \/ (positions'[t] /\ to \in Idle)
  PROVE  FileInv'
<1>1. \A u \in Runner \ {t} : pc'[u] = pc[u] /\ positions'[u] = positions[u]
  BY DEF TypeOK
<1>2. pc'[t] = to
  BY DEF TypeOK
<1>3. "runner" \in failed => "runner" \in failed'
  OBVIOUS
<1>4. \A u \in Runner : positions'[u] => pc'[u] \in Working \/ "runner" \in failed'
  BY <1>1, <1>2, <1>3 DEF FileInv
<1>5. \A u \in Runner : pc'[u] \in Working => positions'[u]
  BY <1>1, <1>2 DEF FileInv
<1>6. leaked' => "runner" \in failed'
  BY <1>3 DEF FileInv
<1>7. ASSUME "runner" \in failed'
      PROVE  leaked' \/ \E u \in Runner : positions'[u] /\ pc'[u] \in Idle
  <2>1. CASE positions'[t] /\ to \in Idle
    BY <1>2, <2>1
  <2>2. CASE "runner" \in failed /\ leaked
    BY <2>2
  <2>3. CASE "runner" \in failed /\ \E u \in Runner : positions[u] /\ pc[u] \in Idle
    BY <1>1, <1>2, <2>3
  <2>4. QED
    BY <1>7, <2>1, <2>2, <2>3 DEF FileInv
<1>8. QED
  BY <1>4, <1>5, <1>6, <1>7 DEF FileInv

\* Every step keeps the account of the files.
LEMMA FileStep ==
  ASSUME TypeOK, FileInv, [Next]_vars
  PROVE  FileInv'
<1>1. ASSUME NEW t \in Runner, RunThread(t) PROVE FileInv'
  <2>0. /\ positions[t] => pc[t] \in Working \/ "runner" \in failed
        /\ pc[t] \in Working => positions[t]
        /\ positions \in [Runner -> BOOLEAN]
    BY DEF FileInv, TypeOK
  <2>1. CASE Check(t)
    <3>1. pc[t] = "check" /\ failed' = failed
      BY <2>1 DEF Check, Goto
    <3>2. CASE RUNNING
      <4>1. /\ pc' = [pc EXCEPT ![t] = "ask"]
            /\ positions' = [positions EXCEPT ![t] = FALSE]
            /\ leaked' = (leaked \/ positions[t])
        BY <2>1, <3>2 DEF Check, Goto
      <4>2. /\ \A u \in Runner \ {t} : positions'[u] = positions[u]
            /\ ~positions'[t]
        BY <2>0, <4>1
      <4>3. "ask" \notin Working /\ pc[t] \notin Working
        BY <3>1 DEF Working
      <4>4. positions[t] => "runner" \in failed
        BY <2>0, <4>3, Zenon
      <4>5. (leaked => leaked') /\ (leaked' => leaked \/ "runner" \in failed)
            /\ (positions[t] => leaked')
        BY <4>1, <4>4, Zenon
      <4>6. QED
        BY <3>1, <4>1, <4>2, <4>3, <4>5, FileMove
    <3>3. CASE ~RUNNING
      <4>1. pc' = [pc EXCEPT ![t] = "exited"] /\ UNCHANGED <<positions, leaked>>
        BY <2>1, <3>3 DEF Check, Goto
      <4>2. "exited" \notin Working /\ "exited" \in Idle /\ pc[t] \notin Working
        BY <3>1 DEF Working, Idle
      <4>3. QED
        BY <2>0, <3>1, <4>1, <4>2, FileMove
    <3>4. QED
      BY <3>2, <3>3
  <2>2. CASE Ask(t)
    <3>1. PICK to \in {"panicked", "binary"} : pc' = [pc EXCEPT ![t] = to]
      BY <2>2 DEF Ask, Goto
    <3>2. pc[t] = "ask" /\ UNCHANGED <<positions, leaked, failed>>
      BY <2>2 DEF Ask, Goto
    <3>3. to \notin Working /\ pc[t] \notin Working /\ pc[t] \notin Idle
      BY <3>2 DEF Working, Idle
    <3>4. QED
      BY <2>0, <3>1, <3>2, <3>3, FileMove
  <2>3. CASE RunBinary(t)
    <3>1. pc[t] = "binary" /\ leaked' = leaked
      BY <2>3 DEF RunBinary, Goto
    <3>2. pc[t] \notin Working /\ pc[t] \notin Idle
      BY <3>1 DEF Working, Idle
    <3>3. "check" \in Idle /\ "check" \notin Working /\ "analysis" \in Working
      BY DEF Working, Idle
    <3>4. CASE /\ pc' = [pc EXCEPT ![t] = "analysis"]
               /\ positions' = [positions EXCEPT ![t] = TRUE] /\ failed' = failed
      <4>1. positions'[t] /\ \A u \in Runner \ {t} : positions'[u] = positions[u]
        BY <2>0, <3>4
      <4>2. QED
        BY <3>1, <3>2, <3>3, <3>4, <4>1, FileMove
    <3>5. CASE pc' = [pc EXCEPT ![t] = "check"] /\ UNCHANGED <<positions, failed>>
      BY <2>0, <3>1, <3>2, <3>3, <3>5, FileMove
    <3>6. CASE /\ pc' = [pc EXCEPT ![t] = "check"]
               /\ positions' = [positions EXCEPT ![t] = TRUE]
               /\ failed' = failed \cup {"runner"}
      <4>1. positions'[t] /\ \A u \in Runner \ {t} : positions'[u] = positions[u]
        BY <2>0, <3>6
      <4>2. "runner" \in failed'
        BY <3>6
      <4>3. QED
        BY <3>1, <3>2, <3>3, <3>6, <4>1, <4>2, FileMove
    <3>7. QED
      BY <2>3, <3>4, <3>5, <3>6 DEF RunBinary, Goto, RunnerFails
  <2>4. CASE RemoveFile(t)
    <3>1. pc[t] = "remove" /\ leaked' = leaked /\ pc' = [pc EXCEPT ![t] = "check"]
      BY <2>4 DEF RemoveFile, Goto
    <3>2. pc[t] \in Working /\ pc[t] \notin Idle /\ "check" \in Idle /\ "check" \notin Working
      BY <3>1 DEF Working, Idle
    <3>3. CASE positions' = [positions EXCEPT ![t] = FALSE] /\ failed' = failed
      <4>1. ~positions'[t] /\ \A u \in Runner \ {t} : positions'[u] = positions[u]
        BY <2>0, <3>3
      <4>2. QED
        BY <3>1, <3>2, <3>3, <4>1, FileMove
    <3>4. CASE positions' = positions /\ failed' = failed \cup {"runner"}
      <4>1. "runner" \in failed'
        BY <3>4
      <4>2. QED
        BY <2>0, <3>1, <3>2, <3>4, <4>1, FileMove
    <3>5. QED
      BY <2>4, <3>3, <3>4 DEF RemoveFile, RunnerFails
  <2>5. CASE Analyse(t) \/ Tell(t) \/ Load(t) \/ Store(t) \/ Copy(t)
    <3>1. PICK to \in {"tell", "check", "panicked", "load", "store", "copy", "remove"} :
            /\ pc' = [pc EXCEPT ![t] = to]
            /\ \/ to \in {"tell", "load", "store", "copy", "remove"} /\ failed' = failed
               \/ to \in {"check", "panicked"} /\ failed' = failed \cup {"runner"}
      BY <2>5 DEF Analyse, Tell, Load, Store, Copy, Goto, RunnerFails
    <3>2. /\ pc[t] \in {"analysis", "tell", "load", "store", "copy"}
          /\ UNCHANGED <<positions, leaked>>
      BY <2>5 DEF Analyse, Tell, Load, Store, Copy, Goto
    <3>3. pc[t] \in Working /\ pc[t] \notin Idle
      BY <3>2 DEF Working, Idle
    <3>4. positions'[t]
      BY <2>0, <3>2, <3>3
    <3>5. CASE to \in {"tell", "load", "store", "copy", "remove"} /\ failed' = failed
      <4>1. to \in Working
        BY <3>5 DEF Working
      <4>2. QED
        BY <3>1, <3>2, <3>3, <3>4, <3>5, <4>1, FileMove
    <3>6. CASE to \in {"check", "panicked"} /\ failed' = failed \cup {"runner"}
      <4>1. to \in Idle /\ "runner" \in failed'
        BY <3>6 DEF Idle
      <4>2. QED
        BY <3>1, <3>2, <3>3, <3>4, <3>6, <4>1, FileMove
    <3>7. QED
      BY <3>1, <3>5, <3>6
  <2>6. QED
    BY <1>1, <2>1, <2>2, <2>3, <2>4, <2>5 DEF RunThread
<1>2. ASSUME MainThread \/ CtrlC \/ UNCHANGED vars PROVE FileInv'
  <2>1. /\ UNCHANGED <<pc, positions, leaked>>
        /\ failed' \in {failed, failed \cup {"export"}}
    BY <1>2, MainChanges DEF CtrlC, vars, threadVars
  <2>2. "runner" \in failed' <=> "runner" \in failed
    BY <2>1
  <2>3. QED
    BY <2>1, <2>2 DEF FileInv
<1>3. QED
  BY <1>1, <1>2 DEF Next

\* Once main is past the join, a positions file is left behind exactly if an
\* analysis, a tell, a copy or a removal has failed on the way.
THEOREM FilesRemoved == Spec => []NoFileLeft
<1>1. Init => FileInv /\ EndInv
  BY DEF Init, FileInv, Idle, Working, EndInv, BackupComplete
<1>2. TypeOK /\ FileInv /\ [Next]_vars => FileInv'
  BY FileStep
<1>3. TypeOK /\ EndInv /\ [Next]_vars => EndInv'
  BY EndStep
<1>4. FileInv /\ EndInv => NoFileLeft
  BY DEF FileInv, Idle, Working, EndInv, NoFileLeft
<1>5. QED
  BY <1>1, <1>2, <1>3, <1>4, TypeCorrect, PTL DEF Spec

-----------------------------------------------------------------------------
(***************************************************************************)
(* The refinement.  A step of a runner changes its place in InFlight and   *)
(* Lost; which of the two, and what else it does, decides the action of    *)
(* Search it implements.                                                   *)
(***************************************************************************)
Busy == {"ask", "binary", "analysis", "tell"}

\* What a step of one runner does to the sets of the abstract search.
LEMMA Moved ==
  ASSUME TypeOK, NEW t \in Runner, NEW to, pc' = [pc EXCEPT ![t] = to], pc[t] # "panicked"
  PROVE  /\ to \in Busy => InFlight' = InFlight \cup {t}
         /\ to \notin Busy => InFlight' = InFlight \ {t}
         /\ to = "panicked" => Lost' = TRUE
         /\ to # "panicked" => Lost' = Lost
<1>1. \A u \in Runner \ {t} : pc'[u] = pc[u]
  BY DEF TypeOK
<1>2. pc'[t] = to
  BY DEF TypeOK
<1>3. to \in Busy => InFlight' = InFlight \cup {t}
  BY <1>1, <1>2 DEF InFlight, Busy
<1>4. to \notin Busy => InFlight' = InFlight \ {t}
  BY <1>1, <1>2 DEF InFlight, Busy
<1>5. to = "panicked" => Lost'
  BY <1>2 DEF Lost
<1>6. to # "panicked" => (Lost' <=> Lost)
  BY <1>1, <1>2 DEF Lost
<1>7. QED
  BY <1>3, <1>4, <1>5, <1>6 DEF Lost

SearchStutters == UNCHANGED <<RUNNING, InFlight, results, out, Lost, backup>>

\* A runner that moves within, or outside, the part of its iteration in which
\* a result is to come.
LEMMA MovedInside ==
  ASSUME TypeOK, NEW t \in Runner, NEW to, pc' = [pc EXCEPT ![t] = to],
         pc[t] # "panicked", to # "panicked", pc[t] \in Busy <=> to \in Busy,
         UNCHANGED <<RUNNING, results, out, backup>>
  PROVE  SearchStutters
<1>1. t \in InFlight <=> pc[t] \in Busy
  BY DEF InFlight, Busy
<1>2. CASE to \in Busy
  <2>1. InFlight' = InFlight \cup {t} /\ Lost' = Lost
    BY <1>2, Moved
  <2>2. QED
    BY <1>1, <1>2, <2>1 DEF SearchStutters
<1>3. CASE to \notin Busy
  <2>1. InFlight' = InFlight \ {t} /\ Lost' = Lost
    BY <1>3, Moved
  <2>2. QED
    BY <1>1, <1>3, <2>1 DEF SearchStutters
<1>4. QED
  BY <1>2, <1>3

\* A runner that leaves it without a result.
LEMMA MovedOut ==
  ASSUME TypeOK, NEW t \in Runner, NEW to, pc' = [pc EXCEPT ![t] = to],
         pc[t] \in Busy, to \notin Busy, UNCHANGED <<RUNNING, results, out, backup>>
  PROVE  Abstract!GiveUp(t)
<1>1. pc[t] # "panicked" /\ t \in InFlight
  BY DEF InFlight, Busy
<1>2. InFlight' = InFlight \ {t} /\ Lost' \in {Lost, TRUE}
  BY <1>1, Moved
<1>3. QED
  BY <1>1, <1>2 DEF Abstract!GiveUp

\* A step of a runner is a step of the abstract search or none.
LEMMA RunThreadRefines ==
  ASSUME SearchInv, EndInv, NEW t \in Runner, RunThread(t)
  PROVE  Abstract!Next \/ SearchStutters
<1>0. TypeOK /\ main = "join" /\ backup = NoBackup /\ UNCHANGED <<main, backup>>
  BY RunnersAtJoin DEF SearchInv, EndInv, mainVars
<1>1. CASE Check(t)
  <2>1. pc[t] = "check" /\ UNCHANGED <<RUNNING, results, out>>
    BY <1>1 DEF Check, Goto, sharedVars
  <2>2. CASE RUNNING
    <3>1. pc' = [pc EXCEPT ![t] = "ask"]
      BY <1>1, <2>2 DEF Check, Goto
    <3>2. InFlight' = InFlight \cup {t} /\ Lost' = Lost /\ t \notin InFlight
      BY <1>0, <2>1, <3>1, Moved DEF Busy, InFlight
    <3>3. Abstract!Start(t)
      BY <1>0, <2>1, <2>2, <3>2 DEF Abstract!Start
    <3>4. QED
      BY <3>3 DEF Abstract!Next
  <2>3. CASE ~RUNNING
    <3>1. pc' = [pc EXCEPT ![t] = "exited"]
      BY <1>1, <2>3 DEF Check, Goto
    <3>2. QED
      BY <1>0, <2>1, <3>1, MovedInside DEF Busy
  <2>4. QED
    BY <2>2, <2>3
<1>2. CASE Ask(t) \/ RunBinary(t) \/ Analyse(t)
  <2>1. PICK to \in {"panicked", "binary", "analysis", "check", "tell"} :
          pc[t] \in Busy /\ pc' = [pc EXCEPT ![t] = to]
    BY <1>2 DEF Ask, RunBinary, Analyse, Goto, Busy
  <2>2. UNCHANGED <<RUNNING, results, out>>
    BY <1>2 DEF Ask, RunBinary, Analyse, sharedVars
  <2>3. CASE to \in Busy
    <3>1. pc[t] # "panicked" /\ to # "panicked"
      BY <2>1, <2>3 DEF Busy
    <3>2. QED
      BY <1>0, <2>1, <2>2, <2>3, <3>1, MovedInside
  <2>4. CASE to \notin Busy
    <3>1. Abstract!GiveUp(t)
      BY <1>0, <2>1, <2>2, <2>4, MovedOut
    <3>2. QED
      BY <3>1 DEF Abstract!Next
  <2>5. QED
    BY <2>3, <2>4
<1>3. CASE Tell(t)
  <2>1. CASE poisoned \/ error[t] = NaN
    <3>1. /\ pc[t] = "tell" /\ pc' = [pc EXCEPT ![t] = "panicked"]
          /\ UNCHANGED <<RUNNING, results, out>>
      BY <1>3, <2>1 DEF Tell, Goto
    <3>2. Abstract!GiveUp(t)
      BY <1>0, <3>1, MovedOut DEF Busy
    <3>3. QED
      BY <3>2 DEF Abstract!Next
  <2>2. CASE ~(poisoned \/ error[t] = NaN)
    <3>1. /\ pc[t] = "tell" /\ pc' = [pc EXCEPT ![t] = "load"]
          /\ results' = Append(results, error[t])
          /\ RUNNING' = (RUNNING /\ Len(results) + 1 # MaxSimulations)
          /\ out' = out
      BY <1>3, <2>2 DEF Tell, Goto
    <3>2. error[t] \in Error
      BY <1>0, <2>2 DEF TypeOK
    <3>3. InFlight' = InFlight \ {t} /\ Lost' = Lost /\ t \in InFlight
      <4>1. "load" \notin Busy /\ "load" # "panicked" /\ pc[t] # "panicked"
        BY <3>1 DEF Busy
      <4>2. t \in InFlight
        BY <3>1 DEF InFlight
      <4>3. QED
        BY <1>0, <3>1, <4>1, <4>2, Moved
    <3>4. Abstract!Finish(t, error[t])
      BY <1>0, <3>1, <3>3 DEF Abstract!Finish
    <3>5. QED
      BY <3>2, <3>4 DEF Abstract!Next
  <2>3. QED
    BY <2>1, <2>2
<1>4. CASE Load(t) \/ Store(t) \/ RemoveFile(t)
  <2>1. /\ pc[t] \in {"load", "store", "remove"}
        /\ \E to \in {"store", "remove", "copy", "check"} : pc' = [pc EXCEPT ![t] = to]
        /\ UNCHANGED <<RUNNING, results, out>>
    BY <1>4 DEF Load, Store, RemoveFile, Goto, sharedVars
  <2>2. QED
    BY <1>0, <2>1, MovedInside DEF Busy
<1>5. CASE Copy(t)
  <2>1. CASE Goto(t, "copy", "remove") /\ out' = out \cup {error[t]}
             /\ UNCHANGED <<RUNNING, results>>
    <3>1. pc[t] = "copy" /\ pc' = [pc EXCEPT ![t] = "remove"]
      BY <2>1 DEF Goto
    <3>2. InFlight' = InFlight /\ Lost' = Lost
      <4>1. t \notin InFlight
        BY <3>1 DEF InFlight
      <4>2. "remove" \notin Busy /\ "remove" # "panicked" /\ pc[t] # "panicked"
        BY <3>1 DEF Busy
      <4>3. InFlight' = InFlight \ {t} /\ Lost' = Lost
        BY <1>0, <3>1, <4>2, Moved
      <4>4. QED
        BY <4>1, <4>3
    <3>3. error[t] \in Errors(results) /\ error[t] < DefaultError /\ error[t] \in Error
      <4>1. error[t] \in Errors(results) /\ error[t] < DefaultError
        BY <3>1 DEF SearchInv, Told, BelowDefault
      <4>2. QED
        BY <1>0, <4>1, ErrorsType DEF TypeOK
    <3>4. Abstract!Keep(error[t])
      BY <1>0, <2>1, <3>2, <3>3 DEF Abstract!Keep, Abstract!Obtained, Errors
    <3>5. QED
      BY <3>3, <3>4 DEF Abstract!Next
  <2>2. CASE Goto(t, "copy", "panicked") /\ UNCHANGED sharedVars
    <3>1. pc[t] = "copy" /\ pc' = [pc EXCEPT ![t] = "panicked"]
      BY <2>2 DEF Goto
    <3>2. InFlight' = InFlight /\ Lost' = TRUE
      <4>1. t \notin InFlight
        BY <3>1 DEF InFlight
      <4>2. "panicked" \notin Busy /\ pc[t] # "panicked"
        BY <3>1 DEF Busy
      <4>3. InFlight' = InFlight \ {t} /\ Lost' = TRUE
        BY <1>0, <3>1, <4>2, Moved
      <4>4. QED
        BY <4>1, <4>3
    <3>3. Abstract!Lose
      BY <1>0, <2>2, <3>2 DEF Abstract!Lose, sharedVars
    <3>4. QED
      BY <3>3 DEF Abstract!Next
  <2>3. QED
    BY <1>5, <2>1, <2>2 DEF Copy
<1>6. QED
  BY <1>1, <1>2, <1>3, <1>4, <1>5 DEF RunThread

\* Main saves only when no result is to come and the best run is kept.
LEMMA ExportRefines ==
  ASSUME SearchInv, EndInv, Export
  PROVE  Abstract!Next \/ SearchStutters
<1>1. UNCHANGED <<RUNNING, results, out, pc>> /\ main = "export" /\ backup = NoBackup
  BY DEF Export, EndInv, threadVars, sharedVars
<1>2. InFlight' = InFlight /\ Lost' = Lost
  BY <1>1 DEF InFlight, Lost
<1>3. CASE backup' = backup
  BY <1>1, <1>2, <1>3 DEF SearchStutters
<1>4. CASE backup' = results
  <2>1. \A t \in Runner : pc[t] \in {"exited", "panicked"}
    BY <1>1 DEF EndInv
  <2>2. InFlight = {}
    BY <2>1 DEF InFlight
  <2>3. Lost \/ Abstract!BestKept
    <3> SUFFICES ASSUME ~Lost, NEW e \in Abstract!Obtained,
                        \A x \in Abstract!Obtained : e <= x, e < DefaultError
                 PROVE  e \in out
      BY DEF Abstract!BestKept
    <3>1. e \in Errors(results) /\ Best(e)
      BY DEF Abstract!Obtained, Errors, Best
    <3>2. Exporting(e, {"load", "store", "copy"})
      BY <3>1 DEF SearchInv, BestOnItsWay
    <3>3. QED
      BY <2>1, <3>2 DEF Exporting, Lost
  <2>4. Abstract!Save
    BY <1>1, <1>2, <1>4, <2>2, <2>3 DEF Abstract!Save
  <2>5. QED
    BY <2>4 DEF Abstract!Next
<1>5. QED
  BY <1>3, <1>4 DEF Export

\* So is every step.
LEMMA StepRefines ==
  ASSUME SearchInv, EndInv, [Next]_vars
  PROVE  Abstract!Next \/ SearchStutters
<1>1. ASSUME NEW t \in Runner, RunThread(t) PROVE Abstract!Next \/ SearchStutters
  BY <1>1, RunThreadRefines
<1>2. CASE Export
  BY <1>2, ExportRefines
<1>3. CASE Join \/ WriteHotCold \/ WriteErrorTime \/ UNCHANGED vars
  <2>1. UNCHANGED <<RUNNING, results, out, pc, backup>>
    BY <1>3 DEF Join, WriteHotCold, WriteErrorTime, WriteFails, vars, threadVars, sharedVars,
                mainVars
  <2>2. QED
    BY <2>1 DEF SearchStutters, InFlight, Lost
<1>4. CASE CtrlC
  <2>1. UNCHANGED <<results, out, pc, backup>> /\ (RUNNING' = RUNNING \/ RUNNING' = FALSE)
    BY <1>4 DEF CtrlC, threadVars
  <2>2. InFlight' = InFlight /\ Lost' = Lost
    BY <2>1 DEF InFlight, Lost
  <2>3. CASE RUNNING' = RUNNING
    BY <2>1, <2>2, <2>3 DEF SearchStutters
  <2>4. CASE RUNNING' = FALSE
    <3>1. Abstract!Stop
      BY <2>1, <2>2, <2>4 DEF Abstract!Stop
    <3>2. QED
      BY <3>1 DEF Abstract!Next
  <2>5. QED
    BY <2>1, <2>3, <2>4
<1>5. QED
  BY <1>1, <1>2, <1>3, <1>4 DEF Next, MainThread

\* Threads, locks, atomics and failures included, the program is a search as
\* module Search specifies it.
THEOREM SearchImplemented == Spec => ImplementsSearch
<1>1. Init => Abstract!Init
  BY DEF Init, Abstract!Init, InFlight, Lost
<1>2. Init => SearchInv /\ EndInv
  BY SearchInit DEF Init, EndInv, BackupComplete
<1>3. SearchInv /\ EndInv /\ [Next]_vars => SearchInv' /\ EndInv'
  BY SearchStep, EndStep DEF SearchInv
<1>4. SearchInv /\ EndInv /\ [Next]_vars => [Abstract!Next]_Abstract!vars
  BY StepRefines DEF SearchStutters, Abstract!vars
<1>5. QED
  BY <1>1, <1>2, <1>3, <1>4, PTL DEF Spec, ImplementsSearch, Abstract!Spec
=============================================================================
