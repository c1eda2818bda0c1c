-------------------------- MODULE GenGraphsProofs --------------------------
(***************************************************************************)
(* Theorems about gen_graphs.py for every set of files, every number of    *)
(* results in them and every number of percentiles.                        *)
(***************************************************************************)
EXTENDS GenGraphs, NatOrder

\* There is a percentile.
LEMMA SomePercentile == P \in Nat \ {0}
BY GenGraphsAssumption

USE SomePercentile

-----------------------------------------------------------------------------
(***************************************************************************)
(* Where the program is among the files: the ones before current have been *)
(* exported, and nothing is read before the files are listed.              *)
(***************************************************************************)

CursorInv ==
  /\ one_graph \in BOOLEAN
  /\ to_export \in Seq(File)
  /\ current \in 1 .. Len(to_export) + 1
  /\ pc = "list" => current = 1 /\ to_export = <<>>
  /\ pc \in {"open", "filter", "rank", "top", "label"} => current <= Len(to_export)

\* The parts of a file have their types.
LEMMA FileType ==
  ASSUME NEW f \in File
  PROVE  /\ f.label.d \in Nat /\ f.label.tx \in Nat /\ f.dir \in Nat
         /\ f.data \in Seq(Row) /\ SortKey(f) \in Nat
<1>1. f.label \in Label /\ f.dir \in Nat /\ f.data \in Seq(Row)
  BY DEF File
<1>2. \A l \in Label : l.d \in Nat /\ l.tx \in Nat
  BY DEF Label
<1>3. QED
  BY <1>1, <1>2 DEF SortKey

\* Sorting a list of files gives a list of files of the same length.
LEMMA SortedFiles ==
  ASSUME NEW fs \in Seq(File)
  PROVE  LET order == StableSort([n \in DOMAIN fs |-> SortKey(fs[n])])
             sorted == [n \in DOMAIN fs |-> fs[order[n]]]
         IN  sorted \in Seq(File) /\ Len(sorted) = Len(fs)
<1> DEFINE key == [n \in DOMAIN fs |-> SortKey(fs[n])]
           order == StableSort(key)
           sorted == [n \in DOMAIN fs |-> fs[order[n]]]
           N == Len(fs)
<1>1. N \in Nat /\ DOMAIN fs = 1 .. N /\ \A n \in 1 .. N : fs[n] \in File
  OBVIOUS
<1>2. key \in [1 .. N -> Int]
  BY <1>1, FileType
<1> HIDE DEF key
<1>3. order \in [1 .. N -> 1 .. N]
  BY <1>1, <1>2, SortPermutes
<1> HIDE DEF order
<1>4. \A n \in 1 .. N : fs[order[n]] \in File
  BY <1>1, <1>3
<1>5. sorted \in Seq(File) /\ Len(sorted) = N
  BY <1>1, <1>4
<1>6. QED
  BY <1>5 DEF order, key

\* A file is listed before it is read.
LEMMA CursorInit == Init => CursorInv
<1> SUFFICES ASSUME Init PROVE CursorInv
  OBVIOUS
<1>1. to_export \in Seq(File) /\ Len(to_export) = 0
  BY DEF Init
<1>2. QED
  BY <1>1 DEF Init, CursorInv

\* What listing the files does to them.
LEMMA ListStep ==
  ASSUME CursorInv, NEW b \in Batches, ListFiles(b)
  PROVE  /\ current = 1 /\ to_export = <<>> /\ current' = 1 /\ to_export' \in Seq(File)
         /\ pc' = "open" => Len(to_export') >= 1
         /\ pc' \in {"open", "finish", "error"}
         /\ UNCHANGED <<one_graph, fileVars, collected, bars>>
         /\ pc = "list"
         /\ pc' = "error" => to_export' = <<>>
<1>1. b.files \in Seq(File)
  BY GenGraphsAssumption
<1>2. /\ pc = "list" /\ current = 1 /\ to_export = <<>> /\ current' = current
      /\ UNCHANGED <<one_graph, fileVars, collected, bars>>
  BY DEF ListFiles, CursorInv
<1>3. CASE pc' = "error" /\ UNCHANGED to_export
  <2>1. to_export' \in Seq(File)
    BY <1>2, <1>3
  <2>2. QED
    BY <1>2, <1>3, <2>1
<1>4. CASE /\ pc' = IF b.files = <<>> THEN "finish" ELSE "open"
           /\ LET order == StableSort([n \in DOMAIN b.files |-> SortKey(b.files[n])])
              IN  to_export' = [n \in DOMAIN b.files |-> b.files[order[n]]]
  <2>1. to_export' \in Seq(File) /\ Len(to_export') = Len(b.files)
    BY <1>1, <1>4, SortedFiles
  <2>2. b.files # <<>> => Len(b.files) >= 1
    BY <1>1
  <2>3. QED
    BY <1>2, <1>4, <2>1, <2>2
<1>5. QED
  BY <1>3, <1>4 DEF ListFiles

\* Every step keeps the place among the files.
LEMMA CursorStep == CursorInv /\ [Next]_vars => CursorInv'
<1> SUFFICES ASSUME CursorInv, [Next]_vars PROVE CursorInv'
  OBVIOUS
<1>1. ASSUME NEW b \in Batches, ListFiles(b) PROVE CursorInv'
  <2>1. /\ current' = 1 /\ to_export' \in Seq(File) /\ one_graph' = one_graph
        /\ pc' = "open" => Len(to_export') >= 1
        /\ pc' \in {"open", "finish", "error"}
    BY <1>1, ListStep
  <2>2. Len(to_export') \in Nat
    BY <2>1
  <2>3. QED
    BY <2>1, <2>2 DEF CursorInv
<1>2. CASE Open
  BY <1>2 DEF Open, CursorInv
<1>3. CASE Filter
  BY <1>3 DEF Filter, PopOrAdvance, CursorInv
<1>4. CASE RankErrors
  BY <1>4 DEF RankErrors, CursorInv
<1>5. CASE Top
  BY <1>5 DEF Top, PopOrAdvance, CursorInv
<1>6. CASE Collect
  <2>1. current \in 1 .. Len(to_export) /\ Len(to_export) \in Nat
    BY <1>6 DEF Collect, CursorInv
  <2>2. UNCHANGED <<one_graph, to_export>>
    BY <1>6 DEF Collect
  <2>3. \/ current' = current /\ pc' \in {"exit", "error"}
        \/ current' = current + 1 /\ pc' = IF current < Len(to_export) THEN "open" ELSE "finish"
    BY <1>6 DEF Collect
  <2>4. QED
    BY <2>1, <2>2, <2>3 DEF CursorInv
<1>7. CASE Finish \/ Fit \/ Bars \/ Ended
  BY <1>7 DEF Finish, Fit, Bars, Ended, vars, CursorInv
<1>8. CASE UNCHANGED vars
  BY <1>8 DEF vars, CursorInv
<1>9. QED
  BY <1>1, <1>2, <1>3, <1>4, <1>5, <1>6, <1>7, <1>8 DEF Next

\* The place among the files is always a place.
LEMMA CursorInvariant == Spec => []CursorInv
BY CursorInit, CursorStep, PTL DEF Spec

-----------------------------------------------------------------------------
(***************************************************************************)
(* What has been collected of the files exported so far: keys and values   *)
(* are parallel lists with one member for every file, d_values_map has     *)
(* their distances, and hot_cold the last file of every directory.         *)
(***************************************************************************)

KeyOf(f) == [d |-> f.label.d, tx |-> f.label.tx]

\* The last file exported from dir.
LastIn(dir) == Greatest({n \in Exported : to_export[n].dir = dir})

\* The file whose value the bar of tx and d shows, or 0.
LastLabelled(tx, d) ==
  Greatest({0} \cup {n \in Exported : to_export[n].label.d = d /\ to_export[n].label.tx = tx})

ListsInv ==
  /\ keys \in Seq([d : Nat, tx : Nat]) /\ Len(keys) = current - 1
  /\ \A n \in 1 .. current - 1 : keys[n] = KeyOf(to_export[n])
  /\ values \in Seq(Nat) /\ Len(values) = current - 1
  /\ \A n \in 1 .. current - 1 : values[n] = n
  /\ DOMAIN d_values_map = {to_export[n].label.d : n \in 1 .. current - 1}

\* A file that the label names is recorded in the lists.
LEMMA CollectStep ==
  ASSUME CursorInv, Collect
  PROVE  /\ UNCHANGED <<one_graph, to_export, fileVars, bars>>
         /\ current \in 1 .. Len(to_export) /\ Len(to_export) \in Nat /\ pc = "label"
         /\ file \in File /\ pc' # "list" /\ pc' # "done"
         /\ \/ current' = current /\ UNCHANGED collected /\ pc' \in {"exit", "error"}
            \/ /\ current' = current + 1 /\ pc' \in {"open", "finish"}
               /\ d_values_map' = Put(d_values_map, file.label.d, Pooled(file.label.d))
               /\ keys' = Append(keys, KeyOf(file))
               /\ values' = Append(values, current)
               /\ hot_cold' = IF one_graph THEN hot_cold ELSE Put(hot_cold, file.dir, current)
<1>1. pc = "label" /\ UNCHANGED <<one_graph, to_export, fileVars, bars>>
  BY DEF Collect
<1>2. current \in 1 .. Len(to_export) /\ Len(to_export) \in Nat /\ file \in File
  BY <1>1 DEF CursorInv, file
<1>3. \/ current' = current /\ UNCHANGED collected /\ pc' \in {"exit", "error"}
      \/ /\ current' = current + 1 /\ pc' \in {"open", "finish"}
         /\ d_values_map' = Put(d_values_map, file.label.d, Pooled(file.label.d))
         /\ keys' = Append(keys, KeyOf(file))
         /\ values' = Append(values, current)
         /\ hot_cold' = IF one_graph THEN hot_cold ELSE Put(hot_cold, file.dir, current)
  BY DEF Collect, KeyOf
<1>4. QED
  BY <1>1, <1>2, <1>3

\* What the other steps leave alone.
LEMMA OtherSteps ==
  ASSUME CursorInv, [Next]_vars, ~Collect
  PROVE  /\ UNCHANGED <<one_graph, current, collected>>
         /\ UNCHANGED to_export \/ (current = 1 /\ pc = "list")
         /\ pc = "list" => current = 1
<1>1. ASSUME NEW b \in Batches, ListFiles(b)
      PROVE  UNCHANGED <<one_graph, current, collected>> /\ current = 1 /\ pc = "list"
  BY <1>1, ListStep
<1>2. CASE Open \/ Filter \/ RankErrors \/ Top \/ Finish \/ Fit \/ Bars
  BY <1>2 DEF Open, Filter, RankErrors, Top, Finish, Fit, Bars, CursorInv
<1>3. CASE Ended \/ UNCHANGED vars
  BY <1>3 DEF Ended, vars, CursorInv
<1>4. QED
  BY <1>1, <1>2, <1>3 DEF Next, CursorInv

\* Nothing is collected yet.
LEMMA ListsInit == Init => ListsInv
<1> SUFFICES ASSUME Init PROVE ListsInv
  OBVIOUS
<1>1. keys \in Seq([d : Nat, tx : Nat]) /\ Len(keys) = 0 /\ values \in Seq(Nat) /\ Len(values) = 0
  BY DEF Init
<1>2. DOMAIN d_values_map = {} /\ current = 1
  BY DEF Init
<1>3. \A n \in 1 .. current - 1 : FALSE
  BY <1>2
<1>4. QED
  BY <1>1, <1>2, <1>3 DEF ListsInv

\* Every step keeps the lists parallel.
LEMMA ListsStep == CursorInv /\ ListsInv /\ [Next]_vars => ListsInv'
<1> SUFFICES ASSUME CursorInv, ListsInv, [Next]_vars PROVE ListsInv'
  OBVIOUS
<1>1. CASE ~Collect
  <2>1. current' = current /\ keys' = keys /\ values' = values /\ d_values_map' = d_values_map
    BY <1>1, OtherSteps DEF collected
  <2>2. CASE to_export' = to_export
    BY <2>1, <2>2 DEF ListsInv
  <2>3. CASE current = 1
    <3>1. \A n \in 1 .. current - 1 : FALSE
      BY <2>3
    <3>2. DOMAIN d_values_map = {}
      BY <3>1 DEF ListsInv
    <3>3. QED
      BY <2>1, <2>3, <3>1, <3>2 DEF ListsInv
  <2>4. QED
    BY <1>1, <2>2, <2>3, OtherSteps
<1>2. CASE Collect /\ current' = current /\ UNCHANGED collected
  BY <1>2, CollectStep DEF ListsInv, collected
<1>3. CASE Collect /\ current' = current + 1
  <2> DEFINE c == current - 1
  <2>1. /\ to_export' = to_export /\ file \in File /\ current \in Nat \ {0} /\ c \in Nat
        /\ d_values_map' = Put(d_values_map, file.label.d, Pooled(file.label.d))
        /\ keys' = Append(keys, KeyOf(file))
        /\ values' = Append(values, current) /\ current' - 1 = c + 1 /\ c + 1 = current
    BY <1>3, CollectStep
  <2>2. KeyOf(file) \in [d : Nat, tx : Nat]
    BY <2>1, FileType DEF KeyOf
  <2>3. /\ keys \in Seq([d : Nat, tx : Nat]) /\ Len(keys) = c
        /\ \A n \in 1 .. c : keys[n] = KeyOf(to_export[n])
        /\ values \in Seq(Nat) /\ Len(values) = c /\ \A n \in 1 .. c : values[n] = n
        /\ DOMAIN d_values_map = {to_export[n].label.d : n \in 1 .. c}
    BY DEF ListsInv
  <2> HIDE DEF c
  <2>4. /\ keys' \in Seq([d : Nat, tx : Nat]) /\ Len(keys') = c + 1
        /\ \A n \in 1 .. c : keys'[n] = keys[n]
        /\ keys'[c + 1] = KeyOf(file)
    BY <2>1, <2>2, <2>3
  <2>5. /\ values' \in Seq(Nat) /\ Len(values') = c + 1
        /\ \A n \in 1 .. c : values'[n] = values[n]
        /\ values'[c + 1] = current
    BY <2>1, <2>3
  <2>6. \A n \in 1 .. c + 1 : n \in 1 .. c \/ n = c + 1
    BY <2>1
  <2>7. file = to_export[c + 1]
    BY <2>1 DEF file
  <2>8. \A n \in 1 .. c + 1 : keys'[n] = KeyOf(to_export[n]) /\ values'[n] = n
    <3> SUFFICES ASSUME NEW n \in 1 .. c + 1 PROVE keys'[n] = KeyOf(to_export[n]) /\ values'[n] = n
      OBVIOUS
    <3>1. CASE n \in 1 .. c
      BY <2>3, <2>4, <2>5, <3>1
    <3>2. CASE n = c + 1
      BY <2>1, <2>4, <2>5, <2>7, <3>2
    <3>3. QED
      BY <2>6, <3>1, <3>2
  <2>9. DOMAIN d_values_map' = {to_export[n].label.d : n \in 1 .. c + 1}
    <3>1. DOMAIN d_values_map' = {to_export[n].label.d : n \in 1 .. c} \cup {to_export[c + 1].label.d}
      BY <2>1, <2>3, <2>7 DEF Put
    <3>2. c + 1 \in 1 .. c + 1 /\ 1 .. c \subseteq 1 .. c + 1
      BY <2>1
    <3>3. QED
      BY <2>6, <3>1, <3>2
  <2>10. QED
    BY <2>1, <2>4, <2>5, <2>8, <2>9 DEF ListsInv
<1>4. QED
  BY <1>1, <1>2, <1>3, CollectStep

\* The lists are always parallel.
LEMMA ListsInvariant == Spec => []ListsInv
BY CursorInvariant, ListsInit, ListsStep, PTL DEF Spec

-----------------------------------------------------------------------------
(* The graphs show the last of several files. *)

OutputsInv ==
  /\ one_graph => hot_cold = <<>>
  /\ \A dir \in DOMAIN hot_cold : hot_cold[dir] = LastIn(dir)
  /\ bars # <<>> => pc = "done"
  /\ \A tx \in DOMAIN bars : \A d \in DOMAIN bars[tx] : bars[tx][d] = LastLabelled(tx, d)

\* The file exported last is the one its directory shows.
LEMMA LastCollected ==
  ASSUME CursorInv, Collect, current' = current + 1, one_graph => hot_cold = <<>>,
         \A dir \in DOMAIN hot_cold : hot_cold[dir] = LastIn(dir)
  PROVE  (\A dir \in DOMAIN hot_cold : hot_cold[dir] = LastIn(dir))'
<1> DEFINE S(dir) == {n \in 1 .. current - 1 : to_export[n].dir = dir}
           T(dir) == {n \in 1 .. current : to_export[n].dir = dir}
<1>1. /\ to_export' = to_export /\ current \in Nat \ {0} /\ current' - 1 = current
      /\ hot_cold' = IF one_graph THEN hot_cold ELSE Put(hot_cold, file.dir, current)
  BY CollectStep
<1>2. \A dir : LastIn(dir) = Greatest(S(dir))
  BY DEF LastIn, Exported
<1>3. \A n \in 1 .. current : n \in 1 .. current - 1 \/ n = current
  BY <1>1
<1>4. 1 .. current - 1 \subseteq 1 .. current
  BY <1>1
<1>5. \A dir : dir # to_export[current].dir => T(dir) = S(dir)
  BY <1>3, <1>4
<1>6. ASSUME NEW dir, dir = to_export[current].dir
      PROVE  Greatest(T(dir)) = current
  <2>1. T(dir) \subseteq 0 .. current /\ current \in T(dir) /\ \A y \in T(dir) : y <= current
    BY <1>1, <1>6
  <2> HIDE DEF T
  <2>2. QED
    BY <1>1, <2>1, GreatestUnique
<1>7. \A dir : (LastIn(dir))' = Greatest(T(dir))
  <2> SUFFICES ASSUME NEW dir PROVE (LastIn(dir))' = Greatest(T(dir))
    OBVIOUS
  <2>1. {n \in 1 .. current' - 1 : to_export'[n].dir = dir} = T(dir)
    BY <1>1
  <2> HIDE DEF T
  <2>2. QED
    BY <2>1 DEF LastIn, Exported
<1> HIDE DEF S, T
<1>8. CASE one_graph
  BY <1>1, <1>8
<1>9. CASE ~one_graph
  <2> SUFFICES ASSUME NEW dir \in DOMAIN hot_cold' PROVE hot_cold'[dir] = (LastIn(dir))'
    OBVIOUS
  <2>1. hot_cold' = Put(hot_cold, to_export[current].dir, current)
    BY <1>1, <1>9 DEF file
  <2>2. CASE dir = to_export[current].dir
    BY <1>6, <1>7, <2>1, <2>2 DEF Put
  <2>3. CASE dir # to_export[current].dir
    <3>1. dir \in DOMAIN hot_cold /\ hot_cold'[dir] = hot_cold[dir]
      BY <2>1, <2>3 DEF Put
    <3>2. QED
      BY <1>2, <1>5, <1>7, <2>3, <3>1
  <2>4. QED
    BY <2>2, <2>3
<1>10. QED
  BY <1>8, <1>9

\* A bar shows the last value that its tx and d have, however the sorting by
\* tx moves it.
LEMMA BarShown ==
  ASSUME CursorInv, ListsInv, NEW tx, NEW d
  PROVE  LET at == {n \in DOMAIN keys : ByTx[n].key = [d |-> d, tx |-> tx]}
         IN  (IF at = {} THEN 0 ELSE ByTx[Greatest(at)].value) = LastLabelled(tx, d)
<1> DEFINE N == current - 1
           key == [n \in DOMAIN keys |-> keys[n].tx]
           order == StableSort(key)
           at == {n \in DOMAIN keys : ByTx[n].key = [d |-> d, tx |-> tx]}
           L == {n \in 1 .. N : to_export[n].label.d = d /\ to_export[n].label.tx = tx}
<1>1. /\ N \in Nat /\ DOMAIN keys = 1 .. N
      /\ \A n \in 1 .. N : keys[n] \in [d : Nat, tx : Nat]
      /\ \A n \in 1 .. N : keys[n] = KeyOf(to_export[n]) /\ values[n] = n
  <2>1. N \in Nat
    BY DEF CursorInv
  <2>2. keys \in Seq([d : Nat, tx : Nat]) /\ Len(keys) = N
    BY DEF ListsInv
  <2>3. \A n \in 1 .. N : keys[n] = KeyOf(to_export[n]) /\ values[n] = n
    BY DEF ListsInv
  <2> HIDE DEF N
  <2>4. DOMAIN keys = 1 .. N
    BY <2>1, <2>2
  <2>5. \A n \in 1 .. N : keys[n] \in [d : Nat, tx : Nat]
    <3>1. \A R : keys \in Seq(R) => \A n \in 1 .. Len(keys) : keys[n] \in R
      OBVIOUS
    <3>2. QED
      BY <2>2, <3>1, Zenon
  <2>6. QED
    BY <2>1, <2>3, <2>4, <2>5, Zenon
<1>2. key \in [1 .. N -> Int] /\ \A n \in 1 .. N : key[n] = keys[n].tx
  BY <1>1
<1>3. ByTx = [n \in DOMAIN keys |-> [key |-> keys[order[n]], value |-> values[order[n]]]]
  BY DEF ByTx
<1> HIDE DEF N, key
<1>4. /\ order \in [1 .. N -> 1 .. N]
      /\ \A m \in 1 .. N : \E n \in 1 .. N : order[n] = m
      /\ \A p, q \in 1 .. N : p < q => NoLater(key, order[p], order[q])
  BY <1>1, <1>2, SortPermutes
<1> HIDE DEF order
<1>5. \A n \in 1 .. N : /\ order[n] \in 1 .. N
                       /\ ByTx[n].key = keys[order[n]] /\ ByTx[n].value = order[n]
  BY <1>1, <1>3, <1>4
<1>6. \A n \in 1 .. N : keys[n] = [d |-> d, tx |-> tx] <=> n \in L
  BY <1>1 DEF KeyOf
<1>7. at = {n \in 1 .. N : order[n] \in L}
  <2> HIDE DEF L
  <2>1. \A n \in 1 .. N : ByTx[n].key = [d |-> d, tx |-> tx] <=> order[n] \in L
    BY <1>5, <1>6, Zenon
  <2>2. at = {n \in 1 .. N : ByTx[n].key = [d |-> d, tx |-> tx]}
    BY <1>1, Zenon
  <2>3. QED
    BY <2>1, <2>2, Zenon
<1>8. LastLabelled(tx, d) = Greatest({0} \cup L)
  BY DEF LastLabelled, Exported, N
<1>9. L \subseteq 1 .. N /\ {0} \cup L \subseteq 0 .. N
  BY <1>1
<1>10. \A n \in L : key[n] = tx
  BY <1>1, <1>2 DEF KeyOf
<1> HIDE DEF at, L
<1>11. CASE at = {}
  <2>1. L = {}
    BY <1>4, <1>7, <1>9, <1>11
  <2>2. Greatest({0} \cup L) = 0
    <3>1. {0} \cup L = {0} /\ {0} \subseteq 0 .. N
      BY <1>1, <2>1
    <3>2. \A y \in {0} : y <= 0
      OBVIOUS
    <3>3. Greatest({0}) = 0
      BY <1>1, <3>1, <3>2, GreatestUnique
    <3>4. QED
      BY <3>1, <3>3
  <2>3. QED
    BY <1>8, <1>11, <2>2 DEF at
<1>12. CASE at # {}
  <2> DEFINE g == Greatest(at)
  <2>1. at \subseteq 0 .. N
    BY <1>1, <1>7
  <2>2. g \in at /\ \A q \in at : q <= g
    BY <1>1, <1>12, <2>1, GreatestIsGreatest
  <2> HIDE DEF g
  <2>3. g \in 1 .. N /\ order[g] \in L
    BY <1>7, <2>2
  <2>4. ASSUME NEW m \in L PROVE m <= order[g]
    <3>1. PICK q \in 1 .. N : order[q] = m
      BY <1>4, <1>9, <2>4
    <3>2. q \in at
      BY <1>7, <2>4, <3>1
    <3>3. q = g \/ q < g
      BY <1>1, <2>2, <2>3, <3>2
    <3>4. CASE q = g
      BY <1>1, <1>9, <2>3, <3>1, <3>4
    <3>5. CASE q < g
      <4>1. NoLater(key, m, order[g])
        BY <1>4, <2>3, <3>1, <3>5
      <4>2. key[m] = tx /\ key[order[g]] = tx /\ key[m] \in Int
        BY <1>2, <1>9, <1>10, <2>3, <2>4
      <4>3. QED
        BY <4>1, <4>2 DEF NoLater
    <3>6. QED
      BY <3>3, <3>4, <3>5
  <2>5. Greatest({0} \cup L) = order[g]
    <3>1. order[g] \in {0} \cup L /\ order[g] \in 1 .. N
      BY <1>9, <2>3
    <3>2. \A y \in {0} \cup L : y <= order[g]
      BY <2>4, <3>1
    <3>3. QED
      BY <1>1, <1>9, <3>1, <3>2, GreatestUnique
  <2>6. ByTx[g].value = order[g]
    BY <1>5, <2>3
  <2>7. QED
    BY <1>8, <1>12, <2>5, <2>6 DEF at, g
<1>13. QED
  BY <1>11, <1>12

\* Nothing is shown yet.
LEMMA OutputsInit == Init => OutputsInv
BY DEF Init, OutputsInv

\* Every step keeps the outputs true.
LEMMA OutputsStep == CursorInv /\ ListsInv /\ OutputsInv /\ [Next]_vars => OutputsInv'
<1> SUFFICES ASSUME CursorInv, ListsInv, OutputsInv, [Next]_vars PROVE OutputsInv'
  OBVIOUS
<1>1. CASE Collect
  <2>1. bars' = bars /\ bars = <<>> /\ one_graph' = one_graph
    BY <1>1, CollectStep DEF OutputsInv
  <2>2. CASE current' = current
    <3>1. to_export' = to_export /\ hot_cold' = hot_cold
      BY <1>1, <2>2, CollectStep DEF CursorInv, collected
    <3>2. QED
      BY <2>1, <2>2, <3>1 DEF OutputsInv, LastIn, Exported
  <2>3. CASE current' = current + 1
    <3>1. (\A dir \in DOMAIN hot_cold : hot_cold[dir] = LastIn(dir))'
      BY <1>1, <2>3, LastCollected DEF OutputsInv
    <3>2. one_graph' => hot_cold' = <<>>
      BY <1>1, <2>1, <2>3, CollectStep DEF OutputsInv, collected, CursorInv
    <3>3. QED
      BY <2>1, <3>1, <3>2 DEF OutputsInv
  <2>4. QED
    BY <1>1, <2>2, <2>3, CollectStep
<1>2. CASE Bars
  <2>1. UNCHANGED <<one_graph, to_export, current, hot_cold>> /\ pc = "bars" /\ bars = <<>>
    BY <1>2 DEF Bars, OutputsInv, collected
  <2>2. \A dir, tx, d : (LastIn(dir))' = LastIn(dir) /\ (LastLabelled(tx, d))' = LastLabelled(tx, d)
    BY <2>1 DEF LastIn, LastLabelled, Exported
  <2>3. \A dir \in DOMAIN hot_cold' : hot_cold'[dir] = (LastIn(dir))'
    BY <2>1, <2>2 DEF OutputsInv
  <2>4. CASE bars' = bars
    BY <2>1, <2>3, <2>4 DEF OutputsInv
  <2>5. CASE bars' # bars
    <3> DEFINE at(tx, d) == {n \in DOMAIN keys : ByTx[n].key = [d |-> d, tx |-> tx]}
               shown(tx, d) == IF at(tx, d) = {} THEN 0 ELSE ByTx[Greatest(at(tx, d))].value
    <3>1. /\ pc' = "done"
          /\ bars' = [tx \in {keys[n].tx : n \in DOMAIN keys} |->
                       [d \in DOMAIN d_values_map |-> shown(tx, d)]]
      BY <1>2, <2>5 DEF Bars
    <3>2. \A tx, d : shown(tx, d) = LastLabelled(tx, d)
      BY BarShown
    <3> HIDE DEF shown
    <3>3. \A tx \in DOMAIN bars' : \A d \in DOMAIN bars'[tx] : bars'[tx][d] = shown(tx, d)
      BY <3>1
    <3>4. \A tx \in DOMAIN bars' : \A d \in DOMAIN bars'[tx] : bars'[tx][d] = (LastLabelled(tx, d))'
      BY <2>2, <3>2, <3>3
    <3>5. QED
      BY <2>1, <2>3, <3>1, <3>4 DEF OutputsInv
  <2>6. QED
    BY <2>4, <2>5
<1>3. CASE ~Collect /\ ~Bars
  <2>1. one_graph' = one_graph /\ current' = current /\ hot_cold' = hot_cold
    BY <1>3, OtherSteps DEF collected
  <2>2. bars' = bars /\ (bars # <<>> => pc' = "done" /\ to_export' = to_export)
    <3>1. ASSUME NEW b \in Batches, ListFiles(b) PROVE bars' = bars /\ bars = <<>>
      BY <3>1 DEF ListFiles, OutputsInv
    <3>2. CASE Open \/ Filter \/ RankErrors \/ Top \/ Finish \/ Fit
      BY <3>2 DEF Open, Filter, RankErrors, Top, Finish, Fit, OutputsInv
    <3>3. CASE Ended \/ UNCHANGED vars
      BY <3>3 DEF Ended, vars, OutputsInv
    <3>4. QED
      BY <1>3, <3>1, <3>2, <3>3 DEF Next
  <2>3. CASE to_export' = to_export
    BY <2>1, <2>2, <2>3 DEF OutputsInv, LastIn, LastLabelled, Exported
  <2>4. CASE current = 1 /\ to_export' # to_export
    <3>1. Exported = {} /\ Exported' = {}
      BY <2>1, <2>4 DEF Exported
    <3>2. \A dir : (LastIn(dir))' = LastIn(dir)
      BY <3>1 DEF LastIn
    <3>3. bars' = <<>>
      BY <2>2, <2>4
    <3>4. QED
      BY <2>1, <3>2, <3>3 DEF OutputsInv
  <2>5. QED
    BY <1>3, <2>3, <2>4, OtherSteps
<1>4. QED
  BY <1>1, <1>2, <1>3

\* Of several files with the same labels, or from directories of the same
\* name, hot_cold.png and distances.png show the last one exported, whatever
\* the files are: the stable sort by tx moves keys and values together and
\* keeps files with the same labels in order, and overwriting leaves the last.
THEOREM OutputsShowTheLast == Spec => []OutputsTrue
<1>1. OutputsInv => OutputsTrue
  BY DEF OutputsInv, OutputsTrue, LastIn, LastLabelled
<1>2. QED
  BY <1>1, CursorInvariant, ListsInvariant, OutputsInit, OutputsStep, PTL DEF Spec

-----------------------------------------------------------------------------
(***************************************************************************)
(* Percentiles.  The k-th lies between two neighbours of the sorted        *)
(* errors, and it is not above the next.                                   *)
(***************************************************************************)

InOrder(s) == \A p, q \in 1 .. Len(s) : p <= q => s[p] <= s[q]

\* The index of the lower neighbour.
LowIndex(s, k) == 1 + ((k - 1) * (Len(s) - 1)) \div P

\* A value between two others, the r-th part of P on the way.
LEMMA Between ==
  ASSUME NEW a \in Nat, NEW b \in Nat, a <= b, NEW r \in Nat, r < P
  PROVE  /\ a * P + (b - a) * r \in Nat
         /\ a * P <= a * P + (b - a) * r
         /\ a * P + (b - a) * r <= b * P
         /\ a < b => a * P + (b - a) * r < b * P
<1> DEFINE c == b - a
           cr == c * r
           cp == c * P
           ap == a * P
<1>1. c \in Nat /\ P \in Nat \ {0} /\ b = a + c /\ (a < b => c \in Nat \ {0})
  OBVIOUS
<1>2. cr \in Nat /\ cp \in Nat /\ ap \in Nat /\ r * c = cr /\ P * c = cp
  BY <1>1, Product
<1>3. b * P = ap + cp
  BY <1>1, Distribute
<1>4. r * c <= P * c /\ (a < b => r * c < P * c)
  <2>1. r * c <= P * c
    BY <1>1, Scale
  <2>2. a < b => r * c < P * c
    BY <1>1, ScaleStrict
  <2>3. QED
    BY <2>1, <2>2
<1> HIDE DEF cr, cp, ap
<1>5. QED
  BY <1>2, <1>3, <1>4 DEF cr, ap

\* The neighbours of a percentile are two members, one after the other.
LEMMA LowIndexBounds ==
  ASSUME NEW s, Len(s) \in Nat \ {0}, NEW k \in 1 .. P
  PROVE  /\ LowIndex(s, k) \in 1 .. Len(s)
         /\ (LowIndex(s, k) - 1) * P <= (k - 1) * (Len(s) - 1)
         /\ (k - 1) * (Len(s) - 1) < LowIndex(s, k) * P
         /\ (k - 1) * (Len(s) - 1) =
              (LowIndex(s, k) - 1) * P + (((k - 1) * (Len(s) - 1)) % P)
         /\ ((k - 1) * (Len(s) - 1)) % P \in 0 .. P - 1
<1> DEFINE m == Len(s) - 1
           h == k - 1
           at == h * m
           l == at \div P
<1>1. m \in Nat /\ h \in Nat /\ P \in Nat \ {0} /\ h < P
  OBVIOUS
<1>2. at \in Nat /\ at <= P * m /\ P * m = m * P /\ m * P \in Nat
  BY <1>1, Product, Scale
<1> HIDE DEF m, h, at
<1>3. l \in Nat /\ l * P <= at /\ at < (l + 1) * P /\ at = l * P + (at % P) /\ at % P \in 0 .. P - 1
  <2>1. l \in Nat /\ l * P <= at /\ at < (l + 1) * P
    BY <1>1, <1>2, Rounding
  <2>2. at = P * l + (at % P) /\ at % P \in 0 .. P - 1
    BY <1>1, <1>2, Remainder
  <2>3. P * l = l * P
    BY <1>1, <2>1, Product
  <2>4. QED
    BY <2>1, <2>2, <2>3
<1>4. l <= m
  <2>1. l * P <= m * P /\ m + 1 \in Nat /\ (m + 1) * P = m * P + 1 * P
    BY <1>1, <1>2, <1>3, Distribute, Product
  <2>2. l * P < (m + 1) * P
    BY <1>1, <1>2, <1>3, <2>1, Product
  <2>3. l < m + 1
    BY <1>1, <1>3, <2>2, Cancel
  <2>4. QED
    BY <1>1, <1>3, <2>3
<1>5. LowIndex(s, k) = 1 + l
  BY DEF LowIndex, at, h, m
<1> HIDE DEF l
<1>6. 1 + l \in 1 .. Len(s) /\ (1 + l) - 1 = l /\ 1 + l = l + 1
  BY <1>3, <1>4 DEF m
<1>7. QED
  BY <1>3, <1>5, <1>6 DEF at, h, m

\* A percentile is between its neighbours.
LEMMA PercentileBetween ==
  ASSUME NEW s \in Seq(Nat), s # <<>>, InOrder(s), NEW k \in 1 .. P
  PROVE  LET l == LowIndex(s, k)
             h == IF l < Len(s) THEN l + 1 ELSE l
         IN  /\ l \in 1 .. Len(s) /\ h \in 1 .. Len(s)
             /\ s[l] \in Nat /\ s[h] \in Nat /\ Percentile(s, k) \in Nat
             /\ Percentile(s, k) = s[l] * P + (s[h] - s[l]) * (((k - 1) * (Len(s) - 1)) % P)
             /\ s[l] * P <= Percentile(s, k)
             /\ Percentile(s, k) <= s[h] * P
             /\ s[l] < s[h] => Percentile(s, k) < s[h] * P
<1> DEFINE l == LowIndex(s, k)
           h == IF l < Len(s) THEN l + 1 ELSE l
           r == ((k - 1) * (Len(s) - 1)) % P
<1>1. Len(s) \in Nat \ {0} /\ \A n \in 1 .. Len(s) : s[n] \in Nat
  OBVIOUS
<1>2. l \in 1 .. Len(s) /\ r \in 0 .. P - 1
  BY <1>1, LowIndexBounds
<1>3. Least({Len(s), l + 1}) = h
  <2> HIDE DEF l
  <2>1. {Len(s), l + 1} \subseteq Nat /\ h \in {Len(s), l + 1} /\ \A y \in {Len(s), l + 1} : h <= y
    BY <1>1, <1>2
  <2> HIDE DEF h
  <2>2. QED
    BY <2>1, LeastUnique
<1>4. 2 + ((k - 1) * (Len(s) - 1)) \div P = l + 1
  <2>1. l = 1 + ((k - 1) * (Len(s) - 1)) \div P
    BY DEF LowIndex
  <2> DEFINE z == ((k - 1) * (Len(s) - 1)) \div P
  <2>2. l = 1 + z /\ l \in Int
    BY <1>2, <2>1
  <2>3. z \in Int
    OBVIOUS
  <2> HIDE DEF z, l
  <2>4. 2 + z = l + 1
    BY <2>2, <2>3
  <2>5. QED
    BY <2>4 DEF z
<1>5. Percentile(s, k) = s[l] * P + (s[h] - s[l]) * r
  <2>1. l = 1 + ((k - 1) * (Len(s) - 1)) \div P
    BY DEF LowIndex
  <2> HIDE DEF l, h
  <2>2. QED
    BY <1>3, <1>4, <2>1 DEF Percentile
<1> HIDE DEF l, r
<1>6. h \in 1 .. Len(s) /\ l <= h
  BY <1>1, <1>2
<1>7. s[l] \in Nat /\ s[h] \in Nat /\ s[l] <= s[h]
  BY <1>1, <1>2, <1>6 DEF InOrder
<1>8. r \in Nat /\ r < P
  BY <1>2
<1> HIDE DEF h
<1>9. /\ Percentile(s, k) \in Nat
      /\ s[l] * P <= Percentile(s, k)
      /\ Percentile(s, k) <= s[h] * P
      /\ s[l] < s[h] => Percentile(s, k) < s[h] * P
  <2> DEFINE a == s[l]
             b == s[h]
  <2> HIDE DEF a, b
  <2>1. a \in Nat /\ b \in Nat /\ a <= b /\ Percentile(s, k) = a * P + (b - a) * r
    BY <1>5, <1>7 DEF a, b
  <2>2. /\ a * P + (b - a) * r \in Nat
        /\ a * P <= a * P + (b - a) * r
        /\ a * P + (b - a) * r <= b * P
        /\ a < b => a * P + (b - a) * r < b * P
    BY <1>8, <2>1, Between
  <2>3. QED
    BY <2>1, <2>2 DEF a, b
<1>10. QED
  BY <1>2, <1>5, <1>6, <1>7, <1>9 DEF l, h, r

\* A later percentile is not below an earlier one.
LEMMA PercentilesRise ==
  ASSUME NEW s \in Seq(Nat), s # <<>>, InOrder(s), NEW j \in 1 .. P, NEW k \in 1 .. P, j <= k
  PROVE  Percentile(s, j) <= Percentile(s, k)
<1> DEFINE N == Len(s)
           u == (j - 1) * (N - 1)
           v == (k - 1) * (N - 1)
           a == LowIndex(s, j)
           b == LowIndex(s, k)
           c == IF a < N THEN a + 1 ELSE a
           d == IF b < N THEN b + 1 ELSE b
<1>1. N \in Nat \ {0} /\ N - 1 \in Nat /\ j - 1 \in Nat /\ k - 1 \in Nat /\ j - 1 <= k - 1
  OBVIOUS
<1>2. u \in Nat /\ v \in Nat /\ u <= v
  <2>1. u \in Nat /\ v \in Nat
    BY <1>1, Product
  <2>2. u <= v
    BY <1>1, Scale
  <2>3. QED
    BY <2>1, <2>2
<1>3. /\ a \in 1 .. N /\ (a - 1) * P <= u /\ u < a * P
      /\ u = (a - 1) * P + (u % P) /\ u % P \in 0 .. P - 1
      /\ b \in 1 .. N /\ (b - 1) * P <= v /\ v < b * P
      /\ v = (b - 1) * P + (v % P) /\ v % P \in 0 .. P - 1
  BY <1>1, LowIndexBounds
<1> DEFINE xa == s[a]
           xb == s[b]
           xc == s[c]
           xd == s[d]
           lower == Percentile(s, j)
           upper == Percentile(s, k)
<1>4. /\ lower = xa * P + (xc - xa) * (u % P)
      /\ upper = xb * P + (xd - xb) * (v % P)
      /\ lower \in Nat /\ upper \in Nat /\ lower <= xc * P /\ xb * P <= upper
      /\ c \in 1 .. N /\ xa \in Nat /\ xb \in Nat /\ xc \in Nat
  BY PercentileBetween
<1>5. xa <= xc /\ (c <= b => xc <= xb)
  <2>1. a \in 1 .. Len(s) /\ b \in 1 .. Len(s) /\ c \in 1 .. Len(s)
    BY <1>3, <1>4
  <2>2. a <= c
    <3> HIDE DEF a
    <3> QED
      BY <2>1
  <2> HIDE DEF a, b, c
  <2>3. QED
    BY <2>1, <2>2 DEF InOrder
<1> DEFINE pa == (a - 1) * P
           pb == b * P
<1>6. pa \in Nat /\ pb \in Nat /\ a - 1 \in Nat /\ b \in Nat
  <2> HIDE DEF N, a, b
  <2>1. a - 1 \in Nat /\ b \in Nat
    BY <1>1, <1>3
  <2>2. QED
    BY <2>1, Product
<1> HIDE DEF N, u, v, a, b, xa, xb, xc, xd, lower, upper
<1>7. a <= b
  <2>1. pa <= u /\ v < pb
    BY <1>3
  <2> HIDE DEF pa, pb
  <2>2. pa < pb
    BY <1>2, <1>6, <2>1
  <2>3. a - 1 < b
    BY <1>6, <2>2, Cancel DEF pa, pb
  <2>4. QED
    BY <1>1, <1>3, <2>3
<1>8. CASE a = b
  <2> DEFINE y == xc - xa
             r == u % P
             q == v % P
  <2>1. r \in Nat /\ q \in Nat /\ u = pa + r /\ v = pa + q
    BY <1>3, <1>8
  <2>2. y \in Nat
    BY <1>4, <1>5
  <2>3. xd = xc /\ xb = xa
    BY <1>8 DEF xa, xb, xc, xd
  <2>4. lower = xa * P + y * r /\ upper = xa * P + y * q
    BY <1>4, <2>3
  <2> HIDE DEF pa, y, r, q
  <2>5. r <= q
    BY <1>2, <1>6, <2>1
  <2>6. r * y <= q * y /\ r * y = y * r /\ q * y = y * q /\ y * r \in Nat /\ y * q \in Nat
    BY <2>1, <2>2, <2>5, Scale, Product
  <2>7. xa * P \in Nat
    BY <1>4, Product
  <2>8. lower <= upper
    BY <2>4, <2>6, <2>7
  <2>9. QED
    BY <2>8 DEF lower, upper
<1>9. CASE a < b
  <2>1. c <= b
    BY <1>1, <1>3, <1>9
  <2>2. xc * P <= xb * P /\ xc * P \in Nat /\ xb * P \in Nat
    BY <1>4, <1>5, <2>1, Scale, Product
  <2>3. \A w, x, y, z \in Nat : w <= x /\ x <= y /\ y <= z => w <= z
    OBVIOUS
  <2>4. lower <= upper
    BY <1>4, <2>2, <2>3, Zenon
  <2>5. QED
    BY <2>4 DEF lower, upper
<1>10. QED
  BY <1>1, <1>3, <1>7, <1>8, <1>9

Quantiles(s) == [k \in 1 .. P |-> Percentile(s, k)]

\* The percentiles below an error, which Rank counts.
Below(e, s) == {k \in 1 .. P : Quantiles(s)[k] < e * P}

\* What Rank counts.
LEMMA RankCounts ==
  ASSUME NEW e, NEW s
  PROVE  /\ Rank(e, Quantiles(s)) = Cardinality(Below(e, s))
         /\ IsFiniteSet(Below(e, s)) /\ Rank(e, Quantiles(s)) \in 0 .. P
         /\ \A k \in 1 .. P : k \in Below(e, s) <=> Percentile(s, k) < e * P
<1>1. IsFiniteSet(1 .. P) /\ Cardinality(1 .. P) = P
  BY FS_Interval
<1>2. Below(e, s) \in SUBSET (1 .. P)
  BY DEF Below
<1>3. Rank(e, Quantiles(s)) = Cardinality(Below(e, s))
  BY DEF Below, Rank
<1>4. IsFiniteSet(Below(e, s)) /\ Cardinality(Below(e, s)) \in Nat /\ Cardinality(Below(e, s)) <= P
  BY <1>1, <1>2, FS_Subset, FS_CardinalityType
<1>5. \A k \in 1 .. P : k \in Below(e, s) <=> Percentile(s, k) < e * P
  BY DEF Below, Quantiles
<1>6. QED
  BY <1>3, <1>4, <1>5

\* No percentile is below the least error.
LEMMA PercentileFloor ==
  ASSUME NEW s \in Seq(Nat), s # <<>>, InOrder(s), NEW e \in Nat, e <= s[1], NEW k \in 1 .. P
  PROVE  e * P <= Percentile(s, k) /\ ~(Percentile(s, k) < e * P)
<1> DEFINE l == LowIndex(s, k)
           p == Percentile(s, k)
<1>1. l \in 1 .. Len(s) /\ s[l] \in Nat /\ p \in Nat /\ s[l] * P <= p
  BY PercentileBetween
<1> HIDE DEF l, p
<1>2. 1 \in 1 .. Len(s) /\ s[1] \in Nat /\ s[1] <= s[l]
  <2>1. 1 \in 1 .. Len(s) /\ 1 <= l
    BY <1>1
  <2>2. s[1] \in Nat
    BY <2>1
  <2>3. QED
    BY <1>1, <2>1, <2>2, Zenon DEF InOrder
<1> DEFINE a == s[1]
           z == s[l]
<1>3. a \in Nat /\ z \in Nat /\ e <= a /\ a <= z /\ z * P <= p
  BY <1>1, <1>2
<1> HIDE DEF a, z
<1>4. e <= z
  BY <1>3
<1>5. e * P <= p /\ ~(p < e * P)
  <2>1. e * P <= z * P
    BY <1>3, <1>4, Scale
  <2>2. e * P \in Nat /\ z * P \in Nat
    BY <1>3, Product
  <2>3. \A u, v, w \in Nat : u <= v /\ v <= w => u <= w /\ ~(w < u)
    OBVIOUS
  <2>4. QED
    BY <1>1, <1>3, <2>1, <2>2, <2>3, Zenon
<1>6. QED
  BY <1>5 DEF p

\* The best of some errors has no percentile below it.
LEMMA BestRank ==
  ASSUME NEW s \in Seq(Nat), s # <<>>, InOrder(s), NEW e \in Nat, e <= s[1]
  PROVE  Rank(e, Quantiles(s)) = 0
<1>1. Below(e, s) = {}
  BY PercentileFloor, RankCounts DEF Below
<1>2. QED
  BY <1>1, RankCounts, FS_EmptySet

\* A higher error has no lower rank.
LEMMA RankRises ==
  ASSUME NEW s \in Seq(Nat), s # <<>>, InOrder(s), NEW e \in Nat, NEW f \in Nat, e <= f
  PROVE  /\ Below(e, s) \subseteq Below(f, s)
         /\ Rank(e, Quantiles(s)) <= Rank(f, Quantiles(s))
<1>1. e * P <= f * P /\ e * P \in Nat /\ f * P \in Nat
  BY Scale, Product
<1>2. \A k \in 1 .. P : Percentile(s, k) \in Nat
  BY PercentileBetween
<1>3. \A k \in 1 .. P : Percentile(s, k) < e * P => Percentile(s, k) < f * P
  <2>1. \A a, b, c \in Nat : a < b /\ b <= c => a < c
    OBVIOUS
  <2>2. QED
    BY <1>1, <1>2, <2>1, Zenon
<1>4. Below(e, s) \subseteq Below(f, s)
  BY <1>3, RankCounts DEF Below
<1>5. QED
  BY <1>4, RankCounts, FS_Subset

\* Where there are no more results than percentiles, some percentile has the
\* j-th error as its lower neighbour.
LEMMA NeighbourFound ==
  ASSUME NEW s, Len(s) \in Nat, Len(s) <= P, NEW j \in Nat, 1 <= j, j < Len(s)
  PROVE  \E k \in 1 .. P : LowIndex(s, k) = j
<1> DEFINE m == Len(s) - 1
           g == (j - 1) * P
           C == {c \in Nat : g <= c * m}
<1>1. m \in Nat \ {0} /\ P \in Nat \ {0} /\ j - 1 \in Nat /\ j - 1 <= m /\ m < P /\ j <= m
  <2> DEFINE n == Len(s)
  <2>1. n \in Nat /\ n <= P /\ j < n /\ P \in Nat \ {0}
    OBVIOUS
  <2> HIDE DEF n
  <2>2. n - 1 \in Nat /\ n - 1 # 0 /\ j - 1 \in Nat /\ j - 1 <= n - 1 /\ n - 1 < P /\ j <= n - 1
    BY <2>1
  <2>3. QED
    BY <2>1, <2>2 DEF n
<1>2. g \in Nat /\ g <= m * P /\ m * P = P * m
  BY <1>1, Product, Scale
<1> HIDE DEF g, m
<1>3. P \in C
  BY <1>1, <1>2
<1>4. PICK c \in C : \A y \in C : c <= y
  <2>1. C \subseteq Nat /\ C # {}
    BY <1>3
  <2> HIDE DEF C
  <2>2. QED
    BY <2>1, LeastExists
<1>5. c \in Nat /\ g <= c * m /\ c * m \in Nat
  BY <1>1, <1>4, Product
<1> DEFINE cm == c * m
<1>6. cm < g + P
  <2>1. CASE c = 0
    <3>1. cm = 0
      BY <1>1, <2>1
    <3>2. QED
      BY <1>1, <1>2, <3>1
  <2>2. CASE c # 0
    <3> DEFINE b == c - 1
               bm == b * m
    <3>1. b \in Nat /\ ~(c <= b) /\ c = b + 1
      BY <1>5, <2>2
    <3>2. bm \in Nat
      BY <1>1, <3>1, Product
    <3>3. ~(g <= bm)
      BY <1>4, <3>1
    <3>4. cm = bm + 1 * m /\ 1 * m = m
      BY <1>1, <3>1, Distribute
    <3> HIDE DEF bm, cm, b
    <3>5. QED
      BY <1>1, <1>2, <3>2, <3>3, <3>4
  <2>3. QED
    BY <2>1, <2>2
<1>7. c < P
  <2>1. c <= P
    BY <1>3, <1>4
  <2>2. c # P
    <3> SUFFICES ASSUME c = P PROVE FALSE
      OBVIOUS
    <3>1. cm = m * P
      BY <1>2
    <3>2. j * P <= m * P /\ j * P = g + 1 * P /\ 1 * P = P
      BY <1>1, Scale, Distribute DEF g
    <3>3. m * P \in Nat
      BY <1>1, Product
    <3> HIDE DEF cm
    <3>4. QED
      BY <1>1, <1>2, <1>6, <3>1, <3>2, <3>3
  <2>3. QED
    BY <1>1, <1>5, <2>1, <2>2
<1>8. c + 1 \in 1 .. P /\ (c + 1) - 1 = c
  BY <1>1, <1>5, <1>7
<1> DEFINE l == LowIndex(s, c + 1)
<1>9. l \in 1 .. Len(s) /\ (l - 1) * P <= cm /\ cm < l * P
  <2>1. Len(s) \in Nat \ {0}
    OBVIOUS
  <2>2. QED
    BY <1>8, <2>1, LowIndexBounds DEF m
<1> HIDE DEF cm, l
<1>10. l \in Nat /\ l - 1 \in Nat /\ l * P \in Nat /\ (l - 1) * P \in Nat /\ cm \in Nat
  BY <1>5, <1>9, Product DEF cm
<1>11. j - 1 < l
  <2>1. g <= cm
    BY <1>5 DEF cm
  <2>2. g < l * P
    BY <1>2, <1>9, <1>10, <2>1
  <2>3. QED
    BY <1>1, <1>10, <2>2, Cancel DEF g
<1>12. l - 1 < j
  <2>1. j * P = g + 1 * P /\ 1 * P = P /\ j * P \in Nat
    BY <1>1, Distribute, Product DEF g
  <2>2. (l - 1) * P < j * P
    BY <1>2, <1>6, <1>9, <1>10, <2>1
  <2>3. QED
    BY <1>1, <1>10, <2>2, Cancel
<1>13. l = j
  BY <1>10, <1>11, <1>12
<1>14. QED
  BY <1>8, <1>13 DEF l

\* Where there are no more results than percentiles, different errors have
\* different ranks.
LEMMA RankStrict ==
  ASSUME NEW s \in Seq(Nat), s # <<>>, InOrder(s), Len(s) <= P,
         NEW p \in 1 .. Len(s), NEW q \in 1 .. Len(s), s[p] < s[q]
  PROVE  Rank(s[p], Quantiles(s)) < Rank(s[q], Quantiles(s))
<1> DEFINE N == Len(s)
           e == s[p]
           f == s[q]
           J == {n \in 1 .. N : s[n] <= e}
<1>1. N \in Nat /\ \A n \in 1 .. N : s[n] \in Nat
  OBVIOUS
<1>2. PICK j \in J : \A n \in J : n <= j
  <2>1. J \subseteq 0 .. N /\ J # {}
    <3>1. \A n \in 1 .. N : n \in 0 .. N
      BY <1>1
    <3>2. J \subseteq 0 .. N
      BY <3>1, Zenon
    <3>3. \A a \in Nat : a <= a
      OBVIOUS
    <3>4. p \in J
      BY <1>1, <3>3, Zenon
    <3>5. QED
      BY <3>2, <3>4, Zenon
  <2> HIDE DEF J
  <2>2. QED
    BY <1>1, <2>1, GreatestExists
<1>3. j \in 1 .. N /\ s[j] <= e /\ p \in J
  <2>1. \A a \in Nat : a <= a
    OBVIOUS
  <2>2. QED
    BY <1>1, <2>1, Zenon
<1>4. p <= j /\ s[j] = e
  <2>1. p <= j
    BY <1>2, <1>3
  <2>2. e <= s[j]
    BY <1>3, <2>1 DEF InOrder
  <2>3. QED
    <3>1. \A a, b \in Nat : a <= b /\ b <= a => a = b
      OBVIOUS
    <3>2. QED
      BY <1>1, <1>3, <2>1, <2>2, <3>1, Zenon
<1>5. j < q
  <2> SUFFICES ASSUME q <= j PROVE FALSE
    BY <1>3
  <2>1. f <= s[j]
    BY <1>3 DEF InOrder
  <2>2. \A a, b \in Nat : a < b => ~(b <= a)
    OBVIOUS
  <2>3. QED
    BY <1>1, <1>4, <2>1, <2>2, Zenon
<1>6. j + 1 \in 1 .. N /\ j + 1 <= q /\ j < N
  <2>1. j \in 1 .. N /\ q \in 1 .. N /\ N \in Nat
    BY <1>1, <1>3, Zenon
  <2> HIDE DEF N
  <2>2. QED
    BY <1>5, <2>1
<1>7. e < s[j + 1] /\ s[j + 1] <= f /\ s[j + 1] \in Nat
  <2>1. j + 1 \notin J
    BY <1>2, <1>3
  <2>2. s[j + 1] <= f /\ s[j + 1] \in Nat
    BY <1>1, <1>6 DEF InOrder
  <2>3. ~(s[j + 1] <= e)
    BY <1>6, <2>1
  <2>4. \A a, b \in Nat : ~(b <= a) => a < b
    OBVIOUS
  <2>5. QED
    BY <1>1, <2>2, <2>3, <2>4, Zenon
<1>8. PICK k \in 1 .. P : LowIndex(s, k) = j
  <2>1. j \in Nat /\ 1 <= j /\ Len(s) \in Nat
    BY <1>3
  <2>2. QED
    BY <1>6, <2>1, NeighbourFound
<1> DEFINE x == Percentile(s, k)
           z == s[j + 1]
<1>9. x \in Nat /\ e * P <= x /\ x < z * P
  BY <1>4, <1>6, <1>7, <1>8, PercentileBetween
<1> HIDE DEF x, z
<1>10. e \in Nat /\ f \in Nat /\ z \in Nat /\ z <= f /\ e <= f
  <2>1. \A a, b, c \in Nat : a < b /\ b <= c => a <= c
    OBVIOUS
  <2>2. QED
    BY <1>1, <1>7, <2>1, Zenon DEF z
<1> HIDE DEF e, f
<1>11. e * P \in Nat /\ f * P \in Nat /\ z * P \in Nat /\ z * P <= f * P
  BY <1>10, Scale, Product
<1>12. x < f * P /\ ~(x < e * P)
  <2>1. \A a, b, c, y \in Nat : a <= y /\ y < b /\ b <= c => y < c /\ ~(y < a)
    OBVIOUS
  <2>2. QED
    BY <1>9, <1>11, <2>1, Zenon
<1>13. k \in Below(f, s) /\ k \notin Below(e, s)
  BY <1>12, RankCounts DEF x
<1>14. Below(e, s) \subseteq Below(f, s)
  BY <1>10, RankRises
<1>15. /\ Rank(e, Quantiles(s)) <= Rank(f, Quantiles(s))
       /\ Rank(e, Quantiles(s)) # Rank(f, Quantiles(s))
  <2> DEFINE A == Below(e, s)
             B == Below(f, s)
  <2>1. /\ A \in SUBSET B /\ A # B /\ IsFiniteSet(B)
        /\ Rank(e, Quantiles(s)) = Cardinality(A) /\ Rank(f, Quantiles(s)) = Cardinality(B)
    BY <1>10, <1>13, <1>14, RankCounts
  <2> HIDE DEF A, B
  <2>2. Cardinality(A) <= Cardinality(B) /\ Cardinality(A) # Cardinality(B)
    BY <2>1, FS_Subset, Zenon
  <2>3. QED
    BY <2>1, <2>2, Zenon
<1>16. Rank(e, Quantiles(s)) \in 0 .. P /\ Rank(f, Quantiles(s)) \in 0 .. P
  BY RankCounts
<1>17. Rank(e, Quantiles(s)) < Rank(f, Quantiles(s))
  BY <1>15, <1>16
<1>18. QED
  BY <1>17 DEF e, f

\* The test of the loop that keeps the best 20 %, which counts percentiles,
\* compares the error with the 20th.
LEMMA TopTest ==
  ASSUME NEW s \in Seq(Nat), s # <<>>, InOrder(s), NEW e \in Nat
  PROVE  100 * Rank(e, Quantiles(s)) > 20 * P
           <=> ~(e * P <= Percentile(s, 1 + (20 * P) \div 100))
<1> DEFINE t == 1 + (20 * P) \div 100
           c == Rank(e, Quantiles(s))
           B == Below(e, s)
<1>1. t \in 1 .. P /\ 100 * t > 20 * P /\ 100 * (t - 1) <= 20 * P /\ t - 1 \in Nat
  OBVIOUS
<1> HIDE DEF t
<1>2. e * P \in Nat /\ \A k \in 1 .. P : Percentile(s, k) \in Nat
  BY PercentileBetween, Product
<1>3. c = Cardinality(B) /\ IsFiniteSet(B) /\ c \in 0 .. P
  BY RankCounts
<1> HIDE DEF c, B
<1>4. \A k \in 1 .. P : k \in B <=> Percentile(s, k) < e * P
  BY RankCounts DEF B
<1>5. CASE Percentile(s, t) < e * P
  <2>1. ASSUME NEW k \in 1 .. t PROVE k \in B
    <3>1. k \in 1 .. P /\ k <= t
      BY <1>1
    <3>2. Percentile(s, k) <= Percentile(s, t)
      BY <1>1, <3>1, PercentilesRise
    <3>3. Percentile(s, k) < e * P
      BY <1>1, <1>2, <1>5, <3>1, <3>2
    <3>4. QED
      BY <1>4, <3>1, <3>3
  <2>2. 1 .. t \in SUBSET B /\ Cardinality(1 .. t) = t
    BY <1>1, <2>1, FS_Interval
  <2>3. t <= c
    <3>1. Cardinality(1 .. t) <= Cardinality(B)
      BY <1>3, <2>2, FS_Subset, Zenon
    <3>2. QED
      BY <1>3, <2>2, <3>1, Zenon
  <2>4. 100 * c > 20 * P
    BY <1>1, <1>3, <2>3
  <2>5. QED
    BY <1>1, <1>2, <1>5, <2>4 DEF c, t
<1>6. CASE ~(Percentile(s, t) < e * P)
  <2>1. ASSUME NEW k \in B PROVE k \in 1 .. t - 1
    <3>1. k \in 1 .. P /\ Percentile(s, k) < e * P
      BY <1>4, <2>1 DEF B, Below
    <3>2. ~(t <= k)
      <4> SUFFICES ASSUME t <= k PROVE FALSE
        OBVIOUS
      <4>1. Percentile(s, t) <= Percentile(s, k)
        BY <1>1, <3>1, PercentilesRise
      <4>2. QED
        BY <1>1, <1>2, <1>6, <3>1, <4>1
    <3>3. QED
      BY <1>1, <3>1, <3>2
  <2>2. IsFiniteSet(1 .. t - 1) /\ Cardinality(1 .. t - 1) = t - 1
    BY <1>1, FS_Interval
  <2>3. B \in SUBSET (1 .. t - 1)
    BY <2>1
  <2>4. c <= t - 1
    BY <1>3, <2>2, <2>3, FS_Subset
  <2>5. ~(100 * c > 20 * P)
    BY <1>1, <1>3, <2>4
  <2>6. QED
    BY <1>1, <1>2, <1>6, <2>5 DEF c, t
<1>7. QED
  BY <1>5, <1>6

-----------------------------------------------------------------------------
(***************************************************************************)
(* The columns.  They are as long as each other and the index of the loops *)
(* is in them or just behind them.                                         *)
(***************************************************************************)

ColumnsInv ==
  /\ x_values \in Seq(Nat) /\ y_values \in Seq(Nat) /\ errors \in Seq(Nat)
  /\ Len(x_values) = Len(errors) /\ Len(y_values) = Len(errors)
  /\ i \in 1 .. Len(errors) + 1

\* pop takes one member out and moves the ones behind it down.
LEMMA RemoveAtType ==
  ASSUME NEW S, NEW s \in Seq(S), NEW k \in 1 .. Len(s)
  PROVE  /\ RemoveAt(s, k) \in Seq(S) /\ Len(RemoveAt(s, k)) = Len(s) - 1
         /\ \A n \in 1 .. Len(s) - 1 : RemoveAt(s, k)[n] = s[IF n < k THEN n ELSE n + 1]
<1> DEFINE m == Len(s) - 1
           t == [n \in 1 .. m |-> s[IF n < k THEN n ELSE n + 1]]
<1>1. m \in Nat /\ \A n \in 1 .. m : (IF n < k THEN n ELSE n + 1) \in 1 .. Len(s)
  OBVIOUS
<1>2. \A n \in 1 .. Len(s) : s[n] \in S
  OBVIOUS
<1> HIDE DEF m
<1>3. \A n \in 1 .. m : t[n] \in S /\ t[n] = s[IF n < k THEN n ELSE n + 1]
  BY <1>1, <1>2
<1>4. t \in Seq(S) /\ Len(t) = m
  BY <1>1, <1>3
<1>5. t = RemoveAt(s, k)
  BY DEF RemoveAt, m
<1> HIDE DEF t
<1>6. QED
  BY <1>3, <1>4, <1>5 DEF m

\* A turn of a loop ends it, pops from all columns, or advances the index.
LEMMA LoopTurn ==
  ASSUME ColumnsInv, NEW remove, NEW next, PopOrAdvance(remove, next)
  PROVE  /\ Len(errors) \in Nat
         /\ \/ i = Len(errors) + 1 /\ pc' = next /\ UNCHANGED <<x_values, y_values, errors, i>>
            \/ /\ remove /\ i \in 1 .. Len(errors) /\ UNCHANGED <<pc, i>>
               /\ x_values' = RemoveAt(x_values, i)
               /\ y_values' = RemoveAt(y_values, i)
               /\ errors' = RemoveAt(errors, i)
            \/ /\ ~remove /\ i \in 1 .. Len(errors) /\ UNCHANGED <<pc, x_values, y_values, errors>>
               /\ i' = i + 1
         /\ ColumnsInv'
<1> DEFINE N == Len(errors)
<1>1. N \in Nat /\ i \in 1 .. N + 1
  BY DEF ColumnsInv
<1>2. CASE i > N
  <2>1. i = N + 1
    BY <1>1, <1>2
  <2>2. pc' = next /\ UNCHANGED <<x_values, y_values, errors, i>>
    BY <1>2 DEF PopOrAdvance, columns
  <2>3. QED
    BY <1>1, <2>1, <2>2 DEF ColumnsInv
<1>3. CASE ~(i > N) /\ remove
  <2>1. i \in 1 .. N
    BY <1>1, <1>3
  <2>2. /\ UNCHANGED <<pc, i>> /\ x_values' = RemoveAt(x_values, i)
        /\ y_values' = RemoveAt(y_values, i) /\ errors' = RemoveAt(errors, i)
    BY <1>3 DEF PopOrAdvance
  <2>3. /\ x_values' \in Seq(Nat) /\ Len(x_values') = N - 1
        /\ y_values' \in Seq(Nat) /\ Len(y_values') = N - 1
        /\ errors' \in Seq(Nat) /\ Len(errors') = N - 1
    BY <2>1, <2>2, RemoveAtType DEF ColumnsInv
  <2>4. QED
    BY <1>1, <1>3, <2>1, <2>2, <2>3 DEF ColumnsInv
<1>4. CASE ~(i > N) /\ ~remove
  <2>1. i \in 1 .. N
    BY <1>1, <1>4
  <2>2. UNCHANGED <<pc, x_values, y_values, errors>> /\ i' = i + 1
    BY <1>4 DEF PopOrAdvance, columns
  <2>3. QED
    BY <1>1, <1>4, <2>1, <2>2 DEF ColumnsInv
<1>5. QED
  BY <1>2, <1>3, <1>4

\* A column of some rows has their values.
LEMMA ColumnType ==
  ASSUME NEW rows \in Seq(Row), NEW c \in {"x", "y", "error"}
  PROVE  /\ Column(rows, c) \in Seq(Nat) /\ Len(Column(rows, c)) = Len(rows)
         /\ \A n \in 1 .. Len(rows) : Column(rows, c)[n] = rows[n][c]
<1>1. \A r \in Row : r[c] \in Nat
  <2>1. CASE c = "x"
    BY <2>1 DEF Row
  <2>2. CASE c = "y"
    BY <2>2 DEF Row
  <2>3. CASE c = "error"
    BY <2>3 DEF Row
  <2>4. QED
    BY <2>1, <2>2, <2>3
<1>2. /\ Len(rows) \in Nat /\ DOMAIN rows = 1 .. Len(rows)
      /\ \A n \in 1 .. Len(rows) : rows[n] \in Row
  OBVIOUS
<1>3. \A n \in 1 .. Len(rows) : rows[n][c] \in Nat
  BY <1>1, <1>2
<1>4. Column(rows, c) = [n \in 1 .. Len(rows) |-> rows[n][c]]
  BY <1>2 DEF Column
<1>5. QED
  BY <1>2, <1>3, <1>4

\* Every step keeps the columns aligned.
LEMMA ColumnsStep == CursorInv /\ ColumnsInv /\ [Next]_vars => ColumnsInv'
<1> SUFFICES ASSUME CursorInv, ColumnsInv, [Next]_vars PROVE ColumnsInv'
  OBVIOUS
<1>1. ASSUME NEW b \in Batches, ListFiles(b) PROVE ColumnsInv'
  BY <1>1 DEF ListFiles, ColumnsInv, fileVars, columns
<1>2. CASE Open
  <2>1. CASE UNCHANGED <<columns, i>>
    BY <2>1 DEF ColumnsInv, columns
  <2>2. CASE ~UNCHANGED <<columns, i>>
    <3>1. file \in File
      BY <1>2 DEF Open, CursorInv, file
    <3>2. file.data \in Seq(Row)
      BY <3>1, FileType
    <3>3. /\ x_values' = Column(file.data, "x") /\ y_values' = Column(file.data, "y")
          /\ errors' = Column(file.data, "error") /\ i' = 1
      BY <1>2, <2>2 DEF Open
    <3>4. /\ x_values' \in Seq(Nat) /\ y_values' \in Seq(Nat) /\ errors' \in Seq(Nat)
          /\ Len(x_values') = Len(errors') /\ Len(y_values') = Len(errors')
      BY <3>2, <3>3, ColumnType
    <3>5. Len(errors') \in Nat
      BY <3>4
    <3>6. QED
      BY <3>3, <3>4, <3>5 DEF ColumnsInv
  <2>3. QED
    BY <2>1, <2>2
<1>3. CASE Filter
  BY <1>3, LoopTurn DEF Filter
<1>4. CASE RankErrors
  <2>1. UNCHANGED <<x_values, y_values, errors>> /\ (i' = 1 \/ i' = i) /\ Len(errors) \in Nat
    BY <1>4 DEF RankErrors, columns, ColumnsInv
  <2>2. QED
    BY <2>1 DEF ColumnsInv
<1>5. CASE Top
  BY <1>5, LoopTurn DEF Top
<1>6. CASE Collect \/ Finish \/ Fit \/ Bars
  BY <1>6 DEF Collect, Finish, Fit, Bars, ColumnsInv, fileVars, columns
<1>7. CASE Ended \/ UNCHANGED vars
  BY <1>7 DEF Ended, vars, ColumnsInv, fileVars, columns
<1>8. QED
  BY <1>1, <1>2, <1>3, <1>4, <1>5, <1>6, <1>7 DEF Next

\* The columns are always aligned.
LEMMA ColumnsInvariant == Spec => []ColumnsInv
<1>1. ASSUME Init PROVE ColumnsInv
  <2>1. /\ x_values \in Seq(Nat) /\ y_values \in Seq(Nat) /\ errors \in Seq(Nat)
        /\ Len(x_values) = 0 /\ Len(y_values) = 0 /\ Len(errors) = 0 /\ i = 1
    BY <1>1 DEF Init
  <2>2. QED
    BY <2>1 DEF ColumnsInv
<1>2. QED
  BY <1>1, CursorInvariant, ColumnsStep, PTL DEF Spec

-----------------------------------------------------------------------------
(* The colours. *)

\* The errors of the columns in order, of which the percentiles are taken.
LEMMA ErrorsSorted ==
  ASSUME NEW s \in Seq(Nat), s # <<>>
  PROVE  /\ Sorted(s) \in Seq(Nat) /\ Sorted(s) # <<>> /\ InOrder(Sorted(s))
         /\ Len(Sorted(s)) = Len(s)
         /\ \A m \in 1 .. Len(s) : \E n \in 1 .. Len(s) : Sorted(s)[n] = s[m]
         /\ \A m \in 1 .. Len(s) : Sorted(s)[1] <= s[m]
         /\ \E m \in 1 .. Len(s) : Sorted(s)[1] = s[m]
<1> DEFINE t == Sorted(s)
<1>1. s \in Seq(Int) /\ Len(s) \in Nat \ {0} /\ \A n \in 1 .. Len(s) : s[n] \in Nat
  OBVIOUS
<1>2. /\ t \in Seq(Int) /\ Len(t) = Len(s)
      /\ \A p, q \in 1 .. Len(s) : p <= q => t[p] <= t[q]
      /\ \A n \in 1 .. Len(s) : \E m \in 1 .. Len(s) : t[n] = s[m]
      /\ \A m \in 1 .. Len(s) : \E n \in 1 .. Len(s) : t[n] = s[m]
  BY <1>1, SortedOrder
<1> HIDE DEF t
<1>3. \A n \in 1 .. Len(s) : t[n] \in Nat
  BY <1>1, <1>2, Zenon
<1>4. t \in Seq(Nat) /\ t # <<>>
  <2>1. t \in [1 .. Len(s) -> Nat]
    <3>1. DOMAIN t = 1 .. Len(s) /\ t = [n \in DOMAIN t |-> t[n]]
      BY <1>2
    <3>2. QED
      BY <1>3, <3>1
  <2>2. Len(t) # 0
    BY <1>1, <1>2
  <2>3. t # <<>>
    BY <2>2
  <2>4. t \in Seq(Nat)
    BY <1>1, <2>1
  <2>5. QED
    BY <2>3, <2>4
<1>5. InOrder(t)
  BY <1>2, Zenon DEF InOrder
<1>6. \A n \in 1 .. Len(s) : 1 \in 1 .. Len(s) /\ t[1] <= t[n]
  <2> SUFFICES ASSUME NEW n \in 1 .. Len(s) PROVE 1 \in 1 .. Len(s) /\ t[1] <= t[n]
    OBVIOUS
  <2>1. 1 \in 1 .. Len(s) /\ 1 <= n
    BY <1>1
  <2>2. QED
    BY <1>2, <2>1
<1>7. \A m \in 1 .. Len(s) : t[1] <= s[m]
  BY <1>2, <1>6, Zenon
<1>8. \E m \in 1 .. Len(s) : t[1] = s[m]
  <2>1. 1 \in 1 .. Len(s)
    BY <1>1
  <2>2. QED
    BY <1>2, <2>1, Zenon
<1>9. QED
  BY <1>2, <1>4, <1>5, <1>7, <1>8, Zenon DEF t

ColorsInv ==
  /\ pc = "top" => one_graph
  /\ pc = "label" /\ ~one_graph =>
       /\ errors # <<>>
       /\ colors = [n \in DOMAIN errors |-> Rank(errors[n], Quantiles(Sorted(errors)))]

\* The colours are those of the columns as they are.
LEMMA ColorsStep == ColorsInv /\ [Next]_vars => ColorsInv'
<1> SUFFICES ASSUME ColorsInv, [Next]_vars PROVE ColorsInv'
  OBVIOUS
<1>1. ASSUME NEW b \in Batches, ListFiles(b) PROVE pc' # "label" /\ pc' # "top"
  BY <1>1 DEF ListFiles
<1>2. CASE Open \/ Filter \/ Collect \/ Finish \/ Fit \/ Bars
  <2>1. pc' # "label" /\ pc' # "top"
    BY <1>2 DEF Open, Filter, PopOrAdvance, Collect, Finish, Fit, Bars
  <2>2. QED
    BY <2>1 DEF ColorsInv
<1>3. CASE RankErrors
  <2>1. errors' = errors /\ one_graph' = one_graph /\ (pc' = "top" => one_graph)
    BY <1>3 DEF RankErrors, columns
  <2>2. CASE pc' = "label" /\ ~one_graph
    <3>1. /\ errors # <<>> /\ percentiles' = Quantiles(Sorted(errors))
          /\ colors' = [n \in DOMAIN errors |-> Rank(errors[n], percentiles')]
      BY <1>3, <2>2 DEF RankErrors, Quantiles
    <3>2. QED
      BY <2>1, <3>1 DEF ColorsInv
  <2>3. CASE ~(pc' = "label" /\ ~one_graph)
    BY <2>1, <2>3 DEF ColorsInv
  <2>4. QED
    BY <2>2, <2>3
<1>4. CASE Top
  BY <1>4 DEF Top, PopOrAdvance, ColorsInv
<1>5. CASE Ended \/ UNCHANGED vars
  BY <1>5 DEF Ended, vars, fileVars, columns, ColorsInv
<1>6. QED
  BY <1>1, <1>2, <1>3, <1>4, <1>5 DEF Next, ColorsInv

\* The colours of some errors.
LEMMA ColorsRanked ==
  ASSUME errors \in Seq(Nat), errors # <<>>,
         colors = [n \in DOMAIN errors |-> Rank(errors[n], Quantiles(Sorted(errors)))]
  PROVE  /\ Len(colors) = Len(errors)
         /\ \A m, n \in DOMAIN errors :
              /\ colors[n] \in 0 .. P
              /\ (\A k \in DOMAIN errors : errors[n] <= errors[k]) => colors[n] = 0
              /\ errors[m] < errors[n] =>
                   colors[m] <= colors[n] /\ (Len(errors) <= P => colors[m] < colors[n])
<1> DEFINE s == Sorted(errors)
           N == Len(errors)
<1>1. N \in Nat /\ DOMAIN errors = 1 .. N /\ \A n \in 1 .. N : errors[n] \in Nat
  OBVIOUS
<1>2. /\ s \in Seq(Nat) /\ s # <<>> /\ InOrder(s) /\ Len(s) = N
      /\ \A m \in 1 .. N : \E n \in 1 .. N : s[n] = errors[m]
      /\ \E m \in 1 .. N : s[1] = errors[m]
  BY ErrorsSorted
<1> HIDE DEF s
<1>3. /\ DOMAIN colors = 1 .. N
      /\ \A n \in 1 .. N : colors[n] = Rank(errors[n], Quantiles(s))
  BY <1>1 DEF s
<1>4. Len(colors) = N
  BY <1>1, <1>3
<1> HIDE DEF N
<1>5. ASSUME NEW n \in 1 .. N PROVE colors[n] \in 0 .. P
  BY <1>3, RankCounts
<1>6. ASSUME NEW n \in 1 .. N, \A k \in 1 .. N : errors[n] <= errors[k] PROVE colors[n] = 0
  <2>1. errors[n] <= s[1] /\ errors[n] \in Nat
    BY <1>1, <1>2, <1>6
  <2>2. QED
    BY <1>2, <1>3, <2>1, BestRank
<1>7. ASSUME NEW m \in 1 .. N, NEW n \in 1 .. N, errors[m] < errors[n]
      PROVE  colors[m] <= colors[n]
  <2>1. errors[m] \in Nat /\ errors[n] \in Nat /\ errors[m] <= errors[n]
    BY <1>1, <1>7
  <2>2. QED
    BY <1>2, <1>3, <2>1, RankRises
<1>8. ASSUME NEW m \in 1 .. N, NEW n \in 1 .. N, errors[m] < errors[n], N <= P
      PROVE  colors[m] < colors[n]
  <2>1. PICK p \in 1 .. N : s[p] = errors[m]
    BY <1>2
  <2>2. PICK q \in 1 .. N : s[q] = errors[n]
    BY <1>2
  <2>3. s[p] < s[q] /\ Len(s) <= P /\ p \in 1 .. Len(s) /\ q \in 1 .. Len(s)
    BY <1>2, <1>8, <2>1, <2>2
  <2>4. Rank(s[p], Quantiles(s)) < Rank(s[q], Quantiles(s))
    BY <1>2, <2>3, RankStrict
  <2>5. QED
    BY <1>3, <2>1, <2>2, <2>4
<1>9. QED
  BY <1>1, <1>4, <1>5, <1>6, <1>7, <1>8 DEF N

\* On a graph of its own the colours follow the order of the errors, for any
\* results and any number of percentiles: the best is all green, a worse one is
\* no greener, and where there are no more results than percentiles it is
\* redder.  This is what the interpolation of numpy.percentile and bisect_left
\* have to achieve together.
THEOREM ColorsFollowRank == Spec => []ColorsByRank
<1>1. ASSUME Init PROVE ColorsInv
  BY <1>1 DEF Init, ColorsInv
<1>2. ASSUME ColumnsInv, ColorsInv PROVE ColorsByRank
  BY <1>2, ColorsRanked DEF ColumnsInv, ColorsInv, ColorsByRank
<1>3. QED
  BY <1>1, <1>2, ColumnsInvariant, ColorsStep, PTL DEF Spec

-----------------------------------------------------------------------------
(***************************************************************************)
(* Joining sequences one after the other.  The recursive function exists,  *)
(* so that it has the values its definition says.                          *)
(***************************************************************************)

JoinStep(ss, g, n) == IF n = 0 THEN <<>> ELSE g[n - 1] \o ss[n]

Joins(ss, g, n) == g = [k \in 0 .. n |-> JoinStep(ss, g, k)]

\* There is such a function for any number of sequences.
LEMMA JoinExists ==
  ASSUME NEW ss, NEW N \in Nat
  PROVE  \E g : Joins(ss, g, N)
<1> DEFINE G == {n \in Nat : \E g : Joins(ss, g, n)}
<1>1. 0 \in G
  <2> DEFINE g == [k \in 0 .. 0 |-> <<>>]
  <2>1. \A k \in 0 .. 0 : JoinStep(ss, g, k) = <<>>
    BY DEF JoinStep
  <2>2. Joins(ss, g, 0)
    BY <2>1 DEF Joins
  <2>3. QED
    BY <2>2
<1>2. ASSUME NEW n \in 1 .. N, n - 1 \in G PROVE n \in G
  <2>1. PICK g : Joins(ss, g, n - 1)
    BY <1>2
  <2> DEFINE h == [k \in 0 .. n |-> IF k = n THEN JoinStep(ss, g, n) ELSE g[k]]
  <2>2. \A k \in 0 .. n : JoinStep(ss, h, k) = JoinStep(ss, g, k)
    <3> SUFFICES ASSUME NEW k \in 0 .. n PROVE JoinStep(ss, h, k) = JoinStep(ss, g, k)
      OBVIOUS
    <3>1. k > 0 => h[k - 1] = g[k - 1]
      OBVIOUS
    <3> HIDE DEF h
    <3>2. QED
      BY <3>1 DEF JoinStep
  <2>3. \A k \in 0 .. n - 1 : g[k] = JoinStep(ss, g, k)
    BY <2>1 DEF Joins
  <2>4. \A k \in 0 .. n : h[k] = JoinStep(ss, g, k)
    BY <2>3
  <2>5. h = [k \in 0 .. n |-> JoinStep(ss, h, k)]
    BY <2>2, <2>4
  <2>6. Joins(ss, h, n)
    <3> HIDE DEF h
    <3> QED
      BY <2>5 DEF Joins
  <2>7. QED
    BY <2>6
<1> HIDE DEF G
<1>3. N \in G
  BY <1>1, <1>2, UpTo
<1>4. QED
  BY <1>3 DEF G

\* Joining none gives nothing, and one more is put behind.
LEMMA JoinedValues ==
  ASSUME NEW ss, Len(ss) \in Nat
  PROVE  /\ Joined(ss)[0] = <<>>
         /\ \A n \in 1 .. Len(ss) : Joined(ss)[n] = Joined(ss)[n - 1] \o ss[n]
<1> DEFINE g == CHOOSE g : Joins(ss, g, Len(ss))
<1>1. Joins(ss, g, Len(ss))
  BY JoinExists
<1>2. Joined(ss) = g
  BY DEF Joined, Joins, JoinStep
<1> HIDE DEF g
<1>3. \A n \in 0 .. Len(ss) : g[n] = JoinStep(ss, g, n)
  BY <1>1 DEF Joins
<1>4. 0 \in 0 .. Len(ss) /\ \A n \in 1 .. Len(ss) : n \in 0 .. Len(ss) /\ n # 0
  OBVIOUS
<1>5. QED
  BY <1>2, <1>3, <1>4 DEF JoinStep

\* What is joined of sequences is a sequence.
LEMMA JoinedType ==
  ASSUME NEW S, NEW ss, Len(ss) \in Nat, \A n \in 1 .. Len(ss) : ss[n] \in Seq(S)
  PROVE  \A n \in 0 .. Len(ss) : Joined(ss)[n] \in Seq(S)
<1> DEFINE G == {n \in Nat : Joined(ss)[n] \in Seq(S)}
<1>1. /\ Joined(ss)[0] = <<>>
      /\ \A n \in 1 .. Len(ss) : Joined(ss)[n] = Joined(ss)[n - 1] \o ss[n]
  BY JoinedValues
<1>2. 0 \in G
  <2>1. <<>> \in Seq(S)
    OBVIOUS
  <2>2. QED
    BY <1>1, <2>1
<1>3. ASSUME NEW n \in 1 .. Len(ss), n - 1 \in G PROVE n \in G
  <2> DEFINE a == Joined(ss)[n - 1]
             b == ss[n]
  <2>1. a \in Seq(S) /\ n \in Nat
    BY <1>3
  <2>2. b \in Seq(S) /\ Joined(ss)[n] = a \o b
    BY <1>1, Zenon
  <2> HIDE DEF a, b
  <2>3. a \o b \in Seq(S)
    BY <2>1, <2>2
  <2>4. QED
    BY <2>1, <2>2, <2>3
<1> HIDE DEF G
<1>4. \A n \in 0 .. Len(ss) : n \in G
  BY <1>2, <1>3, UpTo
<1>5. QED
  BY <1>4 DEF G

\* The members of s that are in S, one after the other.
LEMMA KeptValues ==
  ASSUME NEW R, NEW s \in Seq(R), NEW S
  PROVE  /\ Kept(s, S)[0] = <<>>
         /\ \A n \in 0 .. Len(s) : Kept(s, S)[n] \in Seq(R)
         /\ \A n \in 1 .. Len(s) : Kept(s, S)[n] =
              IF s[n] \in S THEN Append(Kept(s, S)[n - 1], s[n]) ELSE Kept(s, S)[n - 1]
<1> DEFINE ss == [n \in 1 .. Len(s) |-> IF s[n] \in S THEN <<s[n]>> ELSE <<>>]
<1>1. Len(s) \in Nat /\ \A n \in 1 .. Len(s) : s[n] \in R
  OBVIOUS
<1>2. Len(ss) = Len(s) /\ \A n \in 1 .. Len(s) : ss[n] = IF s[n] \in S THEN <<s[n]>> ELSE <<>>
  BY <1>1
<1>3. Kept(s, S) = Joined(ss)
  BY DEF Kept
<1> HIDE DEF ss
<1>4. \A n \in 1 .. Len(s) : ss[n] \in Seq(R)
  <2> SUFFICES ASSUME NEW n \in 1 .. Len(s) PROVE ss[n] \in Seq(R)
    OBVIOUS
  <2>1. <<s[n]>> \in Seq(R) /\ <<>> \in Seq(R)
    BY <1>1
  <2>2. QED
    BY <1>2, <2>1
<1>5. /\ \A n \in 0 .. Len(s) : Joined(ss)[n] \in Seq(R)
      /\ Joined(ss)[0] = <<>>
      /\ \A n \in 1 .. Len(s) : Joined(ss)[n] = Joined(ss)[n - 1] \o ss[n]
  BY <1>1, <1>2, <1>4, JoinedType, JoinedValues
<1>6. ASSUME NEW n \in 1 .. Len(s)
      PROVE  Joined(ss)[n] =
               IF s[n] \in S THEN Append(Joined(ss)[n - 1], s[n]) ELSE Joined(ss)[n - 1]
  <2> DEFINE t == Joined(ss)[n - 1]
  <2>1. t \in Seq(R) /\ s[n] \in R
    BY <1>1, <1>5
  <2>2. Joined(ss)[n] = t \o ss[n]
    BY <1>5
  <2> HIDE DEF t
  <2>3. CASE s[n] \in S
    <3>1. t \o <<s[n]>> = Append(t, s[n])
      BY <2>1
    <3>2. QED
      BY <1>2, <2>2, <2>3, <3>1 DEF t
  <2>4. CASE s[n] \notin S
    <3>1. t \o <<>> = t
      BY <2>1
    <3>2. QED
      BY <1>2, <2>2, <2>4, <3>1 DEF t
  <2>5. QED
    BY <2>3, <2>4
<1>7. QED
  BY <1>3, <1>5, <1>6

-----------------------------------------------------------------------------
(***************************************************************************)
(* The loops that pop.  A loop over the rows base that keeps the ones in S *)
(* has, after n of them, the kept ones of these in front of the index and  *)
(* the others from the index on.                                           *)
(***************************************************************************)

RowAt(k, xs, ys, es) == [x |-> xs[k], y |-> ys[k], error |-> es[k]]

Looping(base, kept, n, xs, ys, es, at) ==
  /\ at = Len(kept) + 1
  /\ Len(es) = Len(kept) + (Len(base) - n)
  /\ \A k \in 1 .. Len(kept) : RowAt(k, xs, ys, es) = kept[k]
  /\ \A k \in 1 .. Len(base) - n : RowAt(Len(kept) + k, xs, ys, es) = base[n + k]

Loop(base, S, xs, ys, es, at) ==
  \E n \in 0 .. Len(base) : Looping(base, Kept(base, S)[n], n, xs, ys, es, at)

\* The columns are those of some rows.
Holds(rows, xs, ys, es) ==
  /\ Len(es) = Len(rows)
  /\ \A k \in 1 .. Len(rows) : RowAt(k, xs, ys, es) = rows[k]

\* Popping from all columns pops a row.
LEMMA RowPopped ==
  ASSUME ColumnsInv, NEW j \in 1 .. Len(errors), NEW k \in 1 .. Len(errors) - 1
  PROVE  RowAt(k, RemoveAt(x_values, j), RemoveAt(y_values, j), RemoveAt(errors, j)) =
           RowAt(IF k < j THEN k ELSE k + 1, x_values, y_values, errors)
<1> DEFINE l == IF k < j THEN k ELSE k + 1
<1>1. /\ x_values \in Seq(Nat) /\ j \in 1 .. Len(x_values) /\ k \in 1 .. Len(x_values) - 1
      /\ y_values \in Seq(Nat) /\ j \in 1 .. Len(y_values) /\ k \in 1 .. Len(y_values) - 1
      /\ errors \in Seq(Nat)
  BY DEF ColumnsInv
<1>2. RemoveAt(x_values, j)[k] = x_values[l]
  BY <1>1, RemoveAtType
<1>3. RemoveAt(y_values, j)[k] = y_values[l]
  BY <1>1, RemoveAtType
<1>4. RemoveAt(errors, j)[k] = errors[l]
  BY <1>1, RemoveAtType
<1>5. QED
  BY <1>2, <1>3, <1>4 DEF RowAt

\* A turn that pops the row at the index.
LEMMA PopTurn ==
  ASSUME ColumnsInv, NEW base \in Seq(Row), NEW kept \in Seq(Row), NEW n \in Nat, n < Len(base),
         Looping(base, kept, n, x_values, y_values, errors, i)
  PROVE  Looping(base, kept, n + 1,
                 RemoveAt(x_values, i), RemoveAt(y_values, i), RemoveAt(errors, i), i)
<1> DEFINE m == Len(kept)
           L == Len(base)
           E == Len(errors)
           xs == RemoveAt(x_values, i)
           ys == RemoveAt(y_values, i)
           es == RemoveAt(errors, i)
<1>1. m \in Nat /\ L \in Nat /\ n + 1 \in 0 .. L
  OBVIOUS
<1>2. i = m + 1 /\ E = m + (L - n)
  BY DEF Looping
<1> HIDE DEF m, L, E
<1>3. E \in Nat /\ i \in 1 .. E /\ i \in Nat
  BY <1>1, <1>2
<1>4. Len(es) = m + (L - (n + 1))
  <2>1. Len(es) = E - 1
    BY <1>3, RemoveAtType DEF ColumnsInv, E
  <2> HIDE DEF es
  <2>2. QED
    BY <1>1, <1>2, <2>1
<1>5. \A k \in 1 .. E - 1 : RowAt(k, xs, ys, es) =
        RowAt(IF k < i THEN k ELSE k + 1, x_values, y_values, errors)
  BY <1>3, RowPopped DEF E
<1> HIDE DEF xs, ys, es
<1>6. ASSUME NEW k \in 1 .. m PROVE RowAt(k, xs, ys, es) = kept[k]
  <2>1. k \in 1 .. E - 1 /\ k < i
    BY <1>1, <1>2
  <2>2. RowAt(k, x_values, y_values, errors) = kept[k]
    BY DEF Looping, m
  <2>3. QED
    BY <1>5, <2>1, <2>2
<1>7. ASSUME NEW k \in 1 .. L - (n + 1) PROVE RowAt(m + k, xs, ys, es) = base[(n + 1) + k]
  <2>1. /\ m + k \in 1 .. E - 1 /\ ~(m + k < i) /\ (m + k) + 1 = m + (k + 1)
        /\ k + 1 \in 1 .. L - n /\ n + (k + 1) = (n + 1) + k
    BY <1>1, <1>2
  <2>2. RowAt(m + (k + 1), x_values, y_values, errors) = base[n + (k + 1)]
    BY <2>1 DEF Looping, m, L
  <2>3. QED
    BY <1>5, <2>1, <2>2
<1>8. QED
  BY <1>2, <1>4, <1>6, <1>7 DEF Looping, m, L, xs, ys, es

\* A turn that keeps the row at the index.
LEMMA KeepTurn ==
  ASSUME NEW base \in Seq(Row), NEW kept \in Seq(Row), NEW n \in Nat, n < Len(base),
         NEW xs, NEW ys, NEW es, NEW at,
         Looping(base, kept, n, xs, ys, es, at)
  PROVE  Looping(base, Append(kept, base[n + 1]), n + 1, xs, ys, es, at + 1)
<1> DEFINE m == Len(kept)
           L == Len(base)
           more == Append(kept, base[n + 1])
<1>1. m \in Nat /\ L \in Nat /\ n + 1 \in 1 .. L
  OBVIOUS
<1>2. base[n + 1] \in Row
  BY <1>1
<1>3. /\ Len(more) = m + 1 /\ more[m + 1] = base[n + 1]
      /\ \A k \in 1 .. m : more[k] = kept[k]
  BY <1>1, <1>2
<1>4. /\ at = m + 1 /\ Len(es) = m + (L - n)
      /\ \A k \in 1 .. m : RowAt(k, xs, ys, es) = kept[k]
      /\ \A k \in 1 .. L - n : RowAt(m + k, xs, ys, es) = base[n + k]
  BY DEF Looping
<1> HIDE DEF m, L, more
<1>5. at + 1 = (m + 1) + 1 /\ Len(es) = (m + 1) + (L - (n + 1))
  BY <1>1, <1>4
<1>6. ASSUME NEW k \in 1 .. m + 1 PROVE RowAt(k, xs, ys, es) = more[k]
  <2>1. CASE k \in 1 .. m
    BY <1>3, <1>4, <2>1
  <2>2. CASE k = m + 1
    <3>1. 1 \in 1 .. L - n
      BY <1>1
    <3>2. RowAt(m + 1, xs, ys, es) = base[n + 1]
      BY <1>4, <3>1
    <3>3. QED
      BY <1>3, <2>2, <3>2
  <2>3. QED
    BY <1>1, <2>1, <2>2
<1>7. ASSUME NEW k \in 1 .. L - (n + 1) PROVE RowAt((m + 1) + k, xs, ys, es) = base[(n + 1) + k]
  <2>1. k + 1 \in 1 .. L - n /\ m + (k + 1) = (m + 1) + k /\ n + (k + 1) = (n + 1) + k
    BY <1>1
  <2>2. RowAt(m + (k + 1), xs, ys, es) = base[n + (k + 1)]
    BY <1>4, <2>1
  <2>3. QED
    BY <2>1, <2>2
<1>8. QED
  BY <1>3, <1>5, <1>6, <1>7 DEF Looping, L, more

\* A loop that pops exactly the rows not in S has the kept ones in the end.
LEMMA LoopStep ==
  ASSUME ColumnsInv, NEW base \in Seq(Row), NEW S, NEW remove, NEW next,
         Loop(base, S, x_values, y_values, errors, i),
         i \in 1 .. Len(errors) => (remove <=> RowAt(i, x_values, y_values, errors) \notin S),
         PopOrAdvance(remove, next)
  PROVE  \/ pc' = pc /\ Loop(base, S, x_values', y_values', errors', i')
         \/ /\ pc' = next /\ UNCHANGED <<x_values, y_values, errors>>
            /\ Holds(Kept(base, S)[Len(base)], x_values, y_values, errors)
<1>1. PICK n \in 0 .. Len(base) : Looping(base, Kept(base, S)[n], n, x_values, y_values, errors, i)
  BY DEF Loop
<1> DEFINE kept == Kept(base, S)[n]
           m == Len(kept)
           L == Len(base)
<1>2. kept \in Seq(Row) /\ m \in Nat /\ L \in Nat /\ n \in Nat
  BY KeptValues
<1>3. /\ i = m + 1 /\ Len(errors) = m + (L - n)
      /\ \A k \in 1 .. m : RowAt(k, x_values, y_values, errors) = kept[k]
      /\ \A k \in 1 .. L - n : RowAt(m + k, x_values, y_values, errors) = base[n + k]
  BY <1>1 DEF Looping
<1>4. CASE i = Len(errors) + 1
  <2> HIDE DEF m, L
  <2>1. n = L /\ Len(errors) = m
    <3>1. n \in 0 .. L
      BY DEF L
    <3>2. QED
      BY <1>2, <1>3, <1>4, <3>1
  <2>2. pc' = next /\ UNCHANGED <<x_values, y_values, errors>>
    <3>1. i \notin 1 .. Len(errors)
      BY <1>2, <1>4, <2>1
    <3>2. QED
      BY <3>1, LoopTurn
  <2>3. Holds(kept, x_values, y_values, errors)
    BY <1>3, <2>1 DEF Holds, m
  <2>4. QED
    BY <2>1, <2>2, <2>3 DEF L
<1>5. CASE i \in 1 .. Len(errors)
  <2>1. n < L /\ n + 1 \in 0 .. L /\ n + 1 \in 1 .. L /\ 1 \in 1 .. L - n
    <3> HIDE DEF m, L
    <3>1. n \in 0 .. L
      BY DEF L
    <3>2. QED
      BY <1>2, <1>3, <1>5, <3>1
  <2>2. RowAt(i, x_values, y_values, errors) = base[n + 1]
    BY <1>3, <2>1
  <2>3. Kept(base, S)[n + 1] = IF base[n + 1] \in S THEN Append(kept, base[n + 1]) ELSE kept
    <3>1. (n + 1) - 1 = n
      BY <1>2
    <3>2. QED
      BY <2>1, <3>1, KeptValues
  <2> HIDE DEF m, kept
  <2>4. i # Len(errors) + 1
    BY <1>5
  <2>5. CASE remove
    <3>1. /\ UNCHANGED <<pc, i>> /\ x_values' = RemoveAt(x_values, i)
          /\ y_values' = RemoveAt(y_values, i) /\ errors' = RemoveAt(errors, i)
      BY <2>4, <2>5, LoopTurn
    <3>2. Kept(base, S)[n + 1] = kept
      BY <1>5, <2>2, <2>3, <2>5
    <3>3. Looping(base, kept, n + 1, x_values', y_values', errors', i')
      BY <1>1, <1>2, <2>1, <3>1, PopTurn DEF kept
    <3>4. QED
      BY <2>1, <3>1, <3>2, <3>3 DEF Loop
  <2>6. CASE ~remove
    <3>1. UNCHANGED <<pc, x_values, y_values, errors>> /\ i' = i + 1
      BY <2>4, <2>6, LoopTurn
    <3>2. Kept(base, S)[n + 1] = Append(kept, base[n + 1])
      BY <1>5, <2>2, <2>3, <2>6
    <3>3. Looping(base, Append(kept, base[n + 1]), n + 1, x_values', y_values', errors', i')
      BY <1>1, <1>2, <2>1, <3>1, KeepTurn DEF kept
    <3>4. QED
      BY <2>1, <3>1, <3>2, <3>3 DEF Loop
  <2>7. QED
    BY <2>5, <2>6
<1>6. QED
  BY <1>4, <1>5, LoopTurn

-----------------------------------------------------------------------------
(***************************************************************************)
(* What the columns hold of the file: the loops drop the rows that do not  *)
(* belong on the graph and no others, and the percentiles are those of the *)
(* rows near the mean.                                                     *)
(***************************************************************************)

NearQuantiles(f) == Quantiles(Sorted(Column(Near(f), "error")))

FileInv ==
  /\ pc = "filter" => Loop(file.data, Within(file), x_values, y_values, errors, i)
  /\ pc = "rank" => Holds(Near(file), x_values, y_values, errors)
  /\ pc \in {"top", "label"} => Near(file) # <<>> /\ percentiles = NearQuantiles(file)
  /\ pc = "top" => Loop(Near(file), Best(file), x_values, y_values, errors, i)
  /\ pc = "label" => Holds(Belonging(file), x_values, y_values, errors)

\* The rows near the mean, and the ones that belong on the graph, are rows.
LEMMA NearType ==
  ASSUME NEW f \in File
  PROVE  Near(f) \in Seq(Row) /\ Belonging(f) \in Seq(Row)
<1>1. f.data \in Seq(Row) /\ Len(f.data) \in 0 .. Len(f.data)
  <2>1. f.data \in Seq(Row)
    BY FileType
  <2>2. Len(f.data) \in Nat
    BY <2>1
  <2>3. QED
    BY <2>1, <2>2
<1>2. Near(f) \in Seq(Row)
  BY <1>1, KeptValues DEF Near
<1>3. Len(Near(f)) \in 0 .. Len(Near(f))
  <2>1. Len(Near(f)) \in Nat
    BY <1>2
  <2>2. QED
    BY <2>1
<1>4. Kept(Near(f), Best(f))[Len(Near(f))] \in Seq(Row)
  BY <1>2, <1>3, KeptValues
<1>5. QED
  BY <1>2, <1>4 DEF Belonging

\* A loop begins with all rows to do.
LEMMA LoopBegins ==
  ASSUME NEW rows \in Seq(Row), NEW S, NEW xs, NEW ys, NEW es, Holds(rows, xs, ys, es)
  PROVE  Loop(rows, S, xs, ys, es, 1)
<1> DEFINE kept == Kept(rows, S)[0]
<1>1. Len(rows) \in Nat /\ 0 \in 0 .. Len(rows)
  OBVIOUS
<1>2. kept = <<>>
  BY KeptValues
<1> HIDE DEF kept
<1>3. Len(kept) = 0
  BY <1>2
<1>4. /\ 1 = 0 + 1 /\ Len(es) = 0 + (Len(rows) - 0)
      /\ \A k \in 1 .. 0 : RowAt(k, xs, ys, es) = kept[k]
  BY <1>1 DEF Holds
<1>5. ASSUME NEW k \in 1 .. Len(rows) - 0 PROVE RowAt(0 + k, xs, ys, es) = rows[0 + k]
  <2>1. k \in 1 .. Len(rows) /\ 0 + k = k
    BY <1>1
  <2>2. RowAt(k, xs, ys, es) = rows[k]
    BY <2>1 DEF Holds
  <2>3. QED
    BY <2>1, <2>2
<1>6. Looping(rows, kept, 0, xs, ys, es, 1)
  BY <1>3, <1>4, <1>5 DEF Looping
<1>7. QED
  BY <1>1, <1>6 DEF Loop, kept

\* The columns of some rows hold them.
LEMMA ColumnsHold ==
  ASSUME NEW rows \in Seq(Row)
  PROVE  Holds(rows, Column(rows, "x"), Column(rows, "y"), Column(rows, "error"))
<1> DEFINE xs == Column(rows, "x")
           ys == Column(rows, "y")
           es == Column(rows, "error")
<1>1. /\ Len(es) = Len(rows)
      /\ \A k \in 1 .. Len(rows) : xs[k] = rows[k].x /\ ys[k] = rows[k].y /\ es[k] = rows[k].error
  BY ColumnType
<1> HIDE DEF xs, ys, es
<1>2. ASSUME NEW k \in 1 .. Len(rows) PROVE RowAt(k, xs, ys, es) = rows[k]
  <2>1. rows[k] \in Row
    OBVIOUS
  <2>2. rows[k] = [x |-> rows[k].x, y |-> rows[k].y, error |-> rows[k].error]
    BY <2>1 DEF Row
  <2>3. QED
    BY <1>1, <2>2 DEF RowAt
<1>3. QED
  BY <1>1, <1>2 DEF Holds, xs, ys, es

\* The columns that hold some rows are theirs.
LEMMA HeldColumns ==
  ASSUME ColumnsInv, NEW rows \in Seq(Row), Holds(rows, x_values, y_values, errors)
  PROVE  /\ errors = Column(rows, "error")
         /\ Points = PointsOf(rows)
<1>1. /\ DOMAIN errors = 1 .. Len(rows) /\ DOMAIN rows = 1 .. Len(rows)
      /\ errors = [n \in DOMAIN errors |-> errors[n]]
  BY DEF ColumnsInv, Holds
<1>2. \A k \in 1 .. Len(rows) : RowAt(k, x_values, y_values, errors) = rows[k]
  BY DEF Holds
<1>3. \A k \in 1 .. Len(rows) :
        rows[k].x = x_values[k] /\ rows[k].y = y_values[k] /\ rows[k].error = errors[k]
  <2> SUFFICES ASSUME NEW k \in 1 .. Len(rows)
               PROVE  /\ rows[k].x = x_values[k] /\ rows[k].y = y_values[k]
                      /\ rows[k].error = errors[k]
    OBVIOUS
  <2> DEFINE r == RowAt(k, x_values, y_values, errors)
  <2>1. r.x = x_values[k] /\ r.y = y_values[k] /\ r.error = errors[k]
    BY DEF RowAt
  <2> HIDE DEF r
  <2>2. rows[k] = r
    BY <1>2 DEF r
  <2>3. QED
    BY <2>1, <2>2
<1>4. Column(rows, "error") = [n \in 1 .. Len(rows) |-> rows[n].error]
  BY <1>1 DEF Column
<1>5. errors = Column(rows, "error")
  BY <1>1, <1>3, <1>4
<1>6. Points = [n \in 1 .. Len(rows) |-> <<x_values[n], y_values[n]>>]
  BY <1>1 DEF Points
<1>7. PointsOf(rows) = [n \in 1 .. Len(rows) |-> <<rows[n].x, rows[n].y>>]
  BY <1>1 DEF PointsOf
<1>8. QED
  BY <1>3, <1>5, <1>6, <1>7

\* The row at the index of a loop.
LEMMA RowAtIndex ==
  ASSUME ColumnsInv, i \in 1 .. Len(errors)
  PROVE  LET r == RowAt(i, x_values, y_values, errors)
         IN  r \in Row /\ r.x = x_values[i] /\ r.y = y_values[i] /\ r.error = errors[i]
<1>1. x_values[i] \in Nat /\ y_values[i] \in Nat /\ errors[i] \in Nat
  <2>1. \A q \in Seq(Nat) : \A k \in 1 .. Len(q) : q[k] \in Nat
    OBVIOUS
  <2>2. /\ x_values \in Seq(Nat) /\ y_values \in Seq(Nat) /\ errors \in Seq(Nat)
        /\ i \in 1 .. Len(x_values) /\ i \in 1 .. Len(y_values)
    BY Zenon DEF ColumnsInv
  <2>3. QED
    BY <2>1, <2>2, Zenon
<1>2. QED
  BY <1>1 DEF RowAt, Row

\* Every step keeps in the columns what belongs there.
LEMMA FileStep == CursorInv /\ ColumnsInv /\ ColorsInv /\ FileInv /\ [Next]_vars => FileInv'
<1> SUFFICES ASSUME CursorInv, ColumnsInv, ColorsInv, FileInv, [Next]_vars PROVE FileInv'
  OBVIOUS
<1> DEFINE Idle == pc' \notin {"filter", "rank", "top", "label"}
<1>1. Idle => FileInv'
  BY DEF FileInv
<1>2. pc \in {"open", "filter", "rank", "top", "label"} => file \in File
  BY DEF CursorInv, file
<1>3. ASSUME NEW b \in Batches, ListFiles(b) PROVE Idle
  BY <1>3 DEF ListFiles
<1>4. CASE Open
  <2>1. CASE pc' \in {"exit", "error"}
    BY <1>1, <2>1
  <2>2. CASE pc' = "filter"
    <3>1. file \in File /\ file' = file /\ pc = "open"
      BY <1>2, <1>4 DEF Open, file
    <3>2. file.data \in Seq(Row)
      BY <3>1, FileType
    <3>3. /\ x_values' = Column(file.data, "x") /\ y_values' = Column(file.data, "y")
          /\ errors' = Column(file.data, "error") /\ i' = 1
      BY <1>4, <2>2 DEF Open
    <3>4. Holds(file.data, x_values', y_values', errors')
      BY <3>2, <3>3, ColumnsHold
    <3>5. Loop(file.data, Within(file), x_values', y_values', errors', i')
      BY <3>2, <3>3, <3>4, LoopBegins
    <3>6. QED
      BY <2>2, <3>1, <3>5 DEF FileInv
  <2>3. QED
    BY <1>4, <2>1, <2>2 DEF Open
<1>5. CASE Filter
  <2> DEFINE remove == Removed(x_values[i], y_values[i], file.data)
  <2>1. /\ pc = "filter" /\ file \in File /\ file' = file /\ PopOrAdvance(remove, "rank")
        /\ Loop(file.data, Within(file), x_values, y_values, errors, i)
    BY <1>2, <1>5 DEF Filter, FileInv, file
  <2>2. file.data \in Seq(Row)
    BY <2>1, FileType
  <2>3. ASSUME i \in 1 .. Len(errors)
        PROVE  remove <=> RowAt(i, x_values, y_values, errors) \notin Within(file)
    BY <2>3, RowAtIndex DEF Within
  <2> HIDE DEF remove
  <2>4. \/ pc' = pc /\ Loop(file.data, Within(file), x_values', y_values', errors', i')
        \/ /\ pc' = "rank" /\ UNCHANGED <<x_values, y_values, errors>>
           /\ Holds(Kept(file.data, Within(file))[Len(file.data)], x_values, y_values, errors)
    BY <2>1, <2>2, <2>3, LoopStep
  <2>5. CASE pc' = pc /\ Loop(file.data, Within(file), x_values', y_values', errors', i')
    BY <2>1, <2>5 DEF FileInv
  <2>6. CASE /\ pc' = "rank" /\ UNCHANGED <<x_values, y_values, errors>>
             /\ Holds(Near(file), x_values, y_values, errors)
    BY <2>1, <2>6 DEF FileInv
  <2>7. QED
    BY <2>4, <2>5, <2>6 DEF Near
<1>6. CASE RankErrors
  <2>1. /\ pc = "rank" /\ file \in File /\ file' = file /\ one_graph' = one_graph
        /\ UNCHANGED <<x_values, y_values, errors>> /\ Holds(Near(file), x_values, y_values, errors)
    BY <1>2, <1>6 DEF RankErrors, FileInv, file, columns
  <2>2. CASE pc' = "error"
    BY <1>1, <2>2
  <2>3. CASE pc' # "error"
    <3>1. /\ errors # <<>> /\ percentiles' = Quantiles(Sorted(errors)) /\ i' = 1
          /\ pc' = IF one_graph THEN "top" ELSE "label"
      BY <1>6, <2>3 DEF RankErrors, Quantiles
    <3>2. Near(file) \in Seq(Row) /\ errors = Column(Near(file), "error")
      BY <2>1, NearType, HeldColumns
    <3>3. Near(file) # <<>>
      <4>1. Len(errors) # 0
        BY <3>1 DEF ColumnsInv
      <4>2. Len(Near(file)) # 0
        BY <2>1, <4>1 DEF Holds
      <4>3. QED
        BY <4>2
    <3>4. percentiles' = NearQuantiles(file)
      BY <3>1, <3>2 DEF NearQuantiles
    <3>5. CASE one_graph
      <4>1. Loop(Near(file), Best(file), x_values', y_values', errors', i')
        BY <2>1, <3>1, <3>2, LoopBegins
      <4>2. QED
        BY <2>1, <3>1, <3>3, <3>4, <3>5, <4>1 DEF FileInv
    <3>6. CASE ~one_graph
      <4>1. Holds(Belonging(file), x_values, y_values, errors)
        BY <2>1, <3>6 DEF Belonging
      <4>2. (Belonging(file))' = Belonging(file)
        BY <2>1 DEF Belonging
      <4>3. QED
        BY <2>1, <3>1, <3>3, <3>4, <3>6, <4>1, <4>2 DEF FileInv
    <3>7. QED
      BY <3>5, <3>6
  <2>4. QED
    BY <2>2, <2>3
<1>7. CASE Top
  <2> DEFINE remove == 100 * Rank(errors[i], percentiles) > 20 * P
             s == Sorted(Column(Near(file), "error"))
  <2>1. /\ pc = "top" /\ file \in File /\ file' = file /\ PopOrAdvance(remove, "label")
        /\ one_graph /\ one_graph' = one_graph /\ percentiles' = percentiles
        /\ Near(file) # <<>> /\ percentiles = NearQuantiles(file)
        /\ Loop(Near(file), Best(file), x_values, y_values, errors, i)
    BY <1>2, <1>7 DEF Top, FileInv, file, ColorsInv
  <2>2. Near(file) \in Seq(Row)
    BY <2>1, NearType
  <2>3. s \in Seq(Nat) /\ s # <<>> /\ InOrder(s)
    <3>1. Column(Near(file), "error") \in Seq(Nat) /\ Len(Column(Near(file), "error")) # 0
      BY <2>1, <2>2, ColumnType
    <3>2. Column(Near(file), "error") # <<>>
      BY <3>1
    <3>3. QED
      BY <3>1, <3>2, ErrorsSorted
  <2>4. ASSUME i \in 1 .. Len(errors)
        PROVE  remove <=> RowAt(i, x_values, y_values, errors) \notin Best(file)
    <3> DEFINE r == RowAt(i, x_values, y_values, errors)
    <3>1. r \in Row /\ r.error = errors[i] /\ errors[i] \in Nat
      BY <2>4, RowAtIndex, SMTT(30) DEF ColumnsInv
    <3>2. remove <=> ~(errors[i] * P <= Percentile(s, 1 + (20 * P) \div 100))
      BY <2>1, <2>3, <3>1, TopTest DEF NearQuantiles
    <3>3. Best(file) = {q \in Row : q.error * P <= Percentile(s, 1 + (20 * P) \div 100)}
      BY DEF Best
    <3> HIDE DEF r, remove, s
    <3>4. QED
      BY <3>1, <3>2, <3>3 DEF r
  <2> HIDE DEF remove, s
  <2>5. \/ pc' = pc /\ Loop(Near(file), Best(file), x_values', y_values', errors', i')
        \/ /\ pc' = "label" /\ UNCHANGED <<x_values, y_values, errors>>
           /\ Holds(Kept(Near(file), Best(file))[Len(Near(file))], x_values, y_values, errors)
    BY <2>1, <2>2, <2>4, LoopStep
  <2>6. CASE pc' = pc /\ Loop(Near(file), Best(file), x_values', y_values', errors', i')
    BY <2>1, <2>6 DEF FileInv
  <2>7. CASE /\ pc' = "label" /\ UNCHANGED <<x_values, y_values, errors>>
             /\ Holds(Belonging(file), x_values, y_values, errors)
    <3>1. (Belonging(file))' = Belonging(file)
      BY <2>1 DEF Belonging
    <3>2. QED
      BY <2>1, <2>7, <3>1 DEF FileInv
  <2>8. QED
    BY <2>1, <2>5, <2>6, <2>7 DEF Belonging
<1>8. CASE Collect \/ Finish \/ Fit \/ Bars
  <2>1. Idle
    BY <1>8 DEF Collect, Finish, Fit, Bars
  <2>2. QED
    BY <1>1, <2>1
<1>9. CASE Ended \/ UNCHANGED vars
  <2>1. /\ pc' = pc /\ file' = file /\ one_graph' = one_graph
        /\ UNCHANGED <<x_values, y_values, errors, i, percentiles>>
    BY <1>9 DEF Ended, vars, fileVars, columns, file
  <2>2. (Belonging(file))' = Belonging(file)
    BY <2>1 DEF Belonging
  <2>3. QED
    BY <2>1, <2>2 DEF FileInv
<1>10. QED
  BY <1>1, <1>3, <1>4, <1>5, <1>6, <1>7, <1>8, <1>9 DEF Next

\* The colours and what the columns hold, always.
LEMMA FileInvariant == Spec => [](ColorsInv /\ FileInv)
<1>1. ASSUME Init PROVE ColorsInv /\ FileInv
  BY <1>1 DEF Init, ColorsInv, FileInv
<1>2. QED
  BY <1>1, CursorInvariant, ColumnsInvariant, ColorsStep, FileStep, PTL DEF Spec

-----------------------------------------------------------------------------
(* The points collected for a distance. *)

PooledInv == \A d \in DOMAIN d_values_map : d_values_map[d] = Joined(Shares(d))[current - 1]

\* What each file adds to the points of a distance are points.
LEMMA SharesType ==
  ASSUME CursorInv, NEW d
  PROVE  /\ Len(Shares(d)) = Len(to_export) /\ Len(to_export) \in Nat
         /\ \A n \in 1 .. Len(to_export) : /\ Shares(d)[n] \in Seq(Nat \X Nat)
                                           /\ Shares(d)[n] = IF to_export[n].label.d = d
                                                THEN PointsOf(Belonging(to_export[n])) ELSE <<>>
<1> DEFINE N == Len(to_export)
<1>1. /\ N \in Nat /\ DOMAIN to_export = 1 .. N
      /\ \A n \in 1 .. N : to_export[n] \in File
  BY DEF CursorInv
<1>2. /\ Shares(d) = [n \in 1 .. N |-> IF to_export[n].label.d = d
                        THEN PointsOf(Belonging(to_export[n])) ELSE <<>>]
  BY <1>1 DEF Shares
<1> HIDE DEF N
<1>3. Len(Shares(d)) = N
  BY <1>1, <1>2
<1>4. ASSUME NEW n \in 1 .. N PROVE PointsOf(Belonging(to_export[n])) \in Seq(Nat \X Nat)
  <2> DEFINE rows == Belonging(to_export[n])
             m == Len(rows)
  <2>1. rows \in Seq(Row)
    BY <1>1, NearType
  <2> HIDE DEF rows
  <2>2. m \in Nat /\ DOMAIN rows = 1 .. m /\ \A k \in 1 .. m : rows[k] \in Row
    BY <2>1
  <2>3. \A k \in 1 .. m : <<rows[k].x, rows[k].y>> \in Nat \X Nat
    BY <2>2 DEF Row
  <2>4. PointsOf(rows) = [k \in 1 .. m |-> <<rows[k].x, rows[k].y>>]
    BY <2>2 DEF PointsOf
  <2> HIDE DEF m
  <2>5. PointsOf(rows) \in [1 .. m -> Nat \X Nat]
    BY <2>3, <2>4
  <2>6. PointsOf(rows) \in Seq(Nat \X Nat)
    BY <2>2, <2>5
  <2>7. QED
    BY <2>6 DEF rows
<1>5. <<>> \in Seq(Nat \X Nat)
  OBVIOUS
<1>6. QED
  BY <1>1, <1>2, <1>3, <1>4, <1>5 DEF N

\* Files with other labels add nothing.
LEMMA NoShare ==
  ASSUME CursorInv, NEW d, NEW m \in 0 .. Len(to_export),
         \A n \in 1 .. m : to_export[n].label.d # d
  PROVE  Joined(Shares(d))[m] = <<>>
<1> DEFINE ss == Shares(d)
           G == {n \in Nat : Joined(ss)[n] = <<>>}
<1>1. /\ Len(ss) = Len(to_export) /\ Len(to_export) \in Nat /\ m \in Nat
      /\ \A n \in 1 .. m : n \in 1 .. Len(ss)
  BY SharesType
<1>2. \A n \in 1 .. m : ss[n] = <<>>
  BY <1>1, SharesType
<1> HIDE DEF ss
<1>3. Joined(ss)[0] = <<>> /\ \A n \in 1 .. Len(ss) : Joined(ss)[n] = Joined(ss)[n - 1] \o ss[n]
  BY <1>1, JoinedValues
<1>4. 0 \in G
  BY <1>3
<1>5. ASSUME NEW n \in 1 .. m, n - 1 \in G PROVE n \in G
  <2>1. Joined(ss)[n - 1] = <<>> /\ n \in Nat
    BY <1>5
  <2>2. Joined(ss)[n] = Joined(ss)[n - 1] \o ss[n] /\ ss[n] = <<>>
    BY <1>1, <1>2, <1>3, Zenon
  <2>3. <<>> \o <<>> = <<>>
    OBVIOUS
  <2>4. QED
    BY <2>1, <2>2, <2>3
<1> HIDE DEF G
<1>6. \A n \in 0 .. m : n \in G
  BY <1>1, <1>4, <1>5, UpTo
<1>7. m \in G
  BY <1>1, <1>6
<1>8. QED
  BY <1>7 DEF G, ss

\* A file adds its points to those of its distance and leaves the others.
LEMMA PooledCollect ==
  ASSUME CursorInv, ColumnsInv, ListsInv, FileInv, PooledInv, Collect, current' = current + 1
  PROVE  PooledInv'
<1> DEFINE c == current
           e == file.label.d
           J(d) == Joined(Shares(d))
<1>1. /\ UNCHANGED <<one_graph, to_export>> /\ c \in 1 .. Len(to_export) /\ c \in Nat
      /\ Len(to_export) \in Nat /\ file \in File /\ pc = "label"
      /\ d_values_map' = Put(d_values_map, e, Pooled(e)) /\ file = to_export[c]
  BY CollectStep DEF file
<1>2. \A d : (Shares(d))' = Shares(d)
  BY <1>1 DEF Shares, Belonging
<1>3. c - 1 \in 0 .. Len(to_export) /\ c - 1 \in Nat /\ current' - 1 = c
  BY <1>1
<1>4. ASSUME NEW d
      PROVE  /\ J(d)[c] = J(d)[c - 1] \o Shares(d)[c]
             /\ J(d)[c - 1] \in Seq(Nat \X Nat) /\ Shares(d)[c] \in Seq(Nat \X Nat)
             /\ Shares(d)[c] = IF e = d THEN PointsOf(Belonging(file)) ELSE <<>>
  <2>1. /\ Len(Shares(d)) \in Nat /\ c \in 1 .. Len(Shares(d)) /\ c - 1 \in 0 .. Len(Shares(d))
        /\ \A n \in 1 .. Len(Shares(d)) : Shares(d)[n] \in Seq(Nat \X Nat)
    BY <1>1, <1>3, SharesType
  <2>2. J(d)[c] = J(d)[c - 1] \o Shares(d)[c]
    BY <2>1, JoinedValues
  <2>3. J(d)[c - 1] \in Seq(Nat \X Nat)
    BY <2>1, JoinedType
  <2>4. Shares(d)[c] = IF e = d THEN PointsOf(Belonging(file)) ELSE <<>>
    BY <1>1, SharesType
  <2>5. QED
    BY <2>1, <2>2, <2>3, <2>4
<1>5. Points = PointsOf(Belonging(file))
  BY <1>1, NearType, HeldColumns DEF FileInv
<1> HIDE DEF c, e, J
<1>6. Pooled(e) = J(e)[c]
  <2> DEFINE t == J(e)[c - 1]
             p == Points
  <2>1. J(e)[c] = t \o p /\ t \in Seq(Nat \X Nat) /\ p \in Seq(Nat \X Nat)
    BY <1>4, <1>5
  <2> HIDE DEF t, p
  <2>2. CASE e \in DOMAIN d_values_map
    <3>1. d_values_map[e] = t
      BY <2>2 DEF PooledInv, J, t, c
    <3>2. QED
      BY <2>1, <2>2, <3>1 DEF Pooled, p
  <2>3. CASE e \notin DOMAIN d_values_map
    <3>1. \A n \in 1 .. c - 1 : to_export[n].label.d # e
      BY <2>3 DEF ListsInv, c
    <3>2. t = <<>>
      BY <1>3, <3>1, NoShare DEF t, J
    <3>3. <<>> \o p = p
      BY <2>1
    <3>4. QED
      BY <2>1, <2>3, <3>2, <3>3 DEF Pooled, p
  <2>4. QED
    BY <2>2, <2>3
<1>7. ASSUME NEW d \in DOMAIN d_values_map' PROVE d_values_map'[d] = J(d)[c]
  <2>1. CASE d = e
    BY <1>1, <1>6, <2>1 DEF Put
  <2>2. CASE d # e
    <3>1. d \in DOMAIN d_values_map /\ d_values_map'[d] = d_values_map[d]
      BY <1>1, <2>2 DEF Put
    <3>2. d_values_map[d] = J(d)[c - 1]
      BY <3>1 DEF PooledInv, J, c
    <3> DEFINE t == J(d)[c - 1]
    <3>3. t \in Seq(Nat \X Nat) /\ J(d)[c] = t \o <<>>
      BY <1>4, <2>2
    <3> HIDE DEF t
    <3>4. t \o <<>> = t
      BY <3>3
    <3>5. QED
      BY <3>1, <3>2, <3>3, <3>4 DEF t
  <2>3. QED
    BY <2>1, <2>2
<1>8. QED
  BY <1>2, <1>3, <1>7 DEF PooledInv, J

\* Every step keeps the points of the distances.
LEMMA PooledStep ==
  CursorInv /\ ColumnsInv /\ ListsInv /\ FileInv /\ PooledInv /\ [Next]_vars => PooledInv'
<1> SUFFICES ASSUME CursorInv, ColumnsInv, ListsInv, FileInv, PooledInv, [Next]_vars
             PROVE  PooledInv'
  OBVIOUS
<1>1. CASE ~Collect
  <2>1. current' = current /\ one_graph' = one_graph /\ d_values_map' = d_values_map
    BY <1>1, OtherSteps DEF collected
  <2>2. CASE to_export' = to_export
    <3>1. \A d : (Shares(d))' = Shares(d)
      BY <2>1, <2>2 DEF Shares, Belonging
    <3>2. QED
      BY <2>1, <3>1 DEF PooledInv
  <2>3. CASE current = 1
    <3>1. \A n \in 1 .. current - 1 : FALSE
      BY <2>3
    <3>2. DOMAIN d_values_map = {}
      BY <3>1 DEF ListsInv
    <3>3. QED
      BY <2>1, <3>2 DEF PooledInv
  <2>4. QED
    BY <1>1, <2>2, <2>3, OtherSteps
<1>2. CASE Collect /\ current' = current
  <2>1. UNCHANGED <<one_graph, to_export, d_values_map>>
    BY <1>2, CollectStep DEF CursorInv, collected
  <2>2. \A d : (Shares(d))' = Shares(d)
    BY <2>1 DEF Shares, Belonging
  <2>3. QED
    BY <1>2, <2>1, <2>2 DEF PooledInv
<1>3. CASE Collect /\ current' = current + 1
  BY <1>3, PooledCollect
<1>4. QED
  BY <1>1, <1>2, <1>3, CollectStep

\* The points collected for a distance are those of all files labelled with
\* it, in the order of export, each file's exactly the ones that belong on the
\* graph, for any files: the loops that pop while they iterate skip no row,
\* the columns stay aligned, and no file adds to another's distance.
THEOREM PointsPooledByDistance == Spec => []PooledByDistance
<1>1. ASSUME Init PROVE PooledInv
  BY <1>1 DEF Init, PooledInv
<1>2. ASSUME ListsInv, PooledInv PROVE PooledByDistance
  BY <1>2 DEF ListsInv, PooledInv, PooledByDistance, Exported
<1>3. QED
  BY <1>1, <1>2, CursorInvariant, ColumnsInvariant, ListsInvariant, FileInvariant, PooledStep,
     PTL DEF Spec

-----------------------------------------------------------------------------
(***************************************************************************)
(* Sums.  They have the values their definition says, and the squares of   *)
(* the distances from the mean add up to the variance.                     *)
(***************************************************************************)

SumStep(s, g, n) == IF n = 0 THEN 0 ELSE g[n - 1] + s[n]

Adds(s, g, n) == g = [k \in 0 .. n |-> SumStep(s, g, k)]

\* There is such a function for any number of summands.
LEMMA SumExists ==
  ASSUME NEW s, NEW N \in Nat
  PROVE  \E g : Adds(s, g, N)
<1> DEFINE G == {n \in Nat : \E g : Adds(s, g, n)}
<1>1. 0 \in G
  <2> DEFINE g == [k \in 0 .. 0 |-> 0]
  <2>1. \A k \in 0 .. 0 : SumStep(s, g, k) = 0
    BY DEF SumStep
  <2>2. Adds(s, g, 0)
    BY <2>1 DEF Adds
  <2>3. QED
    BY <2>2
<1>2. ASSUME NEW n \in 1 .. N, n - 1 \in G PROVE n \in G
  <2>1. PICK g : Adds(s, g, n - 1)
    BY <1>2
  <2> DEFINE h == [k \in 0 .. n |-> IF k = n THEN SumStep(s, g, n) ELSE g[k]]
  <2>2. \A k \in 0 .. n : SumStep(s, h, k) = SumStep(s, g, k)
    <3> SUFFICES ASSUME NEW k \in 0 .. n PROVE SumStep(s, h, k) = SumStep(s, g, k)
      OBVIOUS
    <3>1. k > 0 => h[k - 1] = g[k - 1]
      OBVIOUS
    <3> HIDE DEF h
    <3>2. QED
      BY <3>1 DEF SumStep
  <2>3. \A k \in 0 .. n - 1 : g[k] = SumStep(s, g, k)
    BY <2>1 DEF Adds
  <2>4. \A k \in 0 .. n : h[k] = SumStep(s, g, k)
    BY <2>3
  <2>5. h = [k \in 0 .. n |-> SumStep(s, h, k)]
    BY <2>2, <2>4
  <2>6. Adds(s, h, n)
    <3> HIDE DEF h
    <3> QED
      BY <2>5 DEF Adds
  <2>7. QED
    BY <2>6
<1> HIDE DEF G
<1>3. N \in G
  BY <1>1, <1>2, UpTo
<1>4. QED
  BY <1>3 DEF G

\* The sum of none is 0, and one more is added.
LEMMA SumsValues ==
  ASSUME NEW s \in Seq(Nat)
  PROVE  /\ Sums(s)[0] = 0
         /\ \A n \in 1 .. Len(s) : s[n] \in Nat /\ Sums(s)[n] = Sums(s)[n - 1] + s[n]
         /\ \A n \in 0 .. Len(s) : Sums(s)[n] \in Nat
<1> DEFINE g == CHOOSE g : Adds(s, g, Len(s))
           G == {n \in Nat : g[n] \in Nat}
<1>1. Len(s) \in Nat /\ \A n \in 1 .. Len(s) : s[n] \in Nat
  OBVIOUS
<1>2. Adds(s, g, Len(s))
  BY <1>1, SumExists
<1>3. Sums(s) = g
  BY DEF Sums, Adds, SumStep
<1> HIDE DEF g
<1>4. \A n \in 0 .. Len(s) : g[n] = SumStep(s, g, n)
  BY <1>2 DEF Adds
<1>5. 0 \in 0 .. Len(s) /\ \A n \in 1 .. Len(s) : n \in 0 .. Len(s) /\ n # 0
  BY <1>1
<1>6. g[0] = 0 /\ \A n \in 1 .. Len(s) : g[n] = g[n - 1] + s[n]
  BY <1>4, <1>5 DEF SumStep
<1>7. 0 \in G
  BY <1>6
<1>8. ASSUME NEW n \in 1 .. Len(s), n - 1 \in G PROVE n \in G
  <2>1. g[n - 1] \in Nat /\ n \in Nat /\ s[n] \in Nat /\ g[n] = g[n - 1] + s[n]
    BY <1>1, <1>6, <1>8
  <2>2. QED
    BY <2>1
<1> HIDE DEF G
<1>9. \A n \in 0 .. Len(s) : n \in G
  BY <1>1, <1>7, <1>8, UpTo
<1>10. \A n \in 0 .. Len(s) : g[n] \in Nat
  BY <1>9 DEF G
<1>11. QED
  BY <1>1, <1>3, <1>6, <1>10

Offsets(s) == [n \in 1 .. Len(s) |-> Offset(s[n], s)]

\* The square of a difference.
LEMMA SquareOfDifference ==
  ASSUME NEW a \in Int, NEW b \in Int
  PROVE  (a - b) * (a - b) \in Nat /\ (a - b) * (a - b) = a * a - 2 * a * b + b * b
OBVIOUS

\* The sums, the squares and the offsets have their types.
LEMMA OffsetsType ==
  ASSUME NEW s \in Seq(Nat)
  PROVE  /\ Squares(s) \in Seq(Nat) /\ Len(Squares(s)) = Len(s)
         /\ Offsets(s) \in Seq(Nat) /\ Len(Offsets(s)) = Len(s)
         /\ \A n \in 1 .. Len(s) : Squares(s)[n] = s[n] * s[n] /\ Offsets(s)[n] = Offset(s[n], s)
         /\ Len(s) \in Nat /\ Sum(s) \in Nat /\ Sum(Squares(s)) \in Nat /\ Variance(s) \in Int
<1>1. Len(s) \in Nat /\ DOMAIN s = 1 .. Len(s) /\ \A n \in 1 .. Len(s) : s[n] \in Nat
  OBVIOUS
<1>2. \A n \in 1 .. Len(s) : s[n] * s[n] \in Nat
  BY <1>1, Product
<1>3. Squares(s) = [n \in 1 .. Len(s) |-> s[n] * s[n]]
  BY <1>1 DEF Squares
<1>4. Squares(s) \in Seq(Nat) /\ Len(Squares(s)) = Len(s)
  BY <1>1, <1>2, <1>3
<1>5. Len(s) \in 0 .. Len(s)
  BY <1>1
<1>6. Sum(s) \in Nat /\ Sum(Squares(s)) \in Nat
  BY <1>4, <1>5, SumsValues DEF Sum
<1>7. \A n \in 1 .. Len(s) : Offset(s[n], s) \in Nat
  <2> SUFFICES ASSUME NEW n \in 1 .. Len(s) PROVE Offset(s[n], s) \in Nat
    OBVIOUS
  <2>1. Len(s) * s[n] \in Int /\ Sum(s) \in Int
    BY <1>1, <1>6, Product
  <2>2. QED
    BY <2>1, SquareOfDifference DEF Offset
<1>8. Offsets(s) \in Seq(Nat) /\ Len(Offsets(s)) = Len(s)
  BY <1>1, <1>7 DEF Offsets
<1>9. Variance(s) \in Int
  <2>1. Len(s) * Sum(Squares(s)) \in Nat /\ Sum(s) * Sum(s) \in Nat
    BY <1>1, <1>6, Product
  <2>2. QED
    BY <2>1 DEF Variance
<1>10. QED
  BY <1>1, <1>3, <1>4, <1>6, <1>8, <1>9 DEF Offsets

\* One more square in the sum.
LEMMA SquaresGrow ==
  ASSUME NEW a \in Int, NEW t \in Int, NEW v \in Int, NEW q \in Int, NEW m \in Int, NEW n \in Int
  PROVE  (a * a * q - 2 * a * t * m + (n - 1) * (t * t)) + (a * v - t) * (a * v - t)
           = a * a * (q + v * v) - 2 * a * t * (m + v) + n * (t * t)
OBVIOUS

\* The whole sum.
LEMMA SquaresTotal ==
  ASSUME NEW a \in Int, NEW t \in Int, NEW q \in Int
  PROVE  a * a * q - 2 * a * t * t + a * (t * t) = a * (a * q - t * t)
OBVIOUS

\* The offsets of all members add up to the variance, as often as there are
\* members.
LEMMA OffsetsTotal ==
  ASSUME NEW s \in Seq(Nat)
  PROVE  Sums(Offsets(s))[Len(s)] = Len(s) * Variance(s)
<1> DEFINE N == Len(s)
           t == Sum(s)
           q(n) == Sums(Squares(s))[n]
           m(n) == Sums(s)[n]
           o(n) == Sums(Offsets(s))[n]
           R(n) == N * N * q(n) - 2 * N * t * m(n) + n * (t * t)
           G == {n \in Nat : o(n) = R(n)}
<1>1. /\ N \in Nat /\ t \in Nat /\ \A n \in 1 .. N : s[n] \in Nat
      /\ \A n \in 1 .. N : Offsets(s)[n] = (N * s[n] - t) * (N * s[n] - t)
  <2>1. N \in Nat /\ t \in Nat
    BY OffsetsType
  <2>2. \A n \in 1 .. N : s[n] \in Nat
    OBVIOUS
  <2>3. \A n \in 1 .. N : Offsets(s)[n] = Offset(s[n], s)
    BY OffsetsType, Zenon
  <2>4. QED
    BY <2>1, <2>2, <2>3, Zenon DEF Offset
<1>2. /\ q(0) = 0 /\ m(0) = 0 /\ o(0) = 0
      /\ \A n \in 1 .. N : /\ q(n) = q(n - 1) + s[n] * s[n]
                           /\ m(n) = m(n - 1) + s[n]
                           /\ o(n) = o(n - 1) + (N * s[n] - t) * (N * s[n] - t)
      /\ \A n \in 0 .. N : q(n) \in Nat /\ m(n) \in Nat /\ o(n) \in Nat
  <2>1. Squares(s) \in Seq(Nat) /\ Len(Squares(s)) = N /\ \A n \in 1 .. N : Squares(s)[n] = s[n] * s[n]
    BY OffsetsType
  <2>2. Offsets(s) \in Seq(Nat) /\ Len(Offsets(s)) = N
    BY OffsetsType
  <2>3. q(0) = 0 /\ \A n \in 1 .. N : q(n) = q(n - 1) + Squares(s)[n]
    BY <2>1, SumsValues
  <2>4. m(0) = 0 /\ \A n \in 1 .. N : m(n) = m(n - 1) + s[n]
    BY SumsValues
  <2>5. o(0) = 0 /\ \A n \in 1 .. N : o(n) = o(n - 1) + Offsets(s)[n]
    BY <2>2, SumsValues
  <2>6. \A n \in 0 .. N : q(n) \in Nat /\ m(n) \in Nat /\ o(n) \in Nat
    BY <2>1, <2>2, SumsValues
  <2> HIDE DEF q, m, o, N, t
  <2>7. QED
    BY <1>1, <2>1, <2>3, <2>4, <2>5, <2>6
<1>3. q(N) = Sum(Squares(s)) /\ m(N) = t
  BY OffsetsType DEF Sum
<1> HIDE DEF q, m, o, N, t
<1>4. 0 \in G
  BY <1>1, <1>2
<1>5. ASSUME NEW n \in 1 .. N, n - 1 \in G PROVE n \in G
  <2> DEFINE v == s[n]
             a == q(n - 1)
             b == m(n - 1)
  <2>1. n \in Nat /\ n - 1 \in 0 .. N /\ n - 1 \in Nat
    BY <1>1
  <2>2. /\ v \in Int /\ a \in Int /\ b \in Int /\ N \in Int /\ t \in Int /\ n \in Int
        /\ q(n) = a + v * v /\ m(n) = b + v /\ o(n) = o(n - 1) + (N * v - t) * (N * v - t)
    BY <1>1, <1>2, <2>1
  <2>3. o(n - 1) = N * N * a - 2 * N * t * b + (n - 1) * (t * t)
    BY <1>5
  <2> HIDE DEF v, a, b
  <2>4. (N * N * a - 2 * N * t * b + (n - 1) * (t * t)) + (N * v - t) * (N * v - t)
          = N * N * (a + v * v) - 2 * N * t * (b + v) + n * (t * t)
    BY <2>2, SquaresGrow
  <2>5. o(n) = N * N * q(n) - 2 * N * t * m(n) + n * (t * t)
    BY <2>2, <2>3, <2>4, Zenon
  <2>6. QED
    BY <2>1, <2>5
<1>6. o(N) = N * N * q(N) - 2 * N * t * t + N * (t * t)
  <2> HIDE DEF G
  <2>1. N \in Nat /\ N \in 0 .. N
    BY <1>1
  <2>2. \A n \in 1 .. N : n - 1 \in G => n \in G
    BY <1>5
  <2>3. N \in G
    BY <1>4, <2>1, <2>2, UpTo
  <2>4. o(N) = R(N)
    BY <2>3 DEF G
  <2>5. QED
    BY <1>3, <2>4
<1>7. q(N) \in Int /\ N \in Int /\ t \in Int
  BY <1>1, <1>2
<1>8. o(N) = N * (N * q(N) - t * t)
  BY <1>6, <1>7, SquaresTotal
<1>9. QED
  BY <1>3, <1>8 DEF Variance, o, N, t

-----------------------------------------------------------------------------
(***************************************************************************)
(* Chebyshev's inequality: fewer than four ninths of some values are more  *)
(* than 1.5 standard deviations from their mean, so that the values of the *)
(* two coordinates cannot rule out every row between them.                 *)
(***************************************************************************)

\* 1 for an outlier, 0 for another value; the sum counts the outliers.
Marks(s) == [n \in 1 .. Len(s) |-> IF Outlier(s[n], s) THEN 1 ELSE 0]

\* A mark is 0 or 1.
LEMMA MarksType ==
  ASSUME NEW s \in Seq(Nat)
  PROVE  /\ Marks(s) \in Seq(Nat) /\ Len(Marks(s)) = Len(s)
         /\ \A n \in 1 .. Len(s) : Marks(s)[n] = IF Outlier(s[n], s) THEN 1 ELSE 0
<1>1. Len(s) \in Nat /\ Marks(s) = [n \in 1 .. Len(s) |-> IF Outlier(s[n], s) THEN 1 ELSE 0]
  BY DEF Marks
<1>2. \A n \in 1 .. Len(s) : (IF Outlier(s[n], s) THEN 1 ELSE 0) \in Nat
  OBVIOUS
<1>3. QED
  BY <1>1, <1>2

\* The offsets of the outliers among the first members are a part of the sum.
LEMMA MarkedOffsets ==
  ASSUME NEW s \in Seq(Nat), NEW n \in 0 .. Len(s)
  PROVE  LET c == Sums(Marks(s))[n]
             o == Sums(Offsets(s))[n]
         IN  9 * (Variance(s) * c) <= 4 * o /\ (c > 0 => 9 * (Variance(s) * c) < 4 * o)
<1> DEFINE N == Len(s)
           V == Variance(s)
           c(k) == Sums(Marks(s))[k]
           o(k) == Sums(Offsets(s))[k]
           G == {k \in Nat : 9 * (V * c(k)) <= 4 * o(k) /\ (c(k) > 0 => 9 * (V * c(k)) < 4 * o(k))}
<1>1. N \in Nat /\ V \in Int
  BY OffsetsType
<1>2. /\ c(0) = 0 /\ \A k \in 1 .. N : c(k) = c(k - 1) + Marks(s)[k]
      /\ \A k \in 0 .. N : c(k) \in Nat
  <2>1. Marks(s) \in Seq(Nat) /\ Len(Marks(s)) = N
    BY MarksType
  <2>2. QED
    BY <2>1, SumsValues
<1>3. /\ o(0) = 0 /\ \A k \in 1 .. N : o(k) = o(k - 1) + Offsets(s)[k] /\ Offsets(s)[k] \in Nat
      /\ \A k \in 0 .. N : o(k) \in Nat
  <2>1. Offsets(s) \in Seq(Nat) /\ Len(Offsets(s)) = N
    BY OffsetsType
  <2>2. QED
    BY <2>1, SumsValues
<1>4. /\ \A k \in 1 .. N : Marks(s)[k] = IF Outlier(s[k], s) THEN 1 ELSE 0
      /\ \A k \in 1 .. N : Outlier(s[k], s) <=> 4 * Offsets(s)[k] > 9 * V
  <2>1. \A k \in 1 .. N : Offsets(s)[k] = Offset(s[k], s)
    BY OffsetsType
  <2>2. QED
    BY <2>1, MarksType DEF Outlier
<1> HIDE DEF N, V, c, o
<1>5. 0 \in G
  <2>1. V * 0 = 0
    BY <1>1
  <2>2. QED
    BY <1>2, <1>3, <2>1
<1>6. ASSUME NEW k \in 1 .. N, k - 1 \in G PROVE k \in G
  <2> DEFINE a == c(k - 1)
             b == o(k - 1)
             f == Offsets(s)[k]
             va == V * a
  <2>1. k \in Nat /\ k - 1 \in 0 .. N
    BY <1>1
  <2>2. /\ a \in Nat /\ b \in Nat /\ f \in Nat /\ va \in Int /\ o(k) = b + f
        /\ 9 * va <= 4 * b /\ (a > 0 => 9 * va < 4 * b)
    <3>1. a \in Nat /\ b \in Nat
      BY <1>2, <1>3, <2>1
    <3>2. f \in Nat /\ o(k) = b + f
      BY <1>3
    <3>3. va \in Int
      BY <1>1, <3>1
    <3>4. 9 * va <= 4 * b /\ (a > 0 => 9 * va < 4 * b)
      BY <1>6
    <3>5. QED
      BY <3>1, <3>2, <3>3, <3>4
  <2>3. CASE Outlier(s[k], s)
    <3>1. c(k) = a + 1 /\ 4 * f > 9 * V
      BY <1>2, <1>4, <2>3
    <3>2. V * (a + 1) = va + V
      BY <1>1, <2>2
    <3> HIDE DEF a, b, f, va
    <3>3. 9 * (va + V) < 4 * (b + f)
      BY <1>1, <2>2, <3>1
    <3>4. 9 * (V * c(k)) < 4 * o(k)
      BY <2>2, <3>1, <3>2, <3>3
    <3>5. 9 * (V * c(k)) \in Int /\ 4 * o(k) \in Int
      BY <1>1, <2>2, <3>1, <3>2
    <3>6. \A y, z \in Int : y < z => y <= z
      OBVIOUS
    <3>7. 9 * (V * c(k)) <= 4 * o(k)
      BY <3>4, <3>5, <3>6, Zenon
    <3>8. QED
      BY <2>1, <3>4, <3>7
  <2>4. CASE ~Outlier(s[k], s)
    <3>1. c(k) = a + 0
      BY <1>2, <1>4, <2>4
    <3>2. c(k) = a /\ V * c(k) = va
      BY <2>2, <3>1
    <3> HIDE DEF a, b, f, va
    <3>3. 9 * va <= 4 * (b + f) /\ (a > 0 => 9 * va < 4 * (b + f))
      BY <2>2
    <3>4. QED
      BY <2>1, <2>2, <3>2, <3>3
  <2>5. QED
    BY <2>3, <2>4
<1> HIDE DEF G
<1>7. \A k \in 1 .. N : k - 1 \in G => k \in G
  BY <1>6
<1>8. \A k \in 0 .. N : k \in G
  BY <1>1, <1>5, <1>7, UpTo
<1>9. n \in G
  BY <1>8 DEF N
<1>10. QED
  BY <1>9 DEF G, V, c, o

\* Fewer than four ninths of the values are outliers, or none.
LEMMA FewOutliers ==
  ASSUME NEW s \in Seq(Nat), s # <<>>
  PROVE  LET c == Sums(Marks(s))[Len(s)]
         IN  c \in Nat /\ (c = 0 \/ 9 * c < 4 * Len(s))
<1> DEFINE N == Len(s)
           V == Variance(s)
           c == Sums(Marks(s))[N]
           o == Sums(Offsets(s))[N]
<1>1. N \in Nat \ {0} /\ N \in 0 .. N /\ V \in Int
  <2>1. N \in Nat \ {0} /\ V \in Int
    BY OffsetsType
  <2>2. QED
    BY <2>1
<1>2. c \in Nat
  <2>1. Marks(s) \in Seq(Nat) /\ Len(Marks(s)) = N
    BY MarksType
  <2>2. QED
    BY <1>1, <2>1, SumsValues
<1>3. o \in Nat /\ o = N * V
  <2>1. Offsets(s) \in Seq(Nat) /\ Len(Offsets(s)) = N
    BY OffsetsType
  <2>2. o \in Nat
    BY <1>1, <2>1, SumsValues
  <2>3. QED
    BY <2>2, OffsetsTotal
<1>4. c > 0 => 9 * (V * c) < 4 * o
  BY <1>1, MarkedOffsets
<1> HIDE DEF N, V, c, o
<1>5. CASE c > 0
  <2>1. N * V = V * N /\ 9 * (V * c) = (9 * c) * V /\ 4 * (N * V) = (4 * N) * V
    BY <1>1, <1>2
  <2>2. (9 * c) * V < (4 * N) * V
    BY <1>3, <1>4, <1>5, <2>1
  <2>3. V \in Nat \ {0}
    <3>1. V # 0
      <4> SUFFICES ASSUME V = 0 PROVE FALSE
        OBVIOUS
      <4>1. (9 * c) * 0 = 0 /\ (4 * N) * 0 = 0
        BY <1>1, <1>2
      <4>2. QED
        BY <2>2, <4>1
    <3>2. ~(V < 0)
      <4> SUFFICES ASSUME V < 0 PROVE FALSE
        OBVIOUS
      <4>1. N * V < 0
        BY <1>1
      <4>2. QED
        BY <1>3, <4>1
    <3>3. QED
      BY <1>1, <3>1, <3>2
  <2>4. 9 * c \in Int /\ 4 * N \in Int
    BY <1>1, <1>2
  <2>5. 9 * c < 4 * N
    BY <2>2, <2>3, <2>4, Cancel
  <2>6. QED
    BY <1>2, <2>5 DEF c, N
<1>6. CASE c = 0
  BY <1>2, <1>6 DEF c, N
<1>7. QED
  BY <1>2, <1>5, <1>6

\* If every place has a mark in one of two columns, there are as many marks.
LEMMA MarksCover ==
  ASSUME NEW s \in Seq(Nat), NEW t \in Seq(Nat), Len(s) = Len(t),
         \A n \in 1 .. Len(s) : Outlier(s[n], s) \/ Outlier(t[n], t)
  PROVE  Sums(Marks(s))[Len(s)] + Sums(Marks(t))[Len(s)] >= Len(s)
<1> DEFINE N == Len(s)
           a(n) == Sums(Marks(s))[n]
           b(n) == Sums(Marks(t))[n]
           G == {n \in Nat : a(n) + b(n) >= n}
<1>1. N \in Nat /\ N \in 0 .. N
  OBVIOUS
<1>2. /\ a(0) = 0 /\ \A n \in 1 .. N : a(n) = a(n - 1) + Marks(s)[n]
      /\ \A n \in 0 .. N : a(n) \in Nat
      /\ \A n \in 1 .. N : Marks(s)[n] = IF Outlier(s[n], s) THEN 1 ELSE 0
  <2>1. Marks(s) \in Seq(Nat) /\ Len(Marks(s)) = N
    BY MarksType
  <2>2. QED
    BY <2>1, MarksType, SumsValues
<1>3. /\ b(0) = 0 /\ \A n \in 1 .. N : b(n) = b(n - 1) + Marks(t)[n]
      /\ \A n \in 0 .. N : b(n) \in Nat
      /\ \A n \in 1 .. N : Marks(t)[n] = IF Outlier(t[n], t) THEN 1 ELSE 0
  <2>1. Marks(t) \in Seq(Nat) /\ Len(Marks(t)) = N
    BY MarksType
  <2>2. QED
    BY <2>1, MarksType, SumsValues
<1> HIDE DEF a, b
<1>4. 0 \in G
  BY <1>2, <1>3
<1>5. ASSUME NEW n \in 1 .. N, n - 1 \in G PROVE n \in G
  <2> DEFINE p == Marks(s)[n]
             q == Marks(t)[n]
  <2>1. /\ a(n) = a(n - 1) + p /\ b(n) = b(n - 1) + q /\ n \in Nat
        /\ n - 1 \in 0 .. N /\ a(n - 1) + b(n - 1) >= n - 1
    BY <1>2, <1>3, <1>5
  <2>2. p \in Nat /\ q \in Nat /\ p + q >= 1
    <3>1. p \in {0, 1} /\ q \in {0, 1} /\ (p = 1 \/ q = 1)
      BY <1>2, <1>3, Zenon
    <3> HIDE DEF p, q
    <3>2. QED
      BY <3>1
  <2> HIDE DEF p, q
  <2>3. a(n - 1) \in Nat /\ b(n - 1) \in Nat
    BY <1>2, <1>3, <2>1, Zenon
  <2>4. a(n) + b(n) >= n
    <3>1. \A u, v, x, y, k \in Nat : u + v >= k - 1 /\ x + y >= 1 => (u + x) + (v + y) >= k
      OBVIOUS
    <3>2. QED
      BY <2>1, <2>2, <2>3, <3>1, Zenon
  <2>5. QED
    BY <2>1, <2>4
<1> HIDE DEF G, N
<1>6. \A n \in 1 .. N : n - 1 \in G => n \in G
  BY <1>5
<1>7. N \in G
  BY <1>1, <1>4, <1>6, UpTo
<1>8. QED
  BY <1>7 DEF G, a, b, N

\* Some result is near the mean in both coordinates.
LEMMA SomeNear ==
  ASSUME NEW rows \in Seq(Row), rows # <<>>
  PROVE  \E n \in 1 .. Len(rows) : ~Removed(rows[n].x, rows[n].y, rows)
<1> DEFINE N == Len(rows)
           s == Column(rows, "x")
           t == Column(rows, "y")
           a == Sums(Marks(s))[N]
           b == Sums(Marks(t))[N]
<1>1. /\ s \in Seq(Nat) /\ Len(s) = N /\ \A n \in 1 .. N : s[n] = rows[n].x
      /\ t \in Seq(Nat) /\ Len(t) = N /\ \A n \in 1 .. N : t[n] = rows[n].y
      /\ N \in Nat \ {0}
  BY ColumnType
<1> SUFFICES ASSUME \A n \in 1 .. N : Removed(rows[n].x, rows[n].y, rows) PROVE FALSE
  OBVIOUS
<1>2. \A n \in 1 .. N : Outlier(rows[n].x, s) \/ Outlier(rows[n].y, t)
  BY DEF Removed
<1> HIDE DEF N, s, t
<1>3. \A n \in 1 .. N : Outlier(s[n], s) \/ Outlier(t[n], t)
  BY <1>1, <1>2
<1>4. a + b >= N
  BY <1>1, <1>3, MarksCover
<1>5. s # <<>> /\ t # <<>>
  <2>1. Len(s) # 0 /\ Len(t) # 0
    BY <1>1
  <2>2. QED
    BY <2>1
<1>6. a \in Nat /\ (a = 0 \/ 9 * a < 4 * N) /\ b \in Nat /\ (b = 0 \/ 9 * b < 4 * N)
  BY <1>1, <1>5, FewOutliers
<1> HIDE DEF a, b
<1>7. QED
  BY <1>1, <1>4, <1>6

-----------------------------------------------------------------------------
(***************************************************************************)
(* A file fails only for what is wrong with it: some row is near the mean, *)
(* and the best of those is among the best 20 % and has a weight.          *)
(***************************************************************************)

\* What is kept of s: its members in S, all of them.
LEMMA KeptMembers ==
  ASSUME NEW R, NEW s \in Seq(R), NEW S
  PROVE  LET kept == Kept(s, S)[Len(s)]
         IN  /\ \A k \in 1 .. Len(kept) : \E n \in 1 .. Len(s) : kept[k] = s[n] /\ s[n] \in S
             /\ \A n \in 1 .. Len(s) : s[n] \in S => \E k \in 1 .. Len(kept) : kept[k] = s[n]
<1> DEFINE N == Len(s)
           K(m) == Kept(s, S)[m]
           Only(m) == \A k \in 1 .. Len(K(m)) : \E n \in 1 .. m : K(m)[k] = s[n] /\ s[n] \in S
           Every(m) == \A n \in 1 .. m : s[n] \in S => \E k \in 1 .. Len(K(m)) : K(m)[k] = s[n]
           G == {m \in Nat : Only(m) /\ Every(m)}
<1>1. N \in Nat /\ N \in 0 .. N /\ \A n \in 1 .. N : s[n] \in R
  OBVIOUS
<1>2. /\ K(0) = <<>>
      /\ \A m \in 0 .. N : K(m) \in Seq(R)
      /\ \A m \in 1 .. N : K(m) = IF s[m] \in S THEN Append(K(m - 1), s[m]) ELSE K(m - 1)
  BY KeptValues
<1> HIDE DEF N, K
<1>3. 0 \in G
  <2>1. Len(K(0)) = 0
    BY <1>2
  <2>2. QED
    BY <2>1
<1>4. ASSUME NEW m \in 1 .. N, m - 1 \in G PROVE m \in G
  <2>1. m \in Nat /\ m - 1 \in 0 .. N /\ Only(m - 1) /\ Every(m - 1) /\ s[m] \in R
    BY <1>1, <1>4
  <2>2. K(m - 1) \in Seq(R)
    BY <1>2, <2>1
  <2>3. \A n \in 1 .. m : n \in 1 .. m - 1 \/ n = m
    BY <2>1
  <2>4. \A n \in 1 .. m - 1 : n \in 1 .. m
    BY <2>1
  <2>5. CASE s[m] \notin S
    <3>1. K(m) = K(m - 1)
      BY <1>2, <2>5
    <3>2. Only(m)
      BY <2>1, <2>4, <3>1
    <3>3. Every(m)
      BY <2>1, <2>3, <2>5, <3>1
    <3>4. QED
      BY <2>1, <3>2, <3>3
  <2>6. CASE s[m] \in S
    <3> DEFINE a == K(m - 1)
               l == Len(a)
    <3>1. K(m) = Append(a, s[m]) /\ a \in Seq(R) /\ l \in Nat
      BY <1>2, <2>2, <2>6
    <3> HIDE DEF a
    <3>2. Len(K(m)) = l + 1 /\ K(m)[l + 1] = s[m] /\ \A k \in 1 .. l : K(m)[k] = a[k]
      BY <2>1, <3>1
    <3> HIDE DEF l
    <3>3. \A k \in 1 .. l + 1 : k \in 1 .. l \/ k = l + 1
      BY <3>1
    <3>4. l + 1 \in 1 .. l + 1 /\ m \in 1 .. m /\ \A k \in 1 .. l : k \in 1 .. l + 1
      BY <2>1, <3>1
    <3>5. \A k \in 1 .. l : \E n \in 1 .. m - 1 : a[k] = s[n] /\ s[n] \in S
      BY <2>1 DEF a, l
    <3>6. \A n \in 1 .. m - 1 : s[n] \in S => \E k \in 1 .. l : a[k] = s[n]
      BY <2>1 DEF a, l
    <3>7. Only(m)
      <4> SUFFICES ASSUME NEW k \in 1 .. l + 1
                   PROVE  \E n \in 1 .. m : K(m)[k] = s[n] /\ s[n] \in S
        BY <3>2
      <4>1. CASE k \in 1 .. l
        BY <2>4, <3>2, <3>5, <4>1
      <4>2. CASE k = l + 1
        BY <2>6, <3>2, <3>4, <4>2
      <4>3. QED
        BY <3>3, <4>1, <4>2
    <3>8. Every(m)
      <4> SUFFICES ASSUME NEW n \in 1 .. m, s[n] \in S
                   PROVE  \E k \in 1 .. l + 1 : K(m)[k] = s[n]
        BY <3>2
      <4>1. CASE n \in 1 .. m - 1
        BY <3>2, <3>4, <3>6, <4>1
      <4>2. CASE n = m
        BY <3>2, <3>4, <4>2
      <4>3. QED
        BY <2>3, <4>1, <4>2
    <3>9. QED
      BY <2>1, <3>7, <3>8
  <2>7. QED
    BY <2>5, <2>6
<1>5. N \in G
  <2> HIDE DEF G
  <2>1. \A m \in 1 .. N : m - 1 \in G => m \in G
    BY <1>4
  <2>2. QED
    BY <1>1, <1>3, <2>1, UpTo
<1>6. QED
  BY <1>5 DEF K, N

\* The rows that belong on the graph are rows of the file.
LEMMA BelongingMembers ==
  ASSUME NEW f \in File
  PROVE  \A k \in 1 .. Len(Belonging(f)) : \E n \in 1 .. Len(f.data) : Belonging(f)[k] = f.data[n]
<1>1. f.data \in Seq(Row) /\ Near(f) \in Seq(Row)
  BY FileType, NearType
<1>2. \A k \in 1 .. Len(Near(f)) : \E n \in 1 .. Len(f.data) : Near(f)[k] = f.data[n]
  <2> DEFINE rows == f.data
             near == Near(f)
             S == Within(f)
  <2>1. rows \in Seq(Row) /\ near = Kept(rows, S)[Len(rows)]
    BY <1>1 DEF Near
  <2> HIDE DEF rows, near, S
  <2>2. \A k \in 1 .. Len(Kept(rows, S)[Len(rows)]) :
          \E n \in 1 .. Len(rows) : Kept(rows, S)[Len(rows)][k] = rows[n]
    BY <2>1, KeptMembers
  <2>3. QED
    BY <2>1, <2>2, Zenon DEF rows, near
<1>3. CASE one_graph
  <2>1. Belonging(f) = Kept(Near(f), Best(f))[Len(Near(f))]
    BY <1>3 DEF Belonging
  <2>2. \A k \in 1 .. Len(Belonging(f)) : \E m \in 1 .. Len(Near(f)) : Belonging(f)[k] = Near(f)[m]
    BY <1>1, <2>1, KeptMembers
  <2>3. QED
    BY <1>2, <2>2, Zenon
<1>4. CASE ~one_graph
  BY <1>2, <1>4 DEF Belonging
<1>5. QED
  BY <1>3, <1>4

\* The filter leaves some row of a file that has any.
LEMMA NearNotEmpty ==
  ASSUME NEW f \in File, f.data # <<>>
  PROVE  Near(f) # <<>>
<1>1. f.data \in Seq(Row)
  BY FileType
<1>2. PICK n \in 1 .. Len(f.data) : ~Removed(f.data[n].x, f.data[n].y, f.data)
  BY <1>1, SomeNear
<1>3. f.data[n] \in Within(f)
  BY <1>1, <1>2 DEF Within
<1>4. \E k \in 1 .. Len(Near(f)) : TRUE
  BY <1>1, <1>3, KeptMembers DEF Near
<1>5. Len(Near(f)) # 0
  BY <1>4
<1>6. QED
  BY <1>5

\* The best row near the mean belongs on the graph, and no percentile of the
\* errors is below its error.
LEMMA BestBelongs ==
  ASSUME NEW f \in File, Near(f) # <<>>
  PROVE  \E k \in 1 .. Len(Belonging(f)) :
           \A p \in 1 .. P : Belonging(f)[k].error * P <= NearQuantiles(f)[p]
<1> DEFINE rows == Near(f)
           es == Column(rows, "error")
           s == Sorted(es)
           t == 1 + (20 * P) \div 100
<1>1. rows \in Seq(Row)
  BY NearType
<1>2. /\ es \in Seq(Nat) /\ Len(es) = Len(rows)
      /\ \A n \in 1 .. Len(rows) : es[n] = rows[n].error
  BY <1>1, ColumnType
<1>3. es # <<>>
  <2>1. Len(rows) # 0
    BY <1>1
  <2>2. Len(es) # 0
    BY <1>2, <2>1
  <2>3. QED
    BY <2>2
<1> HIDE DEF es
<1>4. /\ s \in Seq(Nat) /\ s # <<>> /\ InOrder(s)
      /\ \E m \in 1 .. Len(es) : s[1] = es[m]
  BY <1>2, <1>3, ErrorsSorted
<1>5. PICK m \in 1 .. Len(rows) : s[1] = rows[m].error
  BY <1>2, <1>4
<1> HIDE DEF s
<1> DEFINE r == rows[m]
<1>6. r \in Row /\ r.error \in Nat /\ r.error = s[1]
  <2>1. r \in Row
    BY <1>1
  <2>2. \A q \in Row : q.error \in Nat
    BY DEF Row
  <2>3. QED
    BY <1>5, <2>1, <2>2, Zenon
<1> HIDE DEF r
<1>7. \A p \in 1 .. P : r.error * P <= Percentile(s, p)
  <2>1. r.error <= s[1]
    BY <1>6
  <2>2. QED
    BY <1>4, <1>6, <2>1, PercentileFloor
<1>8. \A p \in 1 .. P : r.error * P <= NearQuantiles(f)[p]
  BY <1>7 DEF NearQuantiles, Quantiles, s, es
<1>9. r \in Best(f)
  <2>1. t \in 1 .. P
    OBVIOUS
  <2>2. r.error * P <= Percentile(s, t)
    BY <1>7, <2>1
  <2>3. QED
    BY <1>6, <2>2 DEF Best, s, es
<1>10. CASE one_graph
  <2>1. Belonging(f) = Kept(rows, Best(f))[Len(rows)]
    BY <1>10 DEF Belonging
  <2>2. \E k \in 1 .. Len(Belonging(f)) : Belonging(f)[k] = r
    BY <1>1, <1>9, <2>1, KeptMembers DEF r
  <2>3. QED
    BY <1>8, <2>2
<1>11. CASE ~one_graph
  <2>1. Belonging(f) = rows
    BY <1>11 DEF Belonging
  <2>2. QED
    BY <1>8, <2>1 DEF r
<1>12. QED
  BY <1>10, <1>11

\* Where a failure is met, the file being exported explains it; behind the
\* exports there is no such file.
FailInv ==
  /\ FailuresExplained
  /\ pc \in {"finish", "fit", "bars"} => current = Len(to_export) + 1

\* Columns without rows are those of a file without rows.
LEMMA EmptyColumns ==
  ASSUME CursorInv, FileInv, pc = "rank", errors = <<>>
  PROVE  file.data = <<>>
<1>1. file \in File
  BY DEF CursorInv, file
<1>2. Holds(Near(file), x_values, y_values, errors)
  BY DEF FileInv
<1>3. Len(Near(file)) = 0
  BY <1>2 DEF Holds
<1>4. Near(file) \in Seq(Row)
  BY <1>1, NearType
<1>5. Near(file) = <<>>
  BY <1>3, <1>4
<1>6. QED
  BY <1>1, <1>5, NearNotEmpty

\* An error of 0 among the columns is one of the file.
LEMMA ZeroError ==
  ASSUME CursorInv, ColumnsInv, FileInv, pc = "label",
         NEW n \in DOMAIN errors, errors[n] = 0
  PROVE  \E m \in DOMAIN file.data : file.data[m].error = 0
<1> DEFINE rows == Belonging(file)
<1>1. file \in File
  BY DEF CursorInv, file
<1>2. rows \in Seq(Row) /\ file.data \in Seq(Row)
  BY <1>1, NearType, FileType
<1>3. Holds(rows, x_values, y_values, errors)
  BY DEF FileInv
<1>4. \A k \in 1 .. Len(rows) : \E m \in 1 .. Len(file.data) : rows[k] = file.data[m]
  BY <1>1, BelongingMembers
<1> HIDE DEF rows
<1>5. errors = Column(rows, "error")
  BY <1>2, <1>3, HeldColumns
<1>6. n \in 1 .. Len(rows) /\ rows[n].error = 0
  <2>1. /\ errors \in Seq(Nat) /\ Len(errors) = Len(rows)
        /\ \A m \in 1 .. Len(rows) : errors[m] = rows[m].error
    BY <1>2, <1>5, ColumnType
  <2>2. n \in 1 .. Len(rows)
    BY <2>1
  <2>3. QED
    BY <2>1, <2>2
<1>7. PICK m \in 1 .. Len(file.data) : rows[n] = file.data[m]
  BY <1>4, <1>6
<1>8. m \in DOMAIN file.data
  BY <1>2
<1>9. QED
  BY <1>6, <1>7, <1>8

\* Some result has a weight.
LEMMA SomeWeighted ==
  ASSUME CursorInv, ColumnsInv, FileInv, pc = "label"
  PROVE  Weighted # {}
<1> DEFINE rows == Belonging(file)
           t == 1 + (10 * P) \div 100
<1>1. file \in File
  BY DEF CursorInv, file
<1>2. rows \in Seq(Row)
  BY <1>1, NearType
<1>3. /\ Near(file) # <<>> /\ percentiles = NearQuantiles(file)
      /\ Holds(rows, x_values, y_values, errors)
  BY DEF FileInv
<1>4. PICK k \in 1 .. Len(rows) :
        \A p \in 1 .. P : rows[k].error * P <= NearQuantiles(file)[p]
  BY <1>1, <1>3, BestBelongs
<1>5. t \in 1 .. P
  OBVIOUS
<1> HIDE DEF rows, t
<1>6. errors = Column(rows, "error")
  BY <1>2, <1>3, HeldColumns
<1>7. k \in DOMAIN errors /\ errors[k] = rows[k].error
  BY <1>2, <1>6, ColumnType
<1>8. errors[k] * P <= percentiles[t]
  BY <1>3, <1>4, <1>5, <1>7
<1>9. k \in Weighted
  BY <1>7, <1>8 DEF Weighted, t
<1>10. QED
  BY <1>9

\* Every step fails only for what is wrong with the file.
LEMMA FailStep ==
  CursorInv /\ ColumnsInv /\ FileInv /\ FailInv /\ [Next]_vars => FailInv'
<1> SUFFICES ASSUME CursorInv, ColumnsInv, FileInv, FailInv, [Next]_vars
             PROVE  FailInv'
  OBVIOUS
<1> DEFINE Bad(f) == \/ ~f.expected
                     \/ f.data = <<>>
                     \/ \E n \in DOMAIN f.data : f.data[n].error = 0
                     \/ f.label.kind \in {"d", "empty", "missing"}
<1>0. current \in Nat /\ Len(to_export) \in Nat
  BY DEF CursorInv
<1>1. ASSUME NEW b \in Batches, ListFiles(b) PROVE FailInv'
  <2>1. current' = 1 /\ current = 1 /\ to_export = <<>>
    BY <1>1, ListStep DEF ListFiles, CursorInv
  <2>2. \/ pc' = "error" /\ to_export' = to_export
        \/ pc' = "finish" /\ to_export' = <<>>
        \/ pc' = "open"
    <3>1. b.files = <<>> => [n \in DOMAIN b.files |->
            b.files[StableSort([m \in DOMAIN b.files |-> SortKey(b.files[m])])[n]]] = <<>>
      OBVIOUS
    <3>2. QED
      BY <1>1, <3>1 DEF ListFiles
  <2>3. QED
    BY <2>1, <2>2 DEF FailInv, FailuresExplained
<1>2. CASE Open
  BY <1>2 DEF Open, FailInv, FailuresExplained, file
<1>3. CASE Filter \/ Top
  <2>1. pc' \in {"filter", "rank", "top", "label"}
    BY <1>3 DEF Filter, Top, PopOrAdvance
  <2>2. QED
    BY <2>1 DEF FailInv, FailuresExplained
<1>4. CASE RankErrors
  <2>1. /\ UNCHANGED <<to_export, current>> /\ pc = "rank"
        /\ \/ pc' = "error" /\ errors = <<>>
           \/ pc' \in {"top", "label"}
    BY <1>4 DEF RankErrors
  <2>2. pc' = "error" => file.data = <<>>
    BY <2>1, EmptyColumns
  <2>3. QED
    BY <2>1, <2>2 DEF FailInv, FailuresExplained, file
<1>5. CASE Collect
  <2>1. /\ pc = "label" /\ to_export' = to_export
        /\ \/ /\ current' = current /\ pc' \in {"exit", "error"}
              /\ \/ \E n \in Weighted : errors[n] = 0
                 \/ Weighted = {}
                 \/ file.label.kind \in {"d", "empty", "missing"}
           \/ current' = current + 1 /\ pc' = IF current < Len(to_export) THEN "open" ELSE "finish"
    BY <1>5 DEF Collect
  <2>2. CASE current' = current /\ pc' \in {"exit", "error"}
    <3>1. Bad(file)
      <4>1. CASE \E n \in Weighted : errors[n] = 0
        <5>1. \E n \in DOMAIN errors : errors[n] = 0
          BY <4>1 DEF Weighted
        <5>2. QED
          BY <2>1, <5>1, ZeroError
      <4>2. CASE file.label.kind \in {"d", "empty", "missing"}
        BY <4>2
      <4>3. Weighted # {}
        BY <2>1, SomeWeighted
      <4>4. current' # current + 1
        BY <1>0, <2>2
      <4>5. QED
        BY <2>1, <2>2, <4>1, <4>2, <4>3, <4>4
    <3>2. QED
      BY <2>1, <2>2, <3>1 DEF FailInv, FailuresExplained, file
  <2>3. CASE current' = current + 1 /\ pc' = IF current < Len(to_export) THEN "open" ELSE "finish"
    <3>1. current <= Len(to_export)
      BY <2>1 DEF CursorInv
    <3>2. pc' = "finish" => current' = Len(to_export') + 1
      BY <1>0, <2>1, <2>3, <3>1
    <3>3. pc' \in {"open", "finish"}
      BY <2>3
    <3>4. QED
      BY <3>2, <3>3 DEF FailInv, FailuresExplained
  <2>4. QED
    BY <2>1, <2>2, <2>3
<1>6. CASE Finish \/ Fit \/ Bars
  <2>1. UNCHANGED <<to_export, current>> /\ pc \in {"finish", "fit", "bars"}
    BY <1>6 DEF Finish, Fit, Bars
  <2>2. current = Len(to_export) + 1
    BY <2>1 DEF FailInv
  <2>3. current' = Len(to_export') + 1 /\ ~(current' <= Len(to_export'))
    BY <1>0, <2>1, <2>2
  <2>4. QED
    BY <2>3 DEF FailInv, FailuresExplained
<1>7. CASE Ended \/ UNCHANGED vars
  <2>1. UNCHANGED <<to_export, current, pc>>
    BY <1>7 DEF Ended, vars
  <2>2. QED
    BY <2>1 DEF FailInv, FailuresExplained, file
<1>8. QED
  BY <1>1, <1>2, <1>3, <1>4, <1>5, <1>6, <1>7 DEF Next

\* The export of a file fails only for what is wrong with that file, for any
\* files and any number of percentiles: by Chebyshev's inequality the filters
\* leave a row of every file that has rows, the best of the rows left is among
\* the best 20 % and has a weight, and so the mean has a positive weight.
THEOREM FailuresAreExplained == Spec => []FailuresExplained
<1>1. ASSUME Init PROVE FailInv
  BY <1>1 DEF Init, FailInv, FailuresExplained
<1>2. FailInv => FailuresExplained
  BY DEF FailInv
<1>3. QED
  BY <1>1, <1>2, CursorInvariant, ColumnsInvariant, FileInvariant, FailStep, PTL DEF Spec
=============================================================================
