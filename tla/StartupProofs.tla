--------------------------- MODULE StartupProofs ---------------------------
(***************************************************************************)
(* That a search started with --use-git runs the wanted commit, and that a *)
(* re-export leaves the graphs of the last good file of each directory,    *)
(* for any commits, files, kills and any number of restarts and upgrades.  *)
(***************************************************************************)
EXTENDS Startup, TLAPS

\* What holds between the steps of a start with --use-git.  It rests on the
\* hash never being read back: RevParse leads nowhere but to the checkout, so
\* that a process only comes to the build by way of its own configuration.  Mixed
\* files are left by a checkout of a commit that HEAD is not at, and HEAD does
\* not move while they are there.
SetUpInv ==
  /\ commit_hash \in Commits
  /\ use_git /\ pc \in {"configure", "build", "search"} =>
       head = commit_hash /\ tree \in {commit_hash, Mixed}
  /\ use_git /\ pc \in {"build", "search"} => configured = tree
  /\ use_git /\ pc = "search" => built = [tree |-> tree, configured |-> configured]
  /\ pc = "checkout" => clone = "complete"
  /\ clone = "none" => tree = None
  /\ tree = Mixed => torn # None /\ head # torn

\* The first start finds nothing.
LEMMA SetUpInit == Init => SetUpInv
  BY StartupAssumption DEF Init, SetUpInv

\* The steps of setup_repo, of the configuration and of the build.
LEMMA SetUpSteps ==
  ASSUME SetUpInv, CloneOrGoOn \/ RevParse \/ Checkout \/ Configure \/ Build \/ Search
  PROVE  SetUpInv'
<1>1. CASE CloneOrGoOn
  BY <1>1, StartupAssumption DEF SetUpInv, CloneOrGoOn, disk, export
<1>2. CASE RevParse
  <2>1. CurrentHash # commit_hash
    BY StartupAssumption DEF SetUpInv, CurrentHash
  <2> QED
    BY <1>2, <2>1 DEF SetUpInv, RevParse, disk, export
<1>3. CASE Checkout
  BY <1>3, StartupAssumption DEF SetUpInv, Checkout, export
<1>4. CASE Configure
  BY <1>4 DEF SetUpInv, Configure, export, Main
<1>5. CASE Build
  BY <1>5 DEF SetUpInv, Build, export
<1>6. CASE Search
  BY <1>6 DEF SetUpInv, Search, disk, export
<1> QED
  BY <1>1, <1>2, <1>3, <1>4, <1>5, <1>6

\* The re-export changes nothing on the disk that a search uses.
LEMMA ExportSteps ==
  ASSUME SetUpInv, Read \/ WriteHotCold \/ WriteErrorTime
  PROVE  SetUpInv'
<1>1. UNCHANGED <<disk, commit_hash, use_git>>
  BY DEF Read, WriteHotCold, WriteErrorTime
<1>2. pc' \in {"done", "read", "hot_cold", "error_time", "panicked"}
  BY DEF Read, WriteHotCold, WriteErrorTime, NextFile
<1> QED
  BY <1>1, <1>2 DEF SetUpInv, disk

\* Between two processes, and when one is killed, no search is under way.
LEMMA ProcessSteps ==
  ASSUME SetUpInv,
         \/ \E git \in BOOLEAN, m \in {"search", "one", "all"}, w \in Walks : Start(git, m, w)
         \/ Upgrade \/ Kill
  PROVE  SetUpInv'
<1>1. ASSUME NEW git \in BOOLEAN, NEW m \in {"search", "one", "all"}, NEW w \in Walks,
             Start(git, m, w)
      PROVE  SetUpInv'
  BY <1>1 DEF SetUpInv, Start, Main, disk
<1>2. CASE Upgrade
  BY <1>2 DEF SetUpInv, Upgrade, disk
<1>3. CASE Kill
  BY <1>3, StartupAssumption DEF SetUpInv, Kill, disk, Ended
<1> QED
  BY <1>1, <1>2, <1>3

\* A search started with --use-git runs the commit this version of main.rs
\* wants, built with a configuration made after its checkout by setup_repo,
\* unless the checkout of another commit was killed halfway before; a program
\* that always wants the same commit never builds mixed files.
THEOREM WantedCommitSearched == Spec => []BuiltFromWanted
<1>1. SetUpInv /\ [Next]_vars => SetUpInv'
  <2> SUFFICES ASSUME SetUpInv, [Next]_vars PROVE SetUpInv'
    OBVIOUS
  <2>1. CASE UNCHANGED vars
    BY <2>1 DEF SetUpInv, vars, disk
  <2> QED
    BY <2>1, SetUpSteps, ExportSteps, ProcessSteps DEF Next
<1>2. SetUpInv => BuiltFromWanted
  BY DEF SetUpInv, BuiltFromWanted
<1> QED
  BY <1>1, <1>2, SetUpInit, PTL DEF Spec

-----------------------------------------------------------------------------
(***************************************************************************)
(* The graphs of a re-export.  When the loop of re_export_all comes to     *)
(* file k, each prefix where nothing failed shows the last good file       *)
(* before k.                                                               *)
(***************************************************************************)
PrefixOf(m, w, n) == IF m = "one" THEN 0 ELSE w[n].dir

Good(m, w, p, n) == n \in 1 .. Len(w) /\ w[n].kind = "good" /\ PrefixOf(m, w, n) = p

\* The places in walk of the files that the two graphs show.
Pair == [hot_cold : Nat, error_time : Nat]

Both(n) == [hot_cold |-> n, error_time |-> n]

\* The graphs gs of prefix p show the last good file before file k.
ShownAt(m, w, gs, p, k) ==
  \A last \in 1 .. Len(w) :
    Good(m, w, p, last) /\ last < k /\ (\A n \in 1 .. Len(w) : Good(m, w, p, n) /\ n < k => n <= last)
      => p \in DOMAIN gs /\ gs[p] = Both(last)

Prefixes(m, w) == {PrefixOf(m, w, n) : n \in 1 .. Len(w)}

\* Where the re-export is, and what it has shown by then.  Between the two
\* graphs of a file its own prefix is in neither state.
ExportInv ==
  /\ mode \in {"search", "one", "all"} /\ walk \in Seq(File) /\ at \in Nat \ {0}
  /\ \A p \in DOMAIN graphs : graphs[p] \in Pair
  /\ pc \in {"build", "search"} => mode = "search"
  /\ pc \in {"read", "hot_cold", "error_time"} => mode # "search"
  /\ pc \in {"hot_cold", "error_time"} => at <= Len(walk)
  /\ pc = "hot_cold" => walk[at].kind # "bad"
  /\ pc \in {"exists", "rev_parse", "checkout", "configure"} => at = 1
  /\ pc = "error_time" => walk[at].kind \in {"good", "early"}
  /\ pc \in {"read", "hot_cold"} =>
       \A p \in Prefixes(mode, walk) \ spoiled : ShownAt(mode, walk, graphs, p, at)
  /\ pc = "error_time" =>
       /\ \A p \in Prefixes(mode, walk) \ spoiled :
            p # PrefixOf(mode, walk, at) => ShownAt(mode, walk, graphs, p, at)
       /\ Prefix \in DOMAIN graphs
       /\ graphs[Prefix].hot_cold = at
  /\ pc = "done" /\ mode # "search" =>
       \A p \in Prefixes(mode, walk) \ spoiled : ShownAt(mode, walk, graphs, p, Len(walk) + 1)

\* Before the first file nothing has to be shown.
LEMMA NothingYet ==
  ASSUME NEW m, NEW w, NEW gs, NEW p
  PROVE  ShownAt(m, w, gs, p, 1)
BY DEF ShownAt

\* A file of another prefix, or one that is not good, changes nothing for p.
LEMMA StillShown ==
  ASSUME NEW m, NEW w \in Seq(File), NEW gs, NEW hs, NEW p, NEW k \in Nat \ {0},
         ShownAt(m, w, gs, p, k), ~Good(m, w, p, k),
         p \in DOMAIN gs => p \in DOMAIN hs /\ hs[p] = gs[p]
  PROVE  ShownAt(m, w, hs, p, k + 1)
<1> SUFFICES ASSUME NEW last \in 1 .. Len(w), Good(m, w, p, last), last < k + 1,
                    \A n \in 1 .. Len(w) : Good(m, w, p, n) /\ n < k + 1 => n <= last
             PROVE  p \in DOMAIN hs /\ hs[p] = Both(last)
  BY DEF ShownAt
<1>1. Len(w) \in Nat
  OBVIOUS
<1>2. last # k
  OBVIOUS
<1>3. last < k
  BY <1>1, <1>2
<1>4. \A n \in 1 .. Len(w) : n < k => n < k + 1
  BY <1>1
<1>5. p \in DOMAIN gs /\ gs[p] = Both(last)
  BY <1>3, <1>4 DEF ShownAt
<1>6. QED
  BY <1>5

\* A good file that both graphs show is the last good one.
LEMMA NowShown ==
  ASSUME NEW m, NEW w \in Seq(File), NEW hs, NEW p, NEW k \in Nat \ {0},
         Good(m, w, p, k), p \in DOMAIN hs, hs[p] = Both(k)
  PROVE  ShownAt(m, w, hs, p, k + 1)
<1> SUFFICES ASSUME NEW last \in 1 .. Len(w), last < k + 1,
                    \A n \in 1 .. Len(w) : Good(m, w, p, n) /\ n < k + 1 => n <= last
             PROVE  last = k
  BY DEF ShownAt
<1>1. Len(w) \in Nat /\ k \in 1 .. Len(w)
  BY DEF Good
<1>2. k <= last
  BY <1>1
<1>3. QED
  BY <1>1, <1>2

\* What writing a graph does to the graphs of each prefix.
LEMMA ShowStep ==
  ASSUME NEW graph \in {"hot_cold", "error_time"}, Show(graph), ExportInv
  PROVE  /\ \A p \in DOMAIN graphs : p # Prefix => p \in DOMAIN graphs' /\ graphs'[p] = graphs[p]
         /\ \A p \in DOMAIN graphs' : graphs'[p] \in Pair
         /\ Prefix \in DOMAIN graphs'
         /\ graphs'[Prefix][graph] = at
         /\ Prefix \in DOMAIN graphs =>
              \A g \in {"hot_cold", "error_time"} : g # graph => graphs'[Prefix][g] = graphs[Prefix][g]
<1> DEFINE old == IF Prefix \in DOMAIN graphs THEN graphs[Prefix]
                                              ELSE [hot_cold |-> 0, error_time |-> 0]
           new == [old EXCEPT ![graph] = at]
<1>1. old \in Pair /\ at \in Nat
  BY DEF ExportInv, Pair
<1>2. /\ DOMAIN graphs' = DOMAIN graphs \cup {Prefix}
      /\ graphs'[Prefix] = new
      /\ \A p \in DOMAIN graphs : p # Prefix => graphs'[p] = graphs[p]
  BY DEF Show
<1>3. /\ new \in Pair /\ new[graph] = at
      /\ \A g \in {"hot_cold", "error_time"} : g # graph => new[g] = old[g]
  <2> HIDE DEF old
  <2> QED
    BY <1>1 DEF Pair
<1>4. \A p \in DOMAIN graphs : graphs[p] \in Pair
  BY DEF ExportInv
<1> HIDE DEF new
<1>5. QED
  BY <1>2, <1>3, <1>4

\* The first process has no files to draw.
LEMMA ExportInit == Init => ExportInv
<1> SUFFICES ASSUME Init PROVE ExportInv
  OBVIOUS
<1>1. DOMAIN graphs = {} /\ walk \in Seq(File)
  BY DEF Init
<1>2. QED
  BY <1>1 DEF Init, ExportInv

\* The steps before the re-export leave it alone, and come to it at file 1.
LEMMA ExportAwaits ==
  ASSUME ExportInv, CloneOrGoOn \/ RevParse \/ Checkout \/ Configure \/ Build \/ Search
  PROVE  ExportInv'
<1>1. UNCHANGED <<walk, at, graphs, spoiled, mode>>
  BY DEF CloneOrGoOn, RevParse, Checkout, Configure, Build, Search, export
<1>2. CASE mode = "search"
  <2>1. pc' \notin {"read", "hot_cold", "error_time"}
    BY <1>2 DEF CloneOrGoOn, RevParse, Checkout, Configure, Build, Search, Main
  <2>2. pc' \in {"exists", "rev_parse", "checkout", "configure"} => at = 1
    BY DEF CloneOrGoOn, RevParse, Checkout, Configure, Build, Search, Main, ExportInv
  <2>3. QED
    BY <1>1, <1>2, <2>1, <2>2 DEF ExportInv
<1>3. CASE mode # "search"
  <2>1. pc \in {"exists", "rev_parse", "checkout", "configure"}
    BY <1>3 DEF CloneOrGoOn, RevParse, Checkout, Configure, Build, Search, ExportInv
  <2>2. pc' \in {"rev_parse", "checkout", "configure", "read", "returned", "panicked"}
    BY <1>3, <2>1 DEF CloneOrGoOn, RevParse, Checkout, Configure, Build, Search, Main
  <2>3. at = 1
    BY <2>1 DEF ExportInv
  <2>4. \A p : ShownAt(mode, walk, graphs, p, at)
    BY <2>3, NothingYet
  <2>5. QED
    BY <1>1, <1>3, <2>2, <2>3, <2>4 DEF ExportInv
<1>4. QED
  BY <1>2, <1>3

\* A process starts with nothing drawn.
LEMMA ExportStarts ==
  ASSUME ExportInv,
         \/ \E git \in BOOLEAN, m \in {"search", "one", "all"}, w \in Walks : Start(git, m, w)
         \/ Upgrade \/ Kill
  PROVE  ExportInv'
<1>1. graphs' = <<>> /\ at' = 1 /\ DOMAIN graphs' = {}
  BY DEF Start, Upgrade, Kill, NoExport
<1>2. \A p : ShownAt(mode', walk', graphs', p, at')
  BY <1>1, NothingYet
<1>3. ASSUME NEW git \in BOOLEAN, NEW m \in {"search", "one", "all"}, NEW w \in Walks,
             Start(git, m, w)
      PROVE  ExportInv'
  <2>1. mode' = m /\ walk' = w /\ w \in Seq(File)
    BY <1>3, StartupAssumption DEF Start
  <2>2. /\ pc' \in {"exists", "build", "read"}
        /\ pc' = "build" => mode' = "search"
        /\ pc' = "read" => mode' # "search"
    BY <1>3 DEF Start, Main
  <2>3. QED
    BY <1>1, <1>2, <2>1, <2>2 DEF ExportInv
<1>4. CASE Upgrade \/ Kill
  <2>1. pc' = "stopped" /\ walk' = <<>> /\ mode' = mode
    BY <1>4 DEF Upgrade, Kill, NoExport
  <2>2. walk' \in Seq(File)
    BY <2>1
  <2>3. QED
    BY <1>1, <2>1, <2>2 DEF ExportInv
<1>5. QED
  BY <1>3, <1>4

\* Where the loop goes after a file.
LEMMA Onward ==
  ASSUME ExportInv, NEW error \in BOOLEAN, NextFile(error), UNCHANGED <<walk, mode>>, mode # "search",
         \A p \in DOMAIN graphs' : graphs'[p] \in Pair,
         \A p \in Prefixes(mode, walk) \ spoiled' : ShownAt(mode, walk, graphs', p, at + 1)
  PROVE  ExportInv'
<1>1. CASE pc' = "read" /\ at' = at + 1
  <2>1. at' \in Nat \ {0}
    BY <1>1 DEF ExportInv
  <2>2. QED
    BY <1>1, <2>1 DEF ExportInv
<1>2. CASE pc' = "panicked" /\ at' = at
  BY <1>2 DEF ExportInv
<1>3. QED
  BY <1>1, <1>2 DEF NextFile

\* A file that cannot be read is skipped, and the end is behind the last file.
LEMMA ReadStep ==
  ASSUME ExportInv, Read
  PROVE  ExportInv'
<1>1. /\ UNCHANGED <<walk, graphs, spoiled, mode>> /\ pc = "read"
      /\ walk \in Seq(File) /\ at \in Nat \ {0} /\ Len(walk) \in Nat
      /\ \A p \in Prefixes(mode, walk) \ spoiled : ShownAt(mode, walk, graphs, p, at)
      /\ \A p \in DOMAIN graphs : graphs[p] \in Pair
      /\ mode \in {"one", "all"}
  BY DEF Read, ExportInv
<1>2. CASE at > Len(walk) /\ pc' = "done" /\ UNCHANGED at
  <2>1. \A p : ShownAt(mode, walk, graphs, p, at) => ShownAt(mode, walk, graphs, p, Len(walk) + 1)
    <3>1. \A n \in 1 .. Len(walk) : n < at /\ n < Len(walk) + 1
      BY <1>1, <1>2
    <3>2. QED
      BY <3>1 DEF ShownAt
  <2>2. QED
    BY <1>1, <1>2, <2>1 DEF ExportInv
<1>3. CASE at <= Len(walk) /\ walk[at].kind = "bad" /\ NextFile(TRUE)
  <2>1. \A p : ~Good(mode, walk, p, at)
    BY <1>3 DEF Good
  <2>2. \A p \in Prefixes(mode, walk) \ spoiled : ShownAt(mode, walk, graphs, p, at + 1)
    BY <1>1, <2>1, StillShown
  <2>3. QED
    BY <1>1, <1>3, <2>2, Onward
<1>4. CASE at <= Len(walk) /\ walk[at].kind # "bad" /\ pc' = "hot_cold" /\ UNCHANGED at
  BY <1>1, <1>4 DEF ExportInv
<1>5. QED
  <2>1. at > Len(walk) \/ at <= Len(walk)
    BY <1>1
  <2>2. QED
    BY <1>1, <1>2, <1>3, <1>4, <2>1 DEF Read

\* The first graph of a file is of its own prefix.
LEMMA HotColdStep ==
  ASSUME ExportInv, WriteHotCold
  PROVE  ExportInv'
<1>1. /\ UNCHANGED <<walk, mode>> /\ pc = "hot_cold" /\ at <= Len(walk)
      /\ walk \in Seq(File) /\ at \in Nat \ {0} /\ mode \in {"one", "all"}
      /\ \A p \in Prefixes(mode, walk) \ spoiled : ShownAt(mode, walk, graphs, p, at)
      /\ walk[at].kind \notin {"bad", "empty"}
  BY DEF WriteHotCold, ExportInv
<1>2. Prefix = PrefixOf(mode, walk, at) /\ \A p : p # Prefix => ~Good(mode, walk, p, at)
  BY <1>1 DEF Prefix, PrefixOf, Good
<1>3. walk[at].kind \in {"good", "early"}
  <2>1. at \in 1 .. Len(walk)
    BY <1>1
  <2>2. walk[at] \in File
    BY <1>1, <2>1
  <2>3. QED
    BY <1>1, <2>2 DEF File
<1>4. CASE Show("hot_cold") /\ pc' = "error_time" /\ UNCHANGED <<at, spoiled>>
  <2>1. /\ \A p \in DOMAIN graphs : p # Prefix => p \in DOMAIN graphs' /\ graphs'[p] = graphs[p]
        /\ \A p \in DOMAIN graphs' : graphs'[p] \in Pair
        /\ Prefix \in DOMAIN graphs' /\ graphs'[Prefix].hot_cold = at
    BY <1>4, ShowStep
  <2>2. \A p \in Prefixes(mode, walk) \ spoiled : p # Prefix => ShownAt(mode, walk, graphs', p, at)
    BY <1>1, <2>1 DEF ShownAt
  <2>3. Prefix' = Prefix
    BY <1>1, <1>4 DEF Prefix
  <2>4. QED
    BY <1>1, <1>2, <1>3, <1>4, <2>1, <2>2, <2>3 DEF ExportInv
<1>5. CASE Show("hot_cold") /\ NextFile(TRUE) /\ spoiled' = spoiled \cup {Prefix}
  <2>1. /\ \A p \in DOMAIN graphs : p # Prefix => p \in DOMAIN graphs' /\ graphs'[p] = graphs[p]
        /\ \A p \in DOMAIN graphs' : graphs'[p] \in Pair
    BY <1>5, ShowStep
  <2>2. \A p \in Prefixes(mode, walk) \ spoiled' : ShownAt(mode, walk, graphs', p, at + 1)
    BY <1>1, <1>2, <1>5, <2>1, StillShown
  <2>3. QED
    BY <1>1, <1>5, <2>1, <2>2, Onward
<1>6. CASE pc' = "panicked" /\ UNCHANGED <<at, graphs, spoiled>>
  BY <1>1, <1>6 DEF ExportInv
<1>7. QED
  BY <1>4, <1>5, <1>6 DEF WriteHotCold

\* After the second graph both are of the same file.
LEMMA ErrorTimeStep ==
  ASSUME ExportInv, WriteErrorTime
  PROVE  ExportInv'
<1>1. /\ UNCHANGED <<walk, mode>> /\ pc = "error_time" /\ at <= Len(walk)
      /\ walk \in Seq(File) /\ at \in Nat \ {0} /\ mode \in {"one", "all"}
      /\ \A p \in Prefixes(mode, walk) \ spoiled :
           p # PrefixOf(mode, walk, at) => ShownAt(mode, walk, graphs, p, at)
      /\ Prefix \in DOMAIN graphs /\ graphs[Prefix].hot_cold = at
      /\ walk[at].kind \in {"good", "early"}
  BY DEF WriteErrorTime, ExportInv
<1>2. Prefix = PrefixOf(mode, walk, at) /\ \A p : p # Prefix => ~Good(mode, walk, p, at)
  BY <1>1 DEF Prefix, PrefixOf, Good
<1>3. ASSUME Show("error_time")
      PROVE  /\ \A p \in DOMAIN graphs : p # Prefix => p \in DOMAIN graphs' /\ graphs'[p] = graphs[p]
             /\ \A p \in DOMAIN graphs' : graphs'[p] \in Pair
             /\ Prefix \in DOMAIN graphs' /\ graphs'[Prefix] = Both(at)
  <2>1. /\ \A p \in DOMAIN graphs : p # Prefix => p \in DOMAIN graphs' /\ graphs'[p] = graphs[p]
        /\ \A p \in DOMAIN graphs' : graphs'[p] \in Pair
        /\ Prefix \in DOMAIN graphs'
        /\ graphs'[Prefix]["error_time"] = at /\ graphs'[Prefix]["hot_cold"] = graphs[Prefix]["hot_cold"]
    BY <1>1, <1>3, ShowStep
  <2>2. graphs'[Prefix] \in Pair
    BY <2>1
  <2>3. graphs'[Prefix] = Both(at)
    BY <1>1, <2>1, <2>2 DEF Pair, Both
  <2>4. QED
    BY <2>1, <2>3
<1>4. \A p \in DOMAIN graphs : graphs[p] \in Pair
  BY DEF ExportInv
<1>5. CASE walk[at].kind = "early" /\ Show("error_time") /\ pc' = "panicked" /\ UNCHANGED <<at, spoiled>>
  BY <1>1, <1>3, <1>5 DEF ExportInv
<1>6. CASE walk[at].kind # "early" /\ Show("error_time") /\ NextFile(FALSE) /\ UNCHANGED spoiled
  <2>1. at \in 1 .. Len(walk)
    BY <1>1
  <2>2. Good(mode, walk, Prefix, at)
    BY <1>1, <1>2, <1>6, <2>1 DEF Good
  <2>3. ShownAt(mode, walk, graphs', Prefix, at + 1)
    BY <1>1, <1>3, <1>6, <2>2, NowShown
  <2>4. \A p \in Prefixes(mode, walk) \ spoiled' : ShownAt(mode, walk, graphs', p, at + 1)
    <3> SUFFICES ASSUME NEW p \in Prefixes(mode, walk) \ spoiled, p # Prefix
                 PROVE  ShownAt(mode, walk, graphs', p, at + 1)
      BY <1>6, <2>3
    <3>1. QED
      BY <1>1, <1>2, <1>3, <1>6, StillShown
  <2>5. QED
    BY <1>1, <1>3, <1>6, <2>4, Onward
<1>7. ASSUME spoiled' = spoiled \cup {Prefix},
             Show("error_time") \/ UNCHANGED graphs, NEW error \in BOOLEAN, NextFile(error)
      PROVE  ExportInv'
  <2>1. /\ \A p \in DOMAIN graphs : p # Prefix => p \in DOMAIN graphs' /\ graphs'[p] = graphs[p]
        /\ \A p \in DOMAIN graphs' : graphs'[p] \in Pair
    BY <1>3, <1>4, <1>7
  <2>2. \A p \in Prefixes(mode, walk) \ spoiled' : ShownAt(mode, walk, graphs', p, at + 1)
    BY <1>1, <1>2, <1>7, <2>1, StillShown
  <2>3. QED
    BY <1>1, <1>7, <2>1, <2>2, Onward
<1>8. QED
  BY <1>5, <1>6, <1>7 DEF WriteErrorTime

\* When re_export or re_export_all has come to its end, both graphs of every
\* directory show its last good file, unless drawing or writing failed there,
\* whatever the files around it are like.
THEOREM LastGoodFileShown == Spec => []GraphsShowLastGood
<1>1. ExportInv /\ [Next]_vars => ExportInv'
  <2> SUFFICES ASSUME ExportInv, [Next]_vars PROVE ExportInv'
    OBVIOUS
  <2>1. CASE UNCHANGED vars
    BY <2>1 DEF ExportInv, vars, export, Prefix
  <2>2. QED
    BY <2>1, ExportStarts, ExportAwaits, ReadStep, HotColdStep, ErrorTimeStep DEF Next
<1>2. ExportInv => GraphsShowLastGood
  <2> SUFFICES ASSUME ExportInv, pc = "done", mode # "search",
                      NEW p \in {IF mode = "one" THEN 0 ELSE walk[n].dir : n \in DOMAIN walk} \ spoiled,
                      NEW last \in {n \in DOMAIN walk : /\ walk[n].kind = "good"
                                                        /\ mode = "all" => walk[n].dir = p},
                      \A n \in {n \in DOMAIN walk : /\ walk[n].kind = "good"
                                                    /\ mode = "all" => walk[n].dir = p} : n <= last
               PROVE  p \in DOMAIN graphs /\ graphs[p] = Both(last)
    BY DEF GraphsShowLastGood, Both
  <2>1. walk \in Seq(File) /\ mode \in {"one", "all"}
    BY DEF ExportInv
  <2>2. DOMAIN walk = 1 .. Len(walk) /\ Len(walk) \in Nat
    BY <2>1
  <2>3. p \in Prefixes(mode, walk) /\ p \notin spoiled /\ (mode = "one" => p = 0)
    BY <2>2 DEF Prefixes, PrefixOf
  <2>4. \A n \in 1 .. Len(walk) :
          Good(mode, walk, p, n) <=> walk[n].kind = "good" /\ (mode = "all" => walk[n].dir = p)
    BY <2>1, <2>3 DEF Good, PrefixOf
  <2>5. /\ last \in 1 .. Len(walk) /\ last < Len(walk) + 1 /\ Good(mode, walk, p, last)
        /\ \A n \in 1 .. Len(walk) : Good(mode, walk, p, n) => n <= last
    BY <2>2, <2>4
  <2>6. ShownAt(mode, walk, graphs, p, Len(walk) + 1)
    BY <2>3 DEF ExportInv
  <2>7. QED
    BY <2>5, <2>6 DEF ShownAt
<1>3. QED
  BY <1>1, <1>2, ExportInit, PTL DEF Spec

=============================================================================
