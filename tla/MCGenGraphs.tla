---------------------------- MODULE MCGenGraphs ----------------------------
EXTENDS GenGraphs

CONSTANTS Coordinates, Errors, ManyErrors, MaxResults, MaxFiles

MCLabel(kind, d, tx) == [kind |-> kind, d |-> d, tx |-> tx]

\* One file with any results.  The largest have fewer errors to choose from.
Results(errs) == [x : Coordinates, y : Coordinates, error : errs]
Datasets == UNION {[1 .. n -> Results(Errors)] : n \in 0 .. MaxResults - 1}
            \cup [1 .. MaxResults -> Results(ManyErrors)]
Single(label, expected, data) ==
  [multiple |-> FALSE,
   files |-> <<[dir |-> 1, label |-> label, expected |-> expected, data |-> data]>>]
Singles ==
  {Single(MCLabel("d tx", 1, 1), TRUE, data) : data \in Datasets}
  \cup {Single(MCLabel(kind, 1, 1), expected, <<[x |-> 1, y |-> 1, error |-> e]>>) :
          kind \in {"d tx", "d", "empty", "missing"}, expected \in BOOLEAN, e \in {0, 1}}

\* Several files with one result each, which tells them apart.
Labels == {MCLabel("d tx", 1, 1), MCLabel("d tx", 2, 1), MCLabel("d tx", 3, 2),
           MCLabel("tx d", 2, 3), MCLabel("tx d", 1, 4), MCLabel("tx d", 1, 1)}
BadLabels == {MCLabel("missing", 0, 0), MCLabel("empty", 0, 0), MCLabel("d", 2, 0)}
Directory(labels) ==
  [multiple |-> TRUE,
   files |-> [n \in DOMAIN labels |->
                [dir |-> n \div 2, label |-> labels[n], expected |-> TRUE,
                 data |-> <<[x |-> n, y |-> n, error |-> 1]>>]]]
Directories ==
  {Directory(labels) :
     labels \in UNION {[1 .. n -> Labels] : n \in 0 .. MaxFiles}
                \cup [1 .. 2 -> Labels \cup BadLabels]}

MCBatches == Singles \cup Directories

=============================================================================
