------------------------------ MODULE Startup ------------------------------
(***************************************************************************)
(* main of the parameter optimizer (main.rs), with what it does before and *)
(* instead of a search: git.rs clones the repository and checks out the    *)
(* commit the program wants, util.rs calls waf to configure and to build,  *)
(* and optimization.rs draws the graphs of saved searches again.           *)
(*                                                                         *)
(* The clone, its configuration and its build are on the disk: they        *)
(* outlive the process, which may be killed at any step and started again, *)
(* also by a version of the program that wants another commit.  git and    *)
(* waf are modelled by what the program relies on.                         *)
(***************************************************************************)
EXTENDS Naturals, Sequences

CONSTANTS
  Commits,     \* the commits that versions of the program want
  Tip,         \* the commit that a clone has checked out
  Walks,       \* what WalkDir may find: the json files in order
  None, Mixed  \* no commit, and files of two commits

\* The runs saved in a file are ready to be drawn, cannot be read, are none, or
\* have one that ended before the first.
File == [dir : Nat, kind : {"good", "bad", "empty", "early"}]

ASSUME StartupAssumption ==
  /\ Tip \in Commits /\ None \notin Commits /\ Mixed \notin Commits /\ None # Mixed
  /\ Walks \subseteq Seq(File)

VARIABLES
  clone,            \* the directory NS3: "none", "partial" (without a HEAD) or
                    \* "complete"
  head,             \* the commit git takes it to be at
  tree,             \* the commit its files are of, Mixed, or None without files
  configured,       \* what tree was when it was configured
  built,            \* what tree and configured were when it was built
  torn,             \* history: the commit wanted when a checkout was last
                    \* killed halfway
  commit_hash,      \* the commit this version of the program wants
  pc,
  use_git,          \* args.use_git
  needs_configure,
  mode,             \* "search", or the re-export of "one" file or of "all"
  walk,             \* the files to re-export
  at,               \* the one in turn
  graphs,           \* prefix -> the place in walk of the file each graph shows
  spoiled           \* the prefixes where drawing or writing has failed

disk == <<clone, head, tree, configured, built, torn>>
export == <<walk, at, graphs, spoiled>>
vars == <<disk, export, commit_hash, pc, use_git, needs_configure, mode>>

Ended == {"stopped", "returned", "panicked", "done"}

NoExport == walk' = <<>> /\ at' = 1 /\ graphs' = <<>> /\ spoiled' = {}

Init ==
  /\ clone = "none" /\ head = None /\ tree = None /\ torn = None
  /\ configured = None
  /\ built = [tree |-> None, configured |-> None]
  /\ commit_hash \in Commits
  /\ pc = "stopped"
  /\ use_git = FALSE /\ needs_configure = FALSE /\ mode = "search"
  /\ walk = <<>> /\ at = 1 /\ graphs = <<>> /\ spoiled = {}

-----------------------------------------------------------------------------
(* main: the arguments, and where the program goes when NS3 is set up. *)

Main == IF mode = "search" THEN "build" ELSE "read"

Start(git, m, w) ==
  /\ pc \in Ended
  /\ (m = "search" => w = <<>>) /\ (m = "one" => Len(w) = 1)
  /\ use_git' = git
  /\ needs_configure' = FALSE
  /\ mode' = m
  /\ walk' = w /\ at' = 1 /\ graphs' = <<>> /\ spoiled' = {}
  /\ pc' = IF git THEN "exists" ELSE Main'
  /\ UNCHANGED <<disk, commit_hash>>

\* Another version of the program is installed.
Upgrade ==
  /\ pc \in Ended
  /\ commit_hash' \in Commits \ {commit_hash}
  /\ pc' = "stopped"
  /\ NoExport
  /\ UNCHANGED <<disk, use_git, needs_configure, mode>>

-----------------------------------------------------------------------------
(* setup_repo *)

\* A clone that fails is removed by git.
CloneOrGoOn ==
  /\ pc = "exists"
  /\ IF clone # "none"
     THEN pc' = "rev_parse" /\ UNCHANGED <<disk, needs_configure>>
     ELSE \/ /\ clone' = "complete" /\ head' = Tip /\ tree' = Tip
             /\ UNCHANGED <<configured, built, torn>>
             /\ needs_configure' = TRUE
             /\ pc' = "rev_parse"
          \/ pc' = "returned" /\ UNCHANGED <<disk, needs_configure>>
  /\ UNCHANGED <<export, commit_hash, use_git, mode>>

\* Fault: the standard output of git is piped, and the hash read back.
CurrentHashRead == head

\* run_git_command: stdout is not piped, so that nothing is read back.
CurrentHash == None

\* git finds no HEAD in a partial clone.
RevParse ==
  /\ pc = "rev_parse"
  /\ \/ /\ clone = "complete"
        /\ pc' = IF CurrentHash # commit_hash THEN "checkout"
                 ELSE IF needs_configure THEN "configure" ELSE Main
     \/ pc' = "returned"
  /\ UNCHANGED <<disk, export, commit_hash, use_git, needs_configure, mode>>

\* git refuses to go to another commit over changed files, and keeps the
\* changes when it is there already.  A clone without files is filled in.
Checkout ==
  /\ pc = "checkout"
  /\ \/ /\ tree = Mixed => head = commit_hash
        /\ head' = commit_hash
        /\ tree' = IF tree = Mixed THEN Mixed ELSE commit_hash
        /\ needs_configure' = TRUE
        /\ pc' = "configure"
     \/ pc' = "returned" /\ UNCHANGED <<head, tree, needs_configure>>
  /\ UNCHANGED <<clone, configured, built, torn, export, commit_hash, use_git, mode>>

-----------------------------------------------------------------------------
(* run_waf_command; a failure is unwrapped, and so is the path if it is *)
(* absent.  A partial clone has no waf.                                 *)

Configure ==
  /\ pc = "configure"
  /\ \/ configured' = tree /\ pc' = Main
     \/ pc' = "panicked" /\ UNCHANGED configured
  /\ UNCHANGED <<clone, head, tree, built, torn, export, commit_hash, use_git, needs_configure, mode>>

Build ==
  /\ pc = "build"
  /\ \/ /\ clone = "complete" /\ configured # None
        /\ built' = [tree |-> tree, configured |-> configured]
        /\ pc' = "search"
     \/ pc' = "panicked" /\ UNCHANGED built
  /\ UNCHANGED <<clone, head, tree, configured, torn, export, commit_hash, use_git, needs_configure, mode>>

\* optimization::run, the module Optimizer.
Search ==
  /\ pc = "search"
  /\ pc' = "done"
  /\ UNCHANGED <<disk, export, commit_hash, use_git, needs_configure, mode>>

-----------------------------------------------------------------------------
(* re_export and re_export_all *)

\* The prefix is the directory of the file, or the one given for one file.
Prefix == IF mode = "one" THEN 0 ELSE walk[at].dir

Show(graph) ==
  LET old == IF Prefix \in DOMAIN graphs THEN graphs[Prefix] ELSE [hot_cold |-> 0, error_time |-> 0]
  IN  graphs' = [p \in DOMAIN graphs \cup {Prefix} |->
                   IF p = Prefix THEN [old EXCEPT ![graph] = at] ELSE graphs[p]]

\* Fault: an error leaves the loop over the files.
NextFileStops(error) ==
  IF error THEN pc' = (IF mode = "one" THEN "panicked" ELSE "done") /\ UNCHANGED at
           ELSE pc' = "read" /\ at' = at + 1

\* re_export_all reports an error and goes on; for one file it is unwrapped.
NextFile(error) ==
  IF error /\ mode = "one" THEN pc' = "panicked" /\ UNCHANGED at
                           ELSE pc' = "read" /\ at' = at + 1

Read ==
  /\ pc = "read"
  /\ IF at > Len(walk) THEN pc' = "done" /\ UNCHANGED at
     ELSE IF walk[at].kind = "bad" THEN NextFile(TRUE)
     ELSE pc' = "hot_cold" /\ UNCHANGED at
  /\ UNCHANGED <<disk, walk, graphs, spoiled, commit_hash, use_git, needs_configure, mode>>

\* Without runs RangeSmoother::new does not end.  An error of the drawing is
\* returned, with what was drawn in the file; if the file cannot be written
\* the program ends.
WriteHotCold ==
  /\ pc = "hot_cold"
  /\ walk[at].kind # "empty"
  /\ \/ Show("hot_cold") /\ pc' = "error_time" /\ UNCHANGED <<at, spoiled>>
     \/ Show("hot_cold") /\ NextFile(TRUE) /\ spoiled' = spoiled \cup {Prefix}
     \/ pc' = "panicked" /\ UNCHANGED <<at, graphs, spoiled>>
  /\ UNCHANGED <<disk, walk, commit_hash, use_git, needs_configure, mode>>

\* duration_since(start).unwrap() fails for an early run, with the picture as it
\* is by then.  Nobody sees that the file cannot be written.
WriteErrorTime ==
  /\ pc = "error_time"
  /\ IF walk[at].kind = "early"
     THEN Show("error_time") /\ pc' = "panicked" /\ UNCHANGED <<at, spoiled>>
     ELSE \/ Show("error_time") /\ NextFile(FALSE) /\ UNCHANGED spoiled
          \/ Show("error_time") /\ NextFile(TRUE) /\ spoiled' = spoiled \cup {Prefix}
          \/ NextFile(FALSE) /\ spoiled' = spoiled \cup {Prefix} /\ UNCHANGED graphs
  /\ UNCHANGED <<disk, walk, commit_hash, use_git, needs_configure, mode>>

-----------------------------------------------------------------------------
(* The process, or the program it waits for, is killed. *)

\* A clone may be killed before its HEAD can be read, or later, before it has
\* files.
Kill ==
  /\ pc \notin Ended
  /\ \/ UNCHANGED disk
     \/ /\ pc = "exists" /\ clone = "none"
        /\ \/ clone' = "partial" /\ UNCHANGED head
           \/ clone' = "complete" /\ head' = Tip
        /\ UNCHANGED <<tree, configured, built, torn>>
     \/ /\ pc = "checkout" /\ head # commit_hash /\ tree # None
        /\ tree' = Mixed /\ torn' = commit_hash
        /\ UNCHANGED <<clone, head, configured, built>>
     \/ /\ pc = "configure"
        /\ configured' = None
        /\ UNCHANGED <<clone, head, tree, built, torn>>
     \/ /\ pc = "build"
        /\ built' = [tree |-> None, configured |-> None]
        /\ UNCHANGED <<clone, head, tree, configured, torn>>
  /\ pc' = "stopped"
  /\ NoExport
  /\ UNCHANGED <<commit_hash, use_git, needs_configure, mode>>

Next ==
  \/ \E git \in BOOLEAN, m \in {"search", "one", "all"}, w \in Walks : Start(git, m, w)
  \/ Upgrade
  \/ CloneOrGoOn \/ RevParse \/ Checkout \/ Configure
  \/ Build \/ Search
  \/ Read \/ WriteHotCold \/ WriteErrorTime
  \/ Kill

Spec == Init /\ [][Next]_vars

-----------------------------------------------------------------------------
(* Properties. *)

\* A search that was started with --use-git runs the commit this version of
\* the program wants, built with a configuration made after that commit was
\* checked out, whenever earlier processes were killed.  The one exception: if
\* the checkout of another commit was killed halfway, git takes its mixed files
\* for changes and keeps them when the commit it left is wanted again.
BuiltFromWanted ==
  pc = "search" /\ use_git =>
    /\ head = commit_hash
    /\ built.configured = built.tree
    /\ \/ built.tree = commit_hash
       \/ built.tree = Mixed /\ torn \notin {None, commit_hash}

\* When a re-export has come to its end, both graphs of every directory show
\* the last file in it that can be drawn, whatever files before or after it
\* cannot be read, unless drawing or writing has failed there.
GraphsShowLastGood ==
  pc = "done" /\ mode # "search" =>
    \A p \in {IF mode = "one" THEN 0 ELSE walk[n].dir : n \in DOMAIN walk} \ spoiled :
      LET good == {n \in DOMAIN walk : /\ walk[n].kind = "good"
                                       /\ mode = "all" => walk[n].dir = p}
      IN  \A last \in good : (\A n \in good : n <= last) =>
            p \in DOMAIN graphs /\ graphs[p] = [hot_cold |-> last, error_time |-> last]

=============================================================================
