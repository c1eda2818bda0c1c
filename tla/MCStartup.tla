----------------------------- MODULE MCStartup -----------------------------
EXTENDS Startup

CONSTANTS Dirs, MaxFiles

MCFile == [dir : Dirs, kind : {"good", "bad", "empty", "early"}]
MCWalks == UNION {[1 .. n -> MCFile] : n \in 0 .. MaxFiles - 1}
           \cup [1 .. MaxFiles -> {f \in MCFile : f.kind = "good" \/ (f.kind = "bad" /\ f.dir = 1)}]

=============================================================================
