------------------------------ MODULE MCArchive -----------------------------
(* ArchiveRestore on small sets, for TLC. *)
EXTENDS ArchiveRestore, TLC

CONSTANTS r1, r2

OneRun  == {r1}
TwoRuns == {r1, r2}

(* A directory is named by a run. *)
OwnDirs == [r \in Runs |-> r]
SameDir == [r \in Runs |-> "."]

(* Runs that share a directory are interchangeable, and so are runs that *)
(* have directories of their own.                                        *)
Sym == Permutations(Runs)
=============================================================================
