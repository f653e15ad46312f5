------------------------------- MODULE MCFetch ------------------------------
(* Fetch on small sets, for TLC. *)
EXTENDS Fetch, TLC

CONSTANTS r1, r2, v1, v2

(* Every backend without a sidecar, where the plan of a Get differs. With *)
(* one, http differs from a staged directory only in what file adds to it. *)
EveryArtifact == ({"gcs", "http", "file"} \X {FALSE}) \cup ({"gcs", "file"} \X {TRUE})

(* Runs are interchangeable, and so are versions: nothing orders them. *)
Sym == Permutations(Runs) \cup Permutations(Versions)
=============================================================================
