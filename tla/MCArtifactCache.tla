---------------------------- MODULE MCArtifactCache ----------------------------
(***************************************************************************)
(* Instances of ArtifactCache for TLC: a big artifact, which fills the     *)
(* budget alone or exceeds it, and small ones.                             *)
(***************************************************************************)
EXTENDS ArtifactCache, TLC

CONSTANTS k1, k2, big, p1, p2

MCSize == [k \in Keys |-> IF k = big THEN 2 ELSE 1]

\* Nothing tells the small artifacts, or the goroutines, apart.
Symmetry == Permutations({k1, k2} \intersect Keys) \union Permutations(Procs)

=============================================================================
