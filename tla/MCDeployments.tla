----------------------------- MODULE MCDeployments -----------------------------
(***************************************************************************)
(* Instances of Deployments for TLC: one app, two commits, so that a build *)
(* of the wrong one shows, and up to two replicas.                         *)
(***************************************************************************)
EXTENDS Deployments, TLC

CONSTANTS a1, c1, c2, p1, p2

\* Nothing tells the commits, or the replicas, apart.
Symmetry == Permutations({c1, c2}) \union Permutations({p1, p2})

=============================================================================
