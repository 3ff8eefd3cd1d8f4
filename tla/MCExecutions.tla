----------------------------- MODULE MCExecutions -----------------------------
(***************************************************************************)
(* Instances of Executions for TLC: one app with two builds, so that a     *)
(* wrong pin shows, and up to two replicas.                                *)
(***************************************************************************)
EXTENDS Executions, TLC

CONSTANTS a1, b1, b2, p1, p2

MCAppOf == [b \in Builds |-> a1]

\* Nothing tells the builds of an app, or the replicas, apart.
Symmetry == Permutations({b1, b2}) \union Permutations({p1, p2})

=============================================================================
