------------------------------ MODULE MCTenancy ------------------------------
(* Instances of Tenancy for TLC. *)
EXTENDS Tenancy, TLC

CONSTANTS u1, u2, e1, e2, o1, o2, o3, t1, t2, c1, c2, i1, i2, k1, k2

MCKeyScopes == {{"*"}, {"api_keys:write"}}

Symmetry == Permutations({c1, c2}) \cup Permutations({o2, o3}) \cup Permutations({k1, k2})
=============================================================================
