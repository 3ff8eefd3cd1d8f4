------------------------------ MODULE Extrema ------------------------------
(* What the proofs need about greatest elements. *)
EXTENDS Naturals, WellFoundedInduction, TLAPS

\* A number that is bounded over a set is greatest somewhere in it.
LEMMA Greatest ==
    ASSUME NEW S, S # {}, NEW N \in Nat, NEW f, \A x \in S : f[x] \in 0..N
    PROVE  \E x \in S : \A y \in S : f[y] <= f[x]
    <1> DEFINE T == {N - f[x] : x \in S}
    <1>1. T \subseteq Nat /\ T # {}
        OBVIOUS
    <1> HIDE DEF T
    <1>2. PICK t \in T : \A u \in T : ~(<<u, t>> \in OpToRel(<, Nat))
        <2>1. IsWellFoundedOn(OpToRel(<, Nat), Nat)
            BY NatLessThanWellFounded
        <2>2. QED
            BY <1>1, <2>1, WFMin, Zenon
    <1>3. \A u \in T : ~(u < t)
        BY <1>1, <1>2 DEF OpToRel
    <1>4. PICK x \in S : t = N - f[x]
        BY DEF T
    <1>5. ASSUME NEW y \in S PROVE f[y] <= f[x]
        <2>1. N - f[y] \in T
            BY DEF T
        <2>2. ~(N - f[y] < N - f[x])
            BY <1>3, <1>4, <2>1
        <2>3. f[x] \in 0..N /\ f[y] \in 0..N
            OBVIOUS
        <2>4. QED
            BY <2>2, <2>3
    <1>6. QED
        BY <1>5

=============================================================================
