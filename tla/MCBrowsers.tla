----------------------------- MODULE MCBrowsers -----------------------------
(* Instances of Browsers for TLC. *)
EXTENDS Browsers, TLC

CONSTANTS r1, r2, o1, o2, x1, s1, s2, p1, p2, c1, c2

MCRunOrg == [x \in Runs |-> o1]
MCDesks == {<<o1, r2>>, <<o2, r1>>}
MCRunHost == [x \in Runs |-> r1]
=============================================================================
