----------------------------- MODULE MCBobCore ------------------------------
(* Three requests in one life of Bob: enough for a call that passes, one that *)
(* is challenged or stranded, and one that arrives around the timer.          *)
EXTENDS BobCore, TLC

CONSTANTS r1, r2, r3

MCReqs == {r1, r2, r3}
Symmetry == Permutations(MCReqs)
=============================================================================
