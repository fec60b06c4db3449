-------------------------- MODULE MCMutationArbiter --------------------------
(* Small instances of the arbiter for TLC.                                 *)
EXTENDS MutationArbiter

CONSTANTS r1, r2, r3, k1, k2

MCRequests == {r1, r2, r3}
MCTwoRequests == {r1, r2}
MCKeys == {k1, k2}
MCOneKey == {k1}
MCKeySymmetry == Permutations(MCRequests) \cup Permutations(MCKeys)
=============================================================================
