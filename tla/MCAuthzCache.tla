---------------------------- MODULE MCAuthzCache ----------------------------
(* AuthzCache on one user, one group, one collection and two processes.    *)
EXTENDS AuthzCache, TLC

CONSTANTS u1, g1, c1, p1, p2

Processes == {p1, p2}
ProcessSymmetry == Permutations(Processes)
=============================================================================
