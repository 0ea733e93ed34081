----------------------------- MODULE MCProfiles -----------------------------
(* Profiles of a collection, on three entities, and the symmetries of the  *)
(* two that are both its own or both not.                                  *)
EXTENDS Profiles, TLC

CONSTANTS e1, e2, e3, r1, r2

Entities == {e1, e2, e3}
OneOwn == {e1}
TwoOwn == {e1, e2}
Symmetry == Permutations(Entities \ OneOwn) \cup Permutations(Process)
=============================================================================
