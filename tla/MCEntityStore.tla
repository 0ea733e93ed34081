---------------------------- MODULE MCEntityStore ----------------------------
(* EntityStore for a company and an ownership that refers to it.  Requests *)
(* are alike, so that states that differ in their names only are the same. *)
EXTENDS EntityStore, TLC

CONSTANTS company, ownership, r1, r2

Entities == {company, ownership}
RefersTo == [e \in Entities |-> IF e = ownership THEN {company} ELSE {}]
Alike == Permutations(Request)
=============================================================================
