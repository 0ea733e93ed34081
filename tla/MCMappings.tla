----------------------------- MODULE MCMappings -----------------------------
(* Mappings of two queries.                                                *)
EXTENDS Mappings

CONSTANTS q1, q2, w1, w2
=============================================================================
