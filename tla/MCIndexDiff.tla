----------------------------- MODULE MCIndexDiff -----------------------------
(* IndexDiff for every pair of subsets of a few ids, in batches of two.    *)
EXTENDS IndexDiff

MCIds == 1..6
=============================================================================
