------------------------------- MODULE UiLists -------------------------------
(***************************************************************************)
(* The lists of the pages that UiEditors and UiScreens compose: what is    *)
(* left of one when some of its elements are left out                      *)
(* (Array.prototype.filter), by the place each of them takes.  The         *)
(* definitions from SequencesExt and FiniteSetsExt are repeated here       *)
(* because each page is an instance, and brings with it a copy of          *)
(* everything that it extends.                                             *)
(***************************************************************************)
EXTENDS Integers, Sequences, FiniteSets

ToSet(s) == {s[i] : i \in DOMAIN s}

SetToSeq(S) ==
  CHOOSE s \in [1..Cardinality(S) -> S] :
    \A i, j \in DOMAIN s : s[i] = s[j] => i = j

RemoveAt(s, i) == SubSeq(s, 1, i - 1) \o SubSeq(s, i + 1, Len(s))

Min(S) == CHOOSE m \in S : \A n \in S : m <= n
Max(S) == CHOOSE m \in S : \A n \in S : m >= n

Reverse(s) == [i \in 1..Len(s) |-> s[Len(s) + 1 - i]]

AllDiffer(s) == \A i, j \in DOMAIN s : s[i] = s[j] => i = j

\* The first place of x, or 0.
IndexOf(s, x) ==
  IF x \in ToSet(s) THEN Min({i \in DOMAIN s : s[i] = x}) ELSE 0

\* Array.prototype.reduce.
FoldLeft(op(_, _), base, s) ==
  LET folded[i \in 0..Len(s)] == IF i = 0 THEN base ELSE op(folded[i - 1], s[i])
  IN folded[Len(s)]

Positions(s, S) == {i \in DOMAIN s : s[i] \in S}

\* How many of the positions are no later than i.
Rank(P, i) == Cardinality({j \in P : j <= i})

\* The elements of s that are in S, in their order.
Filtered(s, S) ==
  LET P == Positions(s, S)
  IN [k \in 1..Cardinality(P) |-> s[CHOOSE i \in P : Rank(P, i) = k]]
=============================================================================
