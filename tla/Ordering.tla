------------------------------ MODULE Ordering ------------------------------
(***************************************************************************)
(* What ORDER BY and LIMIT select of a finite set of rows, under an order  *)
(* given as the set of the pairs <<x, y>> in which x comes before y.       *)
(***************************************************************************)
EXTENDS Naturals, FiniteSets, Sequences

Preceding(x, S, before) == {y \in S : <<y, x>> \in before}

(* ORDER BY: the rows, each as far back as rows come before it.            *)
OrderBy(S, before) ==
  [i \in 1..Cardinality(S) |->
    CHOOSE x \in S : Cardinality(Preceding(x, S, before)) = i - 1]

(* ORDER BY ... LIMIT n, as a set.                                         *)
Limited(S, before, n) == {x \in S : Cardinality(Preceding(x, S, before)) < n}

(* The natural order of positions and of ids.                              *)
Ascending(N) == {p \in N \X N : p[1] < p[2]}

(* A slice seq[:n], or LIMIT n of what is ordered.                         *)
FirstOf(seq, n) == SubSeq(seq, 1, IF Len(seq) > n THEN n ELSE Len(seq))
=============================================================================
