------------------------------ MODULE RowOrder ------------------------------
(* ORDER BY and LIMIT over a set of rows.                                   *)
EXTENDS Integers, Sequences, FiniteSets

\* The rows of S, each after the rows that are Before it (a strict total order).
InOrder(S, Before(_, _)) ==
  [n \in 1..Cardinality(S) |->
     CHOOSE c \in S : Cardinality({d \in S : Before(d, c)}) = n - 1]

Limit(s, k) == SubSeq(s, 1, IF k < Len(s) THEN k ELSE Len(s))

Clamp(k, lo, hi) == IF k < lo THEN lo ELSE IF k > hi THEN hi ELSE k
=============================================================================
