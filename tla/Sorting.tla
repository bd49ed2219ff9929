-------------------------------- MODULE Sorting --------------------------------
(* Orders of small sets, and subsequences by their indices.                *)
EXTENDS Integers, FiniteSets

(* The members of a small set, first those before(_, _) the others.        *)
Sorted(S, before(_, _)) ==
  [ n \in 1 .. Cardinality(S) |->
      CHOOSE x \in S : Cardinality({ y \in S : before(y, x) }) = n - 1 ]

(* The elements of a sequence at some of its indices, in their order.      *)
InOrder(s, I) ==
  LET order == Sorted(I, LAMBDA i, j : i < j) IN [ k \in DOMAIN order |-> s[order[k]] ]
=============================================================================
