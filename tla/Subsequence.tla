----------------------------- MODULE Subsequence -----------------------------
(***************************************************************************)
(* Filtering a sequence, as the iterators over the op-log and over the     *)
(* change log do, stated by indexes and without recursion.                 *)
(***************************************************************************)
EXTENDS Integers, Sequences, FiniteSets

(* The elements of s at the indexes I, in the order of s: the k-th of them  *)
(* is at the index that k indexes of I do not exceed.                       *)
Selected(s, I) ==
  [k \in 1..Cardinality(I) |->
     s[CHOOSE i \in I : Cardinality({j \in I : j <= i}) = k]]

=============================================================================
