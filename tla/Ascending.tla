----------------------------- MODULE Ascending ------------------------------
(* What the sorts of the code leave (sort.Slice, sort.Ints): the numbers of  *)
(* a set one after the other. A number is found by how many lie below it, a  *)
(* definition that can be unfolded in a proof, other than SetToSortSeq.      *)
EXTENDS SequencesExt

InOrder(S) ==
    [k \in 1..Cardinality(S) |-> CHOOSE x \in S : Cardinality({y \in S : y < x}) = k - 1]
=============================================================================
