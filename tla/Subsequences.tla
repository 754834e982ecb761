---------------------------- MODULE Subsequences ----------------------------
(* What a loop leaves that appends the elements it wants to another slice:   *)
(* those at some places of a sequence, in their order. Unlike SelectSeq the  *)
(* definition can be unfolded in a proof.                                    *)
EXTENDS Naturals, Sequences

Subsequence(s, places) ==
    LET upTo[k \in 0..Len(s)] ==
          IF k = 0 THEN <<>>
          ELSE IF k \in places THEN Append(upTo[k-1], s[k]) ELSE upTo[k-1]
    IN  upTo[Len(s)]
=============================================================================
