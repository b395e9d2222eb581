------------------------------ MODULE Selection ------------------------------
(***************************************************************************)
(* Iterator::filter.  What is kept is given as a set and the recursion is  *)
(* a function's, so that ReadsProofs can reason about it, as it could not  *)
(* about SelectSeq, whose test is an operator.                             *)
(***************************************************************************)
EXTENDS Integers, Sequences

\* The elements of s that are in S, in their order.
Select(s, S) ==
  LET kept[n \in 0..Len(s)] ==
        IF n = 0 THEN <<>>
        ELSE IF s[n] \in S THEN Append(kept[n - 1], s[n]) ELSE kept[n - 1]
  IN  kept[Len(s)]
=============================================================================
