----------------------------- MODULE SeqFilter ------------------------------
(***************************************************************************)
(* Loops of the form "for each item, if it passes a test, append it".      *)
(* Filter is SelectSeq in terms of which its results can be proved: what   *)
(* it selects is a set of indices, and Pick is a recursive function.       *)
(***************************************************************************)
EXTENDS Integers, Sequences

(* The elements of seq at the indices in I, in their order.                 *)
Pick(seq, I) ==
  LET picked[i \in 0..Len(seq)] ==
        IF i = 0 THEN <<>>
        ELSE IF i \in I THEN Append(picked[i - 1], seq[i]) ELSE picked[i - 1]
  IN  picked[Len(seq)]

Filter(seq, Test(_)) == Pick(seq, {i \in DOMAIN seq : Test(seq[i])})
=============================================================================
