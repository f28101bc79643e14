------------------------------ MODULE Filtering ------------------------------
(***************************************************************************)
(* What a loop over a list keeps: the body of a loop that goes on to the   *)
(* next element or appends to its result, as in the GetDownwardData of all *)
(* plugins.  (SelectSeq, as a function that proofs can open.)              *)
(***************************************************************************)
EXTENDS Integers, Sequences

\* The elements of s at the indices in K, in their order
Filter(s, K) ==
  LET kept[n \in 0 .. Len(s)] ==
        IF n = 0 THEN <<>>
        ELSE IF n \in K THEN Append(kept[n - 1], s[n]) ELSE kept[n - 1]
  IN  kept[Len(s)]

=============================================================================
