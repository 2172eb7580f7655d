------------------------------- MODULE Retain -------------------------------
(***************************************************************************)
(* Vec::retain and VecDeque::retain of the Rust library: SelectSeq with a  *)
(* set for a test, written as a recursive function because the prover can  *)
(* reason about no other recursion.                                        *)
(***************************************************************************)
EXTENDS Integers, Sequences

(* The elements of seq that are in keep, in their order. *)
Retain(seq, keep) ==
  LET upTo[i \in 0..Len(seq)] ==
        IF i = 0 THEN <<>>
        ELSE IF seq[i] \in keep THEN Append(upTo[i - 1], seq[i]) ELSE upTo[i - 1]
  IN  upTo[Len(seq)]

=============================================================================
