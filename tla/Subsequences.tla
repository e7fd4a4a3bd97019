---------------------------- MODULE Subsequences ----------------------------
(***************************************************************************)
(* The elements of a sequence that lie in a set, in their order.  This is  *)
(* SelectSeq for a set in place of an operator, as a recursive function    *)
(* that the proofs of Subsequences_proofs can reason about.                *)
(***************************************************************************)
EXTENDS Naturals, Sequences

Kept(s, A) ==
  LET upTo[i \in 0..Len(s)] ==
        IF i = 0 THEN <<>>
        ELSE IF s[i] \in A THEN Append(upTo[i - 1], s[i]) ELSE upTo[i - 1]
  IN  upTo[Len(s)]

=============================================================================
