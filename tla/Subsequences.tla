----------------------------- MODULE Subsequences ----------------------------
(***************************************************************************)
(* Parts of a sequence, in a form that can be proved about as well as      *)
(* evaluated: SelectSeq with a set for the test.                           *)
(***************************************************************************)
EXTENDS Naturals, Sequences

\* The elements of s that are in S, in their order.
Kept(s, S) ==
  LET upTo[n \in 0 .. Len(s)] ==
        IF n = 0 THEN <<>>
        ELSE IF s[n] \in S THEN Append(upTo[n - 1], s[n]) ELSE upTo[n - 1]
  IN  upTo[Len(s)]
=============================================================================
