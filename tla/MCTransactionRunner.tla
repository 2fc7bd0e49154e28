------------------------- MODULE MCTransactionRunner ------------------------
(***************************************************************************)
(* Three calls of run for one game and one for another.                    *)
(***************************************************************************)
EXTENDS TransactionRunner
CONSTANTS g1, g2, a, b, c, d
MCGameOf == [x \in Calls |-> IF x = d THEN g2 ELSE g1]
=============================================================================
