---------------------------- MODULE MCGameScreen ----------------------------
(***************************************************************************)
(* One game and a few screens, which are interchangeable if they may all   *)
(* send the same number of commands.                                       *)
(***************************************************************************)
EXTENDS GameScreen, TLC

CONSTANTS g1, s1, s2

OneEach == [s \in Sockets |-> 1]
OneWatches == [s \in Sockets |-> IF s = s1 THEN 1 ELSE 0]

ScreenSymmetry == Permutations(Sockets)
=============================================================================
