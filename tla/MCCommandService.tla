-------------------------- MODULE MCCommandService --------------------------
(***************************************************************************)
(* One game and a handful of commands: two rivals for version 1, one of    *)
(* which ends the game, a command for the version after the other, one     *)
(* that reuses a key, one without a key, one the rule engine refuses, and  *)
(* one for a game that has ended.                                          *)
(***************************************************************************)
EXTENDS CommandService

CONSTANTS g1, h1, h2, h3, h4, take, buy, finish, reuse, blank, illegal, late

MCGameOf == [h \in Calls |-> g1]
MCKey == [m \in Commands |->
  CASE m = take -> 1 [] m = finish -> 2 [] m = buy -> 3 [] m = reuse -> 1
    [] m = blank -> NoKey [] m = illegal -> 4 [] OTHER -> 5]
MCExpected == [m \in Commands |-> 
  IF m \in {buy, reuse} THEN 2 ELSE IF m = late THEN 3 ELSE 1]
MCEffect == [m \in Commands |->
  CASE m = finish -> "finish" [] m = illegal -> "refused" [] OTHER -> "move"]
=============================================================================
