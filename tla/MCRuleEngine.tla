---------------------------- MODULE MCRuleEngine ----------------------------
(***************************************************************************)
(* Small games and their logs for TLC.  Three gem colours and gold are in  *)
(* play, the other two have no tokens; the limits of the code are scaled   *)
(* down so that a few commands reach them.                                 *)
(***************************************************************************)
EXTENDS GameHistory

CONSTANTS alice, bob

MCPlayerOrder == <<alice, bob>>

Gems(d, s, e) == [c \in GemColors |->
  CASE c = "diamond" -> d [] c = "sapphire" -> s [] c = "emerald" -> e [] OTHER -> 0]
Tokens(d, s, e, g) == [c \in TokenColors |->
  IF c = "gold" THEN g ELSE Gems(d, s, e)[c]]

\* Cards 1 to 3 are the deck of tier 1, card 4 is all of tier 2.
MCCards == 1 .. 4
MCCardTier == <<1, 1, 1, 2>>
MCCardCost == <<Gems(1, 0, 0), Gems(1, 1, 0), Gems(0, 1, 1), Gems(2, 0, 1)>>
MCCardBonus == <<"diamond", "diamond", "sapphire", "emerald">>
MCCardPoints == <<0, 1, 1, 2>>
MCFaceUp == <<{1, 2}, {4}>>
MCNobleRequirement == <<Gems(1, 0, 0), Gems(1, 0, 0)>>

MCSupply == Tokens(4, 2, 2, 1)

\* Valid requests, and one for each way a request can be refused.
MCRequests ==
  {Gems(1, 1, 1), Gems(2, 0, 0), Gems(0, 2, 0), Gems(1, 1, 0), Gems(3, -1, 0)}
MCReturns ==
  {Tokens(0, 0, 0, 0), Tokens(1, 0, 0, 0), Tokens(0, 1, 0, 0), Tokens(0, 1, 1, 0),
   Tokens(0, 0, 0, 1), Tokens(-1, 1, 0, 0)}
MCPayments ==
  {Tokens(d, s, e, g) : d \in 0 .. 2, s \in 0 .. 1, e \in 0 .. 1, g \in 0 .. 1}
=============================================================================
