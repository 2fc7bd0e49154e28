----------------------------- MODULE MCEndgame ------------------------------
(***************************************************************************)
(* Three players and cards that cost one diamond each, so that the final   *)
(* round, ties and the end of the game come within a few commands.         *)
(***************************************************************************)
EXTENDS RuleEngine

CONSTANTS alice, bob, carol

MCPlayerOrder == <<alice, bob, carol>>

Gems(d) == [c \in GemColors |-> IF c = "diamond" THEN d ELSE 0]
Tokens(d) == [c \in TokenColors |-> IF c = "diamond" THEN d ELSE 0]

\* Card 3 alone reaches the target; so do cards 1 and 2 together.
MCCards == 1 .. 5
MCCardTier == [c \in MCCards |-> 1]
MCCardCost == [c \in MCCards |-> Gems(1)]
MCCardBonus == [c \in MCCards |-> "onyx"]
MCCardPoints == <<1, 1, 2, 2, 2>>
MCFaceUp == <<{1, 2, 3}>>

MCSupply == Tokens(8)
MCRequests == {Gems(2)}
MCReturns == {Tokens(0)}
MCPayments == {Tokens(1)}

NoNobles == [n \in {} |-> Gems(0)]
=============================================================================
