------------------------------ MODULE Economy ------------------------------
(***************************************************************************)
(* The token economy: what domain/economy/economy.policy.ts of the rule    *)
(* engine accepts, and the wallets it returns.  Nothing here has state;    *)
(* RuleEngine decides with these operators which commands take effect.     *)
(*                                                                         *)
(* A wallet is a function from the six colours to numbers.  The amounts    *)
(* of a command come from a client, so they are arbitrary integers until   *)
(* IsTokenRecord has accepted them.                                        *)
(***************************************************************************)
EXTENDS Integers, FiniteSets

CONSTANTS
  PlayerTokenLimit   \* PLAYER_TOKEN_LIMIT, 10 in the code

ASSUME PlayerTokenLimitAssumption == PlayerTokenLimit \in Nat

GemColors == {"diamond", "sapphire", "emerald", "ruby", "onyx"}
TokenColors == GemColors \cup {"gold"}

\* A double take leaves at least two tokens of the colour in the bank.
DoubleTakeBankMinimum == 4

Wallet == [TokenColors -> Nat]
NoTokens == [c \in TokenColors |-> 0]

\* The sums the code writes as a reduce over GEM_COLORS and TOKEN_COLORS.
SumGems(f) ==
  f["diamond"] + f["sapphire"] + f["emerald"] + f["ruby"] + f["onyx"]
CountPlayerTokens(w) == SumGems(w) + w["gold"]

\* normalizeTokenRecord: every amount is a natural number.
IsTokenRecord(r) == \A c \in DOMAIN r : r[c] >= 0

WalletSum(a, b) == [c \in TokenColors |-> a[c] + b[c]]
WalletDifference(a, b) == [c \in TokenColors |-> a[c] - b[c]]

-----------------------------------------------------------------------------
(* applyTokenDeltaWithLimit: tokens gained from the bank, and tokens given *)
(* back at once when the player would hold too many.                       *)

WalletAfterDelta(wallet, gained, returned) ==
  [c \in TokenColors |-> wallet[c] + gained[c] - returned[c]]
BankWithoutReturns(bank, gained, returned) ==
  [c \in TokenColors |-> bank[c] - gained[c]]
BankAfterDelta(bank, gained, returned) ==
  [c \in TokenColors |-> bank[c] - gained[c] + returned[c]]

TokenDeltaOverLimit(wallet, bank, gained, returned) ==
  /\ IsTokenRecord(returned)
  /\ \A c \in TokenColors :
       gained[c] <= bank[c] /\ returned[c] <= wallet[c] + gained[c]
  /\ CountPlayerTokens(wallet) <= PlayerTokenLimit
TokenDeltaAllowed(wallet, bank, gained, returned) ==
  /\ IsTokenRecord(gained)
  /\ IsTokenRecord(returned)
  /\ \/ CountPlayerTokens(wallet) + CountPlayerTokens(gained) > PlayerTokenLimit
     \/ CountPlayerTokens(returned) = 0
  /\ \A c \in TokenColors : gained[c] <= bank[c]
  /\ \A c \in TokenColors : returned[c] <= wallet[c] + gained[c]
  /\ CountPlayerTokens(WalletAfterDelta(wallet, gained, returned)) <= PlayerTokenLimit

-----------------------------------------------------------------------------
(* evaluateTakeTokens.                                                     *)

PickedColors(requested) == {c \in GemColors : requested[c] > 0}

\* One token of each of three colours, or two tokens of one colour.
IsValidTakePattern(requested) ==
  \/ /\ Cardinality(PickedColors(requested)) = 3
     /\ \A c \in PickedColors(requested) : requested[c] = 1
  \/ \E c \in GemColors : PickedColors(requested) = {c} /\ requested[c] = 2

\* The gems of a request as an amount of tokens: gold is never taken this way.
AsTokens(requested) ==
  [c \in TokenColors |-> IF c \in GemColors THEN requested[c] ELSE 0]

TakeTokensAllowed(wallet, bank, requested, returned) ==
  /\ IsTokenRecord(requested)
  /\ IsValidTakePattern(requested)
  /\ \A c \in GemColors : requested[c] = 2 => bank[c] >= DoubleTakeBankMinimum
  /\ TokenDeltaAllowed(wallet, bank, AsTokens(requested), returned)

-----------------------------------------------------------------------------
(* evaluateBuyPayment: bonuses reduce the price of each colour, a colour is *)
(* never overpaid, and gold pays exactly what the colours leave open.       *)

RequiredGems(cost, bonuses) ==
  [c \in GemColors |-> IF cost[c] > bonuses[c] THEN cost[c] - bonuses[c] ELSE 0]

GoldNeeded(cost, bonuses, payment) ==
  SumGems([c \in GemColors |-> RequiredGems(cost, bonuses)[c] - payment[c]])

BuyPaymentAllowed(wallet, bonuses, cost, payment) ==
  /\ IsTokenRecord(payment)
  /\ \A c \in TokenColors : payment[c] <= wallet[c]
  /\ \A c \in GemColors : payment[c] <= RequiredGems(cost, bonuses)[c]
  /\ payment["gold"] = GoldNeeded(cost, bonuses, payment)

=============================================================================
