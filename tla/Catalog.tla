------------------------------ MODULE Catalog ------------------------------
(***************************************************************************)
(* The fixed data of the game: the 90 development cards, the ten nobles    *)
(* and the setup for each number of players.  A card is its position in    *)
(* DEVELOPMENT_CARDS and a noble its number; the tuples are points and the *)
(* cost in diamond, sapphire, emerald, ruby and onyx.                      *)
(***************************************************************************)
EXTENDS Economy, Sequences, SequencesExt

Gems(d, s, e, r, o) ==
  [diamond |-> d, sapphire |-> s, emerald |-> e, ruby |-> r, onyx |-> o]

Entry(tier, bonus, row) ==
  [tier |-> tier, bonus |-> bonus, points |-> row[1],
   cost |-> Gems(row[2], row[3], row[4], row[5], row[6])]
Entries(tier, bonus, rows) == [i \in DOMAIN rows |-> Entry(tier, bonus, rows[i])]

OnyxTier1 == Entries(1, "onyx", <<
  <<0, 1, 1, 1, 1, 0>>, <<0, 1, 2, 1, 1, 0>>, <<0, 2, 2, 0, 1, 0>>,
  <<0, 0, 0, 1, 3, 1>>, <<0, 0, 0, 2, 1, 0>>, <<0, 2, 0, 2, 0, 0>>,
  <<0, 0, 0, 3, 0, 0>>, <<1, 0, 4, 0, 0, 0>>>>)
SapphireTier1 == Entries(1, "sapphire", <<
  <<0, 1, 0, 1, 1, 1>>, <<0, 1, 0, 1, 2, 1>>, <<0, 1, 0, 2, 2, 0>>,
  <<0, 0, 1, 3, 1, 0>>, <<0, 1, 0, 0, 0, 2>>, <<0, 0, 0, 2, 0, 2>>,
  <<0, 0, 0, 0, 0, 3>>, <<1, 0, 0, 0, 4, 0>>>>)
DiamondTier1 == Entries(1, "diamond", <<
  <<0, 0, 1, 1, 1, 1>>, <<0, 0, 1, 2, 1, 1>>, <<0, 0, 2, 2, 0, 1>>,
  <<0, 3, 1, 0, 0, 1>>, <<0, 0, 0, 0, 2, 1>>, <<0, 0, 2, 0, 0, 2>>,
  <<0, 0, 3, 0, 0, 0>>, <<1, 0, 0, 4, 0, 0>>>>)
EmeraldTier1 == Entries(1, "emerald", <<
  <<0, 1, 1, 0, 1, 1>>, <<0, 1, 1, 0, 1, 2>>, <<0, 0, 1, 0, 2, 2>>,
  <<0, 1, 3, 1, 0, 0>>, <<0, 2, 1, 0, 0, 0>>, <<0, 0, 2, 0, 2, 0>>,
  <<0, 0, 0, 0, 3, 0>>, <<1, 0, 0, 0, 0, 4>>>>)
RubyTier1 == Entries(1, "ruby", <<
  <<0, 1, 1, 1, 0, 1>>, <<0, 2, 1, 1, 0, 1>>, <<0, 2, 0, 1, 0, 2>>,
  <<0, 1, 0, 0, 1, 3>>, <<0, 0, 2, 1, 0, 0>>, <<0, 2, 0, 0, 2, 0>>,
  <<0, 3, 0, 0, 0, 0>>, <<1, 4, 0, 0, 0, 0>>>>)
OnyxTier2 == Entries(2, "onyx", <<
  <<1, 3, 2, 2, 0, 0>>, <<1, 3, 0, 3, 0, 2>>, <<2, 0, 1, 4, 2, 0>>,
  <<2, 0, 0, 5, 3, 0>>, <<2, 5, 0, 0, 0, 0>>, <<3, 0, 0, 0, 0, 6>>>>)
SapphireTier2 == Entries(2, "sapphire", <<
  <<1, 0, 2, 2, 3, 0>>, <<1, 0, 2, 3, 0, 3>>, <<2, 5, 3, 0, 0, 0>>,
  <<2, 2, 0, 0, 1, 4>>, <<2, 0, 5, 0, 0, 0>>, <<3, 0, 6, 0, 0, 0>>>>)
DiamondTier2 == Entries(2, "diamond", <<
  <<1, 0, 0, 3, 2, 2>>, <<1, 2, 3, 0, 3, 0>>, <<2, 0, 0, 1, 4, 2>>,
  <<2, 0, 0, 0, 5, 3>>, <<2, 0, 0, 0, 5, 0>>, <<3, 6, 0, 0, 0, 0>>>>)
EmeraldTier2 == Entries(2, "emerald", <<
  <<1, 3, 0, 2, 3, 0>>, <<1, 2, 3, 0, 0, 2>>, <<2, 4, 2, 0, 0, 1>>,
  <<2, 0, 5, 3, 0, 0>>, <<2, 0, 0, 5, 0, 0>>, <<3, 0, 0, 6, 0, 0>>>>)
RubyTier2 == Entries(2, "ruby", <<
  <<1, 2, 0, 0, 2, 3>>, <<1, 0, 3, 0, 2, 3>>, <<2, 1, 4, 2, 0, 0>>,
  <<2, 3, 0, 0, 0, 5>>, <<2, 0, 0, 0, 0, 5>>, <<3, 0, 0, 0, 6, 0>>>>)
OnyxTier3 == Entries(3, "onyx", <<
  <<3, 3, 3, 5, 3, 0>>, <<4, 0, 0, 0, 7, 0>>, <<4, 0, 0, 3, 6, 3>>,
  <<5, 0, 0, 0, 7, 3>>>>)
SapphireTier3 == Entries(3, "sapphire", <<
  <<3, 3, 0, 3, 3, 5>>, <<4, 7, 0, 0, 0, 0>>, <<4, 6, 3, 0, 0, 3>>,
  <<5, 7, 3, 0, 0, 0>>>>)
DiamondTier3 == Entries(3, "diamond", <<
  <<3, 0, 3, 3, 5, 3>>, <<4, 0, 0, 0, 0, 7>>, <<4, 3, 0, 0, 3, 6>>,
  <<5, 3, 0, 0, 0, 7>>>>)
EmeraldTier3 == Entries(3, "emerald", <<
  <<3, 5, 3, 0, 3, 3>>, <<4, 0, 7, 0, 0, 0>>, <<4, 3, 6, 3, 0, 0>>,
  <<5, 0, 7, 3, 0, 0>>>>)
RubyTier3 == Entries(3, "ruby", <<
  <<3, 3, 5, 3, 0, 3>>, <<4, 0, 0, 7, 0, 0>>, <<4, 0, 3, 6, 3, 0>>,
  <<5, 0, 0, 7, 3, 0>>>>)

DevelopmentCards == FlattenSeq(<<
  OnyxTier1, SapphireTier1, DiamondTier1, EmeraldTier1, RubyTier1,
  OnyxTier2, SapphireTier2, DiamondTier2, EmeraldTier2, RubyTier2,
  OnyxTier3, SapphireTier3, DiamondTier3, EmeraldTier3, RubyTier3>>)
CardNumbers == DOMAIN DevelopmentCards

\* NOBLE_TILES: the bonuses each asks for.  Each is worth 3 points.
NobleTiles == <<
  Gems(3, 3, 3, 0, 0), Gems(3, 3, 0, 3, 0), Gems(3, 3, 0, 0, 3),
  Gems(3, 0, 3, 3, 0), Gems(3, 0, 3, 0, 3), Gems(3, 0, 0, 3, 3),
  Gems(0, 3, 3, 3, 0), Gems(0, 3, 3, 0, 3), Gems(0, 3, 0, 3, 3),
  Gems(0, 0, 3, 3, 3)>>

\* PLAYER_SETUP_BY_COUNT
PlayerSetupByCount(n) ==
  [gems |-> CASE n = 2 -> 4 [] n = 3 -> 5 [] n = 4 -> 7, gold |-> 5, nobles |-> n + 1]
=============================================================================
