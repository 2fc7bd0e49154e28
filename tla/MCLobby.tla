------------------------------ MODULE MCLobby ------------------------------
(***************************************************************************)
(* A few names, two ids for games, and users with and without white space  *)
(* around their name.                                                      *)
(***************************************************************************)
EXTENDS Lobby

CONSTANTS g1, g2, p1, p2, ann, kim, denied

CommandTypes == {"TAKE_TOKENS", "RESERVE_CARD", "BUY_CARD", "END_TURN"}
MCNames == {g1, g2, p1, p2, ann, kim, denied} \cup CommandTypes
MCDefaultPlayers == <<p1, p2>>
MCFreshIds == {g1, g2}
Padded(n) == [name |-> n, padded |-> TRUE]

\* What is typed: nothing, the second default player, a padded name, a name in
\* Korean, and one that is turned away.
MCTyped == {Blank, Plain(p2), Padded(ann), Plain(kim), Plain(denied)}
\* The second of two users has a name in Korean that is also turned away by
\* the login, but not by the lobby or an address.
MCTypedTwo == {Padded(ann), Plain(kim)}

\* Bodies: a list with white space and a blank, no list, three and four
\* players, some with an id of the client's; and what is refused: one player,
\* two who are the same but for white space, five.
Players5 == <<Plain(p1), Plain(p2), Padded(ann), Plain(kim), Plain(denied)>>
Body(id, players) == [gameId |-> id, playerIds |-> players]
MCBodies ==
  {Body(Undefined, <<Padded(p2), Blank, Plain(p1)>>), Body(Blank, Other),
   Body(Padded(g2), SubSeq(Players5, 1, 3)), Body(Plain(g1), SubSeq(Players5, 1, 4)),
   Body(Undefined, <<Plain(p1)>>), Body(Undefined, <<Plain(p1), Padded(p1)>>),
   Body(Other, Players5)}
OneBody == {[gameId |-> Undefined, playerIds |-> <<Plain(kim), Plain(ann)>>]}
=============================================================================
