---------------------------- MODULE MCAdmission ----------------------------
(***************************************************************************)
(* Two players and a stranger.  Every field of a payload takes every kind  *)
(* of value, in a request that is right otherwise; so does every field of  *)
(* the envelope, and every path comes with every header.                   *)
(***************************************************************************)
EXTENDS Admission

CONSTANTS g1, g2, p1, p2, p3, key, card

CommandTypes == {"TAKE_TOKENS", "RESERVE_CARD", "BUY_CARD", "END_TURN"}
MCNames == {g1, g2, p1, p2, p3, key, card} \cup CommandTypes
MCDefaultPlayers == <<p1, p2>>
MCSeats == <<p1, p2>>

Padded(n) == [name |-> n, padded |-> TRUE]
NoText == {Undefined, Other, Blank}

MCPaths == {Plain(g1), Plain(g2), Padded(g1)}
MCHeaders == {Undefined, Blank, Plain(p1), Plain(p2), Plain(p3)}

Optional == {Undefined, Other, Object}
CardIds == {Undefined, Blank, Plain(card)}
TierValues == {Undefined, 0, 1, 3, 4}
Payloads == [
  TAKE_TOKENS |-> [tokens : Optional, returnedTokens : Optional],
  RESERVE_CARD |->
    [takeGoldToken : {Undefined, TRUE}, returnedTokens : {Undefined, Other},
     target : {Other, Object} \cup
       [kind : {"OPEN_CARD", "DECK_TOP", "CLOSED"}, cardId : CardIds, tier : TierValues]],
  BUY_CARD |->
    [payment : Optional, source : {Other, Object} \cup
       [kind : {"OPEN_MARKET", "RESERVED", "DECK_TOP"}, cardId : CardIds]],
  END_TURN |-> [reason : {Undefined, "MANUAL", "RECOVERY", "TIMEOUT"}]]

Good(type, payload, actor, version) ==
  [type |-> Plain(type), gameId |-> Plain(g1), actorId |-> Plain(actor),
   expectedVersion |-> version, idempotencyKey |-> Plain(key), payload |-> payload]

AGoodPayload == [
  TAKE_TOKENS |-> [tokens |-> Object, returnedTokens |-> Undefined],
  RESERVE_CARD |-> [takeGoldToken |-> TRUE, returnedTokens |-> Undefined,
                    target |-> [kind |-> "DECK_TOP", cardId |-> Undefined, tier |-> 1]],
  BUY_CARD |-> [payment |-> Object, source |-> [kind |-> "RESERVED", cardId |-> Plain(card)]],
  END_TURN |-> [reason |-> "MANUAL"]]

Right(c) == [path |-> Plain(g1), header |-> c.actorId, command |-> c]
Typed == [type : CommandTypes, actor : {p1, p2}, version : 1 .. 3]
GoodCommands == {Good(x.type, AGoodPayload[x.type], x.actor, x.version) : x \in Typed}

AnyPayload ==
  UNION {{Right(Good(x.type, p, x.actor, x.version)) : p \in Payloads[x.type]} : x \in Typed}

Wrong(c) ==
  {[c EXCEPT !.type = x] : x \in NoText \cup {Plain(key), Padded("END_TURN")}}
  \cup {[c EXCEPT !.gameId = x] : x \in NoText \cup {Plain(g2), Padded(g1)}}
  \cup {[c EXCEPT !.actorId = x] : x \in NoText \cup {Plain(p3), Padded(p1)}}
  \cup {[c EXCEPT !.expectedVersion = x] : x \in {Undefined, Other, Fraction, -1, 0}}
  \cup {[c EXCEPT !.idempotencyKey = x] : x \in NoText}
  \cup {[c EXCEPT !.payload = x] : x \in {Undefined, Other, Object}}
AnyEnvelope == UNION {{Right(w) : w \in Wrong(c)} : c \in GoodCommands}

AnyRoute == [path : MCPaths, header : MCHeaders, command : GoodCommands]
NoCommand == [path : MCPaths, header : MCHeaders, command : {Undefined, Other}]

MCRequests == AnyPayload \cup AnyEnvelope \cup AnyRoute \cup NoCommand
=============================================================================
