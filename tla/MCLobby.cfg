SPECIFICATION Spec
CONSTANTS
  PlayerTokenLimit = 10
  Undefined = Undefined
  Other = Other
  Blank = Blank
  Fraction = Fraction
  Object = Object
  g1 = g1
  g2 = g2
  p1 = p1
  p2 = p2
  ann = ann
  kim = kim
  denied = denied
  Names <- MCNames
  DefaultPlayers <- MCDefaultPlayers
  FreshIds <- MCFreshIds
  Denied = {kim}
  NotLatin = {kim}
  MockAuth = TRUE
  Typed <- MCTypedTwo
  ApiBodies <- MCBodies
  MaxRequests = 1
  MaxVersion = 2
INVARIANTS LobbyInv GamesStartAsRulesAssume
PROPERTIES GamesNeverReplaced
CHECK_DEADLOCK FALSE
