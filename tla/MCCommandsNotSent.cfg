SPECIFICATION Spec
CONSTANTS
  PlayerTokenLimit = 10
  Undefined = Undefined
  Other = Other
  Blank = Blank
  Fraction = Fraction
  Object = Object
  g1 = g1
  g2 = g2
  p1 = p1
  p2 = p2
  ann = ann
  kim = kim
  denied = denied
  Names <- MCNames
  DefaultPlayers <- MCDefaultPlayers
  FreshIds <- MCFreshIds
  Denied = {denied}
  NotLatin = {kim}
  MockAuth = TRUE
  Typed <- MCTyped
  ApiBodies <- OneBody
  MaxRequests = 1
  MaxVersion = 2
INVARIANTS CommandsAreSent
CHECK_DEADLOCK FALSE
