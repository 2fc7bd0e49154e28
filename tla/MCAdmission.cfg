SPECIFICATION AdmissionSpec
CONSTANTS
  PlayerTokenLimit = 10
  Undefined = Undefined
  Other = Other
  Blank = Blank
  Fraction = Fraction
  Object = Object
  g1 = g1
  g2 = g2
  p1 = p1
  p2 = p2
  p3 = p3
  key = key
  card = card
  Names <- MCNames
  DefaultPlayers <- MCDefaultPlayers
  Game = g1
  Seats <- MCSeats
  Requests <- MCRequests
  MaxGameVersion = 4
INVARIANTS TransitionsGetCommands
PROPERTIES OnlyTheCurrentPlayerMoves
CHECK_DEADLOCK FALSE
