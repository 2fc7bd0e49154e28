CONSTANTS
  Games = {g1, g2}
  NoGame = NoGame
  Sockets = {s1, s2}
  NoSocket = NoSocket
  Connections = {}
  MaxVersion = 2
  MaxSent = 6
  Faults = TRUE
  MaxJoins = 2
  MaxPosts = 1
SPECIFICATION ConsoleSpec
CHECK_DEADLOCK FALSE
INVARIANTS
  ConsoleInv
PROPERTIES
  JoinedGameIsFollowed
