CONSTANTS
  Games = {g1, g2}
  NoGame = NoGame
  Sockets = {s1}
  NoSocket = NoSocket
  Connections = {}
  MaxVersion = 2
  MaxSent = 6
  Faults = FALSE
  MaxJoins = 2
  MaxPosts = 2
SPECIFICATION ConsoleSpec
CHECK_DEADLOCK FALSE
INVARIANTS
  CommandsSentToTheirGame
