CONSTANTS
  Games = {g1}
  NoGame = NoGame
  Sockets = {s1}
  NoSocket = NoSocket
  Connections = {}
  MaxVersion = 2
  MaxSent = 6
  Faults = TRUE
  MaxJoins = 2
  MaxPosts = 1
SPECIFICATION ConsoleSpec
CHECK_DEADLOCK FALSE
PROPERTIES
  ConnectHasEffect
