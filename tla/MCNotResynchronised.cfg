CONSTANTS
  g1 = g1
  s1 = s1
  s2 = s2
  Games = {g1}
  Game = g1
  Sockets = {s1, s2}
  NoSocket = NoSocket
  Connections = {}
  MaxVersion = 3
  MaxSent = 8
  Faults = TRUE
  MaxCommands <- OneEach
SPECIFICATION ScreenSpec
CHECK_DEADLOCK FALSE
PROPERTIES
  Resynchronised
