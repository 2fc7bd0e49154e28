CONSTANTS
  Games = {g1}
  Sockets = {s1, s2}
  NoSocket = NoSocket
  Connections = {c1}
  MaxVersion = 3
  MaxSent = 2
SPECIFICATION Spec
CHECK_DEADLOCK FALSE
INVARIANTS
  RuntimeInv
  SubscribersUpToDate
  EventsContinueSnapshot
PROPERTIES
  StopCompletes
