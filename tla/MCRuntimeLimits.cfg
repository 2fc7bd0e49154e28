\* What the runtime does not give: TLC stops at the first property violated,
\* and reports both with -continue.
CONSTANTS
  Games = {g1}
  Sockets = {s1}
  NoSocket = NoSocket
  Connections = {c1}
  MaxVersion = 2
  MaxSent = 2
SPECIFICATION Spec
CHECK_DEADLOCK FALSE
INVARIANTS
  LastRequestWins
PROPERTIES
  StopEnds
