\* Every order of four calls and of the ends of their operations.
SPECIFICATION Spec
CONSTANTS
  g1 = g1
  g2 = g2
  a = a
  b = b
  c = c
  d = d
  NoCall = NoCall
  Games = {g1, g2}
  Calls = {a, b, c, d}
  GameOf <- MCGameOf
CHECK_DEADLOCK FALSE
INVARIANTS
  RunnerInv
  ReturnedBeforeNext
PROPERTIES
  EveryCallReturns
  ImplementsGameLock
