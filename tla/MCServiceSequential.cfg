\* Clients of a game that wait for each answer before the next command is sent.
SPECIFICATION Spec
CONSTANTS
  g1 = g1
  h1 = h1
  h2 = h2
  h3 = h3
  h4 = h4
  take = take
  buy = buy
  finish = finish
  reuse = reuse
  blank = blank
  illegal = illegal
  late = late
  Games = {g1}
  GameOf <- MCGameOf
  NoCall = NoCall
  Key <- MCKey
  NoKey = NoKey
  Expected <- MCExpected
  Effect <- MCEffect
  NoState = NoState
  None = None
  Calls = {h1, h2, h3, h4}
  Commands = {take, buy, finish, reuse, blank, illegal, late}
  StorageFails = TRUE
  MaxInFlight = 1
CHECK_DEADLOCK FALSE
INVARIANTS
  LogInOrder
  RetriesGetFirstAnswer
PROPERTIES
  NoUpdateLost
