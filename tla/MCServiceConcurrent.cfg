\* Three calls of handle that overlap in every way the event loop allows.
SPECIFICATION Spec
CONSTANTS
  g1 = g1
  h1 = h1
  h2 = h2
  h3 = h3
  h4 = h4
  take = take
  buy = buy
  finish = finish
  reuse = reuse
  blank = blank
  illegal = illegal
  late = late
  Games = {g1}
  GameOf <- MCGameOf
  NoCall = NoCall
  Key <- MCKey
  NoKey = NoKey
  Expected <- MCExpected
  Effect <- MCEffect
  NoState = NoState
  None = None
  Calls = {h1, h2, h3}
  Commands = {take, finish, reuse, late}
  StorageFails = TRUE
  MaxInFlight = 3
CHECK_DEADLOCK FALSE
INVARIANTS
  StoresInOrder
  AnswersMatchLog
  UpdatesFollowLog
PROPERTIES
  EveryCommandAnswered
  ImplementsRunner
