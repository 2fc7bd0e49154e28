SPECIFICATION DialogSpec
CONSTANTS
  OpenCards = 2
  MaxCard = 4
INVARIANTS ReservesTheCardShown
CHECK_DEADLOCK FALSE
