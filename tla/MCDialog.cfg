SPECIFICATION DialogSpec
CONSTANTS
  OpenCards = 2
  MaxCard = 4
CHECK_DEADLOCK FALSE
INVARIANTS
  DialogInv
PROPERTIES
  FocusReturns
