SPECIFICATION DialogSpec
CONSTANTS
  OpenCards = 2
  MaxCard = 4
INVARIANTS FocusTrapped
CHECK_DEADLOCK FALSE
