SPECIFICATION DialogSpec
CONSTANTS
  OpenCards = 2
  MaxCard = 4
PROPERTIES FocusReturnsToTrigger
CHECK_DEADLOCK FALSE
