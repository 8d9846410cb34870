CONSTANTS
  Calls = {1, 2, 3}
  Slots = 2
  MaxRetries = 1
SPECIFICATION MCSpec
INVARIANTS SlotsReturned HooksBalanced
PROPERTIES CallsEnd
CHECK_DEADLOCK FALSE
