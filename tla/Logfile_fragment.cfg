SPECIFICATION Spec
CONSTANTS
  MaxInodes = 2
  MaxLines = 2
  Budgets <- MCOneRotation
INVARIANT
  EventsAreLines
CHECK_DEADLOCK FALSE
