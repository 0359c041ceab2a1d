SPECIFICATION FairSpec
CONSTANTS
  MaxInodes = 2
  MaxLines = 2
  Budgets <- MCBudgets
INVARIANTS
  TypeOK
  OffsetAccounting
  WholeLines
  LossPerCrash
PROPERTIES
  StreamSpec
  EveryLineHandled
CHECK_DEADLOCK FALSE
