SPECIFICATION FairSpec
CONSTANTS
  EventNames <- MCEventNames
  Routes <- MCRoutes
  BadTarget = "bad"
  QueueMax = 2
  HttpTimeoutMicros = 1500
  Daemonize = FALSE
  MaxEmits = 3
INVARIANTS
  NoLostWakeup
  RouteComplete
  StoredInOrder
  NoUseAfterDelete
PROPERTIES
  FifoSpec
  EmitReturns
  AcceptedIsTaken
CHECK_DEADLOCK FALSE
