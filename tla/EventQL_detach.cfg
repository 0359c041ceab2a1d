SPECIFICATION FairSpec
CONSTANTS
  EventNames <- MCEventNames
  Routes <- MCRoutes
  BadTarget = "bad"
  QueueMax = 2
  HttpTimeoutMicros = 1500
  Daemonize = FALSE
  MaxEmits = 2
PROPERTY
  DetachReturns
CHECK_DEADLOCK FALSE
