SPECIFICATION FairSpec
CONSTANTS
  EventNames <- MCEventNames
  Routes <- MCRoutes
  BadTarget = "bad"
  QueueMax = 2
  HttpTimeoutMicros = 1500
  Daemonize = TRUE
  MaxEmits = 2
PROPERTY
  AcceptedIsSent
CHECK_DEADLOCK FALSE
