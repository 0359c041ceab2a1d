SPECIFICATION LoopSpec
CONSTANTS
  e1 = e1
  e2 = e2
  e3 = e3
  t1 = t1
  t2 = t2
  Events <- MCEvents
  Interval <- MCInterval
  Modulus = 64
  SelectMax = 8
  Platforms <- MCPlatforms
  MaxLate = 3
  Targets <- MCTargets
  Capacity <- MCCapacity
  Deliveries <- MCDeliveries
INVARIANTS
  QueueIsSchedule
  NeverEarly
  BoundedBypass
  StopsPromptly
PROPERTIES
  KillStopsRun
  ProcessedAgain
  SchedulerSpec
CHECK_DEADLOCK FALSE
