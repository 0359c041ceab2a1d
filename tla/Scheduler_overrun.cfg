SPECIFICATION LoopSpec
CONSTANTS
  e1 = e1
  e2 = e2
  e3 = e3
  t1 = t1
  t2 = t2
  Events <- MCTwoEvents
  Interval <- MCTwoIntervals
  Modulus = 64
  SelectMax = 8
  Platforms <- MCPlatforms
  MaxLate = 3
  Targets <- MCTargets
  Capacity <- MCCapacity
  Deliveries <- MCDeliveries
PROPERTIES
  EmittedAgain
CHECK_DEADLOCK FALSE
