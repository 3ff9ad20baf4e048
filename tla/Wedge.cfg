SPECIFICATION Spec
CONSTANTS
  Period = 3
  Threshold = 8
INVARIANTS TypeOK WedgeCaught NoFalseAlarm
CHECK_DEADLOCK FALSE
