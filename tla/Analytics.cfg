CONSTANTS
  MessageLimit = 3
  EntryLimit = 3
  Pauses = {1, 3, 8}
  DayLength = 3
  Returning = 2
  RetentionReset = 3
  Retention = 5
  Loyalty = 7
  Modes <- MCModes
SPECIFICATION Spec
INVARIANTS NeverOvercounted ExactUnlessCrossed PeriodUnbroken
PROPERTY ReturnsCounted
CHECK_DEADLOCK FALSE
