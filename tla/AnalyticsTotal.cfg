CONSTANTS
  MessageLimit = 3
  EntryLimit = 3
  Pauses = {1, 3, 8}
  DayLength = 3
  Returning = 2
  RetentionReset = 3
  Retention = 5
  Loyalty = 7
  Modes <- OneMessage
SPECIFICATION Spec
INVARIANT TotalValue
CHECK_DEADLOCK FALSE
