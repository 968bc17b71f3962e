CONSTANTS
  Readers = {r1, r2}
  Writers = {w1, w2}
  NoEntry = NoEntry
  Modes <- MCModes
SPECIFICATION FairCacheSpec
INVARIANTS StaleOnlyIfRaced
PROPERTY Freshens
CHECK_DEADLOCK FALSE
