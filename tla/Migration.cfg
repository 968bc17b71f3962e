CONSTANTS
  r1 = r1
  r2 = r2
  Runners = {r1, r2}
  Versions <- MCVersions
  Timestamp <- MCTimestamp
  InitialVersion <- MCInitialVersion
  Modes <- MCModes
SPECIFICATION RestartSpec
INVARIANTS RecordedWasExecuted ExecutedOnce NothingSkipped
PROPERTIES AllMigrated VersionOnlyAdvances
