CONSTANTS
  r1 = r1
  r2 = r2
  Runners = {r1}
  Versions <- MCVersions
  Timestamp <- MCTimestamp
  InitialVersion <- MCInitialVersion
  Modes <- FailingBoot
SPECIFICATION Spec
INVARIANT RequiredApplied
