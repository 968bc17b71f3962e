CONSTANTS
  b1 = b1
  b2 = b2
  b3 = b3
  k1 = k1
  k2 = k2
  r1 = r1
  r2 = r2
  Blocks <- MCBlocks
  Categories = {k1, k2}
  NoBlock = NoBlock
  Unused = Unused
  Gone = Gone
  Reqs = {r1, r2}
  Convs = {v}
  Flows <- MCFlows
  Modes <- MCModes
SPECIFICATION Spec
SYMMETRY RequestSymmetry
CHECK_DEADLOCK FALSE
PROPERTIES NoDangling CategoryOfBlockExists UsedBlocksStay RefusedLeavesGraph RequestsAtomic
