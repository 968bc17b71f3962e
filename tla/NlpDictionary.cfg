CONSTANTS
  Entities = {e0, e1, e2}
  Shipped = {e0}
  Values = {v1}
  Samples = {s}
  Reqs = {r1, r2}
  None = None
  Modes <- MCModes
SPECIFICATION Spec
SYMMETRY DictionarySymmetry
CHECK_DEADLOCK FALSE
INVARIANTS ReferencesResolve MirrorAgrees
