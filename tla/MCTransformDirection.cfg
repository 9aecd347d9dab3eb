SPECIFICATION Spec
CONSTANTS
  Frames = {f1, f2, f3, f4}
  NoFrame = NoFrame
  Stamps <- MCStamps
  Tolerances = {0, 1000}
  memory_duration = 1000
  MaxTransforms = 3
  MaxAncestors = 1
SYMMETRY MCSymmetry
CHECK_DEADLOCK FALSE
INVARIANT LookupDirection
