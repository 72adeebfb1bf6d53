SPECIFICATION Spec
CONSTANTS
  Requests = {r1, r2}
  Lanes = {l1, l2}
  None = None
  MaxEvents = 5
SYMMETRY MCSymmetry
CHECK_DEADLOCK FALSE
INVARIANTS TypeOK
INVARIANTS BlockTruth OneShadow ShadowTruth
PROPERTIES HeldAtStuck ClosedStays RestoresStatus
