SPECIFICATION Spec
CONSTANTS
  Node = {a, b, c}
  MaxTier = 3
SYMMETRY Symmetry
INVARIANTS
  KahnInv
  ParentsFirst
  DetectsCycles
  TiersExcludeCycles
