SPECIFICATION Spec
CONSTANTS
  Recorder = {r1, r2}
  Slice = {"completed", "waits", "rejected"}
  Sample <- Samples
  Window = 1
  HighWater = 1
  MaxClock = 3
  MaxRecords = 3
  None = None
SYMMETRY Symmetry
INVARIANTS
  WindowInv
PROPERTIES
  ReadIsHonest
