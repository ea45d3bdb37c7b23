SPECIFICATION FairSpec
CONSTANTS
  Conn = {c1, c2}
  Slots = 1
  WireCap = 0
  MaxInc = 2
  MaxTop = 3
  MaxDark = 1
  Ring = 2
  Limit = 2
  SeenCap = 2
  None = None
INVARIANTS
  TypeOK
  SlotsHeld
  OneLifeline
  LogCovers
PROPERTIES
  QuietIsNoticed
  ShutdownEnds
  ComesBack
