SPECIFICATION BusySpec
CONSTANTS
  Caller = {c1, c2, c3}
  Worker = {w1}
  QueueCap = 2
  AdmitAt = 2
  ResumeAt = 1
  Modes = {"gated", "best_effort"}
  DefaultMode = "gated"
  None = None
PROPERTIES
  LatchFollowsReclassification
