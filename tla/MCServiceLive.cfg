SPECIFICATION FairSpec
CONSTANTS
  Caller = {c1, c2}
  Worker = {w1}
  QueueCap = 1
  AdmitAt = 1
  ResumeAt = 0
  Modes = {"gated", "blocking"}
  DefaultMode = "gated"
  None = None
PROPERTIES
  CallsSettle
  ShutdownDrains
  LatchFollowsBacklog
  ImplementsBulkhead
