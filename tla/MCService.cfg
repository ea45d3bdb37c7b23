SPECIFICATION Spec
CONSTANTS
  Caller = {c1, c2, c3}
  Worker = {w1, w2}
  QueueCap = 2
  AdmitAt = 2
  ResumeAt = 0
  Modes = {"gated", "best_effort"}
  DefaultMode = "gated"
  None = None
SYMMETRY Symmetry
INVARIANTS
  JobInOnePlace
  WorkerNeverParks
  WaiterIsOwed
  IInv
  AnswerMatchesSample
  Accounted
PROPERTIES
  CountedOnce
  ReleaseShedOnlyWhenFull
