SPECIFICATION Spec
CONSTANTS
  o = o
  b = b
  t = t
  s = s
  run1 = run1
  run2 = run2
  atB = atB
  atT = atT
  atSviaB = atSviaB
  atSviaT = atSviaT
  atS1 = atS1
  atS2 = atS2
  None = None
  Node <- DiamondNodes
  Edge <- Diamond
  Order <- DiamondOrder
  DefaultMode <- DiamondModes
  Call = {run1, atB, atT, atSviaB, atSviaT}
  Toggled <- DiamondTouch
  Gate <- StoreOnly
  Root = o
  Workers <- One
  QueueCap <- One
  Svc <- DiamondSvc
  Parent <- DiamondParent
  Faulty <- StoreOnly
  Hung <- Nowhere
INVARIANTS
  IInv
  NoSendOnClosed
  CloseLeavesNothing
  FailsIffEssentialPath
  CleanRunIsClean
