SPECIFICATION FairSpec
CONSTANTS
  o = o
  b = b
  t = t
  s = s
  run1 = run1
  run2 = run2
  atB = atB
  atT = atT
  atSviaB = atSviaB
  atSviaT = atSviaT
  atS1 = atS1
  atS2 = atS2
  None = None
  Node <- ChainNodes
  Edge <- Chain
  Order <- ChainOrder
  DefaultMode <- ChainModes
  Call = {run1, run2, atS1, atS2}
  Toggled <- ChainTouch
  Gate <- StoreOnly
  Root = o
  Workers <- One
  QueueCap <- One
  Svc <- ChainSvc
  Parent <- ChainParent
  Faulty <- Nowhere
  Hung <- StoreOnly
PROPERTIES
  CloseReturns
  RunsReturn
