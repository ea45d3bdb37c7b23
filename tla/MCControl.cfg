SPECIFICATION FairSpec
CONSTANTS
  o = o
  g = g
  op1 = op1
  op2 = op2
  Node <- TwoNodes
  Edge <- OneEdge
  Gate <- GateOnly
  Root = o
  Nodes <- NodeList
  Edges <- EdgeList
  DefaultMode <- GatedEdge
  Operator = {op1, op2}
  Request <- Requests
  MaxEvents = 3
  MaxFlips = 1
INVARIANTS
  TypeOK
  RingIsGapless
  LogMatchesBanner
PROPERTIES
  ImplementsFeed
  NoKickLost
