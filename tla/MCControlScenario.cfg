SPECIFICATION Spec
CONSTANTS
  o = o
  g = g
  op1 = op1
  op2 = op2
  Node <- TwoNodes
  Edge <- OneEdge
  Gate <- GateOnly
  Root = o
  Nodes <- NodeList
  Edges <- EdgeList
  DefaultMode <- GatedEdge
  Operator = {op1, op2}
  Request <- Scenarios
  MaxEvents = 3
  MaxFlips = 0
INVARIANTS
  ScenarioReproduces
