SPECIFICATION Spec
CONSTANTS
  orchestrator = orchestrator
  build = build
  test = test
  store = store
  registry = registry
  Node <- Nodes
  Gate <- Gates
  Edge <- Edges
  Order <- LeavesFirst
  View <- Views
INVARIANTS
  RollupInv
  FailingIffDoomed
  OkIffUntainted
