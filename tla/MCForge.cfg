SPECIFICATION Spec
CONSTANTS
  a1 = a1
  a2 = a2
  k1 = k1
  k2 = k2
  Actors = {a1, a2}
  Keys = {k1, k2}
  Proposals <- SomeProposals
  MaxDeaths = 1
  Targets = {"file"}
  Requests <- AllRequests
  Provisionable <- SomeProvisionable
  SandboxOperations <- FilesOfGraphs
  MaxCalls = 3
SYMMETRY Symmetry
INVARIANTS
  PerformedAtMostOnce
  
CHECK_DEADLOCK FALSE
