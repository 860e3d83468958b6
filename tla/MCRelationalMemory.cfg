SPECIFICATION Spec
CHECK_DEADLOCK FALSE
CONSTANTS
  Retractors = {r1, r2}
  Retractable = {"E1", "task"}
  Downgrades <- SomeDowngrades
  MaxCalls = 3
  MaxDeaths = 1
  Projectors = {p1}
  Receipts <- SomeReceipts
  Planners = {q1}
  Objective = "task"
  Requirements <- RequiredCapabilities
  MaxGaps = 2
  Evaluators = {v1}
  Specifications <- SomeSpecifications
  Claims <- SomeClaims
  Evidence <- SomeEvidence
  EvidenceFor <- EvidenceOffered
  Alternatives = {"R1"}
  ActiveCandidate = "sha"
  ActiveEnvironment = "none"
  Nodes0 <- Nodes
  Edges0 <- EdgesAtStart
INVARIANTS
  CascadeIsComplete
  SatisfiedHadSupport
SYMMETRY Symmetry
