\* One embedded run with contracts, evidence and a repair attempt.
SPECIFICATION Spec
CONSTANTS
  r1 = r1
  r2 = r2
  main = main
  topic = topic
  Runs = {r1}
  Dev = Dev
  Branches = {main}
  StartHead <- OneCommit
  Contracts <- EmbeddedContracts
  NoContract = NoContract
  Modality = {"STRUCTURAL", "EMPIRICAL"}
  Evidence <- EmbeddedEvidence
  Verdicts = {"PASS", "EMPTY_PASS", "FAIL"}
  MaxAttempts = 2
  MaxDevCommits = 1
  Faults = TRUE
INVARIANTS
  PredicatesAgree
  CompletionIsEarned
  PromotedWasTested
  Sound
CHECK_DEADLOCK FALSE
