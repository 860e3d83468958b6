\* One embedded run with a repair attempt; git may fail.
SPECIFICATION Spec
CONSTANTS
  r1 = r1
  r2 = r2
  main = main
  topic = topic
  Runs = {r1}
  Dev = Dev
  Branches = {main}
  StartHead <- OneCommit
  Contracts <- CommandLine
  NoContract = NoContract
  Modality = {"STRUCTURAL"}
  Evidence <- CommandLineEvidence
  Verdicts = {"PASS", "FAIL"}
  MaxAttempts = 2
  MaxDevCommits = 1
  Faults = TRUE
INVARIANTS
  CandidateIsTested
CHECK_DEADLOCK FALSE
