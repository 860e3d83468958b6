\* Two runs and a developer, nothing fails, under fairness.
SPECIFICATION FairSpec
CONSTANTS
  r1 = r1
  r2 = r2
  main = main
  topic = topic
  Runs = {r1, r2}
  Dev = Dev
  Branches = {main, topic}
  StartHead <- OneCommit
  Contracts <- CommandLine
  NoContract = NoContract
  Modality = {"STRUCTURAL"}
  Evidence <- CommandLineEvidence
  Verdicts = {"PASS", "FAIL"}
  MaxAttempts = 1
  MaxDevCommits = 1
  Faults = FALSE
INVARIANTS
  SomeonePromotes
PROPERTIES
  VerifiedConcludes
CHECK_DEADLOCK FALSE
