\* Two runs of the command line, a developer and two branches; anything may fail.
SPECIFICATION Spec
CONSTANTS
  r1 = r1
  r2 = r2
  main = main
  topic = topic
  Runs = {r1, r2}
  Dev = Dev
  Branches = {main, topic}
  StartHead <- OneCommit
  Contracts <- CommandLine
  NoContract = NoContract
  Modality = {"STRUCTURAL"}
  Evidence <- CommandLineEvidence
  Verdicts = {"PASS", "FAIL"}
  MaxAttempts = 1
  MaxDevCommits = 1
  Faults = TRUE
INVARIANTS
  TypeOK
  EffectsAreJournaled
  PromotionsAreSerial
  Sound
PROPERTIES
  BranchesOnlyGrow
  GovernedUntilMerged
SYMMETRY Symmetry
CHECK_DEADLOCK FALSE
