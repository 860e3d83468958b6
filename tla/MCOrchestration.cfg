\* Two runs of one task through either entry point; anything may fail.
SPECIFICATION Spec
CONSTANTS
  r1 = r1
  r2 = r2
  t1 = t1
  None = None
  Runs = {r1, r2}
  Tasks = {t1}
  Requests <- PairedRequests
  MaxAttempts = 2
  FreePaths = {}
  Touched = {"temperature"}
  MaxWrites = 1
  Faults = TRUE
INVARIANTS
  TypeOK
  SealedInOrder
  
  QualifiedWasEarned
PROPERTIES
  Implements
CHECK_DEADLOCK FALSE
