SPECIFICATION Spec
CONSTANTS
  None = None
  MaxStrikes = 2
  Original <- MCOriginal
  Tasks = {t1}
  t1 = t1
  Candidates <- MCCandidates
  Ceiling = 2
  MaxDeaths = 1
  Healers = {h1, h2}
  h1 = h1
  h2 = h2
  Traces <- MCTraces
  SafeId <- MCSafeId
  Stamps = {0}
  MaxHeals = 2
INVARIANTS
  StrikeCeilingHolds
  SandboxIsOwned
  LandedWasVerified
SYMMETRY HealersAlike
CHECK_DEADLOCK FALSE
