\* One proposal, two concurrent promoters, a verifier, the reconciler, crashes
\* and a busy database.
SPECIFICATION Spec
CONSTANTS
  t1 = t1
  t2 = t2
  r = r
  a = a
  b = b
  x = x
  y = y
  p1 = p1
  p2 = p2
  v1 = v1
  Task = {t1}
  NoTask = NoTask
  Commit = {r, a, x, y}
  NoCommit = NoCommit
  Ancestors <- MCAncestors
  Base <- MCBase
  Offered <- OneOffer
  Foreign = {x, y}
  Root = r
  Promoter = {p1, p2}
  Verifier = {v1}
  SealStates <- SealedOnly
  Failures = {"REJECTED", "BLOCKED"}
  DbBusy = TRUE
SYMMETRY Symmetry
INVARIANTS
  TypeOK
  PromotedIsOnTarget
  PromotionIsCertified
  LogIsTruthful
  Sound
PROPERTIES
  LandsOnlyVerified
  ImplementsCustody
CHECK_DEADLOCK FALSE
