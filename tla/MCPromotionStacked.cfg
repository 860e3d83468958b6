\* Two stacked proposals, whose manifests may bring any state, and one promoter at a time.
SPECIFICATION Spec
CONSTANTS
  t1 = t1
  t2 = t2
  r = r
  a = a
  b = b
  x = x
  y = y
  p1 = p1
  p2 = p2
  v1 = v1
  Task = {t1, t2}
  NoTask = NoTask
  Commit = {r, a, b, x}
  NoCommit = NoCommit
  Ancestors <- MCAncestors
  Base <- MCBase
  Offered <- StackedOffers
  Foreign = {x}
  Root = r
  Promoter = {p1}
  Verifier = {v1}
  SealStates <- AnyState
  Failures = {}
  DbBusy = FALSE
PROPERTIES
  NoStowaways
  TargetOnlyGrows
  PrivilegeIsEarned
CHECK_DEADLOCK FALSE
