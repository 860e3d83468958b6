\* A step that is made again after a death writes over a registered artifact's file.
SPECIFICATION Spec
CONSTANTS
  e1 = e1
  e2 = e2
  p1 = p1
  p2 = p2
  good = good
  better = better
  bad = bad
  None = None
  MaxStrikes = 2
  Executors = {e1, e2}
  Parents = {p1, p2}
  Plan <- MediaPlan
  NeedsApproval <- OneApproval
  Generated = {good, better, bad}
  Valid = {good, better}
  Decisions = {"RESOLVED_REJECTED"}
  MaxStarts = 2
  MaxSecond = 1
INVARIANTS
  FileMatchesRecord
SYMMETRY Symmetry
CHECK_DEADLOCK FALSE
