SPECIFICATION Spec
CONSTANTS
  Files = {}
  Skills = {"recall", "save"}
  Hooks = {"wrapper"}
  Planned <- Plan
  Root <- Places
  MaxChanges = 0
INVARIANT TornReported
CHECK_DEADLOCK FALSE
