SPECIFICATION Spec
CONSTANTS
  Files = {}
  Skills = {"recall", "save"}
  Hooks = {"wrapper"}
  Planned <- Plan
  Root <- Places
  MaxChanges = 1
INVARIANT BuriedReported
CHECK_DEADLOCK FALSE
