SPECIFICATION Spec
CONSTANTS
  Files = {}
  Skills = {"recall", "save"}
  Hooks = {"wrapper"}
  Planned <- Plan
  Root <- Places
  MaxChanges = 0
INVARIANT OthersBlamedRightly
CHECK_DEADLOCK FALSE
