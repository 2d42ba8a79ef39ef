SPECIFICATION Spec
CONSTANTS
  Files = {}
  Skills = {"recall", "save"}
  Hooks = {"wrapper"}
  Planned <- Plan
  Root <- Places
  MaxChanges = 2
INVARIANTS TypeOK OriginalsKept RollbackTruthful
CHECK_DEADLOCK FALSE
