SPECIFICATION Spec
CONSTANTS
  Obj = {o1, o2}
  MaxMeta = 3
  Class = {"B", "D"}
  Base <- BaseOf
  MaxCreated = 4
CHECK_DEADLOCK FALSE
INVARIANTS CountsExact OneOfAName InstanceExists
