CONSTANTS
  a = a
  b = b
  g = g
  Null = Null
  Obj = {a, b, g}
  Ours = {g}
  Internal = {g}
  Findable = {a}
  WorkerObj = {b}
  Preloaded = TRUE
  InitObj = {b, g}
  Inversion = FALSE
  MaxChanges = 5
SPECIFICATION Spec
INVARIANTS
  TypeOK
  TrackedAlive
  RowsTracked
  NoLostWakeup
  Accounted
  ConstructedBeforeCreated
  TreeAgrees
\* The target may stop doing anything.
CHECK_DEADLOCK FALSE
