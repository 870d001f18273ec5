CONSTANTS
  a = a
  b = b
  g = g
  Null = Null
  Obj = {a, b, g}
  Ours = {g}
  Internal = {g}
  Findable = {a}
  WorkerObj = {}
  Preloaded = TRUE
  InitObj = {b}
  Inversion = FALSE
  MaxChanges = 4
SPECIFICATION Spec
INVARIANTS
  NothingDropped
\* The target may stop doing anything.
CHECK_DEADLOCK FALSE
