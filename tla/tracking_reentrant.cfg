CONSTANTS
  a = a
  b = b
  g = g
  Null = Null
  Obj = {a, b}
  Ours = {}
  Internal = {}
  Findable = {a}
  WorkerObj = {b}
  Preloaded = FALSE
  InitObj = {a, b}
  Inversion = FALSE
  MaxChanges = 4
SPECIFICATION FairSpec
PROPERTIES
  SignalsSpec
  EventuallyCreated
  EventuallyRemoved
\* The target may stop doing anything.
CHECK_DEADLOCK FALSE
