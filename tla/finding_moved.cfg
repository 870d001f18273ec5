SPECIFICATION Spec
CONSTANTS
  MaxRows = 3
  MaxDepth = 2
  MaxAmount = 2
  MaxChanges = 1
  MaxInFlight = 2
  BatchLimit = 0
  Leaves <- NoLeaves
  Operations <- MoveAcross
  AskHeaders = FALSE
CHECK_DEADLOCK FALSE
INVARIANT NoLostRequest
