SPECIFICATION FairSpec
CONSTANTS
  MaxRows = 2
  MaxDepth = 2
  MaxAmount = 1
  MaxChanges = 2
  MaxInFlight = 1
  BatchLimit = 1
  Leaves <- AllLeaves
  Operations <- AllButMoveUp
  AskHeaders = TRUE
CHECK_DEADLOCK FALSE
INVARIANTS Coherent NoLostRequest
PROPERTIES HeadersKeepUp EventuallyInSync
