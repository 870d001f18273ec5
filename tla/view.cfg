SPECIFICATION FairSpec
CONSTANTS
  MaxChanges = 1
  MaxUserOps = 2
  MaxQueue = 2
  CanSave = TRUE
  CanReconnect = TRUE
\* The target and the user may stop doing anything.
CHECK_DEADLOCK FALSE
INVARIANTS GrabberComesBack ClientComesBack
PROPERTY EventuallyShown
