SPECIFICATION FairSpec
CONSTANTS
  Address = {1}
  Starter = {1}
  Receiver = {1}
  Id = {1}
  MaxGen = 2
  MaxFired = 2
  MaxEvents = 1
INVARIANTS PushComes RowsRight
PROPERTY EventuallyShown
\* Nobody has to start a timer.
CHECK_DEADLOCK FALSE
