SPECIFICATION FairSpec
CONSTANTS
  Item = {a, b}
  None = None
  MaxChanges = 1
  MaxChoices = 2
\* Nobody has to select anything.
CHECK_DEADLOCK FALSE
INVARIANTS AgreeUnlessRaced
PROPERTIES Settles PendingApplied ChoiceKept
