SPECIFICATION FairSpec
CONSTANTS
  Name = {n}
  MaxAddress = 2
  MaxConnections = 2
  MaxWrites = 3
  MaxInFlight = 3
\* Nobody has to do anything.
CHECK_DEADLOCK FALSE
INVARIANTS NamesAgree DecodedAsEncoded Monitored AgreeUnlessRaced
PROPERTY Decided
