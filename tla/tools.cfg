SPECIFICATION Spec
CONSTANTS
  Class = {"B", "C", "D"}
  Super <- SuperOf
  NoClass = NoClass
  Tool = {"base", "derived", "shared", "hidden", "script"}
  Supports <- SupportsOf
  Hidden = {"hidden"}
  HasUi = {"base", "derived", "hidden", "script"}
  Remotable = {"base", "derived", "hidden"}
  MaxDepth = 3
  MaxConnections = 2
  MaxInFlight = 1
\* The target may stop making objects.
CHECK_DEADLOCK FALSE
INVARIANTS InitsInOrder KnownMeansEnabled ClientAgrees
