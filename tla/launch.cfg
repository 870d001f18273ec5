SPECIFICATION FairSpec
CONSTANT Probe = {p1, p2}
\* The launcher ends, and so do the target and the client.
CHECK_DEADLOCK FALSE
INVARIANTS NoClientAfterFailure StatusTells SettingsInTime
PROPERTIES WaitsEnd LauncherDecides
