CONSTANTS
  Patches = {p1, p2}
  NoPatch = NoPatch
  CrashThreshold = 2
  MaxQuick = 2
  MaxDeaths = 4
SPECIFICATION PatchSpec
INVARIANT OnlyTheGuiltyAreReverted
CHECK_DEADLOCK FALSE
