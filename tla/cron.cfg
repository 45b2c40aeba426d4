CONSTANTS
  Jobs = {1, 2}
  Casts <- MCCasts
  Chat = {2}
  Initial = {1, 2}
  Limit = 1
  MaxStarts = 2
  MaxEdits = 1
  MaxCrashes = 1
SPECIFICATION FairSpec
INVARIANTS TypeOK BegunOnce RepeatingStaysArmed ChargesAreSettled
CHECK_DEADLOCK FALSE
PROPERTIES PersonHasLastWord NothingRunsUnwanted DueIsDealtWith
