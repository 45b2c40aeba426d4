CONSTANTS
  atlas = atlas
  bolt = bolt
  Human = Human
  NoThread = NoThread
  Agents <- MCAgents
  Threads <- MCNoThreads
  InitialRoster <- MCAgents
  Rows <- MCRows
  MaxReplyHops = 1
  RoundLimit = 1
  MaxCoworkers = 2
  MaxSends = 0
  MaxHandoffs = 2
  MaxRemovals = 1
  MaxCreations = 0
  MaxCrashes = 1
  MessageIds <- MCMessageIds
  TaskIds <- MCTaskIds
SPECIFICATION Spec
CHECK_DEADLOCK FALSE
SYMMETRY MCSymmetry
INVARIANTS RepliesStop ResultPrecedesCompletion ClaimsNeverThrow
PROPERTY KeepsContract
