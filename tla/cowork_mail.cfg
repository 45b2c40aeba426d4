CONSTANTS
  atlas = atlas
  bolt = bolt
  Human = Human
  NoThread = NoThread
  Agents <- MCAgents
  Threads <- MCThreads
  InitialRoster <- MCAgents
  Rows <- MCRows
  MaxReplyHops = 2
  RoundLimit = 2
  MaxCoworkers = 2
  MaxSends = 2
  MaxHandoffs = 0
  MaxRemovals = 1
  MaxCreations = 1
  MaxCrashes = 1
  MessageIds <- MCMessageIds
  TaskIds <- MCTaskIds
SPECIFICATION Spec
CHECK_DEADLOCK FALSE
SYMMETRY MCSymmetry
INVARIANTS TypeOK OneDrainPerTeammate AnsweredOncePerLife TranscriptShowsOutcome NoOrphanQuestion
