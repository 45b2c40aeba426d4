CONSTANTS
  atlas = atlas
  bolt = bolt
  Human = Human
  NoThread = NoThread
  Agents <- MCAgents
  Threads <- MCNoThreads
  InitialRoster <- MCAgents
  Rows <- MCRows
  MaxReplyHops = 2
  RoundLimit = 1
  MaxCoworkers = 2
  MaxSends = 2
  MaxHandoffs = 0
  MaxRemovals = 1
  MaxCreations = 0
  MaxCrashes = 1
  MessageIds <- MCMessageIds
  TaskIds <- MCTaskIds
SPECIFICATION FairSpec
CHECK_DEADLOCK FALSE
PROPERTIES MessagesAreDealtWith TeamFallsSilent
