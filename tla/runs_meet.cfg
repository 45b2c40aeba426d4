CONSTANTS
  discord = discord
  cron = cron
  Chats <- MCChats
  Jobs <- MCJobs
  Callers = {c1, c2}
  Boot = Boot
  Measured = TRUE
  Deeds = {"nothing"}
  Early = TRUE
  Budget = 0
  StallTurns = 1
  MaxResumes = 1
  MaxRefusals = 1
  MaxRuns = 2
  MaxRestarts = 1
SPECIFICATION Spec
CHECK_DEADLOCK FALSE
INVARIANTS OneRunPerSession NobodyIsForgotten
PROPERTY KeepsRunContract
