CONSTANTS
  discord = discord
  cron = cron
  Chats <- MCChats
  Jobs <- MCJobs
  Callers = {c1}
  Boot = Boot
  Measured = TRUE
  Deeds = {"nothing", "files", "task"}
  Early = TRUE
  Budget = 1
  StallTurns = 2
  MaxResumes = 2
  MaxRefusals = 1
  MaxRuns = 1
  MaxRestarts = 0
SPECIFICATION Spec
CHECK_DEADLOCK FALSE
INVARIANT OnlyTheDeadAreResumed
