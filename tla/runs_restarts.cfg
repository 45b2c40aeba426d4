CONSTANTS
  discord = discord
  cron = cron
  Chats <- MCChats
  Jobs <- MCJobs
  Callers = {c1}
  Boot = Boot
  Measured = TRUE
  Deeds = {"nothing", "files", "task"}
  Early = TRUE
  Budget = 1
  StallTurns = 2
  MaxResumes = 2
  MaxRefusals = 2
  MaxRuns = 1
  MaxRestarts = 3
SPECIFICATION FairSpec
CHECK_DEADLOCK FALSE
INVARIANTS DebtIsDischarged WorkIsBounded
PROPERTIES OneRefusalPerBoot PassEnds
