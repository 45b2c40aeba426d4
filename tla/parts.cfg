CONSTANTS
  atlas = atlas
  bolt = bolt
  NoThread = NoThread
  NoTurn = NoTurn
  Agents <- MCAgents
  Threads <- MCThreads
  MaxRequests = 2
  MaxCrashes = 1
  MaxFaults = 1
  search = search
  page = page
  Calls = {c1, c2}
  Tools = {search, page}
  NoTool = NoTool
  Fallback <- MCFallback
  Attempts = 2
  Threshold = 2
  MaxChain = 4
  MaxExecs = 3
  Mods = {m1, m2}
  Builtin = Builtin
  Seekers = {s1, s2}
  Strikes = 2
  MaxModCrashes = 1
  MaxBumps = 1
  SeamMods = {n1, n2}
  NoModule = NoModule
  Askers = {r1, r2, r3}
  SeamStrikes = 2
  MaxSpawns = 4
  MaxRepoints = 2
  Askings = {a1, a2}
  NoAsking = NoAsking
  Targets = {1, 2}
  Ceiling <- MCCeiling
  Scope = 3
  Rpm = 1
  Again = 1
  Overbill = 1
  MaxAttempts = 3
  Patches = {p1, p2}
  NoPatch = NoPatch
  CrashThreshold = 2
  MaxQuick = 2
  MaxDeaths = 4
  Pulses = {u1, u2}
  Yields = TRUE
  MaxDreams = 3
SPECIFICATION PartsSpec
CHECK_DEADLOCK FALSE
INVARIANTS PendingIsLive RunsOnlyOnYes OneVerdict PartsTypeOK
INVARIANTS  ActiveHasEvidence ServedByItsModule BillIsCovered StopReachesEveryCall StoreIsHonest
INVARIANTS DreamsAreKnown
PROPERTIES KeepsContract EveryWaitEnds  WishIsTaken
