CONSTANTS
  SeamMods = {m1, m2}
  NoModule = NoModule
  Askers = {s1, s2, s3}
  SeamStrikes = 2
  MaxSpawns = 4
  MaxRepoints = 2
SPECIFICATION SeamSpec
INVARIANT OneHostPerModule
CHECK_DEADLOCK FALSE
