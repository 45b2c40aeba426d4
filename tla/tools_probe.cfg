CONSTANTS
  search = search
  page = page
  Calls = {c1, c2}
  Tools = {search, page}
  NoTool = NoTool
  Fallback <- MCFallback
  Attempts = 2
  Threshold = 2
  MaxChain = 4
  MaxExecs = 3
SPECIFICATION ToolSpec
CHECK_DEADLOCK FALSE
INVARIANT ProbeIsInFlight
