SPECIFICATION LoopsSpec
CONSTANTS
  main = main  child = child  s1 = s1  s2 = s2  j1 = j1  a1 = a1  a2 = a2  None = None
  Primary = {main}  Children = {child}
  SessionIds = {s1, s2}  KeyOf <- OneKey
  Jobs = {j1}  Approvals = {a1, a2}
  MaxRuns = 2  MaxCrashes = 1  MaxLoops = 3  MaxEmissions = 2
  SessionKeys = {main}  MaxIds = 2  MaxTurns = 2  Window = 1
  FewCalls = 1  FewTurns = 1
  MaxQueue = 2  MaxCalls = 2  MaxChanges = 1  MaxFaults = 1
INVARIANTS ToldAgrees OpenLoopsReachable BlockedIsHeld RefreshCovers
PROPERTIES OrphansClosed HistoryExact
SYMMETRY Symmetry
CHECK_DEADLOCK FALSE
