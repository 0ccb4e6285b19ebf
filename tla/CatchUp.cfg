SPECIFICATION ThemeSpec
CONSTANTS
  p1 = p1  b1 = b1  b2 = b2
  Proposals = {p1}
  Bridges = {b1, b2}
  MaxCard = 2  MaxNoise = 1  MaxRestarts = 1
  PageSize = 1  MaxPages = 2
  Faults = {"crash", "reload", "stateLost", "cursorLost", "write", "fetch", "getCurrent"}
INVARIANT CursorCovers
PROPERTY DecisionsLand
CHECK_DEADLOCK FALSE
