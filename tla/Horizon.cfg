SPECIFICATION FairSpec
CONSTANTS
  NumItems = 1  MaxVersion = 1  MaxEdits = 1  MaxRestarts = 1
INVARIANTS CursorIsReported FactOnce
PROPERTY OutboxDrains
CHECK_DEADLOCK FALSE
