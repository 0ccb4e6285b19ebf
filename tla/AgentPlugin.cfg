SPECIFICATION ApprovalsSpec
CONSTANTS
  Registries = {file, map}  Mapped = {map}  Map = map
  Sources = {exec, skill}  Frames = {frame}  Events = {event1}
  MaxDrops = 1
  Calls = {call1}  MaxConsents = 2  MaxOffers = 1  MaxTokens = 3  MaxFaults = 1
  model = model  Models = {model}  Readers = {poll}  Lists <- MCLists  Found <- MCFound
  MaxIds = 2  MaxEdits = 1
  Items = {item1}  item1 = item1   MaxGrants = 2  MaxLapses = 1
  DetailOf <- MCDetails  MaxFailures = 1  MaxDecisions = 1
  Commands = {ask1}  Reconciles = {run1, run2}  MaxHellos = 3
  None = None  Nil = Nil
INVARIANTS NothingLeft HandledOnce DroppedIsRead ConsentIsFresh SpentStaysSpent AppliedIsShown NoAskForgotten
PROPERTIES NothingAfterGone CatalogCatchesUp GrantCatchesUp WritesReviewed
CHECK_DEADLOCK FALSE
