SPECIFICATION BothSpec
CONSTANTS
  n1 = n1  n2 = n2  Frames = {n1, n2}
  MaxWindows = 2  MaxOffers = 2  MaxRestarts = 2
  message = message  reply = reply
  Events = {message, reply}  Replies = {reply}
  EventOffers = 2  EventStarts = 2  EventFaults = 1
SYMMETRY Symmetry
INVARIANTS AcksAreSafe NoRepeat OwedIsDue
CHECK_DEADLOCK FALSE
