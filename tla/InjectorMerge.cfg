SPECIFICATION Spec
CONSTANTS
  n1 = n1  n2 = n2  Frames = {n1, n2}
  MaxWindows = 1  MaxOffers = 2  MaxRestarts = 2
INVARIANT AdmittedRan
CHECK_DEADLOCK FALSE
