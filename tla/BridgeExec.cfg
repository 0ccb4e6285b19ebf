SPECIFICATION Spec
CONSTANTS
  skill = skill  exec = exec  agent = agent
  p1 = p1  h1 = h1  h2 = h2
  NoProposal = NoProposal
  Proposals = {p1}
  Handlers = {h1, h2}
  Sources = {exec}
  SourceOf <- SourceOfExec
  Restage = {}  Pinned = {}  Mutable = {}
  FailClosed = {exec}  Withdrawable = {exec}  Native = {exec}
  Owned = {p1}  Timed = {p1}
  Countersigned = {}
  Taken = {"approve", "reject", "withdrawn"}
  MaxRev = 1  Sweeping = TRUE  Retries = 1
  Faults = {"crash", "sign", "refused", "transient", "resolve"}
SYMMETRY HandlerSymmetry
INVARIANTS
  ExclusiveCall
PROPERTIES
  NeverExecutedTwice
CHECK_DEADLOCK FALSE
