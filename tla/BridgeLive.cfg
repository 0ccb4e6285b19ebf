SPECIFICATION LiveSpec
CONSTANTS
  skill = skill  exec = exec  agent = agent
  p1 = p1  h1 = h1  h2 = h2
  NoProposal = NoProposal
  Proposals = {p1}
  Handlers = {h1}
  Sources = {skill}
  SourceOf <- SourceOfSkill
  Restage = {skill}  Pinned = {skill}  Mutable = {p1}
  FailClosed = {}  Withdrawable = {skill}  Native = {}
  Owned = {}  Timed = {}
  Taken = {"approve"}
  MaxRev = 2  Sweeping = FALSE
  Countersigned = {skill}
  Retries = 1
  Faults = {"refused", "transient", "list"}
PROPERTIES
  EverythingSettles
  PendingGetsCard
CHECK_DEADLOCK FALSE
