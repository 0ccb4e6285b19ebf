SPECIFICATION Spec
CONSTANTS
  skill = skill  exec = exec  agent = agent
  p1 = p1  h1 = h1  h2 = h2
  NoProposal = NoProposal
  Proposals = {p1}
  Handlers = {h1, h2}
  Sources = {skill}
  SourceOf <- SourceOfSkill
  Restage = {skill}  Pinned = {skill}  Mutable = {p1}
  FailClosed = {}  Withdrawable = {skill}  Native = {}
  Owned = {}  Timed = {}
  Taken = {"approve", "reject", "withdrawn"}
  MaxRev = 2  Sweeping = FALSE
  Countersigned = {skill}
  Retries = 0
  Faults = {"transient", "unsigned", "read", "partialList", "resolve"}
SYMMETRY HandlerSymmetry
INVARIANTS
  SinglePublisher
  AppliedWasReviewed
PROPERTY KeepsAuthority
CHECK_DEADLOCK FALSE
