CONSTANTS
  N = 2
  None = None
  Stranger = Stranger
  c1 = c1
  c2 = c2
  c3 = c3
  AI = {0}
  Arbiter = {0}
  Conns = {c1, c2}
  Reach <- AnyOutcome
  Requests <- LeaseRequests
SYMMETRY Connections
SPECIFICATION Spec
INVARIANTS OneInitiation
