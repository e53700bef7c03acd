CONSTANTS
  N = 3
  None = None
  Stranger = Stranger
  c1 = c1
  c2 = c2
  c3 = c3
  AI = {0, 1}
  Arbiter = {0}
  Conns = {c1, c2}
  Reach <- OneUnsteady
  Requests <- RotationRequests
SYMMETRY Connections
SPECIFICATION HubSpec
INVARIANTS NoStarvation
PROPERTIES RotatesTurn
