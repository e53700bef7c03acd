CONSTANTS
  N = 3
  None = None
  Stranger = Stranger
  c1 = c1
  c2 = c2
  c3 = c3
  AI = {0, 1}
  Arbiter = {0}
  Conns = {c1}
  Reach <- AnyOutcome
  Requests <- AllRequests
SPECIFICATION Spec
INVARIANTS TurnSurvivesRestart  
