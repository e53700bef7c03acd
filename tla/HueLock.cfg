CONSTANTS
  Players = {"p", "q", "r"}
  Offs = {"o"}
  ATTEMPTS = 3
  MaxRows = 1
CHECK_DEADLOCK FALSE
SPECIFICATION Spec
INVARIANTS HeldForFullRun
