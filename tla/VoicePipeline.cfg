CONSTANTS
  Clients = {"piper", "sox"}
  MaxChildren = 1
  Slots = {1, 2}
  Count = 2
  Remote = {"piper", "sox"}
SPECIFICATION Spec
INVARIANTS PoolCounts PlaysWhole  NobodySleepsOn
 
CHECK_DEADLOCK FALSE
