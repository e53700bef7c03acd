CONSTANTS
  Clients = {"a", "b"}
  Fds = {1, 2, 3}
  Slot = {1, 2}
  HISTORY_MAX = 1
  MaxOutput = 2
CHECK_DEADLOCK FALSE
SPECIFICATION LiveSpec
INVARIANTS OneOwner SeenInOrder SavedWhole
 
