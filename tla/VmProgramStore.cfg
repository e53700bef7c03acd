SPECIFICATION Spec
CONSTANTS
  Program = {p1, p2}
  Torn = Torn
  Empty = Empty
  Absent = Absent
  FaultSets = {{"create", "write", "read", "backup", "install"}, {"create", "write", "read", "backup", "install", "rollback"}, {"remove"}}
INVARIANTS AutorunMatches BootHonoursReply
PROPERTIES SnapshotSurvives
