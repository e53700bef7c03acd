CONSTANTS
  QueueSize = 2
  DrainLines = 1
  Backlog = 2
  Images = {"a", "b"}
  MaxChunks = 2
  MaxCodes = 3
  MaxJobs = 2
  MaxVersions = 2
  MaxRestarts = 1
  MaxShots = 1
  Families = {"display", "scan", "file", "vm", "led"}
SPECIFICATION Spec
INVARIANTS StopIsFinal ReadsInOrder JobTracked StoredIsWhole
PROPERTIES DisplayFollows
