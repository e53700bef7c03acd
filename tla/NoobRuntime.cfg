CONSTANTS
  Capacity = 2
  Modulus = 2
  Record <- MCRecord
  Blank = 0
  Levels <- MCLevels
  Threshold = 12
  Ratio = 200
  Minimum = 1
  Duration = 0
  REARM = 2
  HALF_BUCKETS = 2
  MaxSamples = 2
  Programs <- MCPrograms
  Word = 256
  REGISTER_COUNT = 2
  MEMORY_BYTES = 1
  CALL_DEPTH = 2
  Plans <- MCPlans
  MAX_CHECKS = 2
  MAX_PROBES = 3
  BUDGET = 2
  Families = {"boot", "machine", "detector"}
  Calls <- MCCalls
SPECIFICATION LiveRuntimeSpec
INVARIANTS FreshResults MeansFollowWindow ReportFinal
PROPERTIES Implements  FramesServed SamplerEnds SelfTestEnds
