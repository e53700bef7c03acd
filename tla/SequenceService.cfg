SPECIFICATION Spec
CONSTANTS
  Tracks = 2
  MaxBits = 2
  MaxInterval = 2
  Half = 3
  Kinds = {"native", "stop", "program"}
  Compiled <- MCCompiled
INVARIANTS BusyIsActive
PROPERTIES Paced FiniteEnds
