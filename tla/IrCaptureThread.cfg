SPECIFICATION Spec
CONSTANTS
  Idle = 3
  MinPulse = 1
  MaxPulses = 2
  MaxStamp = 1
  Tolerance = 0
  Slack = 1
  ResultSlots = 1
INVARIANTS OneTransmission FrameHeldWhileRead AlignmentIsBest
 
CHECK_DEADLOCK FALSE
