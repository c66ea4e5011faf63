SPECIFICATION Spec
CONSTANTS
  WordBits = 3
  EndOfTime = 12
  None = None
  Signals <- MCSignals
  Settings <- MCSettings
  Values <- MCValues
INVARIANTS WithinRange 
PROPERTIES StairsHold WritesLand
CHECK_DEADLOCK FALSE
