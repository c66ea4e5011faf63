SPECIFICATION SupervisorFairSpec
CONSTANTS
  c1 = c1
  c2 = c2
  NoEngine = NoEngine
  MaxEngines = 3
  Client = {c1}
  Requests <- AllRequests
INVARIANTS OrphanOnlyByLateReader StopIsFinal
PROPERTIES ExitNoticed
