SPECIFICATION FairSpec
CONSTANTS
  d1 = d1
  d2 = d2
  All = All
  None = None
  Device <- Devices
  First = d1
  MaxTable = 1
  MaxPoll = 2
  MaxEnter = 2
INVARIANTS RowsOfSelected
PROPERTIES ViewFollows ValuesSettle
