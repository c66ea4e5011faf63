SPECIFICATION Spec
CONSTANTS
  a = a
  b = b
  Empty = Empty
  Bad = Bad
  Name <- Names
  Files <- MCFiles
INVARIANTS ScanExact AllReported RestoreExact
PROPERTIES KeepsLegalFiles
