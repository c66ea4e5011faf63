SPECIFICATION Spec
CONSTANTS
  a = a
  b = b
  one = one
  p = p
  q = q
  x = x
  Empty = Empty
  Bad = Bad
  None = None
  Id <- Ids
  TextId <- Texts
  Ip <- Ips
  Path <- Paths
  Configs <- MCConfigs
  Lists = {l1, l2}
INVARIANTS DeviceScanExact LockedBindable OwnFileKept
PROPERTIES LocksLegalConfigs
