SPECIFICATION Spec
CONSTANTS
  m = m
  n = n
  x = x
  a = a
  b = b
  digits = digits
  number = number
  Empty = Empty
  Bad = Bad
  None = None
  Name <- Names
  Driver = {"d"}
  Tab = {t1, t2}
  Importer = {t1}
  Id <- Ids
  TextId <- Texts
  Path <- Texts
  Ip <- Ips
  YamlId <- Yamled
  Exports <- MCExports
  Forms <- MCForms
INVARIANTS AnswerReady PendingForCause CleanImports
CHECK_DEADLOCK FALSE
