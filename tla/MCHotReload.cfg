CONSTANTS
  d1 = d1
  s1 = s1
  s2 = s2
  e1 = e1
  e2 = e2
  NoMap = NoMap
  NoJob = NoJob
  Torn = Torn
  Devices <- OneDevice
  Names <- TwoNames
  Addr <- Addresses
  Beyond <- Far
  Editor = {e1, e2}
  Jobs <- Together
  MaxMaps = 3
  Files <- OneFile
  Starts <- StartOff
SPECIFICATION Spec
INVARIANTS ServersAgree CsvCurrent SettingsSaved ServedValid ProfilesCurrent
PROPERTIES EditsOneSignal
