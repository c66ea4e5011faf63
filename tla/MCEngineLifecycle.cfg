CONSTANTS
  d1 = d1
  d2 = d2
  n1 = n1
  n2 = n2
  w1 = w1
  w2 = w2
  l1 = l1
  None = None
  Torn = Torn
  Devices <- TwoDevices
  VlanOf <- FirstInVlan
  Nic = {n1}
  Worker = {w1}
  Jobs <- Session
  Boots = {"plain", "reset", "restore"}
  Lists = {l1}
  Rights = {TRUE, FALSE}
  Privileged = FALSE
  ManageNetwork = TRUE
  IpMayFail = TRUE
  Busy = {d1, d2}
SPECIFICATION Spec
INVARIANTS TypeOK RunningServes DiskMatches LockMeansProject
