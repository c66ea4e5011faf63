CONSTANTS
  d1 = d1
  d2 = d2
  n1 = n1
  n2 = n2
  w1 = w1
  w2 = w2
  l1 = l1
  None = None
  Torn = Torn
  Devices <- TwoDevices
  VlanOf <- FirstInVlan
  Nic = {n1, n2}
  Worker = {w1}
  Jobs <- Moves
  Boots = {"plain"}
  Lists = {l1}
  Rights = {TRUE}
  Privileged = TRUE
  ManageNetwork = TRUE
  IpMayFail = FALSE
  Busy = {d1, d2}
SPECIFICATION Spec
PROPERTIES ResetCleansNetwork
