SPECIFICATION Spec
CONSTANTS
  n1 = n1
  n2 = n2
  cloud = cloud
  delay = delay
  loss = loss
  Calls = {c1, c2}
  Ends <- MCEnds
  Networks = {cloud}
  Links <- MCLinks
  Fields = {delay, loss}
  Values = {0, 1}
  Requests <- MCRequests
SYMMETRY Symmetry
INVARIANTS
  IInv
  AsTold
  ReportsTheNearEnd
