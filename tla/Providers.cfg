SPECIFICATION FairSpec
CONSTANTS
  Box = {b1, b2}
  Client = {c1, c2}
  Loop = loop
  NoBox = NoBox
  Networked = {b2}
  MaxFaults = 1
CHECK_DEADLOCK FALSE
INVARIANTS TypeOK FcNoOrphan K8sIsolated K8sPolicyReleased E2bCacheFresh NoGhostExec RemovedOnce
PROPERTIES FcCollected LeaseSpec
