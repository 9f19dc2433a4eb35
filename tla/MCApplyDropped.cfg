\* The operator's re-apply request and a full scan.
SPECIFICATION FairSpec
CONSTANTS
  Devices = {d1}
  Nodes = {n1}
  Happens = {"request"}
  RunsUpdate = TRUE
  NoParent = NoParent  NoDevice = NoDevice  Blank = Blank
PROPERTIES RequestedApplyRuns
