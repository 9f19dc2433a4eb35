\* A build that raises after network.json was written.
SPECIFICATION FairSpec
CONSTANTS
  Devices = {d1}
  Nodes = {n1}
  Happens = {"build"}
  RunsUpdate = TRUE
  NoParent = NoParent  NoDevice = NoDevice  Blank = Blank
PROPERTIES ChangesSurviveMishaps
