\* Liveness: failed updates, unwritable network.json, unusable configs, flushes; no cycle breaks off.
SPECIFICATION FairSpec
CONSTANTS
  Devices = {d1}
  Nodes = {n1}
  Happens = {"network", "update", "config", "flush"}
  RunsUpdate = TRUE
  NoParent = NoParent  NoDevice = NoDevice  Blank = Blank
PROPERTIES ChangesReachLibreQoS FlushIsRebuilt
