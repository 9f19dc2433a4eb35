\* Everything that can happen, at any time.
SPECIFICATION Spec
CONSTANTS
  Devices = {d1}
  Nodes = {n1}
  Happens = {"build", "network", "update", "config", "crash", "edit", "flush", "request"}
  RunsUpdate = TRUE
  NoParent = NoParent  NoDevice = NoDevice  Blank = Blank
INVARIANTS TypeOK UpdateSeesConsistentFiles NothingForgotten
