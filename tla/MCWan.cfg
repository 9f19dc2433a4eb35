\* Two managers and an administrator.
SPECIFICATION MCSpec
CONSTANTS
  r1 = r1  r2 = r2  a = a  W1 = W1  W2 = W2
  IPs = {a}
  Blocks <- SoloBlocks
  Lists = {W1, W2}
  ConfigChoices <- MCConfigs
  ByHand <- MCByHand
  Cycle = Cycle  Requests = {r1, r2}  NoJob = NoJob
  NoWan = NoWan  NoDevice = NoDevice  NoCache = NoCache
INVARIANTS TypeOK CacheIsRouter
PROPERTIES ForeignUntouched ServiceHeals
