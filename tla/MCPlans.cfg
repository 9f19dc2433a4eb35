\* The balancing loops and the CPU planner.  Balance's run stops when it is done.
SPECIFICATION PlansSpec
CONSTANTS
  Items <- MCItems
  Bins <- MCBins
  Loads = {0, 1, 3}
  Capacities = {0, 2}
  EvenNum = 3
  EvenDen = 2
  MoveLimit = 2
  Nowhere = 99
  Nodes <- MCNodes
  Routers = {20, 21}
  Devices = {1, 2, 3, 4}
  Parent <- MCParent
  Home <- MCHome
  RouterOf <- MCRouterOf
  Wanted <- MCWanted
  Static = {4}
  Rates <- MCRates
  BinCounts = {1, 2}
  Pinnable = {10}
  PinChoices = {1, 99}
  Flaggable = {11}
  SplitNum = 1
  SplitDen = 1
  Budget = 1
  RatioNum = 3
  RatioDen = 2
  Top = 0
  NoRouter = 0
  None = 99
  Absent = 98
INVARIANTS PlansTypeOK LoadsAgree PlacedTight Level
PROPERTIES NoFlip RunEnds TreeWhole Settles
CHECK_DEADLOCK FALSE
