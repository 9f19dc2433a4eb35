\* The CPU planner on two CPUs with nothing pinned: a node's structure flaps.
SPECIFICATION PlansSpec
CONSTANTS
  Items <- MCItems
  Bins <- MCBins
  Loads = {1}
  Capacities = {2}
  EvenNum = 3
  EvenDen = 2
  MoveLimit = 2
  Nowhere = 99
  Nodes <- MCNodes
  Routers = {20, 21}
  Devices = {1, 2, 3, 4}
  Parent <- MCParent
  Home <- MCHome
  RouterOf <- MCRouterOf
  Wanted <- MCWanted
  Static = {4}
  Rates <- MCRates
  BinCounts = {2}
  Pinnable = {}
  PinChoices = {99}
  Flaggable = {}
  SplitNum = 1
  SplitDen = 1
  Budget = 1
  RatioNum = 3
  RatioDen = 2
  Top = 0
  NoRouter = 0
  None = 99
  Absent = 98
PROPERTIES NoFlap
CHECK_DEADLOCK FALSE
