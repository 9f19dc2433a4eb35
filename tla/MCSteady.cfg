\* A subscriber who stays connected among others who do not; routers leave the config.
\* Liveness: what the service recovers to once faults stop.
SPECIFICATION FairSpec
CONSTANTS
  r1 = r1  r2 = r2  ip1 = ip1  ip2 = ip2
  PPPa = PPPa  PPPb = PPPb  HSh = HSh  LIST = LIST
  NoRow = NoRow  NoIP = NoIP  NoRouter = NoRouter  Rescan = Rescan
  Routers = {r1, r2}
  IPs = {ip1, ip2}
  Codes = {PPPa, PPPb, HSh, LIST}
  Priority <- MCPriority
  Reportable <- SteadyReports
  Steady <- SteadySet
  PppCodes = {PPPa, PPPb}
  Calls <- SteadyCalls
  PppSynced = {r1, r2}
  FullScanOver = 1
  ConfigChoices = {{r1, r2}, {r1}}
  GuiRows = {}
  GuiOps = {}
INVARIANTS HighestPriorityWins NoGhosts
PROPERTIES SteadyStaysShaped GhostsAgeOut SteadyGetsShaped
