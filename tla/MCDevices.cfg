\* Two routers, one contended IP, an operator who adds, edits, deletes and flushes.
SPECIFICATION Spec
CONSTANTS
  r1 = r1  r2 = r2  ip1 = ip1  ip2 = ip2
  PPPa = PPPa  PPPb = PPPb  HSh = HSh  LIST = LIST
  NoRow = NoRow  NoIP = NoIP  NoRouter = NoRouter  Rescan = Rescan
  Routers = {r1, r2}
  IPs = {ip1, ip2}
  Codes = {PPPa, LIST}
  Priority <- MCPriority
  Reportable <- DeviceReports
  Steady = {}
  PppCodes = {PPPa}
  Calls <- OperatorCalls
  PppSynced = {r1, r2}
  FullScanOver = 1
  ConfigChoices = {{r1, r2}}
  GuiRows <- OperatorRows
  GuiOps = {"add", "update", "delete", "flush"}
INVARIANTS TypeOK UniqueIPs HighestPriorityWins NoGhosts
PROPERTIES StaticRowsKept
