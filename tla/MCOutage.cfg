\* An unreachable router and a lower-priority entry elsewhere.
SPECIFICATION Spec
CONSTANTS
  r1 = r1  r2 = r2  ip1 = ip1  ip2 = ip2
  PPPa = PPPa  PPPb = PPPb  HSh = HSh  LIST = LIST
  NoRow = NoRow  NoIP = NoIP  NoRouter = NoRouter  Rescan = Rescan
  Routers = {r1, r2}
  IPs = {ip1, ip2}
  Codes = {PPPa, HSh, LIST}
  Priority <- MCPriority
  Reportable <- OutageReports
  Steady = {}
  PppCodes = {PPPa}
  Calls = {}
  PppSynced = {r1, r2}
  FullScanOver = 1
  ConfigChoices = {{r1, r2}}
  GuiRows = {}
  GuiOps = {}
PROPERTIES OutageKeepsShaping
