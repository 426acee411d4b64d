SPECIFICATION Spec
CONSTANTS
  h1 = h1  h2 = h2  h3 = h3
  a = a  b = b  c = c
  None = None
  Admins = {r}
  r = r
  Members = {a, b, c}
  Permanent = {c}
  Exempt = {}
  Contract <- ContractOfA
  LastDay = 1
  Weekdays = {0, 1}
  Holidays = {}
  PeriodDays = 2
  MaxDaysPerPeriod = 1
  RequestHorizonDays = 1
  SettlementDays = 1
  MinOnsitePercentage = 50
  MinOnsiteAbsolute = 1
  SeatCap = 1
  Handlers = {h1, h2}
  Scheduler = {h1}
  Jobs = {"ask", "cancel", "withdraw", "report", "mark", "reassign", "swap", "settle", "purge", "page", "feed", "team", "account", "leave"}
  MaxBusy = 1
  MaxSwaps = 2
  MaxRequests = 3
  MaxFaults = 0
INVARIANTS TypeOK
PROPERTIES FloorHeld QuotaHeld AdminDecisionStands PickerStopsAtTheCap
