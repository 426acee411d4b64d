SPECIFICATION Spec
CONSTANTS
  h1 = h1  h2 = h2  h3 = h3
  a = a  b = b  c = c
  None = None
  Admins = {r}
  r = r
  Members = {a, b}
  Permanent = {}
  Exempt = {}
  Contract <- ContractOfA
  LastDay = 1
  Weekdays = {1}
  Holidays = {}
  PeriodDays = 2
  MaxDaysPerPeriod = 2
  RequestHorizonDays = 1
  SettlementDays = 1
  MinOnsitePercentage = 50
  MinOnsiteAbsolute = 0
  SeatCap = 1
  Handlers = {h1, h2, h3}
  Scheduler = {h1}
  Jobs = {"ask", "cancel", "withdraw", "reassign", "swap", "settle", "page", "team", "account"}
  MaxBusy = 2
  MaxSwaps = 1
  MaxRequests = 2
  MaxFaults = 1
INVARIANT AssignedDaysStand
PROPERTIES PendingIsSettled
