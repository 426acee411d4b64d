SPECIFICATION ServicesSpec
CONSTANTS
  a = a  b = b  gitlab = gitlab  forgejo = forgejo
  None = None
  People = {a, b}
  Providers = {gitlab, forgejo}
  MaxUsers = 2
  MaxLanes = 2
  MaxRequests = 5
  Jobs = {"approve", "deny", "promote", "demote", "deactivate", "reactivate", "signin", "logout", "tokens", "team"}
  client1 = client1
  Addresses = {client1}
  Capacity = 2
  Cost = 3
  TicksPerSecond = 2
  LastTick = 7
  MaxPerTick = 3
  NoBucket = NoBucket
  Staff = {1, 2, 3}
  AlwaysHome = {3}
  LastDate = 8
  DaysBack = 3
  HorizonDays = 5
  MaxMoves = 1
  Crew = {a, b}
  LastDay = 3
  RotaDays = {1, 2}
  Lookahead = 1
  NoOne = NoOne
  MaxRows = 5
  MaxSubscriptions = 1
  MaxEdits = 2
  StaleDays = {1}
  Tabs = {1}
  NoSub = NoSub
  Colleagues = {a, b}
  Contract = {b}
  Nobody = Nobody
  MaxNews = 2
  MaxPages = 2
INVARIANTS ServicesTypeOK SessionsAreAdmitted NothingLeftOfTheDenied RateIsKept ScoreKnowsTheLastDays FeedTellsDuty PagesAgree
PROPERTIES AdminRemains
CHECK_DEADLOCK FALSE
