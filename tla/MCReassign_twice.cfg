SPECIFICATION SpecTwice
CONSTANTS
  h1 = h1  h2 = h2
  None = None
  Members = {1, 2, 3, 4}
  Teams = {{1, 2, 3, 4}}
  LastDay = 1
  Working = {0, 1}
  Leaves = {1, 2}
  Handlers = {h1}
  Ahead = 1
  MaxRequests = 4
  MaxAny = 2
  MaxTeamChanges = 0
  MaxFaults = 1
INVARIANTS ReassignIsIdempotent
