SPECIFICATION SpecOneDay
CONSTANTS
  h1 = h1  h2 = h2
  None = None
  Members = {1, 2, 3}
  Teams = {{1, 2, 3}}
  LastDay = 0
  Working = {0}
  Leaves = {1, 2}
  Handlers = {h1, h2}
  Ahead = 1
  MaxRequests = 3
  MaxTeamChanges = 0
  MaxFaults = 1
SYMMETRY HandlerSymmetry
INVARIANTS RestartHeals
