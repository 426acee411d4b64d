SPECIFICATION SpecAlone
CONSTANTS
  h1 = h1  h2 = h2
  None = None
  Members = {1, 2, 3, 4}
  Teams = {{1, 2, 3}}
  LastDay = 2
  Working = {0, 2}
  Leaves = {1, 2}
  Handlers = {h1}
  Ahead = 2
  MaxRequests = 5
  MaxAny = 3
  MaxTeamChanges = 1
  MaxFaults = 0
INVARIANTS ReportedLeaveIsCovered EnsureRepairs FairRotation SteadyReassignIsIdempotent
