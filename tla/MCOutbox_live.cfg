SPECIFICATION FairSpec
CONSTANTS
  r1 = r1  r2 = r2  m1 = m1  m2 = m2  a1 = a1  s1 = s1  s2 = s2
  None = None
  Rows = {r1, r2}
  Members = {m1}
  Admins = {}
  Servers = {s1}
  Batch = 1
  MaxAttempts = 2
  BackoffBase = 1
  MaxBackoff = 2
  DurationMax = 8
  Horizon = 1
  MaxFaults = 1
PROPERTIES SettledOnceAndEventually
