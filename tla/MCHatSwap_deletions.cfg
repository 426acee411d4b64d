SPECIFICATION Spec
CONSTANTS
  m1 = m1  m2 = m2  m3 = m3  a1 = a1  a2 = a2  a3 = a3  h1 = h1  h2 = h2
  None = None
  Members = {m1, m2, m3}
  Assignments = {a1, a2, a3}
  Covers = {a2}
  DateOf <- DateOfRow
  Handlers = {h1}
  MaxSwaps = 2
  LastDay = 0
  Deletions = TRUE
  MaxRepairs = 1
SYMMETRY MemberSymmetry
INVARIANTS CapturedPairIsLive
PROPERTIES OwnersMoveBySwap DaysAreConserved
