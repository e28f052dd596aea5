\* The smallest list whose second page loses a row to the first.
CONSTANTS
  r1 = r1
  r2 = r2
  r3 = r3
  r4 = r4
  r5 = r5
  NoRow = NoRow
  Rows <- MCFewRows
  PageSize = 2
  MaxPages = 2
SPECIFICATION Spec
INVARIANTS NotFoundMeansAbsent
