\* Five rows, pages of two, at most two pages: the cap cuts the longest list.
CONSTANTS
  r1 = r1
  r2 = r2
  r3 = r3
  r4 = r4
  r5 = r5
  NoRow = NoRow
  Rows <- MCRows
  PageSize = 2
  MaxPages = 2
SPECIFICATION Spec
SYMMETRY RowSymmetry
INVARIANTS TypeOK NoListedRowIsMissed RepeatsAreAdditions StillListIsReturnedWhole
