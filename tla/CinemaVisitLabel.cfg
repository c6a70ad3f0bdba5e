SPECIFICATION VisitSpec
CONSTANTS
  Calls = {c1, c2}
  c1 = c1
  c2 = c2
  c3 = c3
  MaxScreens = 4
  Movies = {m1, m2}
  m1 = m1
  m2 = m2
  Dates = {"13/07/2018", "14/07/2018"}
  None = None
SYMMETRY Alike
INVARIANT SortedByNamesRow
