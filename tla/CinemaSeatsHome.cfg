SPECIFICATION Spec
CONSTANTS
  d1 = d1
  d2 = d2
  None = None
  Devices = {d1, d2}
  Labels <- Nobody
  Dates <- OneDay
  KnownDates <- OneDay
  Cells <- OneCell
  Parties = {}
  InitialDocs <- EmptyHalls
  MaxGets = 1
  MaxPending = 1
  LowestOffset = 0
PROPERTIES EventuallyShown HomeIsCurrent
