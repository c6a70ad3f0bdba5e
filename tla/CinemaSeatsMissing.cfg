SPECIFICATION Spec
CONSTANTS
  d1 = d1
  d2 = d2
  None = None
  Devices = {d1}
  Labels <- Walker
  Dates <- AnyDay
  KnownDates <- OneDay
  Cells <- OneCell
  Parties = {}
  InitialDocs <- AnyHalls
  MaxGets = 2
  MaxPending = 2
  LowestOffset = 0
INVARIANTS LostMapMeansMissingShowing
