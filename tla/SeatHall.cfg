SPECIFICATION HallSpec
CONSTANTS
  d1 = d1
  None = None
  Devices = {d1}
  Labels <- Everything
  Dates <- OneDay
  KnownDates = {}
  Cells <- SomeCells
  Parties = {1, 2}
  InitialDocs <- Halls
  MaxGets = 1
  MaxPending = 1
  LowestOffset <- OneTooHigh
INVARIANTS PartyLimit PanelLowered HallTypeOK LegendWhileCalm
