SPECIFICATION Spec
CONSTANTS
  None = None
  MovieCount = 1
  NoGenre = {}
  MaxInFlight = 1
  MaxBusy = 2
INVARIANT TitleNamesOption
