SPECIFICATION GridSpec
CONSTANTS
  None = None
  MovieCount = 2
  NoGenre <- OneWithout
  MaxInFlight = 1
  MaxBusy = 2
  Cells = {c1, c2}
  c1 = c1
  c2 = c2
SYMMETRY Alike
INVARIANTS GridTypeOK OptionsPanel ListShown GenresOfShownList GenreForEveryRow PopularAgainKeepsOne GenreUnderItsMovie
PROPERTIES ListSpec
