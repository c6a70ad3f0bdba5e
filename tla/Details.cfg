SPECIFICATION Spec
CONSTANTS
  m1 = m1
  m2 = m2
  a1 = a1
  a2 = a2
  Movies <- TwoMovies
  Actors <- TwoActors
  Cast <- Casts
  Filmography <- Films
  MaxPages = 3
INVARIANTS TypeOK PartsDrawn CharactersInOrder OneCharacterEach PagesFollowRows
PROPERTIES LoadedInTheEnd PagesGoOnward
