------------------------------ MODULE MCDetails ------------------------------
\* Two actors, of whom one plays in both movies; the service knows no movie of
\* the other.
EXTENDS Details, TLC

CONSTANTS m1, m2, a1, a2

TwoMovies == {m1, m2}
TwoActors == {a1, a2}
Casts     == m1 :> {a1} @@ m2 :> {a1, a2}
Films     == a1 :> <<m1, m2>> @@ a2 :> << >>
=============================================================================
