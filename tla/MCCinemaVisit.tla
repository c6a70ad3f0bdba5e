---------------------------- MODULE MCCinemaVisit ----------------------------
\* CinemaVisit with attempts and movies as model values, interchangeable.
EXTENDS CinemaVisit, TLC

CONSTANTS c1, c2, c3, m1, m2

Alike == Permutations(Calls) \cup Permutations(Movies)
=============================================================================
