---------------------------- MODULE MCMovieGrid ----------------------------
\* MovieGrid with two movies in a list, one of all six without a genre, and two
\* interchangeable cells.
EXTENDS MovieGrid, TLC

CONSTANTS c1, c2

OneWithout == {<<"latest", 2>>}

Alike == Permutations(Cells)
=============================================================================
