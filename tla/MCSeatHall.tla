------------------------------ MODULE MCSeatHall ------------------------------
\* A small instance of SeatHall for TLC: 12 and 23 are seats, 13 is drawn as the
\* aisle of its row.  The day has no timestamp, so that both showings share one
\* document: what is drawn does not depend on which of them it is.
EXTENDS SeatHall

CONSTANT d1

OneDay     == {"13/07/2018"}
SomeCells  == {12, 13, 23}
Everything == [d \in Devices |-> Pickers]
\* Nothing is taken, or one seat, or there is no document.
Halls      == [Docs -> {{}, {23}, None}]

\* Room for one pick too many.
OneTooHigh == -100

\* The aisles drawn are columns 2 and 8 of every row, and drawing all cells
\* leaves numberOfSeatsInRow at LastRow.
ASSUME RowsAssumption ==
  /\ rowAt[109] = LastRow
  /\ Aisles = Corners \cup {Columns * r + k : r \in 0..9, k \in {2, 8}}
=============================================================================
