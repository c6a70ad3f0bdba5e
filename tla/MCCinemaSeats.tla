---------------------------- MODULE MCCinemaSeats ----------------------------
\* Small instances of CinemaSeats for TLC.  Cell 12 is a seat of the second row.
EXTENDS CinemaSeats

CONSTANTS d1, d2

OneDay      == {"13/07/2018"}
AnyDay      == {"13/07/2018", ""}
OneCell     == {12}

\* Who opens which picker.
Walker      == [d \in Devices |-> IF d = d1 THEN {"date"} ELSE {}]
Nobody      == [d \in Devices |-> {}]

\* Every showing has its document, with no seat taken.
EmptyHalls  == {[s \in Docs |-> {}]}

\* Any of the documents may be missing.
AnyHalls    == [Docs -> {None, {}}]
=============================================================================
