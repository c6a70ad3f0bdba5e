------------------------------ MODULE MovieGrid ------------------------------
(***************************************************************************)
(* The cells of the main screen, on top of MovieList.  A cell is drawn when *)
(* its row comes onto the screen (cellForItemAtIndexPath:) and waits to be  *)
(* reused when the row leaves it or the collection is reloaded.  It has no  *)
(* prepareForReuse, and its genre label is only written while there are     *)
(* genres: otherwise it goes on showing what it showed for the row before.  *)
(* The arrival of a genre draws nothing.                                    *)
(***************************************************************************)
EXTENDS MovieList

CONSTANT Cells  \* the cells UIKit has made for the collection

VARIABLES
  row,     \* the row a cell shows, 0 while it is off the screen
  label,   \* the movie whose genre its label names, None for the storyboard's text
  written  \* history: the label was written when the cell was drawn for its row

cellVars == <<row, label, written>>
gridVars == <<vars, cellVars>>

ASSUME GridAssumption == None \notin Movies

\* The type invariant, that of the list included.
GridTypeOK ==
  /\ TypeOK
  /\ row \in [Cells -> Rows \cup {0}]
  /\ label \in [Cells -> Movies \cup {None}]
  /\ written \in [Cells -> BOOLEAN]

OffScreen == [c \in Cells |-> 0]
Unwritten == [c \in Cells |-> FALSE]
AsMade    == [c \in Cells |-> None]

GridInit == Init /\ row = OffScreen /\ label = AsMade /\ written = Unwritten

-----------------------------------------------------------------------------
\* Mutant: the collection is not reloaded.
ReloadForgotten == UNCHANGED cellVars

\* reloadData: no cell keeps its row, every one keeps its label.
ReloadData ==
  /\ row' = OffScreen /\ written' = Unwritten
  /\ UNCHANGED label

\* Each of the four blocks of a list reloads.
ListStep == \E k \in Requests : ListReply(k) /\ ReloadData

\* Nothing else that the screen does reaches a cell.
OtherStep ==
  /\ \/ TapSortedBy
     \/ \E option \in Options : TapOption(option)
     \/ \E k \in Requests :
          \/ ListFails(k)
          \/ \E i \in Rows : DetailReply(k, i) \/ DetailFails(k, i)
  /\ UNCHANGED cellVars

\* A row comes onto the screen, in a cell that waits for one.
ComesInto(c, i) == movieList # None /\ row[c] = 0 /\ \A d \in Cells : row[d] # i

\* cellForItemAtIndexPath:
CellForItem(c, i) ==
  /\ ComesInto(c, i)
  /\ row' = [row EXCEPT ![c] = i]
  /\ \/ /\ listOfGenres = << >>
        /\ written' = [written EXCEPT ![c] = FALSE] /\ UNCHANGED label
     \/ /\ i \in DOMAIN listOfGenres
        /\ written' = [written EXCEPT ![c] = TRUE]
        /\ label' = [label EXCEPT ![c] = listOfGenres[i]]
  /\ UNCHANGED vars

\* The row has no genre though others have.
CellForItemRaises(c, i) ==
  /\ ComesInto(c, i) /\ i \notin DOMAIN listOfGenres
  /\ CellForItemEndsApp
  /\ row' = OffScreen /\ label' = AsMade /\ written' = Unwritten

ScrollAway(c) ==
  /\ row[c] # 0
  /\ row' = [row EXCEPT ![c] = 0]
  /\ written' = [written EXCEPT ![c] = FALSE]
  /\ UNCHANGED <<vars, label>>

GridNext ==
  \/ ListStep
  \/ OtherStep
  \/ \E c \in Cells, i \in Rows : CellForItem(c, i) \/ CellForItemRaises(c, i)
  \/ \E c \in Cells : ScrollAway(c)

GridSpec == GridInit /\ [][GridNext]_gridVars

-----------------------------------------------------------------------------
(* PROPERTIES *)

\* What a label says was written for the row its cell shows.
Labelled == {c \in Cells : row[c] # 0 /\ written[c]}

\* On a list loaded on its own, the labels written for the rows they are on name
\* genres of this list's movies, no movie's twice, and those of their own rows
\* unless a genre came before that of an earlier movie (one reply that overtook
\* another, or a movie without a genre).  A cell drawn before there was any genre
\* is not promised anything: it shows that of an earlier row or list until it is
\* drawn again.
GenreUnderItsMovie ==
  alone /\ ListsQuiet /\ movieList # "popular" =>
    /\ \A c \in Labelled :
         /\ label[c] \in {OptionOf(movieList)} \X Rows
         /\ inOrder => label[c] = <<OptionOf(movieList), row[c]>>
    /\ \A c, d \in Labelled : c # d => label[c] # label[d]
=============================================================================
