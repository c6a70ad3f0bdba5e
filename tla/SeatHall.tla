------------------------------- MODULE SeatHall -------------------------------
(***************************************************************************)
(* What the seat screen draws (cellForItemAtIndexPath: of                  *)
(* CinemaSeatsViewController.m and CircleCollectionViewCell.m) while the   *)
(* steps of CinemaSeats go on: the colours of the cells, and the flag      *)
(* isSelected, which lives in the cells' views and not in the screen.      *)
(***************************************************************************)
EXTENDS CinemaSeats

VARIABLES
  colours,  \* per phone, the colours of its cells; NoCells without a map
  flagged,  \* per phone, the cells whose view has isSelected set
  calm      \* history: no cell had to be drawn anew, and no selection was
            \* booked, while a view had isSelected set

hall     == <<colours, flagged, calm>>
hallVars == <<vars, hall>>

Columns == 11

\* numberOfSeatsInRow when the cell at an index is drawn: reloadData sets it to
\* 0 and asks for the cells one after the other.
rowAt[index \in 0..109] ==
  IF index = 0 THEN 0
  ELSE LET row == rowAt[index - 1]
       IN  IF row + Columns < index THEN row + Columns ELSE row

Aisles == Corners \cup {i \in 0..109 : i \in {rowAt[i] + 2, rowAt[i] + 8}}

\* setCircleWithColor:, as the cell is drawn from the map.
ColourOf(map, c) ==
  CASE c \in Aisles       -> "clear"
    [] c \in map \ Aisles -> "darkGray"
    [] OTHER              -> "white"

NoCells == [c \in Cells |-> "none"]

Drawn(map) == IF map = None THEN NoCells ELSE [c \in Cells |-> ColourOf(map, c)]

Colours == {"none", "clear", "darkGray", "white", "yellow"}

HallInit ==
  /\ Init
  /\ colours = [d \in Devices |-> NoCells]
  /\ flagged = [d \in Devices |-> {}]
  /\ calm = [d \in Devices |-> TRUE]

-----------------------------------------------------------------------------
\* Mutant: the collection keeps what it has drawn.
NewHallKept(d) ==
  /\ flagged' = [flagged EXCEPT ![d] = {}]
  /\ calm' = [calm EXCEPT ![d] = TRUE]
  /\ UNCHANGED colours

\* A new collection view has no views yet.
NewHall(d) ==
  /\ colours' = [colours EXCEPT ![d] = NoCells]
  /\ flagged' = [flagged EXCEPT ![d] = {}]
  /\ calm' = [calm EXCEPT ![d] = TRUE]

\* reloadData: every cell is drawn from the map.  UIKit hands the views out again
\* in any order, or makes new ones, and nothing resets isSelected.
ReloadData(d) ==
  /\ colours' = [colours EXCEPT ![d] = Drawn(dictionary'[d])]
  /\ \E views \in SUBSET Cells :
       /\ Cardinality(views) <= Cardinality(flagged[d])
       /\ flagged' = [flagged EXCEPT ![d] = views]
  /\ calm' = [calm EXCEPT ![d] = @ /\ flagged[d] = {}]

\* setSelectOrDeselect of the view that is at c.
SetSelectOrDeselect(d, c) ==
  /\ flagged' = [flagged EXCEPT
       ![d] = IF c \in @ THEN @ \ {c} ELSE @ \cup {c}]
  /\ colours' = [colours EXCEPT
       ![d][c] = IF c \in flagged[d] THEN "white" ELSE "yellow"]
  /\ UNCHANGED calm

\* Mutant: a tap that is turned away still marks the cell.
MarkAlways(d, c) == SetSelectOrDeselect(d, c)

\* The view is told when the tap has changed the selection.
Mark(d, c) ==
  IF SelectionAfterTap(d, c) = seatsSelected[d] THEN UNCHANGED hall
                                                ELSE SetSelectOrDeselect(d, c)

\* The selection is emptied, the views stay as they are.
LeaveMarks(d) ==
  /\ calm' = [calm EXCEPT ![d] = @ /\ flagged[d] = {}]
  /\ UNCHANGED <<colours, flagged>>

-----------------------------------------------------------------------------
Opened(d) ==
  /\ \/ \E day \in Dates : ViewDidLoad(d, day)
     \/ Leave(d)
     \/ ButtonPressedWithoutMap(d)
  /\ NewHall(d)

Tapped(d) == \E c \in Cells : DidSelectItem(d, c) /\ Mark(d, c)

Reloaded(d) ==
  /\ \/ \E s \in Docs : GetReply(d, s) /\ View(d, s) # None /\ Show(d, s)
     \/ SnapshotArrives(d)
     \/ \E slot \in Slots : PickTime(d, slot)
     \/ \E n \in Parties : PickPeople(d, n)
  /\ ReloadData(d)

Booked(d) == ButtonPressed(d) /\ LeaveMarks(d)

Elsewhere(d) ==
  /\ \/ \E s \in Docs : /\ GetReply(d, s)
                         /\ dictionary' = dictionary /\ basis' = basis
                         /\ numberOfSeatsInRow' = numberOfSeatsInRow
     \/ Return(d)
     \/ \E picker \in Labels[d] : TapLabel(d, picker)
     \/ ListenerFails(d) \/ ServerApplies(d) \/ ServerRejects(d)
  /\ UNCHANGED hall

HallNext ==
  \E d \in Devices :
    Opened(d) \/ Tapped(d) \/ Reloaded(d) \/ Booked(d) \/ Elsewhere(d)

HallSpec == HallInit /\ [][HallNext]_hallVars

-----------------------------------------------------------------------------
(* PROPERTIES *)

\* The type invariant, that of the screens and documents included.
HallTypeOK ==
  /\ TypeOK
  /\ colours \in [Devices -> [Cells -> Colours]]
  /\ flagged \in [Devices -> SUBSET Cells]
  /\ calm \in [Devices -> BOOLEAN]
  /\ \A d \in Devices, c \in Cells :
       colours[d][c] = "none" <=> dictionary[d] = None

\* The legend over the seats (Selected, Taken, Available) tells the truth as long
\* as no reply, snapshot, pick or booking has met a selection: the selected seats
\* are yellow, the others have the colour of the map.  Only in an aisle, which
\* didSelectItemAtIndexPath: takes for seats, a cell that was given up is left
\* white.  Until then no selected seat is taken either: only a free seat can be
\* tapped, and only a map that meets the selection can take one.  After that the
\* flags of the views and the selection of the screen go their own ways.
LegendWhileCalm ==
  \A d \in Devices :
    calm[d] /\ dictionary[d] # None =>
      /\ flagged[d] = seatsSelected[d]
      /\ seatsSelected[d] \cap dictionary[d] = {}
      /\ \A c \in Cells :
           \/ c \in seatsSelected[d] /\ colours[d][c] = "yellow"
           \/ c \notin seatsSelected[d] /\ colours[d][c] = ColourOf(dictionary[d], c)
           \/ c \in Aisles \ seatsSelected[d] /\ colours[d][c] = "white"
=============================================================================
