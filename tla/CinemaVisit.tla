----------------------------- MODULE CinemaVisit -----------------------------
(***************************************************************************)
(* A visit to the cinema on top of the menus of Session: the programme     *)
(* (CinemaListOfMoviesViewController.m), the page of a movie               *)
(* (CinemaMovieTableViewController.m, ChooseTimeTableViewCell.m), its      *)
(* seats and the payment.  The date a user picks reaches the seats through *)
(* NSUserDefaults, the movie through the reply with its details.           *)
(***************************************************************************)
EXTENDS Integers, Session

CONSTANTS
  Movies,  \* the documents of the collection "movies"
  Dates,   \* the rows of the picker on a movie's page
  None     \* nil: no such page, no value, no picker that turns

VARIABLES
  place,         \* "list" (no cinema at the root of the menu on top), or the
                 \* page on top of the cinema's navigation controller
  presented,     \* this navigation controller was presented over the menu
  selectedDate,  \* selectedDate of NSUserDefaults
  programme,     \* the first page
  page,          \* the movie's page, None when there is none
  seats          \* what the seats were opened with, None when there are none

cinema    == <<place, presented, programme, page, seats>>
visit     == <<cinema, selectedDate>>
visitVars == <<vars, visit>>

Places == {"list", "programme", "page", "seats", "payment", "paid"}

\* Today and the three days after it, as the table of the panel lists them.
Days == <<"Today", "14th July 2018", "15th July 2018", "16th July 2018">>

\* loaded: the movies have arrived; lowered: how often the collection was moved
\* down more than up (160 each); pickedRow: history, the row picked last.
Programme == [loaded : BOOLEAN, isMovedDown : BOOLEAN, tableHidden : BOOLEAN,
              lowered : Int, sortedBy : {Days[i] : i \in 1..4},
              pickedRow : 1..4]

FreshProgramme == [loaded |-> FALSE, isMovedDown |-> FALSE, tableHidden |-> TRUE,
                   lowered |-> 0, sortedBy |-> Days[1], pickedRow |-> 1]

\* label: the title of the cell, "" for "Choose a time".  turning: the date at
\* which the picker will come to rest; stray: its cell has been replaced.
\* picked and hasty are history: the date picked last on this page, and that
\* the user went on while the picker was turning.
Page == [movie : Movies, details : BOOLEAN, isExtended : BOOLEAN,
         label : Dates \cup {""}, turning : Dates \cup {None}, stray : BOOLEAN,
         picked : Dates \cup {""}, hasty : BOOLEAN]

FreshPage(m) == [movie |-> m, details |-> FALSE, isExtended |-> FALSE,
                 label |-> "", turning |-> None, stray |-> FALSE,
                 picked |-> "", hasty |-> FALSE]

Seats == [movie : Movies \cup {None}, date : Dates \cup {"", None}]

ASSUME VisitAssumption ==
  /\ "" \notin Dates
  /\ None \notin Dates \cup Movies \cup {""}
  /\ None \notin Programme \cup Page \cup Seats

CinemaTypes ==
  /\ place \in Places
  /\ presented \in BOOLEAN
  /\ selectedDate \in Dates \cup {"", None}
  /\ programme \in Programme \cup {None}
  /\ page \in Page \cup {None}
  /\ seats \in Seats \cup {None}
  /\ programme # None <=> place # "list"
  /\ page # None <=> place \in Places \ {"list", "programme"}
  /\ seats # None <=> place \in {"seats", "payment", "paid"}

\* The type invariant, that of the menus included.
VisitTypeOK == TypeOK /\ CinemaTypes

VisitInit ==
  /\ Init
  /\ place = "list" /\ presented = FALSE
  /\ selectedDate \in Dates \cup {"", None}
  /\ programme = None /\ page = None /\ seats = None

-----------------------------------------------------------------------------
(* The steps of Session *)

\* A new main screen, and with it no cinema.
MainScreen ==
  /\ Relaunch \/ AnswerYes
  /\ place' = "list" /\ presented' = FALSE
  /\ programme' = None /\ page' = None /\ seats' = None
  /\ UNCHANGED selectedDate

\* The menu cannot be reached from a cinema that was presented over it.
MenuStep == (~presented /\ TapLogout) \/ AnswerNo

LoginStep == TapLogin \/ EnterText \/ \E c \in Calls : Attempt(c)

SessionStep == MainScreen \/ ((MenuStep \/ LoginStep) /\ UNCHANGED visit)

-----------------------------------------------------------------------------
(* The programme *)

\* The row Cinema of the menu: a new programme becomes the root.
TapCinema ==
  /\ Top.kind = "member" /\ ~alert /\ ~presented
  /\ place' = "programme" /\ programme' = FreshProgramme
  /\ page' = None /\ seats' = None
  /\ UNCHANGED <<vars, presented, selectedDate>>

\* getDocumentsWithCompletion: answers, wherever the user is by then.
MoviesArrive ==
  /\ programme # None /\ ~programme.loaded
  /\ programme' = [programme EXCEPT !.loaded = TRUE]
  /\ UNCHANGED <<vars, place, presented, selectedDate, page, seats>>

\* moveCollectionDown, moveCollectionUp: the frame is moved from where it is,
\* and neither looks at the flag.
Moved(down) == [programme EXCEPT !.isMovedDown = down, !.tableHidden = ~down,
                                 !.lowered = IF down THEN @ + 1 ELSE @ - 1]

OnTop(p) == place = p /\ ~alert

HandleSingleTap ==
  /\ OnTop("programme")
  /\ programme' = Moved(~programme.isMovedDown)
  /\ UNCHANGED <<vars, place, presented, selectedDate, page, seats>>

\* The titles didSelectRowAtIndexPath: gives to the label.
Label == <<Days[1], Days[2], Days[2], Days[3]>>

\* Mutant: a row moves the collection and hides the table, but leaves the flag.
DidSelectRowKeepingFlag ==
  \E row \in 1..4 :
    /\ OnTop("programme") /\ ~programme.tableHidden
    /\ programme' = [programme EXCEPT !.tableHidden = TRUE, !.lowered = @ - 1,
                       !.sortedBy = Label[row], !.pickedRow = row]
    /\ UNCHANGED <<vars, place, presented, selectedDate, page, seats>>

DidSelectRow ==
  \E row \in 1..4 :
    /\ OnTop("programme") /\ ~programme.tableHidden
    /\ programme' = [Moved(FALSE) EXCEPT !.sortedBy = Label[row],
                                         !.pickedRow = row]
    /\ UNCHANGED <<vars, place, presented, selectedDate, page, seats>>

-----------------------------------------------------------------------------
(* The page of a movie *)

\* Mutant: viewDidLoad keeps the date.
OpenPageKeepingDate ==
  \E m \in Movies :
    /\ OnTop("programme") /\ programme.loaded
    /\ place' = "page"
    /\ page' = FreshPage(m)
    /\ UNCHANGED <<vars, presented, selectedDate, programme, seats>>

\* The segue with the movie's id, and viewDidLoad, which clears the date.
OpenPage ==
  \E m \in Movies :
    /\ OnTop("programme") /\ programme.loaded
    /\ place' = "page"
    /\ page' = FreshPage(m)
    /\ selectedDate' = ""
    /\ UNCHANGED <<vars, presented, programme, seats>>

DetailsArrive ==
  /\ page # None /\ ~page.details
  /\ page' = [page EXCEPT !.details = TRUE]
  /\ UNCHANGED <<vars, place, presented, selectedDate, programme, seats>>

\* The title a cell gets from cellForRowAtIndexPath: setTitle: leaves the one
\* of the nib when there is no date.
Titled == IF selectedDate \in Dates THEN selectedDate ELSE page.label

\* A tap on the title replaces the cell by another, taller or lower.  A picker
\* that is turning goes on in the old cell, or never gets to its row; it is not
\* followed any further when the user turns the new one, too.
ClickOnView ==
  /\ OnTop("page")
  /\ \E date \in {page.turning, None} :
       page' = [page EXCEPT !.isExtended = ~@, !.label = Titled,
                  !.turning = date, !.stray = date # None,
                  !.hasty = @ \/ page.turning # None]
  /\ UNCHANGED <<vars, place, presented, selectedDate, programme, seats>>

TurnPicker ==
  \E date \in Dates :
    /\ OnTop("page") /\ page.isExtended
    /\ page' = [page EXCEPT !.turning = date, !.stray = FALSE]
    /\ UNCHANGED <<vars, place, presented, selectedDate, programme, seats>>

\* pickerView:didSelectRow:, once the picker has come to rest.
PickerRests ==
  /\ page # None /\ page.turning # None
  /\ selectedDate' = page.turning
  /\ page' = [page EXCEPT !.label = IF page.stray THEN @ ELSE page.turning,
                !.picked = page.turning, !.turning = None, !.stray = FALSE]
  /\ UNCHANGED <<vars, place, presented, programme, seats>>

\* The segue to the seats: the movie's id is nil before the details are there,
\* and viewDidLoad of the seats reads the date.
ClickOnButton ==
  /\ OnTop("page")
  /\ place' = "seats"
  /\ seats' = [movie |-> IF page.details THEN page.movie ELSE None,
               date |-> selectedDate]
  /\ page' = [page EXCEPT !.hasty = @ \/ page.turning # None]
  /\ UNCHANGED <<vars, presented, selectedDate, programme>>

-----------------------------------------------------------------------------
(* Booking and paying *)

\* CinemaSeats says what is written.
Book ==
  /\ OnTop("seats")
  /\ place' = "payment"
  /\ UNCHANGED <<vars, presented, selectedDate, programme, page, seats>>

Submit ==
  /\ OnTop("payment")
  /\ place' = "paid"
  /\ UNCHANGED <<vars, presented, selectedDate, programme, page, seats>>

\* Mutant: the seats of the booking stay the current ones.
BackToCinemaKeepingSeats ==
  /\ OnTop("paid")
  /\ place' = "programme" /\ presented' = TRUE
  /\ programme' = FreshProgramme /\ page' = None
  /\ UNCHANGED <<vars, selectedDate, seats>>

\* A new programme is presented over everything.
BackToCinema ==
  /\ OnTop("paid")
  /\ place' = "programme" /\ presented' = TRUE
  /\ programme' = FreshProgramme /\ page' = None /\ seats' = None
  /\ UNCHANGED <<vars, selectedDate>>

\* The back button of the navigation bar.
Back ==
  \/ /\ OnTop("page")
     /\ place' = "programme" /\ page' = None
     /\ UNCHANGED <<vars, presented, selectedDate, programme, seats>>
  \/ /\ OnTop("seats")
     /\ place' = "page" /\ seats' = None
     /\ UNCHANGED <<vars, presented, selectedDate, programme, page>>
  \/ /\ \/ OnTop("payment") /\ place' = "seats"
        \/ OnTop("paid") /\ place' = "payment"
     /\ UNCHANGED <<vars, presented, selectedDate, programme, page, seats>>

CinemaStep ==
  \/ TapCinema \/ MoviesArrive \/ HandleSingleTap \/ DidSelectRow
  \/ OpenPage \/ DetailsArrive \/ ClickOnView \/ TurnPicker \/ PickerRests
  \/ ClickOnButton \/ Book \/ Submit \/ BackToCinema \/ Back

VisitNext == SessionStep \/ CinemaStep

VisitSpec == VisitInit /\ [][VisitNext]_visitVars

-----------------------------------------------------------------------------
(* PROPERTIES *)

\* Nobody is in the cinema without being logged in: a logout leaves it, and no
\* late reply can clear the flag under it.
CinemaWhileLoggedIn == place # "list" => loggedIn

\* The collection never drifts: it hangs one panel lower exactly while the table
\* can be seen, and the flag that decides on the next move knows, whichever of
\* the two handlers made the moves before and whatever page lay over them.
ProgrammePanel ==
  programme # None =>
    /\ programme.lowered = IF programme.tableHidden THEN 0 ELSE 1
    /\ programme.isMovedDown = ~programme.tableHidden

\* The showing whose seats are on the screen is of the movie the user opened,
\* or of no movie at all, and of the date picked on this movie's page and shown
\* there, unless the user went on while the picker was turning.  A date of an
\* earlier page, visit or launch never gets through.
ShowingAsPicked ==
  seats # None =>
    /\ seats.movie \in {page.movie, None}
    /\ ~page.hasty => seats.date = page.picked /\ page.label = page.picked

\* The label Sorted by names the row that was picked.
SortedByNamesRow == programme # None => programme.sortedBy = Days[programme.pickedRow]
=============================================================================
