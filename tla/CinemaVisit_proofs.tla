-------------------------- MODULE CinemaVisit_proofs --------------------------
(***************************************************************************)
(* What a visit to the cinema keeps to for any movies, dates and attempts. *)
(* A visit is a behaviour of Session, so the facts proved there carry over.*)
(***************************************************************************)
EXTENDS CinemaVisit, Session_proofs

\* A cinema step leaves the menus and the attempts alone.
LEMMA CinemaKeepsSession == CinemaStep => UNCHANGED vars
BY DEF CinemaStep, TapCinema, MoviesArrive, HandleSingleTap, DidSelectRow,
       OpenPage, DetailsArrive, ClickOnView, TurnPicker, PickerRests,
       ClickOnButton, Book, Submit, BackToCinema, Back

\* Every step of a visit is one of Session, or none (VisitNext).
LEMMA VisitStepIsSessionStep == [VisitNext]_visitVars => [Next]_vars
<1>1. SessionStep => Next
  BY DEF SessionStep, MainScreen, MenuStep, LoginStep, Next
<1>2. UNCHANGED visitVars => UNCHANGED vars BY DEF visitVars
<1> QED BY <1>1, <1>2, CinemaKeepsSession DEF VisitNext

\* Under the cinema the app goes on as Session says.
THEOREM VisitIsSession == VisitSpec => Spec
BY VisitStepIsSessionStep, PTL DEF VisitSpec, VisitInit, Spec

\* So the menus of a visit agree with the flag, and every screen lies where it
\* belongs, whatever the user does in the cinema (Session).
THEOREM VisitKeepsMenus ==
  VisitSpec => [](TypeOK /\ MenuMatchesFlag /\ ScreensAlternate)
BY VisitIsSession, TypeCorrect, MenuMatches, ScreensHold, PTL

-----------------------------------------------------------------------------
(* Logged in while in the cinema *)

CInv ==
  /\ IInv
  /\ AttemptOfLogin
  /\ place # "list" => Top.kind = "member"

\* A step of Session that keeps the main screen keeps a member's menu on top.
LEMMA MemberMenuStays ==
  ASSUME IInv, AttemptOfLogin, Top.kind = "member", MenuStep \/ LoginStep
  PROVE  Top'.kind = "member"
<1>1. ~TapLogin /\ ~EnterText BY DEF TapLogin, EnterText
<1>2. CASE MenuStep BY <1>2 DEF MenuStep, TapLogout, AnswerNo, Top, Depth
<1>3. ASSUME NEW c \in Calls, Attempt(c) PROVE UNCHANGED stack
  <2>1. CASE ButtonPressed(c) \/ TokenReply(c) \/ CallFails(c)
    BY <2>1 DEF ButtonPressed, TokenReply, CallFails
  <2>2. CASE SessionReply(c)
    <3>1. calls[c] # Idle BY <2>2 DEF SessionReply, Idle
    <3>2. calls[c].screen # Depth BY <3>1 DEF AttemptOfLogin
    <3> QED BY <2>2, <3>2 DEF SessionReply
  <2> QED BY <1>3, <2>1, <2>2 DEF Attempt
<1> QED BY <1>1, <1>2, <1>3 DEF LoginStep, Top, Depth

\* A launch starts on the main screen with nothing under way.
LEMMA InitCInv == VisitInit => CInv
<1> SUFFICES ASSUME VisitInit PROVE CInv OBVIOUS
<1>1. Init BY DEF VisitInit
<1>2. IInv BY <1>1, InitIInv
<1>3. AttemptOfLogin BY <1>1 DEF Init, AttemptOfLogin
<1> QED BY <1>2, <1>3 DEF CInv, VisitInit

\* Every step of a visit keeps the invariant: steps of Session by what has been
\* proved of them, steps of the cinema because they leave the menus alone.
LEMMA StepCInv == CInv /\ [VisitNext]_visitVars => CInv'
<1> SUFFICES ASSUME CInv, [VisitNext]_visitVars PROVE CInv' OBVIOUS
<1>1. [Next]_vars BY VisitStepIsSessionStep
<1>2. IInv' /\ AttemptOfLogin' BY <1>1, StepIInv, AttemptsStepOfLogin DEF CInv
<1>3. CASE SessionStep
  <2>1. CASE MainScreen
    <3>1. place' = "list" BY <2>1 DEF MainScreen
    <3> QED BY <1>2, <3>1 DEF CInv
  <2>2. CASE (MenuStep \/ LoginStep) /\ UNCHANGED visit
    <3>1. place' = place BY <2>2 DEF visit, cinema
    <3>2. Top.kind = "member" => Top'.kind = "member"
      BY <2>2, MemberMenuStays DEF CInv
    <3> QED BY <1>2, <3>1, <3>2 DEF CInv
  <2> QED BY <1>3, <2>1, <2>2 DEF SessionStep
<1>4. CASE CinemaStep
  <2>1. UNCHANGED vars BY <1>4, CinemaKeepsSession
  <2>2. Top' = Top BY <2>1 DEF vars, Top, Depth
  <2>3. place = "list" => place' = "list" \/ Top.kind = "member"
    BY <1>4 DEF CinemaStep, TapCinema, MoviesArrive, HandleSingleTap,
       DidSelectRow, OpenPage, DetailsArrive, ClickOnView, TurnPicker,
       PickerRests, ClickOnButton, Book, Submit, BackToCinema, Back, OnTop
  <2> QED BY <1>2, <2>2, <2>3 DEF CInv
<1>5. CASE UNCHANGED visitVars
  <2>1. place' = place /\ Top' = Top
    BY <1>5 DEF visitVars, visit, cinema, vars, Top, Depth
  <2> QED BY <1>2, <2>1 DEF CInv
<1> QED BY <1>3, <1>4, <1>5 DEF VisitNext

\* Whoever is in the cinema is logged in, for any number of attempts that are
\* still under way.
THEOREM CinemaHolds == VisitSpec => []CinemaWhileLoggedIn
<1>1. CInv => CinemaWhileLoggedIn
  BY DEF CInv, IInv, MemberMenuIsLoggedIn, CinemaWhileLoggedIn
<1> QED BY <1>1, InitCInv, StepCInv, PTL DEF VisitSpec

-----------------------------------------------------------------------------
(* The pages of the cinema *)

\* A page that is there is of its kind, and a new one is there.
LEMMA PagesAreRecords ==
  ASSUME CinemaTypes
  PROVE  /\ programme # None => programme \in Programme
         /\ page # None => page \in Page
         /\ seats # None => seats \in Seats
         /\ \A r \in Programme \cup Page \cup Seats : r # None
         /\ FreshProgramme \in Programme
         /\ \A m \in Movies : FreshPage(m) \in Page
<1>0. Days[1] \in {Days[i] : i \in 1..4} OBVIOUS
<1>1. FreshProgramme \in Programme BY <1>0 DEF FreshProgramme, Programme
<1>2. \A m \in Movies : FreshPage(m) \in Page BY DEF FreshPage, Page
<1> QED BY <1>1, <1>2, VisitAssumption DEF CinemaTypes, VisitAssumption

\* moveCollectionUp and moveCollectionDown leave a programme.
LEMMA MovedProgramme ==
  ASSUME programme \in Programme, NEW down \in BOOLEAN
  PROVE  /\ Moved(down) \in Programme
         /\ Moved(down).isMovedDown = down
         /\ Moved(down).tableHidden = ~down
         /\ Moved(down).lowered
              = IF down THEN programme.lowered + 1 ELSE programme.lowered - 1
<1> DEFINE there == IF down THEN programme.lowered + 1 ELSE programme.lowered - 1
<1>1. programme.lowered \in Int BY DEF Programme
<1>2. there \in Int BY <1>1
<1>3. Moved(down) = [programme EXCEPT !.isMovedDown = down, !.tableHidden = ~down,
                                      !.lowered = there]
  BY DEF Moved
<1> HIDE DEF there
<1>4. /\ Moved(down) \in Programme
      /\ Moved(down).isMovedDown = down /\ Moved(down).tableHidden = ~down
      /\ Moved(down).lowered = there
  BY <1>2, <1>3 DEF Programme
<1> QED BY <1>4 DEF there

\* A move away from where the flag says the collection is brings it there, from
\* wherever the moves before have left it.
LEMMA MovedPanel ==
  ASSUME programme \in Programme, NEW down \in BOOLEAN,
         programme.lowered = IF programme.tableHidden THEN 0 ELSE 1,
         programme.tableHidden = down
  PROVE  Moved(down).lowered = IF down THEN 1 ELSE 0
<1>1. CASE down
  <2>1. programme.lowered = 0 BY <1>1
  <2>2. Moved(down).lowered = programme.lowered + 1 BY <1>1, MovedProgramme
  <2>3. Moved(down).lowered = 1 BY <2>1, <2>2
  <2> QED BY <1>1, <2>3
<1>2. CASE ~down
  <2>1. programme.lowered = 1 BY <1>2
  <2>2. Moved(down).lowered = programme.lowered - 1 BY <1>2, MovedProgramme
  <2>3. Moved(down).lowered = 0 BY <2>1, <2>2
  <2> QED BY <1>2, <2>3
<1> QED BY <1>1, <1>2

\* Whatever row is picked, the label gets the name of a day.
LEMMA LabelIsDay ==
  ASSUME NEW row \in 1..4
  PROVE  Label[row] \in {Days[i] : i \in 1..4}
<1>1. /\ Label[1] = Days[1] /\ Label[2] = Days[2]
      /\ Label[3] = Days[2] /\ Label[4] = Days[3]
  BY DEF Label
<1>2. row = 1 \/ row = 2 \/ row = 3 \/ row = 4 OBVIOUS
<1> QED BY <1>1, <1>2

\* While the user has waited for the picker: what is picked, what is shown, what
\* NSUserDefaults holds and what the seats were opened with are one date, and
\* nothing turns behind the seats.
OneDate ==
  page # None /\ ~page.hasty =>
    /\ selectedDate = page.picked
    /\ page.label = page.picked
    /\ ~page.stray
    /\ seats # None => seats.date = page.picked /\ page.turning = None

OfOneMovie == seats # None => seats.movie \in {page.movie, None}

PInv == CinemaTypes /\ ProgrammePanel /\ OneDate /\ OfOneMovie

\* At a launch there is no page of the cinema.
LEMMA InitPInv == VisitInit => PInv
BY DEF VisitInit, PInv, CinemaTypes, ProgrammePanel, OneDate, OfOneMovie, Places

\* Every step of a visit keeps the pages in order; one step per action.
LEMMA StepPInv == PInv /\ [VisitNext]_visitVars => PInv'
<1> SUFFICES ASSUME PInv, [VisitNext]_visitVars PROVE PInv' OBVIOUS
<1> USE VisitAssumption DEF PInv, VisitAssumption
<1>r. /\ programme # None => programme \in Programme
      /\ page # None => page \in Page
      /\ seats # None => seats \in Seats
      /\ \A r \in Programme \cup Page \cup Seats : r # None
      /\ FreshProgramme \in Programme
      /\ \A m \in Movies : FreshPage(m) \in Page
  BY PagesAreRecords
<1>f. /\ FreshProgramme.isMovedDown = FALSE /\ FreshProgramme.lowered = 0
      /\ FreshProgramme.tableHidden = TRUE
  BY DEF FreshProgramme
<1>p. /\ place \in Places
      /\ programme # None <=> place # "list"
      /\ page # None <=> place \in {"page", "seats", "payment", "paid"}
      /\ seats # None <=> place \in {"seats", "payment", "paid"}
      /\ presented \in BOOLEAN /\ selectedDate \in Dates \cup {"", None}
  BY DEF CinemaTypes, Places
\* A step that leaves one kind of page keeps what is said of it alone.
<1>a. CASE UNCHANGED visit
  BY <1>a DEF visit, cinema, CinemaTypes, ProgrammePanel, OneDate, OfOneMovie
<1>1. CASE MainScreen
  BY <1>1, <1>p DEF MainScreen, CinemaTypes, ProgrammePanel, OneDate, OfOneMovie, Places
<1>2. CASE TapCinema \/ BackToCinema
  <2>1. /\ place' = "programme" /\ programme' = FreshProgramme
        /\ page' = None /\ seats' = None
        /\ presented' \in BOOLEAN /\ selectedDate' = selectedDate
    <3>1. CASE TapCinema BY <3>1, <1>p DEF TapCinema
    <3>2. CASE BackToCinema BY <3>2, <1>p DEF BackToCinema
    <3> QED BY <1>2, <3>1, <3>2
  <2>2. programme' \in Programme /\ programme' # None BY <1>r, <2>1
  <2>3. CinemaTypes' BY <1>p, <2>1, <2>2 DEF CinemaTypes, Places
  <2>4. ProgrammePanel' BY <1>f, <2>1 DEF ProgrammePanel
  <2> QED BY <2>1, <2>3, <2>4 DEF OneDate, OfOneMovie
<1>3. CASE MoviesArrive
  <2>1. /\ programme # None /\ programme' = [programme EXCEPT !.loaded = TRUE]
        /\ UNCHANGED <<place, presented, selectedDate, page, seats>>
    BY <1>3 DEF MoviesArrive
  <2>2. /\ programme' \in Programme
        /\ programme'.isMovedDown = programme.isMovedDown
        /\ programme'.lowered = programme.lowered
        /\ programme'.tableHidden = programme.tableHidden
    BY <1>r, <2>1 DEF Programme
  <2> QED BY <1>r, <1>p, <2>1, <2>2 DEF CinemaTypes, ProgrammePanel, OneDate, OfOneMovie, Places
<1>4. CASE HandleSingleTap
  <2>1. /\ place = "programme" /\ programme' = Moved(~programme.isMovedDown)
        /\ UNCHANGED <<place, presented, selectedDate, page, seats>>
    BY <1>4 DEF HandleSingleTap, OnTop
  <2>2. programme \in Programme BY <1>r, <1>p, <2>1
  <2>3. programme.isMovedDown \in BOOLEAN /\ programme.tableHidden \in BOOLEAN
    BY <2>2 DEF Programme
  <2>4. /\ programme.lowered = IF programme.tableHidden THEN 0 ELSE 1
        /\ programme.tableHidden = ~programme.isMovedDown
    BY <1>p, <2>1, <2>3 DEF ProgrammePanel
  <2>5. /\ programme' \in Programme
        /\ programme'.isMovedDown = ~programme.isMovedDown
        /\ programme'.tableHidden = programme.isMovedDown
        /\ programme'.lowered = IF ~programme.isMovedDown THEN 1 ELSE 0
    BY <2>1, <2>2, <2>3, <2>4, MovedProgramme, MovedPanel
  <2>6. ProgrammePanel' BY <2>3, <2>5 DEF ProgrammePanel
  <2> QED BY <1>r, <1>p, <2>1, <2>5, <2>6 DEF CinemaTypes, ProgrammePanel, OneDate, OfOneMovie, Places
<1>5. CASE DidSelectRow
  <2>1. PICK row \in 1..4 :
          /\ place = "programme" /\ ~programme.tableHidden
          /\ programme' = [Moved(FALSE) EXCEPT !.sortedBy = Label[row],
                                               !.pickedRow = row]
          /\ UNCHANGED <<place, presented, selectedDate, page, seats>>
    BY <1>5 DEF DidSelectRow, OnTop
  <2>2. programme \in Programme /\ programme.tableHidden = FALSE
    BY <1>r, <1>p, <2>1 DEF Programme
  <2>3. programme.lowered = IF programme.tableHidden THEN 0 ELSE 1
    BY <1>p, <2>1 DEF ProgrammePanel
  <2>4. /\ Moved(FALSE) \in Programme /\ Moved(FALSE).isMovedDown = FALSE
        /\ Moved(FALSE).tableHidden = TRUE /\ Moved(FALSE).lowered = 0
    BY <2>2, <2>3, MovedProgramme, MovedPanel
  <2>5. Label[row] \in {Days[i] : i \in 1..4} BY LabelIsDay
  <2>6. /\ programme' \in Programme
        /\ programme'.isMovedDown = FALSE /\ programme'.tableHidden = TRUE
        /\ programme'.lowered = 0
    BY <2>1, <2>4, <2>5 DEF Programme
  <2>7. ProgrammePanel' BY <2>6 DEF ProgrammePanel
  <2> QED BY <1>r, <1>p, <2>1, <2>6, <2>7 DEF CinemaTypes, ProgrammePanel, OneDate, OfOneMovie, Places
<1>6. CASE OpenPage
  <2>1. PICK m \in Movies :
          /\ place = "programme" /\ place' = "page" /\ page' = FreshPage(m)
          /\ selectedDate' = "" /\ UNCHANGED <<presented, programme, seats>>
    BY <1>6 DEF OpenPage, OnTop
  <2>2. page' \in Page BY <1>r, <2>1
  <2>3. page'.picked = "" /\ page'.label = "" /\ ~page'.stray
    BY <2>1 DEF FreshPage
  <2> QED BY <1>r, <1>p, <2>1, <2>2, <2>3 DEF CinemaTypes, ProgrammePanel, OneDate, OfOneMovie, Places
<1>7. CASE DetailsArrive
  <2>1. /\ page # None /\ page' = [page EXCEPT !.details = TRUE]
        /\ UNCHANGED <<place, presented, selectedDate, programme, seats>>
    BY <1>7 DEF DetailsArrive
  <2>2. /\ page' \in Page /\ page'.movie = page.movie
        /\ page'.label = page.label /\ page'.picked = page.picked
        /\ page'.turning = page.turning /\ page'.stray = page.stray
        /\ page'.hasty = page.hasty
    BY <1>r, <2>1 DEF Page
  <2> QED BY <1>r, <1>p, <2>1, <2>2 DEF CinemaTypes, ProgrammePanel, OneDate, OfOneMovie, Places
<1>8. CASE ClickOnView
  <2>1. PICK date \in {page.turning, None} :
          /\ place = "page"
          /\ page' = [page EXCEPT !.isExtended = ~@, !.label = Titled,
                        !.turning = date, !.stray = date # None,
                        !.hasty = @ \/ page.turning # None]
          /\ UNCHANGED <<place, presented, selectedDate, programme, seats>>
    BY <1>8 DEF ClickOnView, OnTop
  <2>2. page \in Page BY <1>r, <1>p, <2>1
  <2>3. Titled \in Dates \cup {""} BY <2>2 DEF Titled, Page
  <2>4. date \in Dates \cup {None} BY <2>2 DEF Page
  <2>5. page' \in Page /\ page'.movie = page.movie
    BY <2>1, <2>2, <2>3, <2>4 DEF Page
  <2>6. /\ page'.label = Titled /\ page'.picked = page.picked
        /\ page'.stray = (date # None)
        /\ page'.hasty = (page.hasty \/ page.turning # None)
    BY <2>1, <2>2 DEF Page
  <2>7. ASSUME ~page'.hasty PROVE page'.label = page.picked /\ ~page'.stray
    <3>1. ~page.hasty /\ page.turning = None BY <2>6, <2>7
    <3>2. selectedDate = page.picked /\ page.label = page.picked
      BY <1>r, <1>p, <2>1, <3>1 DEF OneDate
    <3>3. date = None BY <3>1
    <3> QED BY <2>6, <3>2, <3>3 DEF Titled
  <2> QED BY <1>r, <1>p, <2>1, <2>5, <2>6, <2>7
       DEF CinemaTypes, ProgrammePanel, OneDate, OfOneMovie, Places
<1>9. CASE TurnPicker
  <2>1. PICK date \in Dates :
          /\ place = "page"
          /\ page' = [page EXCEPT !.turning = date, !.stray = FALSE]
          /\ UNCHANGED <<place, presented, selectedDate, programme, seats>>
    BY <1>9 DEF TurnPicker, OnTop
  <2>2. page \in Page BY <1>r, <1>p, <2>1
  <2>3. /\ page' \in Page /\ page'.movie = page.movie
        /\ page'.label = page.label /\ page'.picked = page.picked
        /\ ~page'.stray /\ page'.hasty = page.hasty
    BY <2>1, <2>2 DEF Page
  <2> QED BY <1>r, <1>p, <2>1, <2>2, <2>3
       DEF CinemaTypes, ProgrammePanel, OneDate, OfOneMovie, Places
<1>10. CASE PickerRests
  <2>1. /\ page # None /\ page.turning # None /\ selectedDate' = page.turning
        /\ page' = [page EXCEPT !.label = IF page.stray THEN @ ELSE page.turning,
                      !.picked = page.turning, !.turning = None, !.stray = FALSE]
        /\ UNCHANGED <<place, presented, programme, seats>>
    BY <1>10 DEF PickerRests
  <2>2. page \in Page /\ page.turning \in Dates BY <1>r, <2>1 DEF Page
  <2>3. /\ page' \in Page /\ page'.movie = page.movie
        /\ page'.picked = page.turning /\ ~page'.stray
        /\ page'.hasty = page.hasty
        /\ ~page.stray => page'.label = page.turning
    BY <2>1, <2>2 DEF Page
  <2>4. ~page.hasty => seats = None /\ ~page.stray BY <2>1 DEF OneDate
  <2> QED BY <1>r, <1>p, <2>1, <2>2, <2>3, <2>4
       DEF CinemaTypes, ProgrammePanel, OneDate, OfOneMovie, Places
<1>11. CASE ClickOnButton
  <2>1. /\ place = "page" /\ place' = "seats"
        /\ seats' = [movie |-> IF page.details THEN page.movie ELSE None,
                     date |-> selectedDate]
        /\ page' = [page EXCEPT !.hasty = @ \/ page.turning # None]
        /\ UNCHANGED <<presented, selectedDate, programme>>
    BY <1>11 DEF ClickOnButton, OnTop
  <2>2. page \in Page BY <1>r, <1>p, <2>1
  <2>3. /\ page' \in Page /\ page'.movie = page.movie
        /\ page'.label = page.label /\ page'.picked = page.picked
        /\ page'.turning = page.turning /\ page'.stray = page.stray
        /\ page'.hasty = (page.hasty \/ page.turning # None)
    BY <2>1, <2>2 DEF Page
  <2>4. /\ seats' \in Seats /\ seats'.date = selectedDate
        /\ seats'.movie \in {page.movie, None}
    BY <1>p, <2>1, <2>2 DEF Seats, Page
  <2> QED BY <1>r, <1>p, <2>1, <2>2, <2>3, <2>4
       DEF CinemaTypes, ProgrammePanel, OneDate, OfOneMovie, Places
<1>12. CASE Book \/ Submit
  BY <1>r, <1>p, <1>12 DEF Book, Submit, OnTop, CinemaTypes, ProgrammePanel,
     OneDate, OfOneMovie, Places
<1>13. CASE Back
  BY <1>r, <1>p, <1>13 DEF Back, OnTop, CinemaTypes, ProgrammePanel, OneDate,
     OfOneMovie, Places
<1>14. UNCHANGED visitVars => UNCHANGED visit BY DEF visitVars
<1> QED BY <1>a, <1>1, <1>2, <1>3, <1>4, <1>5, <1>6, <1>7, <1>8, <1>9, <1>10,
           <1>11, <1>12, <1>13, <1>14 DEF VisitNext, SessionStep, CinemaStep

\* The pages are in order at all times (the handlers of the three controllers).
LEMMA PagesInvariant == VisitSpec => []PInv
BY InitPInv, StepPInv, PTL DEF VisitSpec

\* The pages of a visit have their types, and exactly those are there that the
\* page on top stands on.
THEOREM VisitTypeCorrect == VisitSpec => []VisitTypeOK
<1>1. TypeOK /\ PInv => VisitTypeOK BY DEF PInv, VisitTypeOK
<1> QED BY <1>1, PagesInvariant, VisitKeepsMenus, PTL

\* However often the panel is opened and closed, by the view or by a row, the
\* collection hangs one panel lower exactly while the table can be seen, and the
\* flag knows: the relative moves of moveCollectionUp and moveCollectionDown
\* never add up.
THEOREM ProgrammePanelHolds == VisitSpec => []ProgrammePanel
BY PagesInvariant, PTL DEF PInv

\* The seats are those of the date picked and shown on the movie's page, whatever
\* NSUserDefaults held before, unless the picker was not waited for.
THEOREM ShowingHolds == VisitSpec => []ShowingAsPicked
<1>1. PInv => ShowingAsPicked
  BY VisitAssumption DEF PInv, CinemaTypes, OneDate, OfOneMovie, ShowingAsPicked
<1> QED BY <1>1, PagesInvariant, PTL
=============================================================================
