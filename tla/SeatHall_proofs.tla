--------------------------- MODULE SeatHall_proofs ---------------------------
(***************************************************************************)
(* What the seat screen draws, for any phones, seats and parties.          *)
(***************************************************************************)
EXTENDS SeatHall, CinemaSeats_proofs

\* While nothing has disturbed the marks, the views and the screen agree on what
\* is selected, also when the screen has no map.
MarksAgree ==
  \A d \in Devices : calm[d] => /\ flagged[d] = seatsSelected[d]
                                /\ dictionary[d] = None => flagged[d] = {}

IInv == HallTypeOK /\ MarksAgree /\ LegendWhileCalm

\* What IInv says of one phone.
PhoneOK(d) ==
  /\ colours[d] \in [Cells -> Colours]
  /\ \A c \in Cells : colours[d][c] = "none" <=> dictionary[d] = None
  /\ flagged[d] \in SUBSET Cells
  /\ calm[d] \in BOOLEAN
  /\ calm[d] =>
       /\ flagged[d] = seatsSelected[d]
       /\ dictionary[d] = None => flagged[d] = {}
       /\ dictionary[d] # None => seatsSelected[d] \cap dictionary[d] = {}
       /\ dictionary[d] # None =>
            \A c \in Cells :
              \/ c \in seatsSelected[d] /\ colours[d][c] = "yellow"
              \/ c \notin seatsSelected[d] /\ colours[d][c] = ColourOf(dictionary[d], c)
              \/ c \in Aisles \ seatsSelected[d] /\ colours[d][c] = "white"

HallFunctions ==
  /\ colours \in [Devices -> [Cells -> Colours]]
  /\ flagged \in [Devices -> SUBSET Cells]
  /\ calm \in [Devices -> BOOLEAN]

LEMMA OnePhone == IInv <=> TypeOK /\ HallFunctions /\ \A d \in Devices : PhoneOK(d)
BY DEF IInv, HallTypeOK, HallFunctions, MarksAgree, LegendWhileCalm, PhoneOK

\* What a cell is drawn with is a colour, and none of those of other states.
LEMMA DrawnColours ==
  ASSUME NEW map \in {None} \cup SUBSET Cells
  PROVE  /\ Drawn(map) \in [Cells -> Colours]
         /\ \A c \in Cells : Drawn(map)[c] = "none" <=> map = None
         /\ map # None => \A c \in Cells : Drawn(map)[c] = ColourOf(map, c)
BY DEF Drawn, NoCells, ColourOf, Colours

\* A phone nothing happens to.
LEMMA PhoneKept ==
  ASSUME NEW d \in Devices, PhoneOK(d),
         colours'[d] = colours[d], flagged'[d] = flagged[d], calm'[d] = calm[d],
         dictionary'[d] = dictionary[d], seatsSelected'[d] = seatsSelected[d]
  PROVE  PhoneOK(d)'
BY DEF PhoneOK

\* The phones that a step of d leaves alone.
OthersKept(d) ==
  \A e \in Devices \ {d} :
    /\ colours'[e] = colours[e] /\ flagged'[e] = flagged[e] /\ calm'[e] = calm[e]
    /\ dictionary'[e] = dictionary[e] /\ seatsSelected'[e] = seatsSelected[e]

LEMMA OthersFollow ==
  ASSUME NEW d \in Devices, \A e \in Devices : PhoneOK(e), OthersKept(d), PhoneOK(d)'
  PROVE  \A e \in Devices : PhoneOK(e)'
<1> SUFFICES ASSUME NEW e \in Devices, e # d PROVE PhoneOK(e)' OBVIOUS
<1>1. /\ colours'[e] = colours[e] /\ flagged'[e] = flagged[e] /\ calm'[e] = calm[e]
      /\ dictionary'[e] = dictionary[e] /\ seatsSelected'[e] = seatsSelected[e]
  BY DEF OthersKept
<1> QED BY <1>1, PhoneKept

-----------------------------------------------------------------------------
(* What the steps do to the phone that takes them *)

\* Opening and leaving the screen (viewDidLoad: and the end of it).
LEMMA OpenedStep ==
  ASSUME TypeOK, HallFunctions, NEW d \in Devices, Opened(d)
  PROVE  HallFunctions' /\ OthersKept(d) /\ PhoneOK(d)'
<1>1. Fresh(d) /\ NewHall(d)
  BY DEF Opened, ViewDidLoad, Leave, ButtonPressedWithoutMap, Gone
<1>2. /\ dictionary \in [Devices -> {None} \cup SUBSET Cells]
      /\ seatsSelected \in [Devices -> SUBSET Cells]
  BY DEF TypeOK
<1>3. /\ dictionary' = [dictionary EXCEPT ![d] = None]
      /\ seatsSelected' = [seatsSelected EXCEPT ![d] = {}]
      /\ colours' = [colours EXCEPT ![d] = NoCells]
      /\ flagged' = [flagged EXCEPT ![d] = {}]
      /\ calm' = [calm EXCEPT ![d] = TRUE]
  BY <1>1 DEF Fresh, NewHall
<1>4. /\ NoCells \in [Cells -> Colours] /\ \A c \in Cells : NoCells[c] = "none"
  BY DEF NoCells, Colours
<1>5. HallFunctions' BY <1>3, <1>4 DEF HallFunctions
<1>6. OthersKept(d) BY <1>2, <1>3 DEF OthersKept, HallFunctions
<1>7. /\ dictionary'[d] = None /\ seatsSelected'[d] = {} /\ colours'[d] = NoCells
      /\ flagged'[d] = {} /\ calm'[d] = TRUE
  BY <1>2, <1>3 DEF HallFunctions
<1>8. PhoneOK(d)' BY <1>4, <1>7 DEF PhoneOK
<1> QED BY <1>5, <1>6, <1>8

\* A view without the flag cannot get it from reloadData.
LEMMA NoFlagsLeft ==
  ASSUME NEW views \in SUBSET Cells, Cardinality(views) <= Cardinality({})
  PROVE  views = {}
<1>1. IsFiniteSet(views) /\ Cardinality(views) \in Nat BY SeatsFinite
<1>2. Cardinality({}) = 0 BY FS_EmptySet
<1>3. Cardinality(views) = 0 BY <1>1, <1>2
<1> QED BY <1>1, <1>3, FS_EmptySet

\* reloadData after a reply, a snapshot or a pick.
LEMMA ReloadedStep ==
  ASSUME TypeOK, TypeOK', HallFunctions, NEW d \in Devices, PhoneOK(d), Reloaded(d)
  PROVE  HallFunctions' /\ OthersKept(d) /\ PhoneOK(d)'
<1>1. /\ dictionary \in [Devices -> {None} \cup SUBSET Cells]
      /\ seatsSelected \in [Devices -> SUBSET Cells]
      /\ dictionary'[d] \in {None} \cup SUBSET Cells
  BY DEF TypeOK
<1>2. /\ \E map : dictionary' = [dictionary EXCEPT ![d] = map]
      /\ \/ seatsSelected' = seatsSelected
         \/ seatsSelected' = [seatsSelected EXCEPT ![d] = {}]
  <2>1. dictionary' = dictionary => dictionary' = [dictionary EXCEPT ![d] = dictionary[d]]
    BY <1>1
  <2>2. CASE \E s \in Docs : GetReply(d, s) /\ View(d, s) # None /\ Show(d, s)
    BY <2>2 DEF GetReply, Show
  <2>3. CASE SnapshotArrives(d) BY <2>3 DEF SnapshotArrives, Show
  <2>4. CASE \E slot \in Slots : PickTime(d, slot)
    BY <2>1, <2>4 DEF PickTime, AfterPick
  <2>5. CASE \E n \in Parties : PickPeople(d, n)
    BY <2>1, <2>5 DEF PickPeople, AfterPick
  <2> QED BY <2>2, <2>3, <2>4, <2>5 DEF Reloaded
<1>3. \A e \in Devices \ {d} : /\ dictionary'[e] = dictionary[e]
                              /\ seatsSelected'[e] = seatsSelected[e]
  BY <1>1, <1>2
<1>4. seatsSelected'[d] \in {seatsSelected[d], {}} BY <1>1, <1>2
<1>5. PICK views \in SUBSET Cells :
        /\ Cardinality(views) <= Cardinality(flagged[d])
        /\ flagged' = [flagged EXCEPT ![d] = views]
        /\ colours' = [colours EXCEPT ![d] = Drawn(dictionary'[d])]
        /\ calm' = [calm EXCEPT ![d] = @ /\ flagged[d] = {}]
  BY DEF Reloaded, ReloadData
<1>6. /\ Drawn(dictionary'[d]) \in [Cells -> Colours]
      /\ \A c \in Cells : Drawn(dictionary'[d])[c] = "none" <=> dictionary'[d] = None
      /\ dictionary'[d] # None =>
           \A c \in Cells : Drawn(dictionary'[d])[c] = ColourOf(dictionary'[d], c)
  BY <1>1, DrawnColours
<1>7. /\ colours'[d] = Drawn(dictionary'[d]) /\ flagged'[d] = views
      /\ calm'[d] = (calm[d] /\ flagged[d] = {})
  BY <1>5 DEF HallFunctions
<1>8. HallFunctions'
  <2>1. colours' \in [Devices -> [Cells -> Colours]] BY <1>5, <1>6 DEF HallFunctions
  <2>2. flagged' \in [Devices -> SUBSET Cells] BY <1>5 DEF HallFunctions
  <2>3. calm' \in [Devices -> BOOLEAN] BY <1>5 DEF HallFunctions
  <2> QED BY <2>1, <2>2, <2>3 DEF HallFunctions
<1>9. OthersKept(d) BY <1>3, <1>5 DEF OthersKept, HallFunctions
<1>10. calm'[d] => flagged'[d] = {} /\ seatsSelected'[d] = {}
  <2> SUFFICES ASSUME calm'[d] PROVE flagged'[d] = {} /\ seatsSelected'[d] = {}
    OBVIOUS
  <2>1. calm[d] /\ flagged[d] = {} BY <1>7
  <2>2. views = {} BY <1>5, <2>1, NoFlagsLeft
  <2>3. seatsSelected[d] = {} BY <2>1 DEF PhoneOK
  <2> QED BY <1>4, <1>7, <2>2, <2>3
<1>11. calm'[d] \in BOOLEAN /\ flagged'[d] \in SUBSET Cells BY <1>8 DEF HallFunctions
<1>12. PhoneOK(d)' BY <1>6, <1>7, <1>10, <1>11 DEF PhoneOK
<1> QED BY <1>8, <1>9, <1>12

\* A tap that adds a seat or takes it off goes to a free seat of the map.
LEMMA TapChangesFree ==
  ASSUME NEW d \in Devices, NEW c \in Cells,
         SelectionAfterTap(d, c) # seatsSelected[d]
  PROVE  /\ c \notin dictionary[d]
         /\ \/ c \in seatsSelected[d] /\ SelectionAfterTap(d, c) = seatsSelected[d] \ {c}
            \/ /\ c \notin seatsSelected[d]
               /\ SelectionAfterTap(d, c) = seatsSelected[d] \cup {c}
BY DEF SelectionAfterTap

\* A tap on a cell (didSelectItemAtIndexPath:).
LEMMA TappedStep ==
  ASSUME TypeOK, HallFunctions, NEW d \in Devices, PhoneOK(d), Tapped(d)
  PROVE  HallFunctions' /\ OthersKept(d) /\ PhoneOK(d)'
<1>1. PICK c \in Cells : DidSelectItem(d, c) /\ Mark(d, c) BY DEF Tapped
<1>2. /\ seatsSelected \in [Devices -> SUBSET Cells]
      /\ dictionary[d] # None /\ dictionary' = dictionary
      /\ seatsSelected' = [seatsSelected EXCEPT ![d] = SelectionAfterTap(d, c)]
  BY <1>1 DEF TypeOK, DidSelectItem
<1>3. /\ seatsSelected'[d] = SelectionAfterTap(d, c)
      /\ \A e \in Devices \ {d} : seatsSelected'[e] = seatsSelected[e]
  BY <1>2
<1>4. CASE SelectionAfterTap(d, c) = seatsSelected[d]
  <2>1. colours' = colours /\ flagged' = flagged /\ calm' = calm
    BY <1>1, <1>4 DEF Mark, hall
  <2>2. HallFunctions' BY <2>1 DEF HallFunctions
  <2>3. OthersKept(d) BY <1>2, <1>3, <2>1 DEF OthersKept
  <2>4. PhoneOK(d)' BY <1>2, <1>3, <1>4, <2>1, PhoneKept
  <2> QED BY <2>2, <2>3, <2>4
<1>5. CASE SelectionAfterTap(d, c) # seatsSelected[d]
  <2> DEFINE views == IF c \in flagged[d] THEN flagged[d] \ {c} ELSE flagged[d] \cup {c}
             shade == IF c \in flagged[d] THEN "white" ELSE "yellow"
  <2>1. /\ flagged' = [flagged EXCEPT ![d] = views]
        /\ colours' = [colours EXCEPT ![d][c] = shade]
        /\ calm' = calm
    BY <1>1, <1>5 DEF Mark, SetSelectOrDeselect
  <2>2. views \in SUBSET Cells /\ shade \in Colours /\ shade # "none"
    BY DEF HallFunctions, Colours
  <2>3. /\ views = IF c \in flagged[d] THEN flagged[d] \ {c} ELSE flagged[d] \cup {c}
        /\ shade = IF c \in flagged[d] THEN "white" ELSE "yellow"
    OBVIOUS
  <2> HIDE DEF views, shade
  <2>4. HallFunctions' BY <2>1, <2>2 DEF HallFunctions
  <2>5. OthersKept(d) BY <1>2, <1>3, <2>1 DEF OthersKept, HallFunctions
  <2>6. /\ flagged'[d] = views /\ calm'[d] = calm[d]
        /\ colours'[d] = [colours[d] EXCEPT ![c] = shade]
    BY <2>1 DEF HallFunctions
  <2>7. /\ colours'[d] \in [Cells -> Colours] /\ colours'[d][c] = shade
        /\ \A b \in Cells \ {c} : colours'[d][b] = colours[d][b]
    BY <2>2, <2>6 DEF HallFunctions
  <2>8. \A b \in Cells : colours'[d][b] = "none" <=> dictionary'[d] = None
    BY <1>2, <2>2, <2>7 DEF PhoneOK
  <2>9. ASSUME calm[d]
        PROVE  /\ views = SelectionAfterTap(d, c)
               /\ SelectionAfterTap(d, c) \cap dictionary[d] = {}
               /\ \A b \in Cells :
                    \/ b \in SelectionAfterTap(d, c) /\ colours'[d][b] = "yellow"
                    \/ /\ b \notin SelectionAfterTap(d, c)
                       /\ colours'[d][b] = ColourOf(dictionary[d], b)
                    \/ /\ b \in Aisles \ SelectionAfterTap(d, c)
                       /\ colours'[d][b] = "white"
    <3>1. flagged[d] = seatsSelected[d] BY <2>9 DEF PhoneOK
    <3>2. /\ c \notin dictionary[d]
          /\ \/ c \in seatsSelected[d] /\ SelectionAfterTap(d, c) = seatsSelected[d] \ {c}
             \/ /\ c \notin seatsSelected[d]
                /\ SelectionAfterTap(d, c) = seatsSelected[d] \cup {c}
      BY <1>5, TapChangesFree
    <3>3. views = SelectionAfterTap(d, c) BY <2>3, <3>1, <3>2
    <3>4. \A b \in Cells \ {c} : b \in SelectionAfterTap(d, c) <=> b \in seatsSelected[d]
      BY <3>2
    <3>5. \A b \in Cells \ {c} :
            \/ b \in seatsSelected[d] /\ colours[d][b] = "yellow"
            \/ b \notin seatsSelected[d] /\ colours[d][b] = ColourOf(dictionary[d], b)
            \/ b \in Aisles \ seatsSelected[d] /\ colours[d][b] = "white"
      BY <1>2, <2>9 DEF PhoneOK
    <3>6. c \in SelectionAfterTap(d, c) => shade = "yellow" BY <2>3, <3>1, <3>2
    <3>7. c \notin SelectionAfterTap(d, c) => shade = "white" BY <2>3, <3>1, <3>2
    <3>8. c \notin Aisles => ColourOf(dictionary[d], c) = "white"
      BY <3>2 DEF ColourOf
    <3>9. SelectionAfterTap(d, c) \cap dictionary[d] = {}
      BY <1>2, <2>9, <3>2 DEF PhoneOK
    <3> QED BY <2>7, <3>3, <3>4, <3>5, <3>6, <3>7, <3>8, <3>9
  <2>10. PhoneOK(d)'
    BY <1>2, <1>3, <2>2, <2>6, <2>7, <2>8, <2>9 DEF PhoneOK, HallFunctions
  <2> QED BY <2>4, <2>5, <2>10
<1> QED BY <1>4, <1>5

\* A booking (buttonPressed:) marks the seats in the map, and draws nothing.
LEMMA BookedStep ==
  ASSUME TypeOK, HallFunctions, NEW d \in Devices, PhoneOK(d), Booked(d)
  PROVE  HallFunctions' /\ OthersKept(d) /\ PhoneOK(d)'
<1>1. /\ dictionary \in [Devices -> {None} \cup SUBSET Cells]
      /\ seatsSelected \in [Devices -> SUBSET Cells]
      /\ dictionary[d] # None
      /\ dictionary' = [dictionary EXCEPT ![d] = dictionary[d] \cup seatsSelected[d]]
      /\ seatsSelected' = [seatsSelected EXCEPT ![d] = {}]
      /\ calm' = [calm EXCEPT ![d] = @ /\ flagged[d] = {}]
      /\ colours' = colours /\ flagged' = flagged
  BY DEF TypeOK, Booked, ButtonPressed, MapSent, LeaveMarks
<1>2. /\ dictionary'[d] = dictionary[d] \cup seatsSelected[d] /\ dictionary'[d] # None
      /\ seatsSelected'[d] = {} /\ calm'[d] = (calm[d] /\ flagged[d] = {})
  <2>1. dictionary[d] \cup seatsSelected[d] \in SUBSET Cells BY <1>1
  <2>2. dictionary[d] \cup seatsSelected[d] # None BY <2>1, CinemaAssumption
  <2> QED BY <1>1, <2>2 DEF HallFunctions
<1>3. HallFunctions' BY <1>1 DEF HallFunctions
<1>4. OthersKept(d) BY <1>1 DEF OthersKept, HallFunctions
<1>5. calm'[d] => /\ calm[d] /\ flagged[d] = {} /\ seatsSelected[d] = {}
                  /\ dictionary'[d] = dictionary[d]
  <2> SUFFICES ASSUME calm'[d]
               PROVE  /\ calm[d] /\ flagged[d] = {} /\ seatsSelected[d] = {}
                      /\ dictionary'[d] = dictionary[d]
    OBVIOUS
  <2>1. calm[d] /\ flagged[d] = {} BY <1>2
  <2>2. seatsSelected[d] = {} BY <2>1 DEF PhoneOK
  <2> QED BY <1>2, <2>1, <2>2
<1>6. calm'[d] \in BOOLEAN BY <1>3 DEF HallFunctions
<1>7. PhoneOK(d)' BY <1>1, <1>2, <1>5, <1>6 DEF PhoneOK
<1> QED BY <1>3, <1>4, <1>7

\* All other steps touch neither the map nor the selection of any phone.
LEMMA ElsewhereStep ==
  ASSUME HallFunctions, NEW d \in Devices, PhoneOK(d), Elsewhere(d)
  PROVE  HallFunctions' /\ OthersKept(d) /\ PhoneOK(d)'
<1>1. colours' = colours /\ flagged' = flagged /\ calm' = calm
  BY DEF Elsewhere, hall
<1>2. dictionary' = dictionary /\ seatsSelected' = seatsSelected
  <2>1. CASE \E s \in Docs : GetReply(d, s) /\ dictionary' = dictionary
    BY <2>1 DEF GetReply
  <2>2. CASE Return(d) BY <2>2 DEF Return, seatVars
  <2>3. CASE \E picker \in Labels[d] : TapLabel(d, picker)
    BY <2>3 DEF TapLabel, seatVars
  <2>4. CASE ListenerFails(d) BY <2>4 DEF ListenerFails, seatVars
  <2>5. CASE ServerApplies(d) BY <2>5 DEF ServerApplies
  <2>6. CASE ServerRejects(d) BY <2>6 DEF ServerRejects, seatVars
  <2> QED BY <2>1, <2>2, <2>3, <2>4, <2>5, <2>6 DEF Elsewhere
<1>3. HallFunctions' BY <1>1 DEF HallFunctions
<1>4. OthersKept(d) BY <1>1, <1>2 DEF OthersKept
<1>5. PhoneOK(d)' BY <1>1, <1>2, PhoneKept
<1> QED BY <1>3, <1>4, <1>5

-----------------------------------------------------------------------------
(* The theorems *)

\* Drawing is all that is added: every step is one of CinemaSeats.
LEMMA HallStepIsSeatsStep == HallNext => Next
<1> SUFFICES ASSUME NEW d \in Devices,
                    Opened(d) \/ Tapped(d) \/ Reloaded(d) \/ Booked(d) \/ Elsewhere(d)
             PROVE  User(d) \/ Firestore(d)
  BY DEF HallNext, Next
<1>1. CASE Opened(d) BY <1>1 DEF Opened, User
<1>2. CASE Tapped(d) BY <1>2 DEF Tapped, User
<1>3. CASE Reloaded(d) BY <1>3 DEF Reloaded, User, Firestore
<1>4. CASE Booked(d) BY <1>4 DEF Booked, User
<1>5. CASE Elsewhere(d) BY <1>5 DEF Elsewhere, User, Firestore
<1> QED BY <1>1, <1>2, <1>3, <1>4, <1>5

LEMMA InitIInv == ASSUME HallInit PROVE IInv
<1>1. TypeOK BY InitTypes DEF HallInit
<1>2. /\ colours = [d \in Devices |-> NoCells] /\ flagged = [d \in Devices |-> {}]
      /\ calm = [d \in Devices |-> TRUE] /\ dictionary = [d \in Devices |-> None]
      /\ seatsSelected = [d \in Devices |-> {}]
  BY DEF HallInit, Init
<1>3. /\ NoCells \in [Cells -> Colours] /\ \A c \in Cells : NoCells[c] = "none"
  BY DEF NoCells, Colours
<1>4. HallFunctions BY <1>2, <1>3 DEF HallFunctions
<1>5. \A d \in Devices : PhoneOK(d) BY <1>2, <1>3 DEF PhoneOK
<1> QED BY <1>1, <1>4, <1>5, OnePhone

LEMMA StepIInv == ASSUME IInv, [HallNext]_hallVars PROVE IInv'
<1>1. TypeOK /\ HallFunctions /\ \A d \in Devices : PhoneOK(d) BY OnePhone
<1>2. CASE UNCHANGED hallVars
  <2>1. UNCHANGED vars /\ colours' = colours /\ flagged' = flagged /\ calm' = calm
    BY <1>2 DEF hallVars, hall
  <2>2. TypeOK' BY <1>1, <2>1, NextTypes
  <2>3. dictionary' = dictionary /\ seatsSelected' = seatsSelected
    BY <2>1 DEF vars, seatVars
  <2> QED BY <2>1, <2>2, <2>3 DEF IInv, HallTypeOK, MarksAgree, LegendWhileCalm
<1>3. CASE HallNext
  <2>1. TypeOK' BY <1>1, <1>3, HallStepIsSeatsStep, NextTypes
  <2>2. PICK d \in Devices :
          Opened(d) \/ Tapped(d) \/ Reloaded(d) \/ Booked(d) \/ Elsewhere(d)
    BY <1>3 DEF HallNext
  <2>3. HallFunctions' /\ OthersKept(d) /\ PhoneOK(d)'
    BY <1>1, <2>1, <2>2, OpenedStep, TappedStep, ReloadedStep, BookedStep, ElsewhereStep
  <2>4. \A e \in Devices : PhoneOK(e)' BY <1>1, <2>3, OthersFollow
  <2>5. (\A e \in Devices : PhoneOK(e))' BY <2>4
  <2> QED
    BY <2>1, <2>3, <2>5
    DEF IInv, HallTypeOK, HallFunctions, MarksAgree, LegendWhileCalm, PhoneOK
<1> QED BY <1>2, <1>3

LEMMA AlwaysIInv == HallSpec => []IInv
<1> QED BY InitIInv, StepIInv, PTL DEF HallSpec

\* What is drawn changes nothing of what the screen does (cellForItemAtIndexPath:
\* and the cells only read the map).
THEOREM HallIsSeats == HallSpec => Init /\ [][Next]_vars
<1>1. HallInit => Init BY DEF HallInit
<1>2. [HallNext]_hallVars => [Next]_vars BY HallStepIsSeatsStep DEF hallVars
<1> QED BY <1>1, <1>2, PTL DEF HallSpec

\* So the screen keeps its limits while it is drawn: no more seats than the party,
\* and a panel that hangs no lower than one picker (CinemaSeats).
THEOREM HallKeepsLimits == HallSpec => [](TypeOK /\ PartyLimit /\ PanelLowered)
<1>1. Init => TypeOK /\ PartyLimit /\ PanelLowered
  <2>1. Init => PanelLowered BY DEF Init, PanelLowered
  <2> QED BY <2>1, InitTypes, InitPartyLimit
<1>2. TypeOK /\ PartyLimit /\ PanelLowered /\ [Next]_vars
        => (TypeOK /\ PartyLimit /\ PanelLowered)'
  BY NextTypes, PartyLimitStep, PanelStep
<1> QED BY <1>1, <1>2, HallIsSeats, PTL

\* Cells are drawn exactly while the screen has a map, each in one of the colours.
THEOREM HallTypeCorrect == HallSpec => []HallTypeOK
<1>1. ASSUME IInv PROVE HallTypeOK BY <1>1 DEF IInv
<1> QED BY <1>1, AlwaysIInv, PTL

\* The colours mean what the legend says of them until something other than a
\* tap meets a selection, for any parties, maps and order of replies.
THEOREM LegendHolds == HallSpec => []LegendWhileCalm
<1>1. ASSUME IInv PROVE LegendWhileCalm BY <1>1 DEF IInv
<1> QED BY <1>1, AlwaysIInv, PTL
=============================================================================
