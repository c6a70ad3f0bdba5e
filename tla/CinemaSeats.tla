----------------------------- MODULE CinemaSeats -----------------------------
(***************************************************************************)
(* The seat map of the cinema (Controller/CinemaSeatsViewController.m): a  *)
(* number of phones show and book the seats of the showings of one movie.  *)
(* Every showing is one Firestore document, a dictionary from cell number  *)
(* to 0 (free) or 1 (taken), which a phone reads whole and overwrites      *)
(* whole.  A document is modelled by the set of its taken cells.           *)
(*                                                                         *)
(* Everything a phone does runs on its main queue, so one handler is one   *)
(* atomic action; phones, the server and the replies on their way          *)
(* interleave freely.                                                      *)
(***************************************************************************)
EXTENDS Integers, Sequences, FiniteSets

CONSTANTS
  Devices,      \* the phones
  Labels,       \* bound: per phone, which of the labels its user taps
  Dates,        \* the values "selectedDate" of NSUserDefaults may have
  KnownDates,   \* the dates setTimeStampWithDate: has a timestamp for
  Cells,        \* the keys of a seat document: numbers of collection cells
  Parties,      \* the numbers of people a user may pick
  InitialDocs,  \* the contents the collection "cinema" may have at first
  None,         \* nil: no dictionary, no document, no date, nothing picked
  MaxGets,      \* bound: unanswered reads of one document by one phone
  MaxPending,   \* bound: unacknowledged writes of one phone
  LowestOffset  \* bound: how far up the view with the seats is followed

Slots == {"17:00", "20:00"}

\* "cinema/<timestamp><movieId>".  A label that setTimeStampWithDate: does not
\* know leaves the timestamp nil, whatever its time, and the path is "(null)...".
DocOf(day, slot) == IF day \in KnownDates THEN <<day, slot>> ELSE <<"(null)">>

Docs == {DocOf(day, slot) : day \in Dates, slot \in Slots}

Pickers   == {"date", "people"}
SeatLimit == 5
Travel    == 100
Corners   == {0, 10}
LastRow   == 99

ASSUME CinemaAssumption ==
  /\ Labels \in [Devices -> SUBSET Pickers]
  /\ Cells \subseteq 0..109
  /\ Parties \subseteq 1..SeatLimit
  /\ InitialDocs \subseteq [Docs -> {None} \cup SUBSET Cells]
  /\ MaxGets \in Nat \ {0} /\ MaxPending \in Nat \ {0} /\ LowestOffset \in Int
  /\ None \notin Docs /\ None \notin Dates
  /\ None \notin 1..SeatLimit /\ \A map \in SUBSET Cells : map # None

VARIABLES
  where,              \* "closed", or the screen on top: "seats" or "payment"
  date,               \* the date the screen was opened with
  timestamp,          \* the document of the showing on the label
  dictionary,         \* the seat map shown, None before the first reply
  seatsSelected,
  numberOfSeatsInRow, \* what the last pass over the cells has left in it
  maxNumberOfSeats,
  pickedPeople,
  movedDown,
  pickers,            \* the pickers that are not hidden
  offset,             \* frame.origin.y of viewWithCollection, 0 at first
  docs,               \* the documents on the server
  pending,            \* per phone, its writes the server has not answered
  gets,               \* per phone and document, the reads with no reply yet
  listener,           \* per phone: "idle", a snapshot is "due", or "dead"
  basis               \* history: the showing whose seats the map covers
                      \* because it was read from it and nobody else has
                      \* written it since, else None

seatVars  == <<dictionary, seatsSelected, numberOfSeatsInRow,
               maxNumberOfSeats, pickedPeople, basis>>
panelVars == <<movedDown, pickers, offset>>
cloudVars == <<docs, pending, gets, listener>>
pageVars  == <<where, date, timestamp>>
vars      == <<pageVars, seatVars, panelVars, cloudVars>>

-----------------------------------------------------------------------------
Home(d) == DocOf(date[d], "17:00")

Mine(d, s) == {i \in DOMAIN pending[d] : pending[d][i].doc = s}

Latest(d, s) == CHOOSE i \in Mine(d, s) : \A j \in Mine(d, s) : j <= i

\* What a read of s shows on d: Firestore lays the phone's own unacknowledged
\* writes over the document of the server.
View(d, s) == IF Mine(d, s) = {} THEN docs[s] ELSE pending[d][Latest(d, s)].map

ViewBasis(d, s) ==
  IF /\ View(d, s) # None
     /\ Mine(d, s) = {} \/ pending[d][Latest(d, s)].basis = s
  THEN s ELSE None

Taken(s) == IF docs[s] = None THEN {} ELSE docs[s]

\* After reloadData the cells are asked for from 0 to 109, and every 11th raises
\* numberOfSeatsInRow to the start of its row; with no dictionary there is no
\* cell.
RowAfterReload(map) == IF map = None THEN 0 ELSE LastRow

\* The cells didSelectItemAtIndexPath: does not turn away at once.
Selectable(row) == Cells \ (Corners \cup {row + 2, row + 8})

Writes == [doc : Docs, map : SUBSET Cells, basis : Docs \cup {None}]

TypeOK ==
  /\ where \in [Devices -> {"closed", "seats", "payment"}]
  /\ date \in [Devices -> Dates \cup {None}]
  /\ timestamp \in [Devices -> Docs \cup {None}]
  /\ dictionary \in [Devices -> {None} \cup SUBSET Cells]
  /\ seatsSelected \in [Devices -> SUBSET Cells]
  /\ numberOfSeatsInRow \in [Devices -> {0, LastRow}]
  /\ maxNumberOfSeats \in [Devices -> 1..SeatLimit]
  /\ pickedPeople \in [Devices -> Parties \cup {None}]
  /\ movedDown \in [Devices -> BOOLEAN]
  /\ pickers \in [Devices -> SUBSET Pickers]
  /\ offset \in [Devices -> Int]
  /\ docs \in [Docs -> {None} \cup SUBSET Cells]
  /\ pending \in [Devices -> Seq(Writes)]
  /\ gets \in [Devices -> [Docs -> Nat]]
  /\ listener \in [Devices -> {"idle", "due", "dead"}]
  /\ basis \in [Devices -> Docs \cup {None}]
  /\ \A d \in Devices : where[d] # "closed" => date[d] \in Dates
                                           /\ timestamp[d] \in Docs

Init ==
  /\ where = [d \in Devices |-> "closed"]
  /\ date = [d \in Devices |-> None]
  /\ timestamp = [d \in Devices |-> None]
  /\ dictionary = [d \in Devices |-> None]
  /\ seatsSelected = [d \in Devices |-> {}]
  /\ numberOfSeatsInRow = [d \in Devices |-> 0]
  /\ maxNumberOfSeats = [d \in Devices |-> SeatLimit]
  /\ pickedPeople = [d \in Devices |-> None]
  /\ movedDown = [d \in Devices |-> FALSE]
  /\ pickers = [d \in Devices |-> {}]
  /\ offset = [d \in Devices |-> 0]
  /\ docs \in InitialDocs
  /\ pending = [d \in Devices |-> << >>]
  /\ gets = [d \in Devices |-> [s \in Docs |-> 0]]
  /\ listener = [d \in Devices |-> "idle"]
  /\ basis = [d \in Devices |-> None]

-----------------------------------------------------------------------------
\* The properties of a fresh controller.
Fresh(d) ==
  /\ dictionary' = [dictionary EXCEPT ![d] = None]
  /\ seatsSelected' = [seatsSelected EXCEPT ![d] = {}]
  /\ numberOfSeatsInRow' = [numberOfSeatsInRow EXCEPT ![d] = 0]
  /\ maxNumberOfSeats' = [maxNumberOfSeats EXCEPT ![d] = SeatLimit]
  /\ pickedPeople' = [pickedPeople EXCEPT ![d] = None]
  /\ basis' = [basis EXCEPT ![d] = None]
  /\ movedDown' = [movedDown EXCEPT ![d] = FALSE]
  /\ pickers' = [pickers EXCEPT ![d] = {}]
  /\ offset' = [offset EXCEPT ![d] = 0]

\* viewDidLoad: the 17:00 showing of the chosen date is read once and listened
\* to; this is the only document the screen ever listens to.
ViewDidLoad(d, day) ==
  /\ where[d] = "closed"
  /\ Fresh(d)
  /\ where' = [where EXCEPT ![d] = "seats"]
  /\ date' = [date EXCEPT ![d] = day]
  /\ timestamp' = [timestamp EXCEPT ![d] = DocOf(day, "17:00")]
  /\ gets' = [gets EXCEPT ![d][DocOf(day, "17:00")] = 1]
  /\ listener' = [listener EXCEPT ![d] = "due"]
  /\ UNCHANGED <<docs, pending>>

\* The screen is popped, or the app is killed.  Replies still on their way
\* reach a controller nobody sees; the writes stay with Firestore.
Gone(d) ==
  /\ Fresh(d)
  /\ where' = [where EXCEPT ![d] = "closed"]
  /\ date' = [date EXCEPT ![d] = None]
  /\ timestamp' = [timestamp EXCEPT ![d] = None]
  /\ gets' = [gets EXCEPT ![d] = [s \in Docs |-> 0]]
  /\ listener' = [listener EXCEPT ![d] = "idle"]
  /\ UNCHANGED <<docs, pending>>

Leave(d) == where[d] # "closed" /\ Gone(d)

Return(d) ==
  /\ where[d] = "payment"
  /\ where' = [where EXCEPT ![d] = "seats"]
  /\ UNCHANGED <<date, timestamp, seatVars, panelVars, cloudVars>>

\* self.dictionary = snapshot.data, numberOfSeatsInRow = 0 and reloadData.
Show(d, s) ==
  /\ dictionary' = [dictionary EXCEPT ![d] = View(d, s)]
  /\ basis' = [basis EXCEPT ![d] = ViewBasis(d, s)]
  /\ numberOfSeatsInRow' =
       [numberOfSeatsInRow EXCEPT ![d] = RowAfterReload(View(d, s))]

\* Mutant: the block stores the data without asking whether there are any.
GetReplyUnchecked(d, s) ==
  /\ where[d] # "closed"
  /\ gets[d][s] > 0
  /\ gets' = [gets EXCEPT ![d][s] = @ - 1]
  /\ Show(d, s)
  /\ UNCHANGED <<seatsSelected, maxNumberOfSeats, pickedPeople,
                 docs, pending, listener, panelVars, pageVars>>

\* The block of getDocumentWithCompletion: it does not ask whether s is still
\* the showing on the label.  A missing document or an error changes nothing.
GetReply(d, s) ==
  /\ where[d] # "closed"
  /\ gets[d][s] > 0
  /\ gets' = [gets EXCEPT ![d][s] = @ - 1]
  /\ \/ View(d, s) # None /\ Show(d, s)
     \/ UNCHANGED <<dictionary, basis, numberOfSeatsInRow>>
  /\ UNCHANGED <<seatsSelected, maxNumberOfSeats, pickedPeople,
                 docs, pending, listener, panelVars, pageVars>>

\* Mutant: a snapshot that would disturb a selection is dropped.
SnapshotDropped(d) ==
  /\ where[d] # "closed"
  /\ listener[d] = "due"
  /\ listener' = [listener EXCEPT ![d] = "idle"]
  /\ \/ seatsSelected[d] = {} /\ Show(d, Home(d))
     \/ /\ seatsSelected[d] # {}
        /\ UNCHANGED <<dictionary, basis, numberOfSeatsInRow>>
  /\ UNCHANGED <<seatsSelected, maxNumberOfSeats, pickedPeople,
                 docs, pending, gets, panelVars, pageVars>>

\* The block of addSnapshotListener: it takes whatever snapshot.data is, and
\* that is nil for a document that does not exist.
SnapshotArrives(d) ==
  /\ where[d] # "closed"
  /\ listener[d] = "due"
  /\ listener' = [listener EXCEPT ![d] = "idle"]
  /\ Show(d, Home(d))
  /\ UNCHANGED <<seatsSelected, maxNumberOfSeats, pickedPeople,
                 docs, pending, gets, panelVars, pageVars>>

\* The block is called with a nil snapshot and returns; no other call follows.
ListenerFails(d) ==
  /\ where[d] # "closed"
  /\ listener[d] # "dead"
  /\ listener' = [listener EXCEPT ![d] = "dead"]
  /\ UNCHANGED <<docs, pending, gets, seatVars, panelVars, pageVars>>

-----------------------------------------------------------------------------
\* didSelectItemAtIndexPath:
LimitAtTap(d) ==
  IF pickedPeople[d] = None THEN maxNumberOfSeats[d] ELSE pickedPeople[d]

SelectionAfterTap(d, c) ==
  LET free == Selectable(numberOfSeatsInRow[d]) \ dictionary[d]
  IN  CASE c \in free \cap seatsSelected[d]
             -> seatsSelected[d] \ {c}
        [] /\ c \in free \ seatsSelected[d]
           /\ LimitAtTap(d) > Cardinality(seatsSelected[d])
             -> seatsSelected[d] \cup {c}
        [] OTHER -> seatsSelected[d]

DidSelectItem(d, c) ==
  /\ where[d] = "seats"
  /\ dictionary[d] # None
  /\ maxNumberOfSeats' = [maxNumberOfSeats EXCEPT ![d] = LimitAtTap(d)]
  /\ seatsSelected' = [seatsSelected EXCEPT ![d] = SelectionAfterTap(d, c)]
  /\ UNCHANGED <<dictionary, numberOfSeatsInRow, pickedPeople, basis,
                 panelVars, cloudVars, pageVars>>

MoveUp(d) ==
  /\ offset[d] - Travel >= LowestOffset
  /\ offset' = [offset EXCEPT ![d] = @ - Travel]
  /\ movedDown' = [movedDown EXCEPT ![d] = FALSE]

MoveDown(d) ==
  /\ offset' = [offset EXCEPT ![d] = @ + Travel]
  /\ movedDown' = [movedDown EXCEPT ![d] = TRUE]

\* Mutant: every label looks at its own picker instead of movedDown.
TapOwnLabel(d, picker) ==
  /\ where[d] = "seats"
  /\ \/ /\ picker \notin pickers[d]
        /\ pickers' = [pickers EXCEPT ![d] = @ \cup {picker}]
        /\ MoveDown(d)
     \/ /\ picker \in pickers[d]
        /\ pickers' = [pickers EXCEPT ![d] = @ \ {picker}]
        /\ MoveUp(d)
  /\ UNCHANGED <<seatVars, cloudVars, pageVars>>

\* handleSingleTap: (picker "date") and handleSingleTapPeople: ("people").
\* Both decide by movedDown and touch their own picker only.
TapLabel(d, picker) ==
  /\ where[d] = "seats"
  /\ \/ /\ ~movedDown[d]
        /\ pickers' = [pickers EXCEPT ![d] = @ \cup {picker}]
        /\ MoveDown(d)
     \/ /\ movedDown[d]
        /\ pickers' = [pickers EXCEPT ![d] = @ \ {picker}]
        /\ MoveUp(d)
  /\ UNCHANGED <<seatVars, cloudVars, pageVars>>

\* Mutant: a pick keeps the seats chosen so far.
AfterPickKeepingSeats(d) ==
  /\ MoveUp(d)
  /\ pickers' = [pickers EXCEPT ![d] = {}]
  /\ numberOfSeatsInRow' =
       [numberOfSeatsInRow EXCEPT ![d] = RowAfterReload(dictionary[d])]
  /\ UNCHANGED seatsSelected

\* The tail of pickerView:didSelectRow: it runs whichever picker was used.
AfterPick(d) ==
  /\ MoveUp(d)
  /\ pickers' = [pickers EXCEPT ![d] = {}]
  /\ seatsSelected' = [seatsSelected EXCEPT ![d] = {}]
  /\ numberOfSeatsInRow' =
       [numberOfSeatsInRow EXCEPT ![d] = RowAfterReload(dictionary[d])]

\* setTimeStampWithDate: and getDataFromDB.  The map of the showing before
\* stays on the screen until the reply.
PickTime(d, slot) ==
  /\ where[d] = "seats"
  /\ "date" \in pickers[d]
  /\ LET s == DocOf(date[d], slot)
     IN  /\ gets[d][s] < MaxGets
         /\ timestamp' = [timestamp EXCEPT ![d] = s]
         /\ gets' = [gets EXCEPT ![d][s] = @ + 1]
  /\ AfterPick(d)
  /\ UNCHANGED <<dictionary, maxNumberOfSeats, pickedPeople, basis,
                 docs, pending, listener, where, date>>

PickPeople(d, n) ==
  /\ where[d] = "seats"
  /\ "people" \in pickers[d]
  /\ pickedPeople' = [pickedPeople EXCEPT ![d] = n]
  /\ AfterPick(d)
  /\ UNCHANGED <<dictionary, maxNumberOfSeats, basis, cloudVars, pageVars>>

-----------------------------------------------------------------------------
\* A listener on s, other than d's own when the write is d's and is applied,
\* has something new to tell.
Notify(alert) ==
  listener' = [e \in Devices |->
                 IF e \in alert /\ listener[e] # "dead" THEN "due"
                                                        ELSE listener[e]]

Listening(s) == {e \in Devices : where[e] # "closed" /\ Home(e) = s}

\* Mutants: only the chosen seats are sent; a chosen seat is toggled.
SelectionOnly(d) == seatsSelected[d]

SelectionToggled(d) == (dictionary[d] \ seatsSelected[d])
                         \cup (seatsSelected[d] \ dictionary[d])

MapSent(d) == dictionary[d] \cup seatsSelected[d]

\* buttonPressed: the seats are marked in the whole map and the whole map is
\* sent, before there was any payment.  Firestore shows the write to the
\* phone's own listener at once.
ButtonPressed(d) ==
  /\ where[d] = "seats"
  /\ dictionary[d] # None
  /\ Len(pending[d]) < MaxPending
  /\ dictionary' = [dictionary EXCEPT ![d] = MapSent(d)]
  /\ pending' = [pending EXCEPT ![d] =
       Append(@, [doc |-> timestamp[d], map |-> MapSent(d), basis |-> basis[d]])]
  /\ Notify({d} \cap Listening(timestamp[d]))
  /\ where' = [where EXCEPT ![d] = "payment"]
  /\ seatsSelected' = [seatsSelected EXCEPT ![d] = {}]
  /\ numberOfSeatsInRow' = [numberOfSeatsInRow EXCEPT ![d] = 0]
  /\ UNCHANGED <<maxNumberOfSeats, pickedPeople, basis, panelVars,
                 docs, gets, date, timestamp>>

\* buttonPressed with no map: setData: takes no nil, the app ends there.
ButtonPressedWithoutMap(d) ==
  /\ where[d] = "seats"
  /\ dictionary[d] = None
  /\ Gone(d)

\* A map (or a write composed from one) is no longer known to cover s.
Outdated(b, s) == IF b = s THEN None ELSE b

OutdatedWrites(q, s) ==
  [i \in DOMAIN q |-> [q[i] EXCEPT !.basis = Outdated(@, s)]]

\* The server overwrites the document with the oldest write of d.
ServerApplies(d) ==
  /\ pending[d] # << >>
  /\ LET w == Head(pending[d])
     IN  /\ docs' = [docs EXCEPT ![w.doc] = w.map]
         /\ Notify(Listening(w.doc) \ {d})
         /\ basis' = [e \in Devices |->
              IF e = d THEN basis[e] ELSE Outdated(basis[e], w.doc)]
         /\ pending' = [e \in Devices |->
              IF e = d THEN Tail(pending[e])
                       ELSE OutdatedWrites(pending[e], w.doc)]
  /\ UNCHANGED <<dictionary, seatsSelected, numberOfSeatsInRow,
                 maxNumberOfSeats, pickedPeople, gets, panelVars, pageVars>>

\* The server refuses it.  setData: was given no completion block: the
\* controller is not told, its listener sees the old document again.
ServerRejects(d) ==
  /\ pending[d] # << >>
  /\ pending' = [pending EXCEPT ![d] = Tail(@)]
  /\ Notify({d} \cap Listening(Head(pending[d]).doc))
  /\ UNCHANGED <<docs, gets, seatVars, panelVars, pageVars>>

-----------------------------------------------------------------------------
User(d) ==
  \/ \E day \in Dates : ViewDidLoad(d, day)
  \/ Leave(d)
  \/ Return(d)
  \/ \E c \in Cells : DidSelectItem(d, c)
  \/ \E picker \in Labels[d] : TapLabel(d, picker)
  \/ \E slot \in Slots : PickTime(d, slot)
  \/ \E n \in Parties : PickPeople(d, n)
  \/ ButtonPressed(d)
  \/ ButtonPressedWithoutMap(d)

Firestore(d) ==
  \/ \E s \in Docs : GetReply(d, s)
  \/ SnapshotArrives(d)
  \/ ListenerFails(d)
  \/ ServerApplies(d)
  \/ ServerRejects(d)

Next == \E d \in Devices : User(d) \/ Firestore(d)

\* Firestore keeps trying: writes and snapshots get through in the end.  Users
\* owe nothing, and a reply to a read may be lost.
Fairness ==
  \A d \in Devices : /\ WF_vars(SnapshotArrives(d))
                     /\ WF_vars(ServerApplies(d) \/ ServerRejects(d))

Spec == Init /\ [][Next]_vars /\ Fairness

-----------------------------------------------------------------------------
(* PROPERTIES *)

\* The seats marked on a phone never outnumber the party on its label, however
\* the label was picked before or between the taps (pickerView:didSelectRow:
\* empties the selection, didSelectItemAtIndexPath: reads the label).
PartyLimit ==
  \A d \in Devices :
    /\ Cardinality(seatsSelected[d]) <= SeatLimit
    /\ pickedPeople[d] # None => Cardinality(seatsSelected[d]) <= pickedPeople[d]

\* A map that was read from a showing which nobody else has written since has
\* every seat the server holds as taken and every seat in the phone's own
\* writes that are on their way there; and so has every write composed from
\* such a map, whatever listener snapshots, late replies, own bookings and
\* refusals came in between.
Covers(d, n, map, s) ==
  /\ Taken(s) \subseteq map
  /\ \A j \in 1..n : pending[d][j].doc = s => pending[d][j].map \subseteq map

FreshOn(d) ==
  /\ basis[d] # None => /\ dictionary[d] # None
                        /\ Covers(d, Len(pending[d]), dictionary[d], basis[d])
  /\ \A i \in DOMAIN pending[d] :
       pending[d][i].basis # None =>
         Covers(d, i - 1, pending[d][i].map, pending[d][i].basis)

FreshMapCoversShowing == \A d \in Devices : FreshOn(d)

\* buttonPressed overwrites the whole document, so a booking can erase others.
\* It does so only when its map was outdated or that of another showing:
\* whenever the server loses a taken seat, the write it has just applied was
\* composed from such a map.
FreshBookingKeepsSeats ==
  [][\A s \in Docs :
       Taken(s) \ Taken(s)' # {} =>
         \E d \in Devices : /\ pending[d] # << >>
                            /\ pending'[d] = Tail(pending[d])
                            /\ Head(pending[d]).doc = s
                            /\ Head(pending[d]).basis # s]_vars

\* The map under a selection can vanish (the listener stores a nil data), and
\* buttonPressed then ends the app.  That takes a missing document for the
\* showing the screen was opened with, and lasts only until it is created.
LostMapMeansMissingShowing ==
  \A d \in Devices :
    where[d] = "seats" /\ seatsSelected[d] # {} /\ dictionary[d] = None
      => docs[Home(d)] = None \/ listener[d] # "idle"

\* Both labels steer one flag and their own picker, so the view with the seats
\* drifts up; but it never hangs lower than one picker's height, and while it
\* is down there is a picker on the screen to pick from.
PanelLowered ==
  \A d \in Devices :
    /\ offset[d] <= IF movedDown[d] THEN Travel ELSE 0
    /\ movedDown[d] => pickers[d] # {}

\* A user who stays with the 17:00 showing sees it as it is: whenever no
\* snapshot is due (and the listener has not failed), the map on the screen is
\* the document with the phone's own writes over it, whatever was booked here or
\* elsewhere, applied, refused, or answered late.
StaysHome(d) == where[d] # "closed" => timestamp[d] = Home(d)

ShownWhileIdle(d) ==
  where[d] # "closed" /\ listener[d] = "idle" => dictionary[d] = View(d, Home(d))

HomeIsCurrent == \A d \in Devices : [](StaysHome(d)) => [](ShownWhileIdle(d))

\* And that user gets to see its last state: once the document of a screen that
\* is never moved to another showing stops changing, the screen shows it for
\* good (the listener is never removed).
EventuallyShown ==
  \A d \in Devices, s \in Docs, map \in SUBSET Cells :
    [](StaysHome(d))
      /\ <>[](/\ where[d] = "seats" /\ Home(d) = s /\ listener[d] # "dead"
              /\ docs[s] = map /\ pending[d] = << >>)
    => <>[](dictionary[d] = map)
=============================================================================
