-------------------------- MODULE CinemaSeats_proofs --------------------------
(***************************************************************************)
(* Theorems about CinemaSeats, for any number of phones, seats, showings   *)
(* and unanswered requests.                                                *)
(***************************************************************************)
EXTENDS CinemaSeats, FiniteSetTheorems, SequenceTheorems, TLAPS

\* A set of marked seats is finite: a document has at most 110 keys.
LEMMA SeatsFinite ==
  ASSUME NEW S \in SUBSET Cells
  PROVE  IsFiniteSet(S) /\ Cardinality(S) \in Nat
<1>0. Cells \subseteq 0..109
  BY CinemaAssumption, Zenon
<1>1. S \in SUBSET Nat /\ \A c \in S : c <= 109
  BY <1>0
<1>2. IsFiniteSet(S)
  BY <1>1, FS_BoundedSetOfNaturals
<1> QED
  BY <1>2, FS_CardinalityType

\* A set of positions of a queue has a last one: among the sets of the later
\* positions there is one that has no other strictly within it.
LEMMA LastOfPositions ==
  ASSUME NEW n \in Nat, NEW P \in SUBSET (1..n), P # {}
  PROVE  \E i \in P : \A j \in P : j <= i
<1> DEFINE Later(i) == {j \in P : j > i}
           T == {Later(i) : i \in P}
<1>1. IsFiniteSet(P)
  <2>1. P \in SUBSET Nat /\ \A i \in P : i <= n
    OBVIOUS
  <2> QED
    BY <2>1, FS_BoundedSetOfNaturals
<1>2. T \subseteq FiniteSubsetsOf(P) /\ T # {}
  <2>1. ASSUME NEW i \in P  PROVE  Later(i) \in FiniteSubsetsOf(P)
    <3>1. Later(i) \in SUBSET P
      OBVIOUS
    <3> QED
      BY <1>1, <3>1, FS_Subset DEF FiniteSubsetsOf
  <2> QED
    BY <2>1
<1>3. PICK S \in T : \A U \in T : <<U, S>> \notin StrictSubsetOrdering(P)
  <2> HIDE DEF T
  <2> QED
    BY <1>1, <1>2, FS_StrictSubsetOrderingWellFounded, WFMin, FS_FiniteSubsetsOfFinite
<1>4. PICK i \in P : S = Later(i)
  BY <1>3
<1>5. ASSUME NEW j \in P, j > i  PROVE FALSE
  <2>1. Later(j) \in T /\ j \in S /\ j \notin Later(j)
    BY <1>4, <1>5
  <2>2. ASSUME NEW k \in Later(j)  PROVE k \in S
    <3>1. k \in P /\ k > j /\ {i, j, k} \subseteq Int
      BY <2>2
    <3> QED
      BY <1>4, <1>5, <3>1
  <2>3. <<Later(j), S>> \in StrictSubsetOrdering(P)
    BY <1>4, <2>1, <2>2 DEF StrictSubsetOrdering
  <2> QED
    BY <1>3, <2>1, <2>3
<1> QED
  BY <1>5

\* The newest of a phone's own writes to a document is one of them.
LEMMA LatestIsMine ==
  ASSUME TypeOK, NEW d \in Devices, NEW s \in Docs, Mine(d, s) # {}
  PROVE  /\ Latest(d, s) \in Mine(d, s)
         /\ \A j \in Mine(d, s) : j <= Latest(d, s)
<1>1. Len(pending[d]) \in Nat /\ Mine(d, s) \in SUBSET (1..Len(pending[d]))
  BY DEF Mine, TypeOK
<1>2. \E i \in Mine(d, s) : \A j \in Mine(d, s) : j <= i
  BY <1>1, LastOfPositions
<1> QED
  BY <1>2 DEF Latest

LEMMA HomeIsDoc ==
  ASSUME NEW d \in Devices, date[d] \in Dates
  PROVE  Home(d) \in Docs
BY DEF Docs, Home, Slots

\* What a read shows is the document or one of the phone's own writes.
LEMMA ViewIsMap ==
  ASSUME TypeOK, NEW d \in Devices, NEW s \in Docs
  PROVE  /\ View(d, s) \in {None} \cup SUBSET Cells
         /\ ViewBasis(d, s) \in Docs \cup {None}
<1>1. CASE Mine(d, s) = {}
  BY <1>1 DEF View, ViewBasis, TypeOK
<1>2. CASE Mine(d, s) # {}
  <2>0. Latest(d, s) \in DOMAIN pending[d]
    BY <1>2, LatestIsMine DEF Mine
  <2>1. Latest(d, s) \in 1..Len(pending[d])
    BY <2>0 DEF TypeOK
  <2>2. pending[d][Latest(d, s)] \in Writes
    BY <2>1, ElementOfSeq DEF TypeOK
  <2>3. View(d, s) = pending[d][Latest(d, s)].map
    BY <1>2 DEF View
  <2> QED
    BY <1>2, <2>2, <2>3 DEF ViewBasis, Writes
<1> QED
  BY <1>1, <1>2

-----------------------------------------------------------------------------
\* What a controller leaves behind is well typed.
LEMMA FreshTypes ==
  ASSUME TypeOK, NEW d \in Devices, Fresh(d)
  PROVE  /\ dictionary' \in [Devices -> {None} \cup SUBSET Cells]
         /\ seatsSelected' \in [Devices -> SUBSET Cells]
         /\ numberOfSeatsInRow' \in [Devices -> {0, LastRow}]
         /\ maxNumberOfSeats' \in [Devices -> 1..SeatLimit]
         /\ pickedPeople' \in [Devices -> Parties \cup {None}]
         /\ movedDown' \in [Devices -> BOOLEAN]
         /\ pickers' \in [Devices -> SUBSET Pickers]
         /\ offset' \in [Devices -> Int]
         /\ basis' \in [Devices -> Docs \cup {None}]
BY DEF TypeOK, Fresh, SeatLimit

LEMMA GoneTypes ==
  ASSUME TypeOK, NEW d \in Devices, Gone(d)
  PROVE  TypeOK'
<1>1. Fresh(d)
  BY DEF Gone
<1>2. /\ where' \in [Devices -> {"closed", "seats", "payment"}]
      /\ date' \in [Devices -> Dates \cup {None}]
      /\ timestamp' \in [Devices -> Docs \cup {None}]
      /\ gets' \in [Devices -> [Docs -> Nat]]
      /\ listener' \in [Devices -> {"idle", "due", "dead"}]
  BY DEF TypeOK, Gone
<1>3. \A e \in Devices : where'[e] # "closed" => date'[e] \in Dates
                                               /\ timestamp'[e] \in Docs
  BY DEF TypeOK, Gone
<1>4. docs' = docs /\ pending' = pending
  BY DEF Gone
<1> QED
  BY <1>1, <1>2, <1>3, <1>4, FreshTypes DEF TypeOK

LEMMA ViewDidLoadTypes ==
  ASSUME TypeOK, NEW d \in Devices, NEW day \in Dates, ViewDidLoad(d, day)
  PROVE  TypeOK'
<1>1. Fresh(d) /\ docs' = docs /\ pending' = pending
  BY DEF ViewDidLoad
<1>2. DocOf(day, "17:00") \in Docs
  BY DEF Docs, Slots
<1>3. /\ where' \in [Devices -> {"closed", "seats", "payment"}]
      /\ date' \in [Devices -> Dates \cup {None}]
      /\ timestamp' \in [Devices -> Docs \cup {None}]
      /\ listener' \in [Devices -> {"idle", "due", "dead"}]
  BY <1>2 DEF TypeOK, ViewDidLoad
<1>4. gets' \in [Devices -> [Docs -> Nat]]
  BY <1>2 DEF TypeOK, ViewDidLoad
<1>5. \A e \in Devices : where'[e] # "closed" => date'[e] \in Dates
                                               /\ timestamp'[e] \in Docs
  BY <1>2 DEF TypeOK, ViewDidLoad
<1> QED
  BY <1>1, <1>3, <1>4, <1>5, FreshTypes DEF TypeOK

LEMMA ShowTypes ==
  ASSUME TypeOK, NEW d \in Devices, NEW s \in Docs, Show(d, s)
  PROVE  /\ dictionary' \in [Devices -> {None} \cup SUBSET Cells]
         /\ numberOfSeatsInRow' \in [Devices -> {0, LastRow}]
         /\ basis' \in [Devices -> Docs \cup {None}]
<1>1. View(d, s) \in {None} \cup SUBSET Cells /\ ViewBasis(d, s) \in Docs \cup {None}
  BY ViewIsMap
<1>2. RowAfterReload(View(d, s)) \in {0, LastRow}
  BY DEF RowAfterReload
<1> QED
  BY <1>1, <1>2 DEF TypeOK, Show

LEMMA MoveTypes ==
  ASSUME TypeOK, NEW d \in Devices, MoveUp(d) \/ MoveDown(d)
  PROVE  offset' \in [Devices -> Int] /\ movedDown' \in [Devices -> BOOLEAN]
<1>1. offset \in [Devices -> Int] /\ movedDown \in [Devices -> BOOLEAN]
  BY DEF TypeOK
<1>2. offset[d] - Travel \in Int /\ offset[d] + Travel \in Int
  BY <1>1 DEF Travel
<1>3. CASE MoveUp(d)
  BY <1>1, <1>2, <1>3 DEF MoveUp
<1>4. CASE MoveDown(d)
  BY <1>1, <1>2, <1>4 DEF MoveDown
<1> QED
  BY <1>3, <1>4

LEMMA AfterPickTypes ==
  ASSUME TypeOK, NEW d \in Devices, AfterPick(d)
  PROVE  /\ offset' \in [Devices -> Int] /\ movedDown' \in [Devices -> BOOLEAN]
         /\ pickers' \in [Devices -> SUBSET Pickers]
         /\ seatsSelected' \in [Devices -> SUBSET Cells]
         /\ numberOfSeatsInRow' \in [Devices -> {0, LastRow}]
<1>1. MoveUp(d)
  BY DEF AfterPick
<1>2. RowAfterReload(dictionary[d]) \in {0, LastRow}
  BY DEF RowAfterReload
<1> QED
  BY <1>1, <1>2, MoveTypes DEF TypeOK, AfterPick

LEMMA TapTypes ==
  ASSUME TypeOK, NEW d \in Devices, NEW c \in Cells
  PROVE  /\ LimitAtTap(d) \in 1..SeatLimit
         /\ SelectionAfterTap(d, c) \in SUBSET Cells
<1>1. LimitAtTap(d) \in 1..SeatLimit
  <2>1. Parties \subseteq 1..SeatLimit
    BY CinemaAssumption, Zenon
  <2> QED
    BY <2>1 DEF TypeOK, LimitAtTap
<1>2. SelectionAfterTap(d, c) \in SUBSET Cells
  BY DEF TypeOK, SelectionAfterTap
<1> QED
  BY <1>1, <1>2

LEMMA NotifyTypes ==
  ASSUME TypeOK, NEW alert, Notify(alert)
  PROVE  listener' \in [Devices -> {"idle", "due", "dead"}]
BY DEF TypeOK, Notify

LEMMA UserTypes ==
  ASSUME TypeOK, NEW d \in Devices, User(d)
  PROVE  TypeOK'
<1>1. ASSUME NEW day \in Dates, ViewDidLoad(d, day)  PROVE TypeOK'
  BY <1>1, ViewDidLoadTypes
<1>2. CASE Leave(d)
  BY <1>2, GoneTypes DEF Leave
<1>3. CASE Return(d)
  <2>1. where' \in [Devices -> {"closed", "seats", "payment"}]
    BY <1>3 DEF TypeOK, Return
  <2>2. \A e \in Devices : where'[e] # "closed" => where[e] # "closed"
    BY <1>3 DEF TypeOK, Return
  <2>3. UNCHANGED <<date, timestamp, seatVars, panelVars, cloudVars>>
    BY <1>3 DEF Return
  <2> QED
    BY <2>1, <2>2, <2>3 DEF TypeOK, seatVars, panelVars, cloudVars
<1>4. ASSUME NEW c \in Cells, DidSelectItem(d, c)  PROVE TypeOK'
  <2>1. maxNumberOfSeats' \in [Devices -> 1..SeatLimit]
    BY <1>4, TapTypes DEF TypeOK, DidSelectItem
  <2>2. seatsSelected' \in [Devices -> SUBSET Cells]
    BY <1>4, TapTypes DEF TypeOK, DidSelectItem
  <2>3. UNCHANGED <<dictionary, numberOfSeatsInRow, pickedPeople, basis,
                    panelVars, cloudVars, pageVars>>
    BY <1>4 DEF DidSelectItem
  <2> QED
    BY <2>1, <2>2, <2>3 DEF TypeOK, panelVars, cloudVars, pageVars
<1>5. ASSUME NEW picker \in Labels[d], TapLabel(d, picker)  PROVE TypeOK'
  <2>1. MoveUp(d) \/ MoveDown(d)
    BY <1>5 DEF TapLabel
  <2>2. Labels[d] \in SUBSET Pickers
    BY CinemaAssumption, Zenon
  <2>3. pickers' \in [Devices -> SUBSET Pickers]
    <3>1. pickers[d] \cup {picker} \in SUBSET Pickers
      BY <2>2 DEF TypeOK
    <3>2. pickers[d] \ {picker} \in SUBSET Pickers
      BY DEF TypeOK
    <3> QED
      BY <1>5, <3>1, <3>2 DEF TypeOK, TapLabel
  <2>4. UNCHANGED <<seatVars, cloudVars, pageVars>>
    BY <1>5 DEF TapLabel
  <2> QED
    BY <2>1, <2>3, <2>4, MoveTypes DEF TypeOK, seatVars, cloudVars, pageVars
<1>6. ASSUME NEW slot \in Slots, PickTime(d, slot)  PROVE TypeOK'
  <2>1. AfterPick(d)
    BY <1>6 DEF PickTime
  <2>2. where[d] # "closed" /\ date[d] \in Dates
    BY <1>6 DEF TypeOK, PickTime
  <2>3. DocOf(date[d], slot) \in Docs
    BY <2>2 DEF Docs
  <2>4. timestamp' \in [Devices -> Docs \cup {None}]
    BY <1>6, <2>3 DEF TypeOK, PickTime
  <2>5. gets' \in [Devices -> [Docs -> Nat]]
    BY <1>6, <2>3 DEF TypeOK, PickTime
  <2>6. UNCHANGED <<dictionary, maxNumberOfSeats, pickedPeople, basis,
                    docs, pending, listener, where, date>>
    BY <1>6 DEF PickTime
  <2>7. \A e \in Devices : where'[e] # "closed" => timestamp'[e] \in Docs
    BY <1>6, <2>3 DEF TypeOK, PickTime
  <2> QED
    BY <2>1, <2>4, <2>5, <2>6, <2>7, AfterPickTypes DEF TypeOK
<1>7. ASSUME NEW n \in Parties, PickPeople(d, n)  PROVE TypeOK'
  <2>1. AfterPick(d)
    BY <1>7 DEF PickPeople
  <2>2. pickedPeople' \in [Devices -> Parties \cup {None}]
    BY <1>7 DEF TypeOK, PickPeople
  <2>3. UNCHANGED <<dictionary, maxNumberOfSeats, basis, cloudVars, pageVars>>
    BY <1>7 DEF PickPeople
  <2> QED
    BY <2>1, <2>2, <2>3, AfterPickTypes DEF TypeOK, cloudVars, pageVars
<1>8. CASE ButtonPressed(d)
  <2>1. timestamp[d] \in Docs
    BY <1>8 DEF TypeOK, ButtonPressed
  <2>2. MapSent(d) \in SUBSET Cells
    BY <1>8 DEF TypeOK, ButtonPressed, MapSent
  <2>3. [doc |-> timestamp[d], map |-> MapSent(d), basis |-> basis[d]] \in Writes
    BY <2>1, <2>2 DEF TypeOK, Writes
  <2>4. pending' \in [Devices -> Seq(Writes)]
    BY <1>8, <2>3, AppendProperties DEF TypeOK, ButtonPressed
  <2>5. dictionary' \in [Devices -> {None} \cup SUBSET Cells]
    BY <1>8, <2>2 DEF TypeOK, ButtonPressed
  <2>6. listener' \in [Devices -> {"idle", "due", "dead"}]
    BY <1>8, NotifyTypes DEF ButtonPressed
  <2>7. /\ where' \in [Devices -> {"closed", "seats", "payment"}]
        /\ seatsSelected' \in [Devices -> SUBSET Cells]
        /\ numberOfSeatsInRow' \in [Devices -> {0, LastRow}]
        /\ \A e \in Devices : where'[e] # "closed" => where[e] # "closed"
    BY <1>8 DEF TypeOK, ButtonPressed
  <2>8. UNCHANGED <<maxNumberOfSeats, pickedPeople, basis, panelVars,
                    docs, gets, date, timestamp>>
    BY <1>8 DEF ButtonPressed
  <2> QED
    BY <2>4, <2>5, <2>6, <2>7, <2>8 DEF TypeOK, panelVars
<1>9. CASE ButtonPressedWithoutMap(d)
  BY <1>9, GoneTypes DEF ButtonPressedWithoutMap
<1> QED
  BY <1>1, <1>2, <1>3, <1>4, <1>5, <1>6, <1>7, <1>8, <1>9 DEF User

LEMMA OutdatedWritesTypes ==
  ASSUME NEW q \in Seq(Writes), NEW s \in Docs
  PROVE  /\ OutdatedWrites(q, s) \in Seq(Writes)
         /\ Len(OutdatedWrites(q, s)) = Len(q)
         /\ \A i \in 1..Len(q) :
              /\ OutdatedWrites(q, s)[i].doc = q[i].doc
              /\ OutdatedWrites(q, s)[i].map = q[i].map
              /\ OutdatedWrites(q, s)[i].basis = Outdated(q[i].basis, s)
<1>1. DOMAIN q = 1..Len(q) /\ Len(q) \in Nat
  OBVIOUS
<1>2. ASSUME NEW i \in 1..Len(q)
      PROVE  /\ [q[i] EXCEPT !.basis = Outdated(@, s)] \in Writes
             /\ [q[i] EXCEPT !.basis = Outdated(@, s)].doc = q[i].doc
             /\ [q[i] EXCEPT !.basis = Outdated(@, s)].map = q[i].map
             /\ [q[i] EXCEPT !.basis = Outdated(@, s)].basis = Outdated(q[i].basis, s)
  <2>1. q[i] \in Writes
    BY ElementOfSeq
  <2> QED
    BY <2>1 DEF Writes, Outdated
<1>3. OutdatedWrites(q, s) = [i \in 1..Len(q) |-> [q[i] EXCEPT !.basis = Outdated(@, s)]]
  BY <1>1 DEF OutdatedWrites
<1>4. OutdatedWrites(q, s) \in Seq(Writes) /\ Len(OutdatedWrites(q, s)) = Len(q)
  BY <1>1, <1>2, <1>3
<1> QED
  BY <1>2, <1>3, <1>4

LEMMA ServerAppliesTypes ==
  ASSUME TypeOK, NEW d \in Devices, ServerApplies(d)
  PROVE  TypeOK'
<1> DEFINE w == Head(pending[d])
<1>1. pending[d] \in Seq(Writes) /\ pending[d] # << >>
  BY DEF TypeOK, ServerApplies
<1>2. w \in Writes /\ Tail(pending[d]) \in Seq(Writes)
  BY <1>1, HeadTailProperties
<1>3. w.doc \in Docs /\ w.map \in SUBSET Cells
  BY <1>2 DEF Writes
<1>4. docs' \in [Docs -> {None} \cup SUBSET Cells]
  BY <1>3 DEF TypeOK, ServerApplies
<1>5. listener' \in [Devices -> {"idle", "due", "dead"}]
  BY NotifyTypes DEF ServerApplies
<1>6. basis' \in [Devices -> Docs \cup {None}]
  BY DEF TypeOK, ServerApplies, Outdated
<1>7. pending' \in [Devices -> Seq(Writes)]
  <2>1. \A e \in Devices : OutdatedWrites(pending[e], w.doc) \in Seq(Writes)
    BY <1>3, OutdatedWritesTypes DEF TypeOK
  <2> QED
    BY <1>2, <2>1 DEF ServerApplies
<1>8. UNCHANGED <<dictionary, seatsSelected, numberOfSeatsInRow,
                  maxNumberOfSeats, pickedPeople, gets, panelVars, pageVars>>
  BY DEF ServerApplies
<1> QED
  BY <1>4, <1>5, <1>6, <1>7, <1>8 DEF TypeOK, panelVars, pageVars

LEMMA FirestoreTypes ==
  ASSUME TypeOK, NEW d \in Devices, Firestore(d)
  PROVE  TypeOK'
<1>1. ASSUME NEW s \in Docs, GetReply(d, s)  PROVE TypeOK'
  <2>1. gets' \in [Devices -> [Docs -> Nat]]
    <3>1. gets[d][s] \in Nat /\ gets[d][s] > 0
      BY <1>1 DEF TypeOK, GetReply
    <3>2. gets[d][s] - 1 \in Nat
      BY <3>1
    <3> QED
      BY <1>1, <3>2 DEF TypeOK, GetReply
  <2>2. /\ dictionary' \in [Devices -> {None} \cup SUBSET Cells]
        /\ numberOfSeatsInRow' \in [Devices -> {0, LastRow}]
        /\ basis' \in [Devices -> Docs \cup {None}]
    BY <1>1, ShowTypes DEF TypeOK, GetReply
  <2>3. UNCHANGED <<seatsSelected, maxNumberOfSeats, pickedPeople,
                    docs, pending, listener, panelVars, pageVars>>
    BY <1>1 DEF GetReply
  <2> QED
    BY <2>1, <2>2, <2>3 DEF TypeOK, panelVars, pageVars
<1>2. CASE SnapshotArrives(d)
  <2>1. Home(d) \in Docs
    BY <1>2, HomeIsDoc DEF TypeOK, SnapshotArrives
  <2>2. /\ dictionary' \in [Devices -> {None} \cup SUBSET Cells]
        /\ numberOfSeatsInRow' \in [Devices -> {0, LastRow}]
        /\ basis' \in [Devices -> Docs \cup {None}]
    BY <1>2, <2>1, ShowTypes DEF SnapshotArrives
  <2>3. listener' \in [Devices -> {"idle", "due", "dead"}]
    BY <1>2 DEF TypeOK, SnapshotArrives
  <2>4. UNCHANGED <<seatsSelected, maxNumberOfSeats, pickedPeople,
                    docs, pending, gets, panelVars, pageVars>>
    BY <1>2 DEF SnapshotArrives
  <2> QED
    BY <2>2, <2>3, <2>4 DEF TypeOK, panelVars, pageVars
<1>3. CASE ListenerFails(d)
  <2>1. listener' \in [Devices -> {"idle", "due", "dead"}]
    BY <1>3 DEF TypeOK, ListenerFails
  <2>2. UNCHANGED <<docs, pending, gets, seatVars, panelVars, pageVars>>
    BY <1>3 DEF ListenerFails
  <2> QED
    BY <2>1, <2>2 DEF TypeOK, seatVars, panelVars, pageVars
<1>4. CASE ServerApplies(d)
  BY <1>4, ServerAppliesTypes
<1>5. CASE ServerRejects(d)
  <2>1. Tail(pending[d]) \in Seq(Writes)
    BY <1>5, HeadTailProperties DEF TypeOK, ServerRejects
  <2>2. pending' \in [Devices -> Seq(Writes)]
    BY <1>5, <2>1 DEF TypeOK, ServerRejects
  <2>3. listener' \in [Devices -> {"idle", "due", "dead"}]
    BY <1>5, NotifyTypes DEF ServerRejects
  <2>4. UNCHANGED <<docs, gets, seatVars, panelVars, pageVars>>
    BY <1>5 DEF ServerRejects
  <2> QED
    BY <2>2, <2>3, <2>4 DEF TypeOK, seatVars, panelVars, pageVars
<1> QED
  BY <1>1, <1>2, <1>3, <1>4, <1>5 DEF Firestore

LEMMA InitTypes == Init => TypeOK
<1>1. InitialDocs \subseteq [Docs -> {None} \cup SUBSET Cells]
  BY CinemaAssumption, Zenon
<1> QED
  BY <1>1 DEF Init, TypeOK, SeatLimit

LEMMA NextTypes == TypeOK /\ [Next]_vars => TypeOK'
<1> SUFFICES ASSUME TypeOK, [Next]_vars  PROVE TypeOK'
  OBVIOUS
<1>1. CASE Next
  BY <1>1, UserTypes, FirestoreTypes DEF Next
<1>2. CASE UNCHANGED vars
  BY <1>2 DEF TypeOK, vars, pageVars, seatVars, panelVars, cloudVars
<1> QED
  BY <1>1, <1>2

\* The variables keep their types whatever phones, server and replies do.
THEOREM TypeCorrect == Spec => []TypeOK
BY InitTypes, NextTypes, PTL DEF Spec

-----------------------------------------------------------------------------
(* The party on the label limits the selection. *)

LEMMA SelectionTapLimit ==
  ASSUME TypeOK, PartyLimit, NEW d \in Devices, NEW c \in Cells
  PROVE  /\ Cardinality(SelectionAfterTap(d, c)) <= SeatLimit
         /\ pickedPeople[d] # None
              => Cardinality(SelectionAfterTap(d, c)) <= pickedPeople[d]
<1> DEFINE S == seatsSelected[d]
<1>1. S \in SUBSET Cells
  BY DEF TypeOK
<1>2. IsFiniteSet(S) /\ Cardinality(S) \in Nat
  BY <1>1, SeatsFinite
<1>3. /\ Cardinality(S) <= SeatLimit
      /\ pickedPeople[d] # None => Cardinality(S) <= pickedPeople[d]
  BY DEF PartyLimit
<1>4. /\ LimitAtTap(d) \in 1..SeatLimit
      /\ pickedPeople[d] # None => LimitAtTap(d) = pickedPeople[d]
  BY TapTypes DEF LimitAtTap
<1>5. Cardinality(S \ {c}) \in Nat /\ Cardinality(S \ {c}) <= Cardinality(S)
  BY <1>2, FS_Subset, FS_CardinalityType
<1>6. CASE SelectionAfterTap(d, c) = S
  BY <1>3, <1>6
<1>7. CASE SelectionAfterTap(d, c) = S \ {c}
  <2>1. pickedPeople[d] # None => pickedPeople[d] \in Int
    BY <1>4
  <2> QED
    BY <1>2, <1>3, <1>5, <1>7, <2>1 DEF SeatLimit
<1>8. CASE /\ SelectionAfterTap(d, c) = S \cup {c}
           /\ c \notin S
           /\ LimitAtTap(d) > Cardinality(S)
  <2>1. Cardinality(S \cup {c}) = Cardinality(S) + 1
    BY <1>2, <1>8, FS_AddElement
  <2>2. Cardinality(S \cup {c}) <= LimitAtTap(d) /\ LimitAtTap(d) <= SeatLimit
    BY <1>2, <1>4, <1>8, <2>1 DEF SeatLimit
  <2> QED
    BY <1>2, <1>4, <1>8, <2>1, <2>2 DEF SeatLimit
<1>9. \/ SelectionAfterTap(d, c) = S
      \/ SelectionAfterTap(d, c) = S \ {c}
      \/ /\ SelectionAfterTap(d, c) = S \cup {c}
         /\ c \notin S
         /\ LimitAtTap(d) > Cardinality(S)
  BY DEF SelectionAfterTap
<1> QED
  BY <1>6, <1>7, <1>8, <1>9

\* A step that empties the selection of d, or leaves it and the label alone,
\* keeps the limit.
LEMMA SelectionEmptiedOrKept ==
  ASSUME TypeOK, TypeOK', PartyLimit,
         \A e \in Devices :
           \/ seatsSelected'[e] = {}
           \/ seatsSelected'[e] = seatsSelected[e] /\ pickedPeople'[e] = pickedPeople[e]
  PROVE  PartyLimit'
<1> SUFFICES ASSUME NEW e \in Devices
             PROVE  /\ Cardinality(seatsSelected'[e]) <= SeatLimit
                    /\ pickedPeople'[e] # None =>
                         Cardinality(seatsSelected'[e]) <= pickedPeople'[e]
  BY DEF PartyLimit
<1>1. CASE seatsSelected'[e] = {}
  <2>1. Parties \subseteq 1..SeatLimit
    BY CinemaAssumption, Zenon
  <2>2. pickedPeople'[e] # None => pickedPeople'[e] \in 1..SeatLimit
    BY <2>1 DEF TypeOK
  <2>3. Cardinality({}) = 0
    BY FS_EmptySet
  <2> QED
    BY <1>1, <2>2, <2>3 DEF SeatLimit
<1>2. CASE seatsSelected'[e] = seatsSelected[e] /\ pickedPeople'[e] = pickedPeople[e]
  BY <1>2 DEF PartyLimit
<1> QED
  BY <1>1, <1>2

LEMMA PartyLimitStep ==
  ASSUME TypeOK, TypeOK', PartyLimit, [Next]_vars
  PROVE  PartyLimit'
<1> DEFINE EmptiedOrKept ==
      \A e \in Devices :
        \/ seatsSelected'[e] = {}
        \/ seatsSelected'[e] = seatsSelected[e] /\ pickedPeople'[e] = pickedPeople[e]
<1>1. ASSUME NEW d \in Devices, NEW c \in Cells, DidSelectItem(d, c)
      PROVE  PartyLimit'
  <2>1. pickedPeople' = pickedPeople
    BY <1>1 DEF DidSelectItem
  <2>2. seatsSelected'[d] = SelectionAfterTap(d, c)
    BY <1>1 DEF DidSelectItem, TypeOK
  <2>3. \A e \in Devices \ {d} : seatsSelected'[e] = seatsSelected[e]
    BY <1>1 DEF DidSelectItem, TypeOK
  <2> QED
    BY <2>1, <2>2, <2>3, SelectionTapLimit DEF PartyLimit
<1>2. ASSUME NEW d \in Devices,
             \/ \E day \in Dates : ViewDidLoad(d, day)
             \/ Leave(d) \/ ButtonPressedWithoutMap(d)
      PROVE  EmptiedOrKept
  <2>1. Fresh(d)
    BY <1>2 DEF ViewDidLoad, Leave, ButtonPressedWithoutMap, Gone
  <2> QED
    BY <2>1 DEF Fresh, TypeOK
<1>3. ASSUME NEW d \in Devices,
             \/ \E slot \in Slots : PickTime(d, slot)
             \/ \E n \in Parties : PickPeople(d, n)
      PROVE  EmptiedOrKept
  <2>1. AfterPick(d)
    BY <1>3 DEF PickTime, PickPeople
  <2>2. \A e \in Devices \ {d} : pickedPeople'[e] = pickedPeople[e]
    BY <1>3 DEF PickTime, PickPeople, TypeOK
  <2> QED
    BY <2>1, <2>2 DEF AfterPick, TypeOK
<1>4. ASSUME NEW d \in Devices, ButtonPressed(d)
      PROVE  EmptiedOrKept
  BY <1>4 DEF ButtonPressed, TypeOK
<1>5. ASSUME NEW d \in Devices,
             \/ Return(d)
             \/ \E picker \in Labels[d] : TapLabel(d, picker)
             \/ Firestore(d)
      PROVE  EmptiedOrKept
  <2>1. seatsSelected' = seatsSelected /\ pickedPeople' = pickedPeople
    BY <1>5 DEF Return, TapLabel, Firestore, GetReply, SnapshotArrives,
                ListenerFails, ServerApplies, ServerRejects, seatVars
  <2> QED
    BY <2>1
<1>6. CASE UNCHANGED vars
  BY <1>6 DEF PartyLimit, vars, seatVars
<1>7. EmptiedOrKept => PartyLimit'
  BY SelectionEmptiedOrKept
<1>8. CASE Next
  BY <1>1, <1>2, <1>3, <1>4, <1>5, <1>7, <1>8 DEF Next, User
<1> QED
  BY <1>6, <1>8

LEMMA InitPartyLimit == Init => PartyLimit
BY FS_EmptySet DEF Init, PartyLimit, SeatLimit

\* No phone ever has more seats marked than the party on its label.
THEOREM PartyLimitHolds == Spec => []PartyLimit
<1>1. TypeOK /\ TypeOK' /\ PartyLimit /\ [Next]_vars => PartyLimit'
  BY PartyLimitStep
<1> QED
  BY <1>1, TypeCorrect, InitPartyLimit, PTL DEF Spec

-----------------------------------------------------------------------------
(* A fresh map covers its showing. *)

LEMMA InitFresh == Init => FreshMapCoversShowing
BY DEF Init, FreshMapCoversShowing, FreshOn

\* Steps that touch neither the documents nor the writes, and every map of
\* which is the one before or has no basis.
LEMMA FreshUndisturbed ==
  ASSUME TypeOK, FreshMapCoversShowing, UNCHANGED <<docs, pending>>,
         \A e \in Devices :
           \/ basis'[e] = None
           \/ basis'[e] = basis[e] /\ dictionary'[e] = dictionary[e]
  PROVE  FreshMapCoversShowing'
BY DEF FreshMapCoversShowing, FreshOn, Covers, Taken

\* The same for one phone.
LEMMA FreshElsewhere ==
  ASSUME FreshMapCoversShowing, docs' = docs, NEW e \in Devices,
         pending'[e] = pending[e], basis'[e] = basis[e], dictionary'[e] = dictionary[e]
  PROVE  FreshOn(e)'
BY DEF FreshMapCoversShowing, FreshOn, Covers, Taken

\* A read shows the document, or the newest own write, which covers the older.
LEMMA ReadCovers ==
  ASSUME TypeOK, FreshMapCoversShowing, NEW d \in Devices, NEW s \in Docs,
         ViewBasis(d, s) # None
  PROVE  /\ ViewBasis(d, s) = s
         /\ View(d, s) # None
         /\ Covers(d, Len(pending[d]), View(d, s), s)
<1>1. ViewBasis(d, s) = s /\ View(d, s) # None
  BY DEF ViewBasis
<1>2. DOMAIN pending[d] = 1..Len(pending[d]) /\ Len(pending[d]) \in Nat
  BY DEF TypeOK
<1>3. CASE Mine(d, s) = {}
  <2>1. View(d, s) = docs[s]
    BY <1>3 DEF View
  <2>2. \A j \in 1..Len(pending[d]) : pending[d][j].doc # s
    BY <1>2, <1>3 DEF Mine
  <2> QED
    BY <1>1, <2>1, <2>2 DEF Covers, Taken
<1>4. CASE Mine(d, s) # {}
  <2> DEFINE k == Latest(d, s)
  <2>1. k \in Mine(d, s) /\ \A j \in Mine(d, s) : j <= k
    BY <1>4, LatestIsMine
  <2>2. k \in 1..Len(pending[d]) /\ pending[d][k].doc = s
    BY <1>2, <2>1 DEF Mine
  <2>3. View(d, s) = pending[d][k].map /\ pending[d][k].basis = s
    BY <1>1, <1>4 DEF View, ViewBasis
  <2>4. s # None
    BY CinemaAssumption, Zenon
  <2>5. Covers(d, k - 1, View(d, s), s)
    BY <1>2, <2>2, <2>3, <2>4 DEF FreshMapCoversShowing, FreshOn
  <2>6. ASSUME NEW j \in 1..Len(pending[d]), pending[d][j].doc = s
        PROVE  pending[d][j].map \subseteq View(d, s)
    <3>1. j \in Mine(d, s)
      BY <1>2, <2>6 DEF Mine
    <3>2. j <= k /\ j \in Int /\ k \in Int
      BY <2>1, <2>2, <3>1
    <3>3. CASE j = k
      BY <2>3, <3>3
    <3>4. CASE j # k
      <4>1. j \in 1..(k - 1)
        BY <3>2, <3>4
      <4> QED
        BY <2>5, <2>6, <4>1 DEF Covers
    <3> QED
      BY <3>3, <3>4
  <2> QED
    BY <1>1, <2>5, <2>6 DEF Covers
<1> QED
  BY <1>3, <1>4

LEMMA ShowKeepsFresh ==
  ASSUME TypeOK, FreshMapCoversShowing, NEW d \in Devices, NEW s \in Docs,
         Show(d, s), UNCHANGED <<docs, pending>>
  PROVE  FreshMapCoversShowing'
<1>1. dictionary'[d] = View(d, s) /\ basis'[d] = ViewBasis(d, s)
  BY DEF Show, TypeOK
<1>2. \A e \in Devices \ {d} : basis'[e] = basis[e] /\ dictionary'[e] = dictionary[e]
  BY DEF Show, TypeOK
<1>3. basis'[d] # None => /\ dictionary'[d] # None
                          /\ Covers(d, Len(pending[d]), dictionary'[d], basis'[d])
  BY <1>1, ReadCovers
<1> QED
  BY <1>2, <1>3 DEF FreshMapCoversShowing, FreshOn, Covers, Taken

\* A booking covers what the map it is composed from covers.
LEMMA PressKeepsFresh ==
  ASSUME TypeOK, FreshMapCoversShowing, NEW d \in Devices, ButtonPressed(d)
  PROVE  FreshMapCoversShowing'
<1> DEFINE n == Len(pending[d])
           w == [doc |-> timestamp[d], map |-> MapSent(d), basis |-> basis[d]]
<1>1. /\ docs' = docs /\ basis' = basis
      /\ dictionary' = [dictionary EXCEPT ![d] = MapSent(d)]
      /\ pending' = [pending EXCEPT ![d] = Append(@, w)]
      /\ dictionary[d] # None
  BY DEF ButtonPressed
<1>2. pending[d] \in Seq(Writes) /\ n \in Nat /\ DOMAIN pending[d] = 1..n
  BY DEF TypeOK
<1>3. pending'[d] = Append(pending[d], w)
  BY <1>1 DEF TypeOK
<1>4. /\ Len(pending'[d]) = n + 1 /\ DOMAIN pending'[d] = 1..(n + 1)
      /\ \A j \in 1..n : pending'[d][j] = pending[d][j]
      /\ pending'[d][n + 1] = w
  BY <1>2, <1>3
<1>5. MapSent(d) \in SUBSET Cells /\ dictionary[d] \subseteq MapSent(d)
  BY <1>1 DEF MapSent, TypeOK
<1>6. MapSent(d) # None
  BY <1>5, CinemaAssumption, Zenon
<1>7. ASSUME NEW e \in Devices \ {d}
      PROVE  basis'[e] = basis[e] /\ dictionary'[e] = dictionary[e]
             /\ pending'[e] = pending[e]
  BY <1>1 DEF TypeOK
<1>8. dictionary'[d] = MapSent(d) /\ basis'[d] = basis[d]
  BY <1>1 DEF TypeOK
<1>9. basis[d] # None => Covers(d, n, MapSent(d), basis[d])
  BY <1>5 DEF FreshMapCoversShowing, FreshOn, Covers
<1>10. basis'[d] # None => /\ dictionary'[d] # None
                           /\ Covers(d, Len(pending[d]), dictionary[d], basis[d])'
  <2> SUFFICES ASSUME basis[d] # None
               PROVE  Covers(d, Len(pending[d]), dictionary[d], basis[d])'
    BY <1>6, <1>8
  <2>1. Taken(basis[d])' \subseteq MapSent(d)
    BY <1>1, <1>8, <1>9 DEF Covers, Taken
  <2>2. ASSUME NEW j \in 1..(n + 1), pending'[d][j].doc = basis[d]
        PROVE  pending'[d][j].map \subseteq MapSent(d)
    <3>1. CASE j = n + 1
      BY <1>4, <3>1
    <3>2. CASE j # n + 1
      <4>1. j \in 1..n
        BY <1>2, <3>2
      <4> QED
        BY <1>4, <1>9, <2>2, <4>1 DEF Covers
    <3> QED
      BY <3>1, <3>2
  <2> QED
    BY <1>4, <1>8, <2>1, <2>2 DEF Covers
<1>11. ASSUME NEW i \in 1..(n + 1), pending'[d][i].basis # None
       PROVE  Covers(d, i - 1, pending[d][i].map, pending[d][i].basis)'
  <2>1. \A j \in 1..(i - 1) : j \in 1..n
    BY <1>2
  <2>2. Covers(d, i - 1, pending'[d][i].map, pending'[d][i].basis)
    <3>1. CASE i = n + 1
      BY <1>2, <1>4, <1>9, <1>11, <3>1
    <3>2. CASE i # n + 1
      <4>1. i \in 1..n
        BY <1>2, <3>2
      <4> QED
        BY <1>2, <1>4, <1>11, <4>1 DEF FreshMapCoversShowing, FreshOn
    <3> QED
      BY <3>1, <3>2
  <2> QED
    BY <1>1, <1>4, <2>1, <2>2 DEF Covers, Taken
<1>12. FreshOn(d)'
  BY <1>4, <1>10, <1>11 DEF FreshOn
<1>13. \A e \in Devices \ {d} : FreshOn(e)'
  BY <1>1, <1>7, FreshElsewhere
<1> QED
  BY <1>12, <1>13 DEF FreshMapCoversShowing

LEMMA RejectKeepsFresh ==
  ASSUME TypeOK, FreshMapCoversShowing, NEW d \in Devices, ServerRejects(d)
  PROVE  FreshMapCoversShowing'
<1> DEFINE n == Len(pending[d])
<1>1. pending[d] \in Seq(Writes) /\ pending[d] # << >> /\ n \in Nat
      /\ DOMAIN pending[d] = 1..n
  BY DEF TypeOK, ServerRejects
<1>2. /\ docs' = docs /\ basis' = basis /\ dictionary' = dictionary
      /\ pending' = [pending EXCEPT ![d] = Tail(@)]
  BY DEF ServerRejects, seatVars
<1>3. pending'[d] = Tail(pending[d]) /\ \A e \in Devices \ {d} : pending'[e] = pending[e]
  BY <1>2 DEF TypeOK
<1>4. /\ Len(pending'[d]) = n - 1 /\ DOMAIN pending'[d] = 1..(n - 1)
      /\ \A j \in 1..(n - 1) : pending'[d][j] = pending[d][j + 1]
  BY <1>1, <1>3, HeadTailProperties
<1>5. basis[d] # None => Covers(d, Len(pending[d]), dictionary[d], basis[d])'
  BY <1>1, <1>2, <1>4 DEF FreshMapCoversShowing, FreshOn, Covers, Taken
<1>6. ASSUME NEW i \in 1..(n - 1), pending'[d][i].basis # None
      PROVE  Covers(d, i - 1, pending[d][i].map, pending[d][i].basis)'
  <2>1. i + 1 \in 1..n /\ (i + 1) - 1 = i
    BY <1>1
  <2>2. Covers(d, i, pending[d][i + 1].map, pending[d][i + 1].basis)
    BY <1>1, <1>4, <1>6, <2>1 DEF FreshMapCoversShowing, FreshOn
  <2>3. \A j \in 1..(i - 1) : j + 1 \in 1..i /\ j \in 1..(n - 1)
    BY <1>1
  <2> QED
    BY <1>2, <1>4, <2>2, <2>3 DEF Covers, Taken
<1>7. basis[d]' # None => dictionary[d]' # None
  BY <1>2 DEF FreshMapCoversShowing, FreshOn
<1>8. FreshOn(d)'
  BY <1>2, <1>4, <1>5, <1>6, <1>7 DEF FreshOn
<1>9. \A e \in Devices \ {d} : FreshOn(e)'
  BY <1>2, <1>3, FreshElsewhere
<1> QED
  BY <1>8, <1>9 DEF FreshMapCoversShowing

\* The server overwrites a document: the phone's own maps cover its write, and
\* nobody else's is said to cover the document any more.
LEMMA ApplyKeepsFresh ==
  ASSUME TypeOK, FreshMapCoversShowing, NEW d \in Devices, ServerApplies(d)
  PROVE  FreshMapCoversShowing'
<1> DEFINE n == Len(pending[d])
           w == Head(pending[d])
<1>1. pending[d] \in Seq(Writes) /\ pending[d] # << >> /\ n \in Nat
      /\ DOMAIN pending[d] = 1..n
  BY DEF TypeOK, ServerApplies
<1>2. w \in Writes /\ w = pending[d][1] /\ 1 \in 1..n
  BY <1>1, HeadTailProperties
<1>3. w.doc \in Docs /\ w.map \in SUBSET Cells /\ w.map # None /\ w.doc # None
  <2>1. w.doc \in Docs /\ w.map \in SUBSET Cells
    BY <1>2 DEF Writes
  <2> QED
    BY <2>1, CinemaAssumption, Zenon
<1>4. /\ docs' = [docs EXCEPT ![w.doc] = w.map]
      /\ dictionary' = dictionary
      /\ pending'[d] = Tail(pending[d])
      /\ basis'[d] = basis[d]
  BY DEF ServerApplies
<1>5. ASSUME NEW e \in Devices \ {d}
      PROVE  /\ pending'[e] = OutdatedWrites(pending[e], w.doc)
             /\ basis'[e] = Outdated(basis[e], w.doc)
  BY DEF ServerApplies
<1>6. /\ Len(pending'[d]) = n - 1 /\ DOMAIN pending'[d] = 1..(n - 1)
      /\ \A j \in 1..(n - 1) : pending'[d][j] = pending[d][j + 1]
  <2>1. /\ Tail(pending[d]) \in Seq(Writes) /\ Len(Tail(pending[d])) = n - 1
        /\ \A j \in 1..(n - 1) : Tail(pending[d])[j] = pending[d][j + 1]
    BY <1>1, HeadTailProperties
  <2> QED
    BY <1>4, <2>1
<1>7. \A s \in Docs : Taken(s)' = IF s = w.doc THEN w.map ELSE Taken(s)
  BY <1>3, <1>4 DEF Taken, TypeOK
<1>8. FreshOn(d)'
  <2>1. ASSUME basis[d] # None
        PROVE  /\ dictionary[d] # None
               /\ Covers(d, Len(pending[d]), dictionary[d], basis[d])'
    <3>1. dictionary[d] # None /\ Covers(d, n, dictionary[d], basis[d])
      BY <2>1 DEF FreshMapCoversShowing, FreshOn
    <3>2. ASSUME NEW s \in Docs, s = basis[d]
          PROVE  Taken(s)' \subseteq dictionary[d]
      <4>1. CASE s = w.doc
        BY <1>2, <1>7, <3>1, <3>2, <4>1 DEF Covers
      <4>2. CASE s # w.doc
        BY <1>7, <3>1, <3>2, <4>2 DEF Covers
      <4> QED
        BY <4>1, <4>2
    <3>4. basis[d] \in Docs
      BY <2>1 DEF TypeOK
    <3>3. \A j \in 1..(n - 1) : j + 1 \in 1..n
      BY <1>1
    <3> QED
      BY <1>4, <1>6, <3>1, <3>2, <3>3, <3>4 DEF Covers
  <2>2. ASSUME NEW i \in 1..(n - 1), pending'[d][i].basis # None
        PROVE  Covers(d, i - 1, pending[d][i].map, pending[d][i].basis)'
    <3> DEFINE v == pending[d][i + 1]
    <3>1. i + 1 \in 1..n /\ (i + 1) - 1 = i /\ 1 \in 1..i
      BY <1>1
    <3>2. v \in Writes /\ pending'[d][i] = v /\ v.basis \in Docs
      <4>1. v \in Writes
        BY <1>1, <3>1, ElementOfSeq
      <4> QED
        BY <1>6, <2>2, <4>1 DEF Writes
    <3>3. Covers(d, i, v.map, v.basis)
      BY <1>1, <2>2, <3>1, <3>2 DEF FreshMapCoversShowing, FreshOn
    <3>4. ASSUME NEW s \in Docs, s = v.basis
          PROVE  Taken(s)' \subseteq v.map
      <4>1. CASE s = w.doc
        BY <1>2, <1>7, <3>1, <3>3, <3>4, <4>1 DEF Covers
      <4>2. CASE s # w.doc
        BY <1>7, <3>3, <3>4, <4>2 DEF Covers
      <4> QED
        BY <4>1, <4>2
    <3>5. \A j \in 1..(i - 1) : j + 1 \in 1..i /\ j \in 1..(n - 1)
      BY <1>1
    <3> QED
      BY <1>6, <3>2, <3>3, <3>4, <3>5 DEF Covers
  <2> QED
    BY <1>4, <1>6, <2>1, <2>2 DEF FreshOn
<1>9. ASSUME NEW e \in Devices \ {d}  PROVE FreshOn(e)'
  <2> DEFINE q == pending[e]
  <2>1. q \in Seq(Writes) /\ Len(q) \in Nat /\ DOMAIN q = 1..Len(q)
    BY DEF TypeOK
  <2>2. /\ pending'[e] \in Seq(Writes) /\ Len(pending'[e]) = Len(q)
        /\ DOMAIN pending'[e] = 1..Len(q)
        /\ \A i \in 1..Len(q) : /\ pending'[e][i].doc = q[i].doc
                                /\ pending'[e][i].map = q[i].map
                                /\ pending'[e][i].basis = Outdated(q[i].basis, w.doc)
    <3>1. pending'[e] = OutdatedWrites(q, w.doc)
      BY <1>5
    <3> QED
      BY <1>3, <2>1, <3>1, OutdatedWritesTypes
  <2>3. ASSUME basis'[e] # None
        PROVE  dictionary[e] # None /\ Covers(e, Len(pending[e]), dictionary[e], basis[e])'
    <3>1. basis'[e] = basis[e] /\ basis[e] # w.doc /\ basis[e] \in Docs
      BY <1>5, <2>3 DEF Outdated, TypeOK
    <3>2. dictionary[e] # None /\ Covers(e, Len(q), dictionary[e], basis[e])
      BY <2>3, <3>1 DEF FreshMapCoversShowing, FreshOn
    <3> QED
      BY <1>4, <1>7, <2>2, <3>1, <3>2 DEF Covers
  <2>4. ASSUME NEW i \in 1..Len(q), pending'[e][i].basis # None
        PROVE  Covers(e, i - 1, pending[e][i].map, pending[e][i].basis)'
    <3>0. q[i] \in Writes
      BY <2>1, ElementOfSeq
    <3>1. /\ pending'[e][i].basis = q[i].basis /\ q[i].basis # w.doc
          /\ q[i].basis \in Docs
      BY <2>2, <2>4, <3>0 DEF Outdated, Writes
    <3>2. Covers(e, i - 1, q[i].map, q[i].basis)
      BY <2>1, <2>4, <3>1 DEF FreshMapCoversShowing, FreshOn
    <3>3. \A j \in 1..(i - 1) : j \in 1..Len(q)
      BY <2>1
    <3> QED
      BY <1>7, <2>2, <3>1, <3>2, <3>3 DEF Covers
  <2> QED
    BY <1>4, <2>2, <2>3, <2>4 DEF FreshOn
<1> QED
  BY <1>8, <1>9 DEF FreshMapCoversShowing

LEMMA FreshStep ==
  ASSUME TypeOK, FreshMapCoversShowing, [Next]_vars
  PROVE  FreshMapCoversShowing'
<1> DEFINE Undisturbed ==
      /\ UNCHANGED <<docs, pending>>
      /\ \A e \in Devices :
           \/ basis'[e] = None
           \/ basis'[e] = basis[e] /\ dictionary'[e] = dictionary[e]
<1>1. ASSUME NEW d \in Devices,
             \/ \E day \in Dates : ViewDidLoad(d, day)
             \/ Leave(d) \/ ButtonPressedWithoutMap(d)
      PROVE  Undisturbed
  <2>1. Fresh(d) /\ UNCHANGED <<docs, pending>>
    BY <1>1 DEF ViewDidLoad, Leave, ButtonPressedWithoutMap, Gone
  <2> QED
    BY <2>1 DEF Fresh, TypeOK
<1>2. ASSUME NEW d \in Devices,
             \/ Return(d)
             \/ \E c \in Cells : DidSelectItem(d, c)
             \/ \E picker \in Labels[d] : TapLabel(d, picker)
             \/ \E slot \in Slots : PickTime(d, slot)
             \/ \E n \in Parties : PickPeople(d, n)
             \/ ListenerFails(d)
      PROVE  Undisturbed
  BY <1>2 DEF Return, DidSelectItem, TapLabel, PickTime, PickPeople,
              ListenerFails, seatVars, cloudVars
<1>3. ASSUME NEW d \in Devices, NEW s \in Docs, GetReply(d, s)
      PROVE  FreshMapCoversShowing'
  <2>1. UNCHANGED <<docs, pending>>
    BY <1>3 DEF GetReply
  <2>2. CASE Show(d, s)
    BY <2>1, <2>2, ShowKeepsFresh
  <2>3. CASE UNCHANGED <<dictionary, basis, numberOfSeatsInRow>>
    BY <2>1, <2>3, FreshUndisturbed
  <2> QED
    BY <1>3, <2>2, <2>3 DEF GetReply
<1>4. ASSUME NEW d \in Devices, SnapshotArrives(d)
      PROVE  FreshMapCoversShowing'
  <2>1. UNCHANGED <<docs, pending>> /\ Show(d, Home(d))
    BY <1>4 DEF SnapshotArrives
  <2>2. Home(d) \in Docs
    BY <1>4, HomeIsDoc DEF TypeOK, SnapshotArrives
  <2> QED
    BY <2>1, <2>2, ShowKeepsFresh
<1>5. CASE UNCHANGED vars
  <2>1. Undisturbed
    BY <1>5 DEF vars, seatVars, cloudVars
  <2> QED
    BY <2>1, FreshUndisturbed
<1>6. Undisturbed => FreshMapCoversShowing'
  BY FreshUndisturbed
<1>7. CASE Next
  <2>1. PICK d \in Devices : User(d) \/ Firestore(d)
    BY <1>7 DEF Next
  <2>2. CASE User(d)
    <3> HIDE DEF Undisturbed
    <3> QED
      BY <1>1, <1>2, <1>6, <2>2, PressKeepsFresh DEF User
  <2>3. CASE Firestore(d)
    <3> HIDE DEF Undisturbed
    <3> QED
      BY <1>2, <1>3, <1>4, <1>6, <2>3, ApplyKeepsFresh, RejectKeepsFresh DEF Firestore
  <2> QED
    BY <2>1, <2>2, <2>3
<1> QED
  BY <1>5, <1>7

\* A map nobody else has outdated covers its showing, on every phone.
THEOREM FreshMapHolds == Spec => []FreshMapCoversShowing
<1>1. TypeOK /\ FreshMapCoversShowing /\ [Next]_vars => FreshMapCoversShowing'
  BY FreshStep
<1> QED
  BY <1>1, TypeCorrect, InitFresh, PTL DEF Spec

\* The only step that changes a document applies a write; when that write was
\* composed from a fresh map of the document it takes no seat away.
LEMMA SeatsLostStep ==
  ASSUME TypeOK, FreshMapCoversShowing, Next, NEW s \in Docs,
         Taken(s) \ Taken(s)' # {}
  PROVE  \E d \in Devices : /\ pending[d] # << >>
                            /\ pending'[d] = Tail(pending[d])
                            /\ Head(pending[d]).doc = s
                            /\ Head(pending[d]).basis # s
<1>1. docs' # docs
  BY DEF Taken
<1>2. PICK d \in Devices : ServerApplies(d)
  BY <1>1 DEF Next, User, Firestore, ViewDidLoad, Leave, Return, DidSelectItem,
              TapLabel, PickTime, PickPeople, ButtonPressed,
              ButtonPressedWithoutMap, Gone, GetReply, SnapshotArrives,
              ListenerFails, ServerRejects, cloudVars
<1> DEFINE w == Head(pending[d])
<1>3. pending[d] \in Seq(Writes) /\ pending[d] # << >>
  BY <1>2 DEF TypeOK, ServerApplies
<1>4. w \in Writes /\ w = pending[d][1] /\ 1 \in DOMAIN pending[d]
  BY <1>3, HeadTailProperties
<1>5. docs' = [docs EXCEPT ![w.doc] = w.map] /\ pending'[d] = Tail(pending[d])
  BY <1>2 DEF ServerApplies
<1>6. w.doc \in Docs /\ w.map # None
  <2>1. w.doc \in Docs /\ w.map \in SUBSET Cells
    BY <1>4 DEF Writes
  <2> QED
    BY <2>1, CinemaAssumption, Zenon
<1>7. w.doc = s
  BY <1>5, <1>6 DEF Taken, TypeOK
<1>8. Taken(s)' = w.map
  BY <1>5, <1>6, <1>7 DEF Taken, TypeOK
<1>9. ASSUME w.basis = s  PROVE FALSE
  <2>1. s # None
    BY CinemaAssumption, Zenon
  <2>2. Taken(s) \subseteq w.map
    BY <1>4, <1>9, <2>1 DEF FreshMapCoversShowing, FreshOn, Covers
  <2> QED
    BY <1>8, <2>2
<1> QED
  BY <1>3, <1>5, <1>7, <1>9

\* A booking sent from a map that is up to date never erases another booking.
THEOREM FreshBookingHolds == Spec => FreshBookingKeepsSeats
<1> DEFINE LossesExplained ==
      \A s \in Docs :
        Taken(s) \ Taken(s)' # {} =>
          \E d \in Devices : /\ pending[d] # << >>
                             /\ pending'[d] = Tail(pending[d])
                             /\ Head(pending[d]).doc = s
                             /\ Head(pending[d]).basis # s
<1>1. TypeOK /\ FreshMapCoversShowing /\ [Next]_vars => [LossesExplained]_vars
  <2>1. ASSUME TypeOK, FreshMapCoversShowing, Next  PROVE LossesExplained
    BY <2>1, SeatsLostStep
  <2> QED
    BY <2>1
<1>2. Spec => [][LossesExplained]_vars
  <2> HIDE DEF LossesExplained
  <2> QED
    BY <1>1, TypeCorrect, FreshMapHolds, PTL DEF Spec
<1> QED
  BY <1>2 DEF FreshBookingKeepsSeats

-----------------------------------------------------------------------------
(* The panel with the seats. *)

LEMMA PanelStep ==
  ASSUME TypeOK, PanelLowered, [Next]_vars
  PROVE  PanelLowered'
<1> DEFINE Hangs(e) == /\ offset[e] <= IF movedDown[e] THEN Travel ELSE 0
                       /\ movedDown[e] => pickers[e] # {}
<1> USE DEF Travel
<1>1. ASSUME NEW d \in Devices, NEW e \in Devices, User(d) \/ Firestore(d)
      PROVE  Hangs(e)'
  <2>0. /\ Hangs(e) /\ offset[e] \in Int /\ offset[d] \in Int
        /\ movedDown[e] \in BOOLEAN
    BY DEF PanelLowered, TypeOK
  <2>1. CASE UNCHANGED panelVars
    BY <2>0, <2>1 DEF panelVars
  <2>2. CASE Fresh(d)
    BY <2>0, <2>2 DEF Fresh, TypeOK
  <2>3. CASE AfterPick(d)
    BY <2>0, <2>3 DEF AfterPick, MoveUp, TypeOK
  <2>4. ASSUME NEW picker \in Labels[d], TapLabel(d, picker)
        PROVE  Hangs(e)'
    <3>1. CASE /\ ~movedDown[d]
               /\ pickers' = [pickers EXCEPT ![d] = @ \cup {picker}]
               /\ MoveDown(d)
      BY <2>0, <3>1 DEF MoveDown, TypeOK
    <3>2. CASE /\ movedDown[d]
               /\ pickers' = [pickers EXCEPT ![d] = @ \ {picker}]
               /\ MoveUp(d)
      BY <2>0, <3>2 DEF MoveUp, TypeOK
    <3> QED
      BY <2>4, <3>1, <3>2 DEF TapLabel
  <2>5. \/ UNCHANGED panelVars \/ Fresh(d) \/ AfterPick(d)
        \/ \E picker \in Labels[d] : TapLabel(d, picker)
    BY <1>1 DEF User, Firestore, ViewDidLoad, Leave, Return, DidSelectItem,
                PickTime, PickPeople, ButtonPressed, ButtonPressedWithoutMap,
                Gone, GetReply, SnapshotArrives, ListenerFails, ServerApplies,
                ServerRejects
  <2> QED
    BY <2>1, <2>2, <2>3, <2>4, <2>5
<1>2. CASE UNCHANGED vars
  BY <1>2 DEF PanelLowered, vars, panelVars
<1>3. CASE Next
  BY <1>1, <1>3 DEF Next, PanelLowered
<1> QED
  BY <1>2, <1>3

\* However the labels are tapped, the panel never hangs below its one step.
THEOREM PanelHolds == Spec => []PanelLowered
<1>1. Init => PanelLowered
  BY DEF Init, PanelLowered
<1>2. TypeOK /\ PanelLowered /\ [Next]_vars => PanelLowered'
  BY PanelStep
<1> QED
  BY <1>1, <1>2, TypeCorrect, PTL DEF Spec

-----------------------------------------------------------------------------
(* When a map vanishes under a selection. *)

\* LostMapMeansMissingShowing does not say why a write of the phone's own cannot
\* create the document without its listener hearing of it: there is none, because
\* a booking takes a map and empties the selection.
Settled ==
  \A d \in Devices :
    /\ where[d] # "seats" => seatsSelected[d] = {}
    /\ seatsSelected[d] # {} /\ dictionary[d] = None /\ listener[d] = "idle"
         => docs[Home(d)] = None /\ Mine(d, Home(d)) = {}

\* Documents and writes stay, and no map is lost.
LEMMA SettledKept ==
  ASSUME Settled, docs' = docs, pending' = pending,
         \A e \in Devices :
           \/ seatsSelected'[e] = {}
           \/ where'[e] = "seats" /\ dictionary'[e] # None
           \/ /\ where'[e] = where[e] /\ seatsSelected'[e] = seatsSelected[e]
              /\ \/ dictionary'[e] # None
                 \/ listener'[e] # "idle"
                 \/ /\ dictionary'[e] = dictionary[e]
                    /\ listener'[e] = listener[e] /\ date'[e] = date[e]
  PROVE  Settled'
BY DEF Settled, Home, Mine

LEMMA SnapshotSettled ==
  ASSUME TypeOK, Settled, NEW d \in Devices, SnapshotArrives(d)
  PROVE  Settled'
<1>1. /\ where' = where /\ seatsSelected' = seatsSelected /\ date' = date
      /\ docs' = docs /\ pending' = pending /\ where[d] # "closed"
      /\ dictionary'[d] = View(d, Home(d))
      /\ \A e \in Devices \ {d} : /\ dictionary'[e] = dictionary[e]
                                  /\ listener'[e] = listener[e]
  BY DEF SnapshotArrives, Show, pageVars, TypeOK
<1>2. View(d, Home(d)) = None => docs[Home(d)] = None /\ Mine(d, Home(d)) = {}
  <2>1. CASE Mine(d, Home(d)) = {}
    BY <2>1 DEF View
  <2>2. CASE Mine(d, Home(d)) # {}
    <3>1. Home(d) \in Docs
      BY <1>1, HomeIsDoc DEF TypeOK
    <3>2. Latest(d, Home(d)) \in DOMAIN pending[d]
      BY <2>2, <3>1, LatestIsMine DEF Mine
    <3>3. pending[d][Latest(d, Home(d))].map \in SUBSET Cells
      <4>1. pending[d] \in Seq(Writes)
        BY DEF TypeOK
      <4>2. \A i \in DOMAIN pending[d] : pending[d][i] \in Writes
        BY <4>1
      <4> QED
        BY <3>2, <4>2 DEF Writes
    <3>4. View(d, Home(d)) \in SUBSET Cells
      BY <2>2, <3>3 DEF View
    <3> QED
      BY <3>4, CinemaAssumption, Zenon
  <2> QED
    BY <2>1, <2>2
<1>3. Mine(d, Home(d))' = Mine(d, Home(d)) /\ Home(d)' = Home(d)
  BY <1>1 DEF Mine, Home
<1>4. \A e \in Devices \ {d} : Mine(e, Home(e))' = Mine(e, Home(e)) /\ Home(e)' = Home(e)
  BY <1>1 DEF Mine, Home
<1> QED
  BY <1>1, <1>2, <1>3, <1>4 DEF Settled

LEMMA PressSettled ==
  ASSUME TypeOK, Settled, NEW d \in Devices, ButtonPressed(d)
  PROVE  Settled'
<1>1. /\ docs' = docs /\ date' = date /\ seatsSelected'[d] = {}
      /\ \A e \in Devices \ {d} :
           /\ where'[e] = where[e] /\ seatsSelected'[e] = seatsSelected[e]
           /\ dictionary'[e] = dictionary[e] /\ pending'[e] = pending[e]
           /\ listener'[e] = listener[e]
  BY DEF ButtonPressed, Notify, TypeOK
<1>2. \A e \in Devices \ {d} : Mine(e, Home(e))' = Mine(e, Home(e)) /\ Home(e)' = Home(e)
  BY <1>1 DEF Mine, Home
<1> QED
  BY <1>1, <1>2 DEF Settled

\* A write goes; the phone's others are the same.
LEMMA TailSettles ==
  ASSUME TypeOK, NEW d \in Devices, pending[d] # << >>, pending'[d] = Tail(pending[d]),
         NEW s \in Docs, Mine(d, s) = {}
  PROVE  Mine(d, s)' = {} /\ Head(pending[d]).doc # s
<1>1. pending[d] \in Seq(Writes) /\ DOMAIN pending[d] = 1..Len(pending[d])
      /\ Len(pending[d]) \in Nat \ {0}
  BY DEF TypeOK
<1>2. \A j \in 1..Len(pending[d]) : pending[d][j].doc # s
  BY <1>1 DEF Mine
<1>3. /\ DOMAIN pending'[d] = 1..(Len(pending[d]) - 1)
      /\ \A j \in 1..(Len(pending[d]) - 1) : pending'[d][j] = pending[d][j + 1]
  BY <1>1, HeadTailProperties
<1>4. Head(pending[d]) = pending[d][1]
  BY <1>1
<1> QED
  BY <1>1, <1>2, <1>3, <1>4 DEF Mine

LEMMA RejectSettled ==
  ASSUME TypeOK, Settled, NEW d \in Devices, ServerRejects(d)
  PROVE  Settled'
<1>1. /\ docs' = docs /\ date' = date /\ where' = where
      /\ seatsSelected' = seatsSelected /\ dictionary' = dictionary
      /\ pending[d] # << >> /\ pending'[d] = Tail(pending[d])
      /\ \A e \in Devices \ {d} : /\ pending'[e] = pending[e]
                                  /\ listener'[e] = listener[e]
      /\ listener'[d] # "idle" \/ listener'[d] = listener[d]
  BY DEF ServerRejects, Notify, seatVars, pageVars, TypeOK
<1>2. \A e \in Devices \ {d} : Mine(e, Home(e))' = Mine(e, Home(e)) /\ Home(e)' = Home(e)
  BY <1>1 DEF Mine, Home
<1>3. ASSUME seatsSelected[d] # {}, dictionary[d] = None, listener'[d] = "idle"
      PROVE  docs[Home(d)]' = None /\ Mine(d, Home(d))' = {}
  <2>1. docs[Home(d)] = None /\ Mine(d, Home(d)) = {} /\ where[d] = "seats"
    BY <1>1, <1>3 DEF Settled
  <2>2. Home(d) \in Docs /\ Home(d)' = Home(d)
    BY <1>1, <2>1, HomeIsDoc DEF TypeOK, Home
  <2>3. \A s \in Docs : Mine(d, s) = {} => Mine(d, s)' = {}
    BY <1>1, TailSettles
  <2>4. Mine(d, Home(d))' = {}
    BY <2>1, <2>2, <2>3 DEF Mine
  <2> QED
    BY <1>1, <2>1, <2>2, <2>4
<1> QED
  BY <1>1, <1>2, <1>3 DEF Settled

LEMMA ApplySettled ==
  ASSUME TypeOK, Settled, NEW d \in Devices, ServerApplies(d)
  PROVE  Settled'
<1> DEFINE w == Head(pending[d])
<1>1. /\ docs' = [docs EXCEPT ![w.doc] = w.map] /\ date' = date /\ where' = where
      /\ seatsSelected' = seatsSelected /\ dictionary' = dictionary
      /\ pending[d] # << >> /\ pending'[d] = Tail(pending[d])
      /\ \A e \in Devices \ {d} : pending'[e] = OutdatedWrites(pending[e], w.doc)
      /\ listener'[d] = listener[d]
      /\ \A e \in Devices : \/ listener'[e] # "idle"
                            \/ listener'[e] = listener[e] /\ e \notin Listening(w.doc) \ {d}
  BY DEF ServerApplies, Notify, pageVars, TypeOK
<1>2. \A s \in Docs : s # w.doc => docs'[s] = docs[s]
  BY <1>1 DEF TypeOK
<1>3. ASSUME NEW e \in Devices, seatsSelected[e] # {}, dictionary[e] = None,
             listener'[e] = "idle"
      PROVE  docs[Home(e)]' = None /\ Mine(e, Home(e))' = {}
  <2>1. docs[Home(e)] = None /\ Mine(e, Home(e)) = {} /\ where[e] = "seats"
    BY <1>1, <1>3 DEF Settled
  <2>2. Home(e) \in Docs /\ Home(e)' = Home(e)
    BY <1>1, <2>1, HomeIsDoc DEF TypeOK, Home
  <2>3. CASE e = d
    <3>1. \A s \in Docs : Mine(d, s) = {} => Mine(d, s)' = {} /\ w.doc # s
      BY <1>1, TailSettles
    <3>2. w.doc # Home(e) /\ Mine(e, Home(e))' = {}
      BY <2>1, <2>2, <2>3, <3>1 DEF Mine
    <3> QED
      BY <1>2, <2>1, <2>2, <3>2
  <2>4. CASE e # d
    <3>1. e \notin Listening(w.doc)
      BY <1>1, <1>3, <2>4
    <3>2. w.doc # Home(e)
      BY <2>1, <3>1 DEF Listening
    <3>3. pending'[e] = OutdatedWrites(pending[e], w.doc)
      BY <1>1, <2>4
    <3>4. /\ DOMAIN pending'[e] = DOMAIN pending[e]
          /\ \A i \in DOMAIN pending[e] : pending'[e][i].doc = pending[e][i].doc
      BY <3>3 DEF OutdatedWrites, TypeOK, Writes
    <3>5. Mine(e, Home(e))' = {}
      BY <2>1, <2>2, <3>4 DEF Mine
    <3> QED
      BY <1>2, <2>1, <2>2, <3>2, <3>5
  <2> QED
    BY <2>3, <2>4
<1> QED
  BY <1>1, <1>3 DEF Settled

\* One step per action.
LEMMA SettledStep ==
  ASSUME TypeOK, Settled, [Next]_vars
  PROVE  Settled'
<1>1. ASSUME NEW d \in Devices,
             \/ \E day \in Dates : ViewDidLoad(d, day)
             \/ Leave(d) \/ ButtonPressedWithoutMap(d)
      PROVE  Settled'
  <2>1. Fresh(d) /\ docs' = docs /\ pending' = pending
    BY <1>1 DEF ViewDidLoad, Leave, ButtonPressedWithoutMap, Gone
  <2>2. seatsSelected'[d] = {}
    BY <2>1 DEF Fresh, TypeOK
  <2>3. \A e \in Devices \ {d} :
          /\ where'[e] = where[e] /\ seatsSelected'[e] = seatsSelected[e]
          /\ dictionary'[e] = dictionary[e] /\ listener'[e] = listener[e]
          /\ date'[e] = date[e]
    BY <1>1, <2>1 DEF ViewDidLoad, Leave, ButtonPressedWithoutMap, Gone, Fresh, TypeOK
  <2> QED
    BY <2>1, <2>2, <2>3, SettledKept
<1>2. ASSUME NEW d \in Devices,
             \/ \E slot \in Slots : PickTime(d, slot)
             \/ \E n \in Parties : PickPeople(d, n)
      PROVE  Settled'
  <2>1. /\ AfterPick(d) /\ UNCHANGED <<docs, pending, where, date, dictionary, listener>>
    BY <1>2 DEF PickTime, PickPeople, cloudVars, pageVars
  <2>2. \A e \in Devices : seatsSelected'[e] = {} \/ seatsSelected'[e] = seatsSelected[e]
    BY <2>1 DEF AfterPick, TypeOK
  <2> QED
    BY <2>1, <2>2, SettledKept
<1>3. ASSUME NEW d \in Devices, NEW c \in Cells, DidSelectItem(d, c)
      PROVE  Settled'
  <2>1. /\ where[d] = "seats" /\ dictionary[d] # None
        /\ UNCHANGED <<docs, pending, where, date, dictionary, listener>>
        /\ \A e \in Devices \ {d} : seatsSelected'[e] = seatsSelected[e]
    BY <1>3 DEF DidSelectItem, cloudVars, pageVars, TypeOK
  <2> QED
    BY <2>1, SettledKept
<1>4. ASSUME NEW d \in Devices, Return(d)
      PROVE  Settled'
  <2>1. /\ seatsSelected[d] = {}
        /\ UNCHANGED <<docs, pending, seatsSelected, date, dictionary, listener>>
        /\ \A e \in Devices \ {d} : where'[e] = where[e]
    BY <1>4 DEF Return, Settled, seatVars, cloudVars, TypeOK
  <2> QED
    BY <2>1, SettledKept
<1>5. ASSUME NEW d \in Devices, NEW s \in Docs, GetReply(d, s)
      PROVE  Settled'
  <2>1. /\ UNCHANGED <<docs, pending, seatsSelected, where, date, listener>>
        /\ \A e \in Devices : dictionary'[e] # None \/ dictionary'[e] = dictionary[e]
    BY <1>5 DEF GetReply, Show, pageVars, TypeOK
  <2> QED
    BY <2>1, SettledKept
<1>6. ASSUME NEW d \in Devices,
             (\E picker \in Labels[d] : TapLabel(d, picker)) \/ ListenerFails(d)
      PROVE  Settled'
  <2>1. UNCHANGED <<docs, pending, seatsSelected, where, date, dictionary>>
    BY <1>6 DEF TapLabel, ListenerFails, seatVars, cloudVars, pageVars
  <2>2. \A e \in Devices : listener'[e] # "idle" \/ listener'[e] = listener[e]
    BY <1>6 DEF TapLabel, ListenerFails, cloudVars, TypeOK
  <2> QED
    BY <2>1, <2>2, SettledKept
<1>7. CASE UNCHANGED vars
  BY <1>7, SettledKept DEF vars, seatVars, cloudVars, pageVars
<1>8. CASE Next
  BY <1>1, <1>2, <1>3, <1>4, <1>5, <1>6, <1>8, SnapshotSettled, PressSettled,
     RejectSettled, ApplySettled DEF Next, User, Firestore
<1> QED
  BY <1>7, <1>8

\* A map under a selection vanishes only with the document of the showing the
\* screen was opened with, and comes back with it (the listener's block, which
\* stores a nil data, and buttonPressed:).
THEOREM LostMapHolds == Spec => []LostMapMeansMissingShowing
<1>1. Init => Settled
  BY DEF Init, Settled
<1>2. Settled => LostMapMeansMissingShowing
  BY DEF Settled, LostMapMeansMissingShowing
<1>3. TypeOK /\ Settled /\ [Next]_vars => Settled'
  BY SettledStep
<1> QED
  BY <1>1, <1>2, <1>3, TypeCorrect, PTL DEF Spec

-----------------------------------------------------------------------------
(* The map of a screen that stays with its first showing. *)

\* The writes of a queue to s, and what a read of s shows over them.
WritesTo(q, s) == {i \in DOMAIN q : q[i].doc = s}

Seen(q, s, map) ==
  IF WritesTo(q, s) = {} THEN map
  ELSE q[CHOOSE i \in WritesTo(q, s) : \A j \in WritesTo(q, s) : j <= i].map

LEMMA HomeIsSeen ==
  ASSUME NEW d \in Devices
  PROVE  /\ View(d, Home(d)) = Seen(pending[d], Home(d), docs[Home(d)])
         /\ View(d, Home(d))' = Seen(pending'[d], Home(d)', docs'[Home(d)'])
BY DEF View, Mine, Latest, Seen, WritesTo

\* The last of the writes is the one that is seen.
LEMMA SeenIsLast ==
  ASSUME NEW q \in Seq(Writes), NEW s, NEW map,
         NEW i \in WritesTo(q, s), \A j \in WritesTo(q, s) : j <= i
  PROVE  Seen(q, s, map) = q[i].map
<1> DEFINE k == CHOOSE x \in WritesTo(q, s) : \A j \in WritesTo(q, s) : j <= x
<1>1. k \in WritesTo(q, s) /\ \A j \in WritesTo(q, s) : j <= k
  OBVIOUS
<1>2. k <= i /\ i <= k /\ i \in Nat /\ k \in Nat
  BY <1>1 DEF WritesTo
<1>3. k = i
  BY <1>2
<1> QED
  BY <1>3 DEF Seen

LEMMA LastWrite ==
  ASSUME NEW q \in Seq(Writes), NEW s, WritesTo(q, s) # {}
  PROVE  \E i \in WritesTo(q, s) : \A j \in WritesTo(q, s) : j <= i
<1>1. Len(q) \in Nat /\ WritesTo(q, s) \in SUBSET (1..Len(q))
  BY DEF WritesTo
<1> QED
  BY <1>1, LastOfPositions

\* Answering the oldest write changes nothing that is seen: applied, it is the
\* document now; written elsewhere, it was not seen.
LEMMA SeenAfterOldest ==
  ASSUME NEW q \in Seq(Writes), q # << >>, NEW s, NEW map
  PROVE  Seen(Tail(q), s, IF Head(q).doc = s THEN Head(q).map ELSE map)
           = Seen(q, s, map)
<1> DEFINE n == Len(q)
           t == Tail(q)
           new == IF Head(q).doc = s THEN Head(q).map ELSE map
<1>1. /\ n \in Nat \ {0} /\ DOMAIN q = 1..n /\ t \in Seq(Writes)
      /\ DOMAIN t = 1..(n - 1) /\ Head(q) = q[1]
      /\ \A i \in 1..(n - 1) : t[i] = q[i + 1]
  BY HeadTailProperties
<1> HIDE DEF n, t
<1>2. \A i \in WritesTo(t, s) : i + 1 \in WritesTo(q, s) /\ i \in 1..(n - 1)
  BY <1>1 DEF WritesTo
<1>3. \A j \in WritesTo(q, s) :
        /\ j \in 1..n
        /\ j = 1 \/ j - 1 \in WritesTo(t, s)
  BY <1>1 DEF WritesTo
<1>4. CASE WritesTo(t, s) # {}
  <2>1. PICK i \in WritesTo(t, s) : \A j \in WritesTo(t, s) : j <= i
    BY <1>1, <1>4, LastWrite
  <2>2. i + 1 \in WritesTo(q, s) /\ i \in 1..(n - 1)
    BY <1>2
  <2>3. ASSUME NEW j \in WritesTo(q, s)
        PROVE  j <= i + 1
    <3>1. CASE j = 1
      BY <2>2, <3>1
    <3>2. CASE j - 1 \in WritesTo(t, s)
      <4>1. j - 1 <= i /\ j \in Int /\ i \in Int
        BY <1>1, <1>3, <2>1, <2>2, <3>2
      <4> QED
        BY <4>1
    <3> QED
      BY <1>3, <3>1, <3>2
  <2>4. Seen(t, s, new) = t[i].map
    BY <1>1, <2>1, SeenIsLast
  <2>5. Seen(q, s, map) = q[i + 1].map
    BY <2>2, <2>3, SeenIsLast
  <2> QED
    BY <1>1, <2>2, <2>4, <2>5 DEF t
<1>5. CASE WritesTo(t, s) = {}
  <2>1. Seen(t, s, new) = new
    BY <1>5 DEF Seen
  <2>2. CASE Head(q).doc = s
    <3>1. 1 \in WritesTo(q, s) /\ \A j \in WritesTo(q, s) : j <= 1
      BY <1>1, <1>3, <1>5, <2>2 DEF WritesTo
    <3>2. Seen(q, s, map) = q[1].map
      BY <3>1, SeenIsLast
    <3> QED
      BY <1>1, <2>1, <2>2, <3>2 DEF t
  <2>3. CASE Head(q).doc # s
    <3>1. WritesTo(q, s) = {}
      BY <1>1, <1>3, <1>5, <2>3 DEF WritesTo
    <3> QED
      BY <2>1, <2>3, <3>1 DEF Seen, t
  <2> QED
    BY <2>2, <2>3
<1> QED
  BY <1>4, <1>5

\* Nor does what is known of the writes' maps.
LEMMA SeenOutdated ==
  ASSUME NEW q \in Seq(Writes), NEW t \in Docs, NEW s, NEW map
  PROVE  Seen(OutdatedWrites(q, t), s, map) = Seen(q, s, map)
<1> DEFINE o == OutdatedWrites(q, t)
<1>1. /\ o \in Seq(Writes) /\ DOMAIN o = DOMAIN q /\ DOMAIN q = 1..Len(q)
      /\ \A i \in DOMAIN q : o[i].doc = q[i].doc /\ o[i].map = q[i].map
  BY OutdatedWritesTypes
<1> HIDE DEF o
<1>2. WritesTo(o, s) = WritesTo(q, s)
  BY <1>1 DEF WritesTo
<1>3. CASE WritesTo(q, s) = {}
  BY <1>2, <1>3 DEF Seen, o
<1>4. CASE WritesTo(q, s) # {}
  <2>1. PICK i \in WritesTo(q, s) : \A j \in WritesTo(q, s) : j <= i
    BY <1>4, LastWrite
  <2>2. Seen(q, s, map) = q[i].map
    BY <2>1, SeenIsLast
  <2>3. Seen(o, s, map) = o[i].map
    BY <1>1, <1>2, <2>1, SeenIsLast
  <2>4. o[i].map = q[i].map
    BY <1>1 DEF WritesTo
  <2> QED
    BY <2>2, <2>3, <2>4 DEF o
<1> QED
  BY <1>3, <1>4

\* What keeps the map of d current: no read of another showing is under way that
\* could replace it.
AtHome(d) ==
  /\ \A s \in Docs : gets[d][s] > 0 => where[d] # "closed" /\ s = Home(d)
  /\ ShownWhileIdle(d)

\* The screen stays, and its listener is told of what it does not show.
LEMMA AtHomeKept ==
  ASSUME NEW d \in Devices, AtHome(d), date'[d] = date[d],
         where[d] # "closed" <=> where'[d] # "closed",
         \A s \in Docs : gets'[d][s] > 0 => gets[d][s] > 0,
         \/ listener'[d] # "idle"
         \/ /\ listener'[d] = listener[d] /\ dictionary'[d] = dictionary[d]
            /\ where[d] # "closed" => View(d, Home(d))' = View(d, Home(d))
  PROVE  AtHome(d)'
<1>1. Home(d)' = Home(d)
  BY DEF Home
<1>2. \A s \in Docs : gets'[d][s] > 0 => where'[d] # "closed" /\ s = Home(d)'
  BY <1>1 DEF AtHome
<1>3. ASSUME where'[d] # "closed", listener'[d] = "idle"
      PROVE  dictionary'[d] = View(d, Home(d))'
  BY <1>3 DEF AtHome, ShownWhileIdle
<1> QED
  BY <1>2, <1>3 DEF AtHome, ShownWhileIdle

\* What a screen shows depends on its showing's document and its own writes.
LEMMA ViewKept ==
  ASSUME TypeOK, NEW d \in Devices, where[d] # "closed", date'[d] = date[d],
         docs' = docs, pending'[d] = pending[d]
  PROVE  View(d, Home(d))' = View(d, Home(d))
<1>1. Home(d) \in Docs /\ Home(d)' = Home(d)
  BY HomeIsDoc DEF TypeOK, Home
<1> QED
  BY <1>1, HomeIsSeen

LEMMA ApplyAtHome ==
  ASSUME TypeOK, NEW d \in Devices, NEW e \in Devices, AtHome(d), ServerApplies(e)
  PROVE  AtHome(d)'
<1> DEFINE w == Head(pending[e])
<1>1. /\ docs' = [docs EXCEPT ![w.doc] = w.map]
      /\ pending[e] # << >> /\ date' = date /\ where' = where /\ gets' = gets
      /\ dictionary' = dictionary
      /\ pending'[d] = IF d = e THEN Tail(pending[d])
                                ELSE OutdatedWrites(pending[d], w.doc)
      /\ \/ listener'[d] # "idle"
         \/ listener'[d] = listener[d] /\ d \notin Listening(w.doc) \ {e}
  BY DEF ServerApplies, Notify, pageVars, TypeOK
<1>2. w.doc \in Docs
  <2>1. w \in Writes
    BY <1>1, HeadTailProperties DEF TypeOK
  <2> QED
    BY <2>1 DEF Writes
<1>3. \A s \in Docs : docs'[s] = IF s = w.doc THEN w.map ELSE docs[s]
  BY <1>1 DEF TypeOK
<1>4. ASSUME where[d] # "closed", listener'[d] = "idle"
      PROVE  View(d, Home(d))' = View(d, Home(d))
  <2>1. Home(d) \in Docs /\ Home(d)' = Home(d)
    BY <1>1, <1>4, HomeIsDoc DEF TypeOK, Home
  <2>2. CASE d = e
    <3>1. pending[d] \in Seq(Writes)
      BY DEF TypeOK
    <3>2. docs'[Home(d)] = IF w.doc = Home(d) THEN w.map ELSE docs[Home(d)]
      BY <1>3, <2>1
    <3>3. Seen(Tail(pending[d]), Home(d), docs'[Home(d)])
            = Seen(pending[d], Home(d), docs[Home(d)])
      BY <1>1, <2>2, <3>1, <3>2, SeenAfterOldest
    <3> QED
      BY <1>1, <2>1, <2>2, <3>3, HomeIsSeen
  <2>3. CASE d # e
    <3>1. Home(d) # w.doc
      BY <1>1, <1>4, <2>3 DEF Listening
    <3>2. pending[d] \in Seq(Writes)
      BY DEF TypeOK
    <3>3. docs'[Home(d)] = docs[Home(d)]
      BY <1>3, <2>1, <3>1
    <3>4. Seen(OutdatedWrites(pending[d], w.doc), Home(d), docs[Home(d)])
            = Seen(pending[d], Home(d), docs[Home(d)])
      BY <1>2, <3>2, SeenOutdated
    <3> QED
      BY <1>1, <2>1, <2>3, <3>3, <3>4, HomeIsSeen
  <2> QED
    BY <2>2, <2>3
<1> QED
  BY <1>1, <1>4, AtHomeKept

LEMMA RejectAtHome ==
  ASSUME TypeOK, NEW d \in Devices, NEW e \in Devices, AtHome(d), ServerRejects(e)
  PROVE  AtHome(d)'
<1> DEFINE w == Head(pending[e])
<1>1. /\ docs' = docs /\ date' = date /\ where' = where /\ gets' = gets
      /\ pending[e] # << >> /\ dictionary' = dictionary
      /\ pending'[d] = IF d = e THEN Tail(pending[d]) ELSE pending[d]
      /\ \/ listener'[d] # "idle"
         \/ listener'[d] = listener[d] /\ d \notin {e} \cap Listening(w.doc)
  BY DEF ServerRejects, Notify, pageVars, seatVars, TypeOK
<1>2. ASSUME where[d] # "closed", listener'[d] = "idle"
      PROVE  View(d, Home(d))' = View(d, Home(d))
  <2>1. Home(d) \in Docs /\ Home(d)' = Home(d)
    BY <1>1, <1>2, HomeIsDoc DEF TypeOK, Home
  <2>2. CASE d = e
    <3>1. pending[d] \in Seq(Writes) /\ Home(d) # w.doc
      BY <1>1, <1>2, <2>2 DEF TypeOK, Listening
    <3>2. docs[Home(d)] = IF w.doc = Home(d) THEN w.map ELSE docs[Home(d)]
      BY <2>2, <3>1
    <3>3. Seen(Tail(pending[d]), Home(d), docs[Home(d)])
            = Seen(pending[d], Home(d), docs[Home(d)])
      BY <1>1, <2>2, <3>1, <3>2, SeenAfterOldest
    <3> QED
      BY <1>1, <2>1, <2>2, <3>3, HomeIsSeen
  <2>3. CASE d # e
    BY <1>1, <1>2, <2>3, ViewKept
  <2> QED
    BY <2>2, <2>3
<1> QED
  BY <1>1, <1>2, AtHomeKept

\* A booking marks its seats on the screen before the server knows them, and the
\* phone's own listener has a snapshot to bring.
LEMMA PressAtHome ==
  ASSUME TypeOK, NEW d \in Devices, NEW e \in Devices, AtHome(d),
         StaysHome(d), ButtonPressed(e)
  PROVE  AtHome(d)'
<1>1. /\ docs' = docs /\ date' = date /\ gets' = gets /\ where[e] = "seats"
      /\ where' = [where EXCEPT ![e] = "payment"]
      /\ d # e => /\ pending'[d] = pending[d] /\ dictionary'[d] = dictionary[d]
                  /\ listener'[d] = listener[d]
      /\ listener'[e] # "idle" \/ e \notin Listening(timestamp[e])
  BY DEF ButtonPressed, Notify, TypeOK
<1>2. where[d] # "closed" <=> where'[d] # "closed"
  BY <1>1 DEF TypeOK
<1>3. CASE d = e
  <2>1. d \in Listening(timestamp[d])
    BY <1>1, <1>3 DEF StaysHome, Listening
  <2> QED
    BY <1>1, <1>2, <1>3, <2>1, AtHomeKept
<1>4. CASE d # e
  BY <1>1, <1>2, <1>4, ViewKept, AtHomeKept
<1> QED
  BY <1>3, <1>4

\* One step per action.
LEMMA StepAtHome ==
  ASSUME NEW d \in Devices
  PROVE  TypeOK /\ AtHome(d) /\ StaysHome(d) /\ StaysHome(d)' /\ [Next]_vars
           => AtHome(d)'
<1> SUFFICES ASSUME TypeOK, AtHome(d), StaysHome(d), StaysHome(d)', [Next]_vars
             PROVE  AtHome(d)'
  OBVIOUS
<1>1. ASSUME NEW e \in Devices, NEW day \in Dates, ViewDidLoad(e, day)
      PROVE  AtHome(d)'
  <2>1. docs' = docs /\ pending' = pending
    BY <1>1 DEF ViewDidLoad
  <2>2. CASE d = e
    <3>1. Home(d)' = DocOf(day, "17:00") /\ listener'[d] = "due" /\ where'[d] = "seats"
      BY <1>1, <2>2 DEF ViewDidLoad, Home, TypeOK
    <3>2. \A s \in Docs : gets[d][s] = 0
      BY <1>1, <2>2 DEF ViewDidLoad, AtHome, TypeOK
    <3>3. \A s \in Docs : gets'[d][s] > 0 => s = DocOf(day, "17:00")
      BY <1>1, <2>2, <3>2 DEF ViewDidLoad, TypeOK
    <3> QED
      BY <3>1, <3>3 DEF AtHome, ShownWhileIdle
  <2>3. CASE d # e
    <3>1. /\ date'[d] = date[d] /\ where'[d] = where[d] /\ gets'[d] = gets[d]
          /\ listener'[d] = listener[d] /\ dictionary'[d] = dictionary[d]
      BY <1>1, <2>3 DEF ViewDidLoad, Fresh, TypeOK
    <3> QED
      BY <2>1, <3>1, ViewKept, AtHomeKept
  <2> QED
    BY <2>2, <2>3
<1>2. ASSUME NEW e \in Devices, Gone(e)
      PROVE  AtHome(d)'
  <2>1. docs' = docs /\ pending' = pending
    BY <1>2 DEF Gone
  <2>2. CASE d = e
    <3>1. where'[d] = "closed" /\ \A s \in Docs : gets'[d][s] = 0
      BY <1>2, <2>2 DEF Gone, TypeOK
    <3> QED
      BY <3>1 DEF AtHome, ShownWhileIdle
  <2>3. CASE d # e
    <3>1. /\ date'[d] = date[d] /\ where'[d] = where[d] /\ gets'[d] = gets[d]
          /\ listener'[d] = listener[d] /\ dictionary'[d] = dictionary[d]
      BY <1>2, <2>3 DEF Gone, Fresh, TypeOK
    <3> QED
      BY <2>1, <3>1, ViewKept, AtHomeKept
  <2> QED
    BY <2>2, <2>3
<1>3. ASSUME NEW e \in Devices,
             \/ Return(e)
             \/ \E c \in Cells : DidSelectItem(e, c)
             \/ \E picker \in Labels[e] : TapLabel(e, picker)
             \/ \E n \in Parties : PickPeople(e, n)
      PROVE  AtHome(d)'
  <2>1. /\ UNCHANGED <<docs, pending, gets, listener, date, dictionary>>
        /\ where[d] # "closed" <=> where'[d] # "closed"
    BY <1>3 DEF Return, DidSelectItem, TapLabel, PickPeople, seatVars, cloudVars,
                pageVars, TypeOK
  <2> QED
    BY <2>1, ViewKept, AtHomeKept
<1>4. ASSUME NEW e \in Devices, NEW slot \in Slots, PickTime(e, slot)
      PROVE  AtHome(d)'
  <2>1. /\ UNCHANGED <<docs, pending, listener, where, date, dictionary>>
        /\ where[e] = "seats"
    BY <1>4 DEF PickTime
  <2>2. CASE d = e
    <3>1. timestamp'[d] = DocOf(date[d], slot) /\ Home(d)' = Home(d)
      BY <1>4, <2>2 DEF PickTime, Home, TypeOK
    <3>2. DocOf(date[d], slot) = Home(d)
      BY <2>1, <2>2, <3>1 DEF StaysHome
    <3>3. \A s \in Docs : gets'[d][s] > 0 => gets[d][s] > 0 \/ s = Home(d)
      BY <1>4, <2>2, <3>2 DEF PickTime, TypeOK
    <3>4. View(d, Home(d))' = View(d, Home(d))
      BY <2>1, <2>2, ViewKept
    <3> QED
      BY <2>1, <2>2, <3>1, <3>3, <3>4 DEF AtHome, ShownWhileIdle
  <2>3. CASE d # e
    <3>1. gets'[d] = gets[d]
      BY <1>4, <2>3 DEF PickTime, TypeOK
    <3> QED
      BY <2>1, <3>1, ViewKept, AtHomeKept
  <2> QED
    BY <2>2, <2>3
<1>5. ASSUME NEW e \in Devices, NEW s \in Docs, GetReply(e, s)
      PROVE  AtHome(d)'
  <2>1. /\ UNCHANGED <<docs, pending, listener, where, date>>
        /\ \A t \in Docs : gets'[d][t] > 0 => gets[d][t] > 0
    BY <1>5 DEF GetReply, pageVars, TypeOK
  <2>2. CASE dictionary'[d] = dictionary[d]
    BY <2>1, <2>2, ViewKept, AtHomeKept
  <2>3. CASE d = e /\ dictionary'[d] = View(d, s)
    <3>1. s = Home(d) /\ where[d] # "closed"
      BY <1>5, <2>3 DEF GetReply, AtHome
    <3>2. View(d, Home(d))' = View(d, Home(d)) /\ Home(d)' = Home(d)
      BY <2>1, <3>1, ViewKept DEF Home
    <3> QED
      BY <2>1, <2>3, <3>1, <3>2 DEF AtHome, ShownWhileIdle
  <2> QED
    BY <1>5, <2>2, <2>3 DEF GetReply, Show, TypeOK
<1>6. ASSUME NEW e \in Devices, SnapshotArrives(e)
      PROVE  AtHome(d)'
  <2>1. UNCHANGED <<docs, pending, gets, where, date>> /\ where[e] # "closed"
    BY <1>6 DEF SnapshotArrives, pageVars
  <2>2. CASE d = e
    <3>1. dictionary'[d] = View(d, Home(d))
      BY <1>6, <2>2 DEF SnapshotArrives, Show, TypeOK
    <3>2. View(d, Home(d))' = View(d, Home(d)) /\ Home(d)' = Home(d)
      BY <2>1, <2>2, ViewKept DEF Home
    <3> QED
      BY <2>1, <3>1, <3>2 DEF AtHome, ShownWhileIdle
  <2>3. CASE d # e
    <3>1. dictionary'[d] = dictionary[d] /\ listener'[d] = listener[d]
      BY <1>6, <2>3 DEF SnapshotArrives, Show, TypeOK
    <3> QED
      BY <2>1, <3>1, ViewKept, AtHomeKept
  <2> QED
    BY <2>2, <2>3
<1>7. ASSUME NEW e \in Devices, ListenerFails(e)
      PROVE  AtHome(d)'
  <2>1. /\ UNCHANGED <<docs, pending, gets, where, date, dictionary>>
        /\ listener'[d] # "idle" \/ listener'[d] = listener[d]
    BY <1>7 DEF ListenerFails, pageVars, seatVars, TypeOK
  <2> QED
    BY <2>1, ViewKept, AtHomeKept
<1>8. CASE UNCHANGED vars
  BY <1>8, ViewKept, AtHomeKept DEF vars, pageVars, seatVars, cloudVars
<1> QED
  BY <1>1, <1>2, <1>3, <1>4, <1>5, <1>6, <1>7, <1>8, ApplyAtHome, RejectAtHome,
     PressAtHome DEF Next, User, Firestore, Leave, ButtonPressedWithoutMap

\* A screen that stays with its first showing shows it as it is whenever its
\* listener has nothing to bring (viewDidLoad, the listener's block and
\* getDataFromDB).
THEOREM HomeHolds == Spec => HomeIsCurrent
<1>1. ASSUME NEW d \in Devices
      PROVE  Spec => ([](StaysHome(d)) => [](ShownWhileIdle(d)))
  <2>1. Init => AtHome(d)
    BY DEF Init, AtHome, ShownWhileIdle
  <2>2. AtHome(d) => ShownWhileIdle(d)
    BY DEF AtHome
  <2>3. TypeOK /\ AtHome(d) /\ StaysHome(d) /\ StaysHome(d)' /\ [Next]_vars
          => AtHome(d)'
    BY StepAtHome
  <2> QED
    BY <2>1, <2>2, <2>3, TypeCorrect, PTL DEF Spec
<1> QED
  BY <1>1 DEF HomeIsCurrent
=============================================================================
