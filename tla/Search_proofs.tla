---------------------------- MODULE Search_proofs ----------------------------
(***************************************************************************)
(* What the search screen keeps to for any texts and any number of         *)
(* requests under way.                                                     *)
(***************************************************************************)
EXTENDS Search, TLAPS

\* While nothing has disturbed it, a long text has been asked for alone and an
\* empty one leaves nothing under way; either way the rows are right as soon as
\* nothing is under way.
AskedAlone ==
  undisturbed =>
    /\ text \in Long => /\ QuietFor(Typed \ {text})
                        /\ asks[text] = 0 => movieList = text
    /\ text = "" => QuietFor(Typed) /\ movieList = None

IInv == TypeOK /\ AskedAlone

\* Before anything is typed nothing is under way.
LEMMA InitIInv == Init => IInv
<1> SUFFICES ASSUME Init PROVE IInv OBVIOUS
<1>1. TypeOK BY DEF Init, TypeOK, Texts
<1>2. AskedAlone BY SearchAssumption DEF Init, AskedAlone, QuietFor, Typed, SearchAssumption
<1> QED BY <1>1, <1>2 DEF IInv

\* Asking leaves a count per text (getListOfMoviesWithSuccess:withQuery:).
LEMMA AskCounts ==
  ASSUME TypeOK, NEW t \in Typed, Ask(t)
  PROVE  /\ asks' \in [Typed -> Nat] /\ undisturbed' \in BOOLEAN
         /\ asks'[t] # 0 /\ \A u \in Typed \ {t} : asks'[u] = asks[u]
         /\ undisturbed' => QuietFor(Typed \ {t})'
BY DEF TypeOK, Ask, QuietFor

\* An answer takes one request from the count of its text.
LEMMA AnswerCounts ==
  ASSUME TypeOK, NEW t \in Typed, Answered(t)
  PROVE  /\ asks' \in [Typed -> Nat] /\ asks[t] # 0
         /\ \A u \in Typed \ {t} : asks'[u] = asks[u]
BY DEF TypeOK, Answered

\* Every step of the screen keeps the invariant; one step per action.
LEMMA StepIInv == IInv /\ [Next]_vars => IInv'
<1> SUFFICES ASSUME IInv, [Next]_vars PROVE IInv' OBVIOUS
<1> USE SearchAssumption DEF IInv, SearchAssumption
<1>1. CASE Open \/ CancelButtonClicked
  <2>1. Fresh /\ where' \in {"closed", "search", "details"}
    BY <1>1 DEF Open, CancelButtonClicked
  <2>2. TypeOK' BY <2>1 DEF Fresh, TypeOK, Texts
  <2>3. text' = "" /\ movieList' = None /\ QuietFor(Typed)'
    BY <2>1 DEF Fresh, QuietFor
  <2> QED BY <2>2, <2>3 DEF AskedAlone, Typed
<1>2. CASE DidSelectRow \/ BackToSearch
  <2>1. /\ where' \in {"closed", "search", "details"}
        /\ UNCHANGED <<text, movieList, asks, undisturbed>>
    BY <1>2 DEF DidSelectRow, BackToSearch
  <2>2. TypeOK' BY <2>1 DEF TypeOK
  <2>3. AskedAlone' BY <2>1 DEF AskedAlone, QuietFor
  <2> QED BY <2>2, <2>3
<1>3. CASE TypeLong
  <2>1. PICK t \in Long \ {text} :
          text' = t /\ Ask(t) /\ UNCHANGED <<where, movieList>>
    BY <1>3 DEF TypeLong
  <2>2. t \in Typed /\ t # "" BY DEF Typed
  <2>3. /\ asks' \in [Typed -> Nat] /\ undisturbed' \in BOOLEAN
        /\ asks'[t] # 0
        /\ undisturbed' => QuietFor(Typed \ {t})'
    BY <2>1, <2>2, AskCounts
  <2>4. TypeOK' BY <2>1, <2>2, <2>3 DEF TypeOK, Texts
  <2>5. undisturbed' => QuietFor(Typed \ {text})' BY <2>1, <2>3 DEF QuietFor
  <2> QED BY <2>1, <2>2, <2>3, <2>4, <2>5 DEF AskedAlone
<1>4. CASE TypeShort
  <2>1. PICK t \in Short : text' = t BY <1>4 DEF TypeShort
  <2>2. t \in Typed /\ t \notin Long /\ t # "" BY DEF Typed
  <2>3. TypeOK' BY <1>4, <2>1, <2>2 DEF TypeShort, TypeOK, Texts
  <2> QED BY <2>1, <2>2, <2>3 DEF AskedAlone
<1>5. CASE Clear
  <2>1. /\ text' = "" /\ movieList' = None /\ undisturbed' = QuietFor(Typed)
        /\ UNCHANGED <<where, asks>>
    BY <1>5 DEF Clear
  <2>2. TypeOK' BY <2>1 DEF TypeOK, Texts, QuietFor
  <2>3. undisturbed' => QuietFor(Typed)' BY <2>1 DEF QuietFor
  <2> QED BY <2>1, <2>2, <2>3 DEF AskedAlone, Typed
<1>6. CASE SearchButtonClicked
  <2>1. text # "" /\ Ask(text) /\ UNCHANGED <<where, text, movieList>>
    BY <1>6 DEF SearchButtonClicked
  <2>2. text \in Typed BY <2>1 DEF TypeOK, Texts
  <2>3. /\ asks' \in [Typed -> Nat] /\ undisturbed' \in BOOLEAN
        /\ asks'[text] # 0
        /\ undisturbed' => QuietFor(Typed \ {text})'
    BY <2>1, <2>2, AskCounts, Zenon
  <2>4. TypeOK' BY <2>1, <2>3 DEF TypeOK
  <2> QED BY <2>1, <2>3, <2>4 DEF AskedAlone, QuietFor
<1>7. ASSUME NEW t \in Typed, Reply(t) PROVE IInv'
  <2>1. Answered(t) /\ movieList' = t /\ UNCHANGED <<where, text, undisturbed>>
    BY <1>7 DEF Reply
  <2>2. /\ asks' \in [Typed -> Nat] /\ asks[t] # 0
        /\ \A u \in Typed \ {t} : asks'[u] = asks[u]
    BY <2>1, AnswerCounts
  <2>3. TypeOK' BY <2>1, <2>2 DEF TypeOK
  <2>4. undisturbed /\ text \in Long => t = text
    BY <2>2 DEF AskedAlone, QuietFor
  <2>5. ~(undisturbed /\ text = "") BY <2>2 DEF AskedAlone, QuietFor
  <2> QED BY <2>1, <2>2, <2>3, <2>4, <2>5 DEF AskedAlone, QuietFor
<1>8. ASSUME NEW t \in Typed, ReplyFails(t) PROVE IInv'
  <2>1. /\ Answered(t) /\ undisturbed' = FALSE
        /\ UNCHANGED <<where, text, movieList>>
    BY <1>8 DEF ReplyFails
  <2>2. asks' \in [Typed -> Nat] BY <2>1, AnswerCounts
  <2> QED BY <2>1, <2>2 DEF TypeOK, AskedAlone
<1>9. CASE UNCHANGED vars
  BY <1>9 DEF vars, TypeOK, AskedAlone, QuietFor
<1> QED BY <1>1, <1>2, <1>3, <1>4, <1>5, <1>6, <1>7, <1>8, <1>9 DEF Next

\* The invariant holds at all times (the handlers of the search bar).
LEMMA Inductive == Spec => []IInv
BY InitIInv, StepIInv, PTL DEF Spec

\* Text, rows and requests keep their types.
THEOREM TypeCorrect == Spec => []TypeOK
BY Inductive, PTL DEF IInv

\* The rows end up as those of the text, whatever requests there were before,
\* as long as its own ran alone.
THEOREM RowsHold == Spec => []RowsOfText
<1>1. IInv => RowsOfText
  BY DEF IInv, TypeOK, AskedAlone, RowsOfText, QuietFor, Typed
<1> QED BY <1>1, Inductive, PTL

-----------------------------------------------------------------------------
(* The search implements RequestedList. *)

\* Undisturbed, the requests under way are for one text, also while a short text
\* stands in the bar.
OneText ==
  undisturbed =>
    \A t, u \in Typed : asks[t] # 0 /\ asks[u] # 0 => t = u

\* The text that is awaited, before and after a step.
LEMMA AwaitedText ==
  ASSUME TypeOK, TypeOK', NEW t \in Typed
  PROVE  /\ QuietFor(Typed) => Awaited = None
         /\ asks[t] # 0 /\ QuietFor(Typed \ {t}) => Awaited = t
         /\ QuietFor(Typed)' => Awaited' = None
         /\ asks'[t] # 0 /\ QuietFor(Typed \ {t})' => Awaited' = t
<1>1. /\ asks[t] \in Nat /\ asks'[t] \in Nat
      /\ \A u \in Typed : asks[u] \in Nat /\ asks'[u] \in Nat
  BY DEF TypeOK
<1>2. ASSUME asks[t] # 0, QuietFor(Typed \ {t}) PROVE Awaited = t
  <2>1. \A u \in Typed : asks[u] > 0 <=> u = t
    BY <1>1, <1>2 DEF QuietFor
  <2> QED
    BY <1>2, <2>1 DEF Awaited, QuietFor
<1>3. ASSUME asks'[t] # 0, QuietFor(Typed \ {t})' PROVE Awaited' = t
  <2>1. \A u \in Typed : asks'[u] > 0 <=> u = t
    BY <1>1, <1>3 DEF QuietFor
  <2> QED
    BY <1>3, <2>1 DEF Awaited, QuietFor
<1>4. /\ QuietFor(Typed) => Awaited = None
      /\ QuietFor(Typed)' => Awaited' = None
  BY DEF Awaited
<1> QED
  BY <1>2, <1>3, <1>4

\* Only asking adds a request, and it sees those for other texts.
LEMMA StepOneText == TypeOK /\ OneText /\ [Next]_vars => OneText'
<1> SUFFICES ASSUME TypeOK, OneText, [Next]_vars, undisturbed'
             PROVE  \A t, u \in Typed : asks'[t] # 0 /\ asks'[u] # 0 => t = u
  BY DEF OneText
<1>1. ASSUME NEW t \in Typed, Ask(t)
      PROVE  \A u \in Typed : asks'[u] # 0 => u = t
  BY <1>1, AskCounts DEF QuietFor
<1>2. CASE TypeLong
  BY <1>1, <1>2 DEF TypeLong, Typed
<1>3. CASE SearchButtonClicked
  <2>1. text \in Typed /\ Ask(text)
    BY <1>3 DEF SearchButtonClicked, TypeOK, Texts
  <2> QED
    BY <1>1, <2>1
<1>4. CASE Open \/ CancelButtonClicked
  BY <1>4 DEF Open, CancelButtonClicked, Fresh
<1>5. CASE Clear
  BY <1>5 DEF Clear, QuietFor
<1>6. ASSUME NEW t \in Typed, Reply(t) PROVE \A u \in Typed : asks'[u] # 0 => asks[u] # 0
  BY <1>6, AnswerCounts DEF Reply
<1>7. ASSUME NEW t \in Typed, Reply(t) PROVE undisturbed
  BY <1>7 DEF Reply
<1>8. ASSUME NEW t \in Typed, ReplyFails(t) PROVE FALSE
  BY <1>8 DEF ReplyFails
<1>9. CASE DidSelectRow \/ BackToSearch \/ TypeShort \/ UNCHANGED vars
  BY <1>9 DEF DidSelectRow, BackToSearch, TypeShort, vars, OneText
<1> QED
  BY <1>2, <1>3, <1>4, <1>5, <1>6, <1>7, <1>8, <1>9 DEF Next, OneText

\* Every step of the search is a step of RequestedList or none.
LEMMA StepList ==
  TypeOK /\ TypeOK' /\ OneText /\ [Next]_vars => [Screen!Next]_(Screen!vars)
<1> SUFFICES ASSUME TypeOK, TypeOK', OneText, [Next]_vars
             PROVE  [Screen!Next]_(Screen!vars)
  OBVIOUS
<1>b. undisturbed \in BOOLEAN /\ undisturbed' \in BOOLEAN
  BY DEF TypeOK
<1>d. CASE ~undisturbed'
  BY <1>d DEF Screen!Next
<1>s. ASSUME UNCHANGED <<movieList, asks, undisturbed>>
      PROVE  UNCHANGED Screen!vars
  BY <1>s DEF Screen!vars, Awaited, QuietFor
<1>n. ASSUME undisturbed', movieList' = None, QuietFor(Typed)'
      PROVE  Screen!Next
  <2>1. Awaited' = None
    BY <1>n DEF Awaited
  <2> QED
    BY <1>n, <2>1 DEF Screen!Next, Screen!StartAnew
<1>a. ASSUME NEW t \in Typed, Ask(t), UNCHANGED movieList, undisturbed'
      PROVE  Screen!Next
  <2>1. /\ asks'[t] # 0 /\ QuietFor(Typed \ {t})'
        /\ QuietFor(Typed \ {t})
    BY <1>a, AskCounts DEF QuietFor
  <2>2. Awaited' = t
    BY <2>1, AwaitedText
  <2>3. Awaited \in {None, t}
    BY <2>1, AwaitedText DEF QuietFor
  <2>4. CASE undisturbed
    BY <1>a, <2>2, <2>3, <2>4 DEF Screen!Next, Screen!Ask
  <2>5. CASE ~undisturbed
    BY <1>a, <2>2, <2>5 DEF Screen!Next, Screen!AskAlone
  <2> QED
    BY <2>4, <2>5
<1>1. CASE TypeLong /\ undisturbed'
  BY <1>1, <1>a DEF TypeLong, Typed
<1>2. CASE SearchButtonClicked /\ undisturbed'
  <2>1. text \in Typed /\ Ask(text) /\ UNCHANGED movieList
    BY <1>2 DEF SearchButtonClicked, TypeOK, Texts
  <2> QED
    BY <1>2, <1>a, <2>1
<1>3. CASE (Open \/ CancelButtonClicked) /\ undisturbed'
  <2>1. movieList' = None /\ QuietFor(Typed)'
    BY <1>3 DEF Open, CancelButtonClicked, Fresh, QuietFor
  <2> QED
    BY <1>3, <1>n, <2>1
<1>4. CASE Clear /\ undisturbed'
  <2>1. movieList' = None /\ QuietFor(Typed)'
    BY <1>4 DEF Clear, QuietFor
  <2> QED
    BY <1>4, <1>n, <2>1
<1>5. ASSUME NEW t \in Typed, Reply(t), undisturbed'
      PROVE  Screen!Next
  <2>1. undisturbed /\ movieList' = t /\ Answered(t)
    BY <1>5 DEF Reply
  <2>2. asks[t] # 0 /\ \A u \in Typed \ {t} : asks'[u] = asks[u]
    BY <2>1, AnswerCounts
  <2>3. QuietFor(Typed \ {t}) /\ QuietFor(Typed \ {t})'
    BY <2>1, <2>2 DEF OneText, QuietFor
  <2>4. Awaited = t
    BY <2>2, <2>3, AwaitedText
  <2>5. Awaited' \in {t, None}
    BY <2>3, AwaitedText DEF QuietFor
  <2>6. t # None
    BY SearchAssumption DEF SearchAssumption
  <2> QED
    BY <1>5, <2>1, <2>4, <2>5, <2>6 DEF Screen!Next, Screen!Arrive
<1>6. ASSUME NEW t \in Typed, ReplyFails(t) PROVE ~undisturbed'
  BY <1>6 DEF ReplyFails
<1>7. CASE DidSelectRow \/ BackToSearch \/ TypeShort \/ UNCHANGED vars
  BY <1>7, <1>s DEF DidSelectRow, BackToSearch, TypeShort, vars
<1> QED
  BY <1>d, <1>1, <1>2, <1>3, <1>4, <1>5, <1>6, <1>7 DEF Next

\* The search keeps what RequestedList promises: undisturbed rows never change to
\* those of an earlier text (textDidChange:, searchBarSearchButtonClicked: and the
\* block of their requests).
THEOREM SearchIsRequestedList == Spec => ListSpec
<1>1. Init => Screen!Init /\ OneText
  BY DEF Init, Screen!Init, Awaited, QuietFor, OneText
<1> QED
  BY <1>1, TypeCorrect, StepOneText, StepList, PTL DEF Spec, ListSpec, Screen!Spec
=============================================================================
