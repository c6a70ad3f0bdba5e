-------------------------------- MODULE Search --------------------------------
(***************************************************************************)
(* The search screen (Controller/SearchMovieListController.m): a request   *)
(* for every change of the text from three characters on, and the rows of  *)
(* whichever reply came last.  Rows are modelled by the text they answer.  *)
(***************************************************************************)
EXTENDS Naturals

CONSTANTS
  Long,    \* texts of three characters and more
  Short,   \* texts of one or two characters
  None,    \* nil: no list of movies
  MaxAsks  \* bound: unanswered requests for one text

Typed == Long \cup Short
Texts == Typed \cup {""}

ASSUME SearchAssumption ==
  /\ Long \cap Short = {} /\ "" \notin Typed /\ None \notin Typed
  /\ MaxAsks \in Nat \ {0}

VARIABLES
  where,       \* "closed", or the page on top: "search" or "details"
  text,        \* the text of the search bar
  movieList,   \* the text whose movies the rows show, or None
  asks,        \* per text, the requests with no reply yet
  undisturbed  \* history: no request has failed, and none was under way for
               \* another text, since the text was last asked for or cleared

vars == <<where, text, movieList, asks, undisturbed>>

TypeOK ==
  /\ where \in {"closed", "search", "details"}
  /\ text \in Texts
  /\ movieList \in Typed \cup {None}
  /\ asks \in [Typed -> Nat]
  /\ undisturbed \in BOOLEAN

Init ==
  /\ where = "closed"
  /\ text = ""
  /\ movieList = None
  /\ asks = [t \in Typed |-> 0]
  /\ undisturbed = TRUE

\* A fresh controller.
Fresh ==
  /\ text' = ""
  /\ movieList' = None
  /\ asks' = [t \in Typed |-> 0]
  /\ undisturbed' = TRUE

Open ==
  /\ where = "closed"
  /\ where' = "search"
  /\ Fresh

\* The screen is dismissed; replies to it change nothing anybody sees.
CancelButtonClicked ==
  /\ where = "search"
  /\ where' = "closed"
  /\ Fresh

-----------------------------------------------------------------------------
\* Nothing is under way for a text of the set.
QuietFor(some) == \A t \in some : asks[t] = 0

Ask(t) ==
  /\ asks[t] < MaxAsks
  /\ asks' = [asks EXCEPT ![t] = @ + 1]
  /\ undisturbed' = QuietFor(Typed \ {t})

\* textDidChange: with three characters or more.
TypeLong ==
  \E t \in Long \ {text} :
    /\ where = "search"
    /\ text' = t
    /\ Ask(t)
    /\ UNCHANGED <<where, movieList>>

\* With one or two characters the rows stay what they are.
TypeShort ==
  \E t \in Short \ {text} :
    /\ where = "search"
    /\ text' = t
    /\ UNCHANGED <<where, movieList, asks, undisturbed>>

\* Mutant: the rows stay.
ClearTextOnly ==
  /\ where = "search" /\ text # ""
  /\ text' = ""
  /\ undisturbed' = QuietFor(Typed)
  /\ UNCHANGED <<where, movieList, asks>>

\* Mutant: the rows become those of the empty text instead of none.
ClearToEmpty ==
  /\ where = "search" /\ text # ""
  /\ text' = ""
  /\ movieList' = ""
  /\ undisturbed' = QuietFor(Typed)
  /\ UNCHANGED <<where, asks>>

\* The empty text takes the rows away, but not the requests under way.
Clear ==
  /\ where = "search" /\ text # ""
  /\ text' = ""
  /\ movieList' = None
  /\ undisturbed' = QuietFor(Typed)
  /\ UNCHANGED <<where, asks>>

\* The Search key of the keyboard, which is disabled without text, asks again
\* and for short texts, too.
SearchButtonClicked ==
  /\ where = "search" /\ text # ""
  /\ Ask(text)
  /\ UNCHANGED <<where, text, movieList>>

Answered(t) == asks[t] > 0 /\ asks' = [asks EXCEPT ![t] = @ - 1]

\* Mutant: the rows count as those of the text in the bar.
ReplyForText(t) ==
  /\ Answered(t)
  /\ movieList' = text
  /\ UNCHANGED <<where, text, undisturbed>>

\* Whatever the text has become, the rows are those of the reply.
Reply(t) ==
  /\ Answered(t)
  /\ movieList' = t
  /\ UNCHANGED <<where, text, undisturbed>>

\* The failure block is empty.
ReplyFails(t) ==
  /\ Answered(t)
  /\ undisturbed' = FALSE
  /\ UNCHANGED <<where, text, movieList>>

-----------------------------------------------------------------------------
DidSelectRow ==
  /\ where = "search" /\ movieList # None
  /\ where' = "details"
  /\ UNCHANGED <<text, movieList, asks, undisturbed>>

BackToSearch ==
  /\ where = "details"
  /\ where' = "search"
  /\ UNCHANGED <<text, movieList, asks, undisturbed>>

Next ==
  \/ Open \/ CancelButtonClicked \/ DidSelectRow \/ BackToSearch
  \/ TypeLong \/ TypeShort \/ Clear \/ SearchButtonClicked
  \/ \E t \in Typed : Reply(t) \/ ReplyFails(t)

Spec == Init /\ [][Next]_vars

-----------------------------------------------------------------------------
(* PROPERTIES *)

\* Once everything has been answered the rows are those of the text, and there
\* are none without text, unless requests for different texts met, one failed
\* or the text was cleared before its reply.  One request made alone puts the
\* rows right again.
RowsOfText ==
  undisturbed /\ QuietFor(Typed) =>
    /\ text \in Long => movieList = text
    /\ text = "" => movieList = None

\* The text whose list has been asked for, of which there is one if nothing
\* disturbs the screen.
Awaited ==
  IF QuietFor(Typed) THEN None ELSE CHOOSE t \in Typed : asks[t] > 0

\* Between the keystrokes the screen keeps what RequestedList promises: the rows
\* of an undisturbed search change to those of the request under way or to none,
\* never back to those of an earlier text.
Screen == INSTANCE RequestedList
            WITH Lists <- Typed, shown <- movieList, asked <- Awaited,
                 disturbed <- ~undisturbed

ListSpec == Screen!Spec
=============================================================================
