------------------------------ MODULE MovieList ------------------------------
(***************************************************************************)
(* The main screen (MovieListViewController.m): a grid of movies, of the   *)
(* list that was last picked in the panel "Sorted by".  A list is one      *)
(* request; its reply sends one request more per movie, for the genre to   *)
(* write under it.  The genres are kept in one list, in the order of their *)
(* replies, and a row shows the genre at its position.                     *)
(*                                                                         *)
(* Every handler and every reply is one block on the main queue; replies   *)
(* come in any order, or not at all.                                       *)
(***************************************************************************)
EXTENDS Integers, FiniteSets, Sequences

CONSTANTS
  MovieCount,    \* how many movies a list has
  NoGenre,       \* the movies TMDb knows no genre of
  None,          \* no list yet
  MaxInFlight,   \* bound: equal requests under way at once
  MaxBusy        \* bound: the kinds of requests under way at once

Options == {"popular", "latest", "highest"}

\* The blocks that wait for a list: the one of viewDidLoad and one per option.
Requests == {"first"} \cup Options

OptionOf(k) == IF k = "first" THEN "popular" ELSE k

Rows   == 1..MovieCount
Movies == Options \X Rows

ASSUME MovieListAssumption ==
  /\ MovieCount \in Nat \ {0} /\ MaxInFlight \in Nat \ {0} /\ MaxBusy \in Nat
  /\ NoGenre \subseteq Movies
  /\ None \notin Requests

VARIABLES
  title,          \* the option that sortedByButton names
  numberOfOption, \* the option, which also has the check mark
  hidden,         \* optionsForSortingView.isHidden
  lowered,        \* how often the grid was moved down more than up (90 each)
  movieList,      \* the request whose movies are shown, None at first
  listOfGenres,   \* the movies whose genres are in the list, in its order
  asks,           \* per request, the lists under way
  details,        \* per request and row, the genres under way
  undisturbed,    \* history: the last list was asked for while no other list
                  \* was under way, and has not failed
  alone,          \* history: the same for genres as well
  inOrder         \* history: since a list was last asked for, no genre came
                  \* before that of an earlier movie

panelVars   == <<title, numberOfOption, hidden, lowered>>
historyVars == <<undisturbed, alone, inOrder>>
vars == <<panelVars, movieList, listOfGenres, asks, details, historyVars>>

TypeOK ==
  /\ title \in Options /\ numberOfOption \in Options
  /\ hidden \in BOOLEAN /\ lowered \in Int
  /\ movieList \in Requests \cup {None}
  /\ listOfGenres \in Seq(Movies)
  /\ asks \in [Requests -> Nat]
  /\ details \in [Requests -> [Rows -> Nat]]
  /\ undisturbed \in BOOLEAN /\ alone \in BOOLEAN /\ inOrder \in BOOLEAN

NoDetails == [k \in Requests |-> [i \in Rows |-> 0]]

\* viewDidLoad and what the storyboard says of the button's title.
Init ==
  /\ title = "popular" /\ numberOfOption = "popular"
  /\ hidden = TRUE /\ lowered = 0
  /\ movieList = None /\ listOfGenres = << >>
  /\ asks = [k \in Requests |-> IF k = "first" THEN 1 ELSE 0]
  /\ details = NoDetails
  /\ undisturbed = TRUE /\ alone = TRUE /\ inOrder = TRUE

ListsQuiet  == \A k \in Requests : asks[k] = 0
GenresQuiet == details = NoDetails

-----------------------------------------------------------------------------
\* Case 3 of buttonOnOptionsTapped:.
TapSortedBy ==
  /\ hidden' = ~hidden
  /\ lowered' = IF hidden THEN lowered + 1 ELSE lowered - 1
  /\ UNCHANGED <<title, numberOfOption, movieList, listOfGenres, asks, details,
                 historyVars>>

\* "Sorted by: Latest" stays when Highest-rated is tapped.
TitleAfter(option) ==
  IF option = "highest" /\ title = "latest" THEN title ELSE option

\* Only a change away from what the title says closes the panel.
ClosePanel(option) ==
  IF title = option THEN UNCHANGED <<hidden, lowered>>
                    ELSE hidden' = ~hidden /\ lowered' = lowered - 1

Busy == {k \in Requests : asks[k] > 0 \/ \E i \in Rows : details[k][i] > 0}

\* Mutant: the array of genres is released instead of emptied.
AskReleasingGenres(option) ==
  /\ asks[option] < MaxInFlight /\ Cardinality(Busy \cup {option}) <= MaxBusy
  /\ asks' = [asks EXCEPT ![option] = @ + 1]
  /\ listOfGenres' = IF option = "popular" THEN listOfGenres ELSE None
  /\ undisturbed' = ListsQuiet
  /\ alone' = (ListsQuiet /\ GenresQuiet)
  /\ inOrder' = TRUE

\* Latest and Highest-rated drop the genres when they ask, Most popular leaves
\* that to its replies.
Ask(option) ==
  /\ asks[option] < MaxInFlight /\ Cardinality(Busy \cup {option}) <= MaxBusy
  /\ asks' = [asks EXCEPT ![option] = @ + 1]
  /\ listOfGenres' = IF option = "popular" THEN listOfGenres ELSE << >>
  /\ undisturbed' = ListsQuiet
  /\ alone' = (ListsQuiet /\ GenresQuiet)
  /\ inOrder' = TRUE

\* Mutants: the grid stays where it is; the title decides whether to ask.
TapOptionLeavingGrid(option) ==
  /\ ~hidden
  /\ title' = TitleAfter(option)
  /\ hidden' = (title # option)
  /\ numberOfOption' = option
  /\ \/ numberOfOption # option /\ Ask(option)
     \/ numberOfOption = option /\ UNCHANGED <<asks, listOfGenres, historyVars>>
  /\ UNCHANGED <<lowered, movieList, details>>

TapOptionByTitle(option) ==
  /\ ~hidden
  /\ title' = TitleAfter(option)
  /\ ClosePanel(option)
  /\ numberOfOption' = option
  /\ \/ title' # title /\ Ask(option)
     \/ title' = title /\ UNCHANGED <<asks, listOfGenres, historyVars>>
  /\ UNCHANGED <<movieList, details>>

\* Cases 0 to 2.  The request of an earlier option is not cancelled.
TapOption(option) ==
  /\ ~hidden
  /\ title' = TitleAfter(option)
  /\ ClosePanel(option)
  /\ numberOfOption' = option
  /\ \/ numberOfOption # option /\ Ask(option)
     \/ numberOfOption = option /\ UNCHANGED <<asks, listOfGenres, historyVars>>
  /\ UNCHANGED <<movieList, details>>

\* A list arrives: it is shown whatever the option is by now, and the genre of
\* every movie is asked for.
ListReply(k) ==
  /\ asks[k] > 0
  /\ \A i \in Rows : details[k][i] < MaxInFlight
  /\ asks' = [asks EXCEPT ![k] = @ - 1]
  /\ movieList' = k
  /\ details' = [details EXCEPT ![k] = [i \in Rows |-> @[i] + 1]]
  /\ UNCHANGED <<panelVars, listOfGenres, historyVars>>

\* TMDbClass only logs a failure.
ListFails(k) ==
  /\ asks[k] > 0
  /\ asks' = [asks EXCEPT ![k] = @ - 1]
  /\ undisturbed' = FALSE /\ alone' = FALSE
  /\ UNCHANGED <<panelVars, movieList, listOfGenres, details, inOrder>>

\* Mutants: every reply drops the genres before it; none does.
KeptNever(k)  == << >>
KeptAlways(k) == listOfGenres

\* The block of Most popular drops all genres first.
Kept(k) == IF k = "popular" THEN << >> ELSE listOfGenres

Genres == {listOfGenres[i] : i \in DOMAIN listOfGenres}

\* Mutant: a genre is put before the others.
GenreInserted(list, movie) == <<movie>> \o list

\* addObject:
GenreAdded(list, movie) == Append(list, movie)

\* Mutant: the block of a genre sets the list once more.
DetailReplyWithList(k, i) ==
  /\ details[k][i] > 0
  /\ details' = [details EXCEPT ![k][i] = @ - 1]
  /\ movieList' = k
  /\ \/ <<OptionOf(k), i>> \in NoGenre /\ listOfGenres' = Kept(k)
     \/ <<OptionOf(k), i>> \notin NoGenre
        /\ listOfGenres' = GenreAdded(Kept(k), <<OptionOf(k), i>>)
  /\ UNCHANGED <<panelVars, asks, historyVars>>

\* A reply adds the first genre of its movie, if there is one.
DetailReply(k, i) ==
  /\ details[k][i] > 0
  /\ details' = [details EXCEPT ![k][i] = @ - 1]
  /\ LET movie == <<OptionOf(k), i>>
     IN  \/ /\ movie \in NoGenre
            /\ listOfGenres' = Kept(k) /\ inOrder' = inOrder
         \/ /\ movie \notin NoGenre
            /\ listOfGenres' = GenreAdded(Kept(k), movie)
            /\ inOrder' = (inOrder /\ {OptionOf(k)} \X (1 .. i - 1) \subseteq Genres)
  /\ UNCHANGED <<panelVars, movieList, asks, undisturbed, alone>>

DetailFails(k, i) ==
  /\ details[k][i] > 0
  /\ details' = [details EXCEPT ![k][i] = @ - 1]
  /\ alone' = FALSE
  /\ UNCHANGED <<panelVars, movieList, listOfGenres, asks, undisturbed, inOrder>>

\* cellForItemAtIndexPath: asks for the genre of its row once there is any
\* genre, and objectAtIndex: ends the app when the row has none.
RowWithoutGenre == movieList # None /\ Len(listOfGenres) \in 1 .. MovieCount - 1

\* The app is launched again.
CellForItemEndsApp ==
  /\ RowWithoutGenre
  /\ title' = "popular" /\ numberOfOption' = "popular"
  /\ hidden' = TRUE /\ lowered' = 0
  /\ movieList' = None /\ listOfGenres' = << >>
  /\ asks' = [k \in Requests |-> IF k = "first" THEN 1 ELSE 0]
  /\ details' = NoDetails
  /\ undisturbed' = TRUE /\ alone' = TRUE /\ inOrder' = TRUE

-----------------------------------------------------------------------------
Reply(k) ==
  \/ ListReply(k) \/ ListFails(k)
  \/ \E i \in Rows : DetailReply(k, i) \/ DetailFails(k, i)

Next ==
  \/ TapSortedBy
  \/ \E option \in Options : TapOption(option)
  \/ \E k \in Requests : Reply(k)
  \/ CellForItemEndsApp

Spec == Init /\ [][Next]_vars

-----------------------------------------------------------------------------
(* PROPERTIES *)

\* The panel is open exactly while the grid is moved down once, whichever of
\* the five branches opened or closed it: the grid never drifts.
GridFollowsPanel == lowered = IF hidden THEN 0 ELSE 1

\* The button says what is shown, as the titles in the storyboard promise.
TitleNamesOption == title = numberOfOption

\* It says otherwise in one case only: Highest-rated picked after Latest.
TitleLags == title # numberOfOption => title = "latest" /\ numberOfOption = "highest"

\* What the five branches of buttonOnOptionsTapped: keep, picked in any order.
OptionsPanel == GridFollowsPanel /\ TitleLags

\* Once every list has been answered the grid shows the option that is
\* checked, unless two lists were under way at once or the last one failed:
\* the replies carry no name and the later one wins.
ListShown ==
  undisturbed /\ ListsQuiet
    => movieList # None /\ OptionOf(movieList) = numberOfOption

\* A list loaded on its own has for each movie that has a genre either the
\* genre once or the request for it, and no other movie's genre.
GenresOfShownList ==
  alone /\ ListsQuiet /\ movieList # "popular" =>
    /\ \A i, j \in DOMAIN listOfGenres : listOfGenres[i] = listOfGenres[j] => i = j
    /\ Genres = {movie \in Movies \ NoGenre :
                   /\ movie[1] = OptionOf(movieList)
                   /\ details[movieList][movie[2]] = 0}

\* So the out-of-range access in cellForItemAtIndexPath: needs a request under
\* way, a failed or overtaken one, a movie without genre, or the return to
\* Most popular, where every reply drops the genre before it.
GenreForEveryRow ==
  (/\ alone /\ ListsQuiet /\ GenresQuiet /\ movieList # "popular"
   /\ \A i \in Rows : <<OptionOf(movieList), i>> \notin NoGenre)
    => ~RowWithoutGenre

\* After that return one row at most has a genre.
PopularAgainKeepsOne ==
  alone /\ ListsQuiet /\ GenresQuiet /\ movieList = "popular"
    => Len(listOfGenres) <= 1

\* The option shown, and the one whose list has been asked for, of which there is
\* one if nothing disturbs the screen.
Shown == IF movieList = None THEN None ELSE OptionOf(movieList)

Awaited ==
  IF ListsQuiet THEN None ELSE OptionOf(CHOOSE k \in Requests : asks[k] > 0)

\* The main screen keeps what RequestedList promises, as the search does: an
\* undisturbed grid changes to the list under way, never back to the movies of
\* an option picked before.
Screen == INSTANCE RequestedList
            WITH Lists <- Options, shown <- Shown, asked <- Awaited,
                 disturbed <- ~undisturbed

ListSpec == Screen!Spec
=============================================================================
