# A verification project for pokusaj3

pokusaj3 is an iOS app in Objective-C: it shows lists of movies of the web
service TMDb and books cinema seats whose documents are kept in Firestore.
This directory holds TLA+ modules that model the app's own logic, the
configurations with which TLC checks them, and modules with proofs for TLAPS.

    tlc -config Details.cfg MCDetails      # checks one run
    tlapm Details_proofs.tla               # checks one module of proofs

Paths below are relative to `src/pokusaj3/pokusaj3/`.

## Inventory

Everything the app's own code does happens in blocks on the main queue: taps,
replies of RestKit (through `Model/TMDbClass.m`), callbacks of Firestore,
completion blocks of UIKit animations, `dispatch_after`. A block runs to its end,
so one block is one atomic action; what is hard is the order of the blocks.

| Component | State | Operations | Hard | Right when |
|---|---|---|---|---|
| Cinema seats (`Controller/CinemaSeatsViewController.m`) | seat map, selection, label, party, pickers; the cells' colours and flags; the Firestore documents | load, listen, pick time or party, select, book, leave | several phones overwrite one document; late reads; a listener of another showing; queued and refused writes; views reused with an old flag | no booking from a current map erases another; selection within the party; panel and pickers agree; the colours mean what the legend says; the last state is shown in the end |
| Session (`LoginViewController.m`, `LeftSideViewController.m`, `View/ButtonTableViewCell.m`) | the flag UserLogedIn, the presented screens, attempts under way | log in (two chained requests), log out, relaunch | double taps, replies after a logout, rows built once | the menu on top agrees with the flag |
| Movie list (`MovieListViewController.m`, `View/CustomCellCollectionViewCell.m`) | option, title, panel, list, genres; the cells with their labels | pick an option, open and close the panel, list and genre replies, drawing and reusing cells | replies that overtake each other; genres in the order of replies; labels of reused cells | the list is that of the option; every row has its genre and shows it |
| Side menu (`Controller/LGSideMenuController/`) | three flags, gesture, animations, hidden views, the root's parent | swipe, tap the cover, pick Cinema, rotate | a rotation ends what a completion block ends again; delayed hiding; a second finger | one direction at a time; never stuck; no cover left over the app |
| Search (`SearchMovieListController.m`) | rows | a request per keystroke | replies in any order, after the text has been cleared | the rows are those of the text |
| Movie and actor details (`MovieDetailTableViewController.m`, `ActorDetailsTableViewController.m`) | a stack of pages; per page its parts, what its sections show, the list of characters | parallel and nested loads, taps that open further pages, "See full bio" | partial failure, order of replies, replies to covered pages, parts handed over before they are there | every section shows what has arrived; a character stands under its movie; every page is complete in the end |
| Cinema programme (`CinemaListOfMoviesViewController.m`, `CinemaMovieTableViewController.m`, `View/ChooseTimeTableViewCell.m`) | the chosen date in NSUserDefaults, the movie's id | pick a date, a movie, a time | id and date used before they are there | seats are booked in the chosen showing |
| Payment (`PaymentInputsViewController.m`, `SuccessfulPaymentViewController.m`) | none that is kept | go on, go back | seats are taken before any payment | |
| Gallery, video, data classes, cells, app delegate | display and template code | | | |

How they interact: the menu's rows (Session) put the cinema at the root of the
side menu (SideMenu) or present screens over it; the programme hands a date
(through NSUserDefaults) and a movie's id (through a segue) to the seat screen;
all of them load through `TMDbClass`, whose failure blocks are empty, so a
request is a reply or nothing at all. The vendored Pods are not modelled
themselves; what the code relies on in Firestore (a read shows the phone's own
queued writes, writes are sent in order and retried, a listener is called again
after every change) is marked external in `PROJECT.json`.

## Modules

| Module | Models | Uses |
|---|---|---|
| `CinemaSeats` | the seat screens of several phones, the documents and what is on its way between them | |
| `Session` | login, logout, the stack of screens | |
| `RequestedList` | abstract: what a screen with a list from the service promises | |
| `MovieList` | the main screen's lists, panel and genres | `RequestedList` |
| `MovieGrid` | the reused cells of the main screen and what their genre labels say | `MovieList` |
| `SeatHall` | the cells of the seat screen: aisles, colours, flags of reused views | `CinemaSeats` |
| `Details` | the pages of movies and actors that are opened from each other | |
| `CinemaVisit` | the programme, a movie's page, the way to the seats and back | `Session` |
| `Search` | the search screen's text, requests and rows | `RequestedList` |
| `MenuPanel` | abstract: what a side menu promises | |
| `SideMenu` | the flags, gestures, animations and views of the left menu | `MenuPanel` |
| `MC*` | the sets and model values of the runs | |
| `*_proofs` | theorems about the module of that name | |

### CinemaSeats

A document is the set of its taken cells (`None` when there is none). Variables
are the controller's properties, per phone, and keep their names; `timestamp` is
the document of the label, because the movie is the same on every phone of the
model. `pending` is Firestore's queue of unacknowledged writes of a phone, `gets`
counts the reads that have no reply, `listener` says whether a snapshot is due.
A read and a snapshot deliver `View`: the document of the server under the
phone's own newest queued write. `buttonPressed:` marks the selection in the map
and queues the whole map (`ButtonPressed`); with no map it ends the app
(`ButtonPressedWithoutMap`). The aisle condition uses `numberOfSeatsInRow`, which
after a `reloadData` is what the last row left there (`RowAfterReload`).

`basis` is a history variable: the showing a map was read from, as long as nobody
else has written it since. It separates the maps from which booking is safe from
the others. The code does not look at it, so the lost update itself is a
behaviour of the model: `FreshBookingKeepsSeats` says exactly when a booking can
erase seats, and two phones with current-looking but outdated maps do.

A pick of the same row of a picker and UIKit's animations of a picker are left
out; the colours of cells are in `SeatHall`. Replies to a screen that was popped change
nothing anybody sees and are dropped with it. A read and its delivery are one
step: what a reply carries is the state at its delivery, or (`GetReply`'s second
disjunct) nothing; `MaxGets` reads of one document can be outstanding, and their
order with snapshots and writes is free.

`EventuallyShown` says that a screen that stays with the showing it was opened
with shows its last state in the end. `HomeIsCurrent` is its safety core: the map of
such a screen is the document under the phone's own writes whenever its listener
has nothing to bring.

### SeatHall

`SeatHall` extends `CinemaSeats`: each of its steps is one of `CinemaSeats` together
with what it does to the cells. `rowAt` computes `numberOfSeatsInRow` through one
`reloadData` of all 110 cells, from which follow the aisles that are drawn
(`Aisles`); the run's assumption `RowsAssumption` compares them with columns 2 and 8
of the hall and with the value that `CinemaSeats` lets the last row leave behind. A
cell has a colour, and its view has a flag `isSelected` that decides which colour a
tap gives it. Nothing resets the flag when `reloadData` hands the views out again,
so after one any cells, at most as many as had it before, have it (`ReloadData`).
A booking empties the selection and leaves the views (`LeaveMarks`). `calm` is the
history variable for "none of this has met a flag yet". `LegendWhileCalm` says what holds
until then: the colours mean what the legend says, and no selected seat is taken. A
snapshot that takes a selected seat ends it; the seat stays selected, as in the code,
and nothing is promised of it any more.

### Session

`Session` has no run of its own: its properties are checked in that of
`CinemaVisit`, which takes all of its steps. `stack` is the stack of presented screens: every segue of these controllers
presents, none dismisses. A menu's kind is fixed when it is created. A login
attempt waits for its token, then for its session (`TokenReply` reads the text
fields at that time, as the block does), and fails silently. A session reply to a
screen that is covered sets the flag, and the segue presents nothing.
`overlapped` is a history variable: two attempts of one login screen were under
way at once. `Relaunch` kills the app at any point and keeps the flag. `MenuMatchesFlag`
compares the menu on top with the flag; `ScreensAlternate` says which screen may lie
over which, so that a session that answers late never presents anything out of place.

### MovieList

Its properties are checked in the run of `MovieGrid`, which takes all of its steps;
`MovieListTitle` runs it alone. `movieList` is the request whose reply is shown, `asks` and `details` count the
list and genre requests under way, `listOfGenres` holds the movies whose genres are in
the array, in its order; row i reads the one at place i when it is drawn. `Kept` is the odd one out:
the block of Most popular empties the genres in every detail reply.
`CellForItemEndsApp` is the out-of-range `objectAtIndex:`. Title, check mark and
panel follow the five branches of `buttonOnOptionsTapped:`, including the wrong
title. `undisturbed`, `alone` and `inOrder` are history variables that name the orderings
under which the screen is right; one reply that overtakes another, or a movie without a
genre, puts the genres out of the order of the rows until another list is picked.

`RequestedList` is what this screen and the search promise alike: while nothing
disturbs the screen there is one list that has been asked for, and only that one
takes the place of the one shown. Here the lists are the options and `Awaited` is the
option whose request is under way; in `Search` the lists are the texts.

### MovieGrid

`MovieGrid` extends `MovieList`: its steps are those of `MovieList`, with what they do to
the cells, and steps of UIKit that draw a cell for a row that comes onto the screen
(`CellForItem`) or take one off it (`ScrollAway`), at any time and in any cell. A label
holds the movie whose genre was written into it last. `cellForItemAtIndexPath:` writes
it only while there are genres, and the cell has no `prepareForReuse`, so otherwise the
label stays what it was for another row or another list. `reloadData` takes the rows
from all cells and leaves the labels (`ReloadData`); a genre that arrives draws nothing.
`written` is the history variable that tells a label written for the row its cell shows
from one that was left. `GenreUnderItsMovie` is about the former: on a list that was
loaded on its own they name no movie of another list and no movie twice, and that of
their own row if `inOrder`. Of the latter the code promises nothing, and nothing is said:
a grid whose cells were all drawn before the first genre came shows the labels of the
list before until the rows are scrolled.

### Search

`asks` counts the requests without a reply per text, `movieList` is the text whose
rows are shown. `Reply` never looks at the text, as the block does not. The bar of
the storyboard is connected to nothing (`searchBar` is nil), so only the one in the
title view acts. `undisturbed` is the history variable that names the orderings
under which the rows are right; a request made alone, or a cleared text with
nothing under way, makes it true again.

### Details

`pages` is the navigation stack over a list: pages of movies and actors, galleries
and trailers, opened from each other to any depth. `waiting` are the requests of
`viewDidLoad` without an answer, `has` is what has come, `drawn` holds per section
the inputs its rows were made of when it was last reloaded, so that a block which
reloads too little leaves `drawn` behind `has`; for the movies of an actor
`drawnCharacters` does the same with the list of characters. `Reads` comes from
`cellForRowAtIndexPath:`, `Reloads` from the blocks. On an actor's page the reply
with the movies asks for the credits of each; `credits` are the rows still
waiting, `listOfCharacters` holds for each character the row it came for, in
the order of the array. A movie whose credits fail, or in which the actor is not
found (the code compares ids by address), brings none; that movie goes to the
history variable `missed`. `inOrder` is history as well. Requests go on while a page
is covered; gallery and trailer only get what the movie's page has at the tap.
`PagesGoOnward` compares a page with itself a step later: nothing is asked for
twice, nothing that has come is lost, no character changes its place.

### CinemaVisit

`CinemaVisit` extends `Session`: its steps are those of `Session`, with what they do to
the cinema (`AnswerYes` and `Relaunch` leave it), and steps of its own that leave the
menus alone. `place` is the page on top; the pages below it keep their records.
`selectedDate` survives pages, visits and launches. A picker that turns comes to rest
later (`PickerRests`), also when its cell has been replaced by a tap on the title
(`stray`) or the seats have been opened; the first row of a picker is never picked
unless the picker is turned. `picked`, `pickedRow` and `hasty` are history variables.
The collection of the programme is moved from where it is (`Moved`), so `lowered` counts
the moves down against those up, and would drift if two handlers disagreed
(`ProgrammePanel`).
`backToCinema` presents a new programme over the menu (`presented`), which then can no
longer be reached. What a booking writes is the matter of `CinemaSeats`, whose
constant `Dates` stands for the dates, the empty one included, that arrive from here.

### SideMenu and MenuPanel

`SideMenu` follows `LGSideMenuController.m` with the values the app gives it (one
left menu, slide above, never always visible). `animations` is the queue of
completion blocks; `Rotate` ends a transition at once (`EndTransition`), lays the
views out (`LayoutAgain`) and leaves the block in the queue. The delayed hiding of
the views (four blocks that are dispatched together) is one action. `attached` says whether the root has its parent, which
the opening takes away and its completion block gives back (`RootAttached`). `touch` and
`swiping` are separate because a finger that was let through before an animation
may start its swipe during it. `MenuPanel` promises hidden, opening, shown,
closing and no jumps; `Phase` is the refinement mapping. `undisturbed` is the
history variable under which the promise is made.

## Runs

| Run | Shows | Bounds |
|---|---|---|
| `SeatHall` | selection within the party, panel and pickers, colours and flags | one phone, two seats and an aisle cell, parties of one and two; a free, a partly taken and a missing hall; one read and one write under way. The day has no timestamp, so both showings share a document: what a cell shows does not depend on the showing |
| `CinemaSeatsTwo` | which bookings keep the seats of others | two phones, two showings, one cell; a lost seat needs two phones and one cell |
| `CinemaSeatsMissing` | when a map vanishes under a selection | one phone, two queued writes, documents missing, a date without a timestamp |
| `CinemaSeatsHome` | a screen that stays shows the last state, in the end and whenever nothing is due | two phones that stay with their showing |
| `MovieGrid` | option, list, genres, whose genre a cell's label names; the promise of `RequestedList` | two movies, one of the list without genre; two kinds of requests under way, the least with which a list replaces another that still waits for genres (`MovieList` without cells was tried by hand with three kinds, with the same result); two interchangeable cells, one for each row, of which either may have shown the other row or a row of another list |
| `Search` | rows and text; the promise of `RequestedList` | two long and two short texts, two requests for each: every pair of texts can meet |
| `CinemaVisit` | menu and flag, the screens over each other, who is in the cinema, the panel that must not drift, the showing that is opened | three attempts (two of one screen and one of another), six screens: three logins and logouts deep; two movies, two dates: an earlier date to be left over and one to be picked |
| `Details` | sections, characters, the stack of pages, what a page never loses, completeness in the end | three pages: an actor's page over a movie's and under another one; two movies, two actors, one of them in both movies and the other in none that the service knows |
| `CinemaVisitLabel` | a violation: the label Sorted by | as before |
| `MovieListTitle` | a violation: the title after Highest-rated | one movie |
| `SideMenu` | the promises of the menu, its cover, its root | three blocks and two delayed hidings waiting; larger bounds (5 and 3) were tried by hand with the same result |
| `SideMenuRoot` | a violation: the comment about the root | |

The bound `LowestOffset` of `CinemaSeats` stops following a panel that has
drifted off the screen; `MaxScreens` stops following the stack of screens.
Neither hides a case of the properties: the panel's state is the same at every
height above, and a menu looks at the top of the stack.

Each property has a mutant of the code in `PROJECT.json`, written in the modules
beside the definition it replaces, and TLC finds the property violated with it.

Deadlock is checked everywhere.

## Fairness

`CinemaSeats`: Firestore answers a queued write and delivers a due snapshot in the
end (it keeps trying while the app lives); reads by `getDocument` and users owe
nothing, and a listener may die. `SideMenu`: UIKit calls the completion block of an
animation in the end; users, rotations and delayed blocks owe nothing, and
`TransitionEnds` assumes that fingers are off the screen from some time on, because
a user who swipes for ever is never done. `Details`: a request is answered or
fails after its time limit, so a page with requests under way is answered as long as it
stays; users owe nothing, and a page may be left at any time. The other modules assume no fairness:
any reply may stay away for good.

## Proofs

For all values of the constants TLAPS proves type correctness of the nine
detailed modules, every invariant and action property of the runs, the three
refinements of abstract modules, and that `SeatHall`, `MovieGrid` and `CinemaVisit`
implement the modules they extend:

- `CinemaSeats_proofs`: `PartyLimit`, `PanelLowered`, `FreshMapCoversShowing`,
  `LostMapMeansMissingShowing`, the action property `FreshBookingKeepsSeats` and
  `HomeIsCurrent`. The heart is the invariant that a map
  with a basis covers the server's document and those of the phone's own queued
  writes that go there, and that the same holds for each queued write with regard
  to the writes before it. It is inductive because a write of another phone takes
  the basis away, and a refused write only makes the set to be covered smaller.
  For a lost map it is `Settled`: booking takes a map and empties the selection, so a
  phone that has selected seats and lost its map has no write of its own waiting for
  the missing document. For `HomeIsCurrent` it is `AtHome`, which is kept by the steps
  of a phone that stays: no read of another showing is under way, and a listener
  with nothing to bring has brought the last state. What remains is that the
  server applying or refusing a write, the phone's own or another's, either tells the listener or
  changes nothing under the phone's newest write (`SeenIsLast`, `SeenAfterOldest`,
  `SeenOutdated`).
- `Session_proofs`: `MenuMatchesFlag`, from an invariant about where attempts stand
  in the stack: an attempt of a covered screen belongs to a login screen that has
  been left by a session of the same screen, so there was an overlap. For
  `ScreensAlternate` the invariant adds that every attempt is one of a login screen
  (`AttemptOfLogin`), so that a session presents a menu over nothing else.
- `CinemaVisit_proofs`: that every visit is a behaviour of `Session` (`VisitIsSession`), with
  which the theorems of `Session_proofs` carry over (`VisitKeepsMenus`); `CinemaWhileLoggedIn`, from these and
  the fact that an attempt of the screen on top is one of a login screen, so that no
  session puts a screen over a member's menu; `ProgrammePanel`, for which each relative
  move needs the place the one before it left (`MovedPanel`); and `ShowingAsPicked`, from
  the invariant `OneDate`: as long as the user waits for the picker, the picked date, the
  label, NSUserDefaults and the seats hold one date.
- `Search_proofs`: `RowsOfText`, from the invariant that an undisturbed text has been asked
  for alone, and that `Search` implements `RequestedList` (`SearchIsRequestedList`). The
  mapping chooses a text that has been asked for; `OneText`, that there is only one while
  nothing is disturbed, makes the choice the only one (`AwaitedText`), so that a reply
  can bring no other.
- `MovieList_proofs`: `OptionsPanel`, `ListShown`, `GenresOfShownList`,
  `GenreForEveryRow` and `PopularAgainKeepsOne`, from invariants that
  say which requests can be under way while the history variables hold. What one append
  does to the order is the lemma `AppendGenre`; that a complete list has a genre for
  every row follows by counting, because the array names each of its movies
  (`GenresEnough`). `MovieList` implements `RequestedList` (`GridIsRequestedList`) by the
  argument of the search, with `OneList` and `AwaitedOption`; the genres and the panel
  are stutters. `MovieGrid` implements `MovieList` (`GridIsMovieList`), and
  `GenreUnderItsMovie` (`GenresByRow`) follows for any cells from the order of the array
  (`GenresInOrder`) and from the invariant that a label written for its row still names
  what the array has at that row (`LabelsFromGenres`): on such a list genres are only
  appended, and every block that replaces the list takes the rows from all cells.
- `SideMenu_proofs`: `CoverGoesWithMenu`, `OneDirection`, `GoingEnds` (while a Going
  flag is set something is waiting that clears it), `RootAttached` and `Refinement`, that
  `SideMenu` implements `MenuPanel`. The inductive invariant adds to them that an
  undisturbed transition has exactly one end in sight, a swipe or one completion
  block of its own direction (`OneEnd`); without it a stale block could end any
  transition. For the root, `RootInv` adds that an undisturbed swipe over a
  shown menu is not one that shows it.

- `SeatHall_proofs`: that every behaviour of `SeatHall` is one of `CinemaSeats`
  (`HallIsSeats`), with which the limits of the seats carry over (`HallKeepsLimits`), and
  `LegendWhileCalm`, from an invariant that adds that the flags agree with the
  selection while the screen is calm and that there are none without a map; only a free
  seat can be added to a selection, and a map that comes finds none.
- `Details_proofs`: `PartsDrawn`, `CharactersInOrder`, `OneCharacterEach`,
  `PagesFollowRows` and the action property `PagesGoOnward`. The inductive invariant (`PageOK` of every page) adds that what a
  page still waits for was asked for by its kind and has not come. That late replies to
  covered pages leave the pages above where they belong rests on `Grown`: a page
  keeps its kind and id and loses nothing that was opened from it. `PartsDrawn` needs that
  every block reloads what its input is part of, the nested one for each character
  included. That the list is in order exactly when nothing was overtaken is the lemma
  `AppendInOrder` about one append. `PagesGoOnward` has a lemma for every way in which
  a block changes a page (`PartOnward`, `MoviesOnward`, `BioOnward`, `CharacterOnward`).

The proofs rest on the assumptions of the modules about their constants only
(bounds are numbers, sets of cells and parties are in range).

Only model-checked: the liveness properties, which need fairness. What they rest on is
proved: `HomeIsCurrent` for `EventuallyShown`, `GoingEnds` for `TransitionEnds`,
`OneCharacterEach` and `PagesGoOnward` for `LoadedInTheEnd`.

Some properties are conjunctions of parts that are comments of their own in the
modules: `OptionsPanel`, `CoverGoesWithMenu`, `MenuMatchesFlag`; and the type invariants
`HallTypeOK`, `GridTypeOK` and `VisitTypeOK` hold those of the modules underneath.

## Findings

- Picking 15th July 2018 in the programme's panel labels it 14th July 2018, 16th July
  15th (`CinemaListOfMoviesViewController.m:199`); run `CinemaVisitLabel`.
- After Latest, picking Highest-rated leaves the title "Sorted by: Latest"
  (`MovieListViewController.m:284`); run `MovieListTitle`.
- `LGSideMenuController.m:1243` says that the root is removed from its parent when a
  menu is showing; it is attached again as soon as the menu is shown; run
  `SideMenuRoot`.

## Not modelled

- The Pods. They are vendored C, C++ and Objective-C libraries (Firestore with gRPC,
  BoringSSL, Protobuf and LevelDB, RestKit, SDWebImage); none of their code was written for this
  app, and what the app relies on in them appears in the modules as external
  definitions. They make up nearly all C and header lines under `src/`; the app's own
  code is in `.m` files, nearly all of whose control is modelled.
- The unused part of `LGSideMenuController`: the right menu, which mirrors the left one
  line by line, always-visible menus, other presentation styles, and the calls that show
  or toggle a menu, which nothing in the app makes; transforms and frames.
- In `ActorDetailsTableViewController.m` the cell of section 1 reloads its own section
  while it is made (line 109). Whether that asks for the cell again is up to UIKit.
- In `TMDbClass.m` the mapping of JSON and the response descriptors, of which every
  request adds one to the shared manager and which nothing takes away.
- The inputs of the payment screen, which no code reads; the inside of gallery and video,
  where nothing changes; data classes, layout cells and the app delegate.
- The labels of the items of an actor's movies, which are reused like those of the main
  screen: `CharactersInOrder` is about the character that is written for a row, not about
  one that is left. A genre without a name, or a cast without a character, which the
  code adds to an array as nil and which ends the app: the service is taken to send both.
- Which user logs in: `Session` has one name and one password.
- Layout passes of UIKit. The frames that the code moves by hand, of the programme, the
  main screen and the seats, are taken to stay where they were put.
- `CinemaVisit` composed with the documents of `CinemaSeats`: the two meet in one value,
  the date that `CinemaSeats` takes from `Dates`, the empty one included. A product of
  the two has no further interaction to show.
