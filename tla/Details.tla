------------------------------- MODULE Details -------------------------------
(***************************************************************************)
(* The pages a user opens from a list of movies and from each other: the   *)
(* details of a movie (MovieDetailTableViewController.m), of an actor      *)
(* (ActorDetailsTableViewController.m), the gallery and the trailer.  Each *)
(* page sends its requests when it is opened; replies fill the sections    *)
(* they belong to, in any order, also while the page is covered.  A page   *)
(* that was popped is seen by nobody, its replies are dropped with it.     *)
(***************************************************************************)
EXTENDS Integers, Sequences

CONSTANTS
  Movies,
  Actors,
  Cast,         \* per movie, the actors in its credits
  Filmography,  \* per actor, the movies /3/discover/movie answers with
  MaxPages      \* bound: how many pages are opened over each other

ASSUME DetailsAssumption ==
  /\ Cast \in [Movies -> SUBSET Actors]
  /\ Filmography \in [Actors -> Seq(Movies)]
  /\ MaxPages \in Nat

VARIABLE pages  \* the pages over the list, the last one is on top

-----------------------------------------------------------------------------
Kinds    == {"movie", "actor", "gallery", "trailer"}
Sections == 0..4

\* The properties of the controllers that requests fill, and the flag
\* isBioExtended of the actor's page.
Parts  == {"movieDetails", "credits", "images", "reviews", "actor", "movies"}
Inputs == Parts \cup {"isBioExtended"}

\* viewDidLoad: what a page asks for.
Asked == [movie   |-> {"movieDetails", "credits", "images", "reviews"},
          actor   |-> {"actor", "movies"},
          gallery |-> {},
          trailer |-> {}]

\* cellForRowAtIndexPath: and numberOfRowsInSection: what the rows of a section
\* are made of.  The items of the second section of an actor's page also read the
\* list of characters (RowCharacter).
Reads(kind, section) ==
  CASE kind = "movie" /\ section = 0 -> {"movieDetails"}
    [] kind = "movie" /\ section = 1 -> {"movieDetails", "credits"}
    [] kind = "movie" /\ section = 2 -> {"images"}
    [] kind = "movie" /\ section = 3 -> {"credits"}
    [] kind = "movie" /\ section = 4 -> {"reviews"}
    [] kind = "actor" /\ section = 0 -> {"actor", "isBioExtended"}
    [] kind = "actor" /\ section = 1 -> {"movies"}
    [] OTHER -> {}

\* Mutant: the credits are taken for the cast only.
ReloadsCastOnly(input) ==
  CASE input = "movieDetails" -> {0, 1}
    [] input = "credits"      -> {3}
    [] input = "images"       -> {2}
    [] input = "reviews"      -> {4}
    [] input = "movies"       -> {1}
    [] OTHER                  -> {0}

\* The sections that the blocks reload.
Reloads(input) ==
  CASE input = "movieDetails" -> {0, 1}
    [] input = "credits"      -> {1, 3}
    [] input = "images"       -> {2}
    [] input = "reviews"      -> {4}
    [] input = "movies"       -> {1}
    [] OTHER                  -> {0}

\* id: movieId or actorId.  waiting: the requests with no answer; has: the
\* inputs that are there; drawn: per section, the inputs its rows were made of
\* when they were last reloaded.  credits: the rows of movies whose credits have
\* been asked for by an actor's page; listOfCharacters holds for each character
\* the row it came for; drawnCharacters is its length when the section with the
\* movies was last reloaded.  missed and inOrder are history: the rows whose reply
\* brought no character; and that no character came before that of an earlier row.
Page == [kind : Kinds, id : Movies \cup Actors,
         waiting : SUBSET Parts, has : SUBSET Inputs,
         drawn : [Sections -> SUBSET Inputs],
         credits : SUBSET Nat, listOfCharacters : Seq(Nat),
         drawnCharacters : Nat, missed : SUBSET Nat, inOrder : BOOLEAN]

\* viewDidLoad: and the first layout, with has as prepareForSegue: left it.
NewPage(kind, id, has) ==
  [kind |-> kind, id |-> id, waiting |-> Asked[kind], has |-> has,
   drawn |-> [s \in Sections |-> {}],
   credits |-> {}, listOfCharacters |-> << >>, drawnCharacters |-> 0,
   missed |-> {}, inOrder |-> TRUE]

TypeOK ==
  /\ pages \in Seq(Page)
  /\ Len(pages) <= MaxPages
  /\ \A d \in DOMAIN pages :
       pages[d].id \in IF pages[d].kind = "actor" THEN Actors ELSE Movies

Init == pages = << >>

Top == pages[Len(pages)]

On(kind) == Len(pages) > 0 /\ Top.kind = kind

Push(page) ==
  /\ Len(pages) < MaxPages
  /\ pages' = Append(pages, page)

-----------------------------------------------------------------------------
(* The user *)

\* A row of one of the lists.
OpenMovie(m) ==
  /\ pages = << >>
  /\ Push(NewPage("movie", m, {}))

\* Mutant: the items of both collections of the page open an actor.
OpenActorFromAnyItem(a) ==
  /\ On("movie")
  /\ Top.has \cap {"images", "credits"} # {}
  /\ Push(NewPage("actor", a, {}))

\* An item of the cast; there is one for each actor of the credits that came.
OpenActor(a) ==
  /\ On("movie")
  /\ "credits" \in Top.has
  /\ a \in Cast[Top.id]
  /\ Push(NewPage("actor", a, {}))

\* Mutant: the page hands on the id it was opened with.
OpenActorsMovieByOwnId(row) ==
  /\ On("actor")
  /\ "movies" \in Top.has
  /\ row \in DOMAIN Filmography[Top.id]
  /\ Push(NewPage("movie", Top.id, {}))

\* An item of the filmography.
OpenActorsMovie(row) ==
  /\ On("actor")
  /\ "movies" \in Top.has
  /\ row \in DOMAIN Filmography[Top.id]
  /\ Push(NewPage("movie", Filmography[Top.id][row], {}))

\* buttonPressed: and openMovieTrailer hand over what is there at that moment.
OpenGallery ==
  /\ On("movie")
  /\ Push(NewPage("gallery", Top.id, Top.has \cap {"images", "movieDetails"}))

OpenTrailer ==
  /\ On("movie")
  /\ Push(NewPage("trailer", Top.id, Top.has \cap {"movieDetails"}))

Back ==
  /\ Len(pages) > 0
  /\ pages' = SubSeq(pages, 1, Len(pages) - 1)

\* A section that is reloaded asks for its rows anew.
Redrawn(page, has, sections) ==
  [s \in Sections |-> IF s \in sections THEN Reads(page.kind, s) \cap has
                                        ELSE page.drawn[s]]

Toggled(has) == IF "isBioExtended" \in has THEN has \ {"isBioExtended"}
                                          ELSE has \cup {"isBioExtended"}

WithBioToggled(page) ==
  [page EXCEPT !.has = Toggled(@),
               !.drawn = Redrawn(page, Toggled(page.has), Reloads("isBioExtended"))]

ShowFullBio ==
  /\ On("actor")
  /\ pages' = [pages EXCEPT ![Len(pages)] = WithBioToggled(@)]

-----------------------------------------------------------------------------
(* Replies to the page at depth d *)

\* The blocks of viewDidLoad that fill one part.
WithPart(page, part) ==
  [page EXCEPT !.waiting = @ \ {part},
               !.has = @ \cup {part},
               !.drawn = Redrawn(page, page.has \cup {part}, Reloads(part))]

PartArrives(d, part) ==
  /\ part \in pages[d].waiting \ {"movies"}
  /\ pages' = [pages EXCEPT ![d] = WithPart(@, part)]

\* Mutant: the loop over the movies ends one too early.
AllButLastRow(page) == 1 .. Len(Filmography[page.id]) - 1

\* The movies whose credits the loop asks for.
CreditsAsked(page) == DOMAIN Filmography[page.id]

\* The failure blocks are empty.
WithoutPart(page, part) == [page EXCEPT !.waiting = @ \ {part}]

\* The block of getActorsMovies: the credits of every movie are asked for.
WithMovies(page) ==
  [page EXCEPT !.waiting = @ \ {"movies"},
               !.has = @ \cup {"movies"},
               !.drawn = Redrawn(page, page.has \cup {"movies"}, Reloads("movies")),
               !.credits = CreditsAsked(page),
               !.drawnCharacters = Len(page.listOfCharacters)]

\* An empty filmography reloads nothing, and is as good as none to all that read
\* it.
MoviesArrive(d) ==
  /\ "movies" \in pages[d].waiting
  /\ \/ /\ Filmography[pages[d].id] # << >>
        /\ pages' = [pages EXCEPT ![d] = WithMovies(@)]
     \/ /\ Filmography[pages[d].id] = << >>
        /\ pages' = [pages EXCEPT ![d] = WithoutPart(@, "movies")]

PartFails(d, part) ==
  /\ part \in pages[d].waiting
  /\ pages' = [pages EXCEPT ![d] = WithoutPart(@, part)]

Shown(page) == {page.listOfCharacters[i] : i \in DOMAIN page.listOfCharacters}

\* Mutant: no break after the actor was found, who is in the cast twice.
CharacterAddedTwice(page, row) ==
  Append(Append(page.listOfCharacters, row), row)

\* Mutant: the character is put before those that came earlier.
CharacterInFront(page, row) == <<row>> \o page.listOfCharacters

\* addObject: and break.
CharacterAdded(page, row) == Append(page.listOfCharacters, row)

\* The nested block, when the page's actor is found in the credits: it reloads
\* the section after the character has been added.
WithCharacter(page, row) ==
  [page EXCEPT !.credits = @ \ {row},
               !.listOfCharacters = CharacterAdded(page, row),
               !.drawnCharacters = Len(CharacterAdded(page, row)),
               !.inOrder = @ /\ 1 .. row - 1 \subseteq Shown(page)]

CharacterArrives(d, row) ==
  /\ row \in pages[d].credits
  /\ pages[d].id \in Cast[Filmography[pages[d].id][row]]
  /\ pages' = [pages EXCEPT ![d] = WithCharacter(@, row)]

\* The request fails, the movie has no cast, or the actor is not found there.
\* The block compares ids by their address: an actor in the cast is not
\* necessarily found.
WithoutCharacter(page, row) ==
  [page EXCEPT !.credits = @ \ {row}, !.missed = @ \cup {row}]

CharacterMissed(d, row) ==
  /\ row \in pages[d].credits
  /\ pages' = [pages EXCEPT ![d] = WithoutCharacter(@, row)]

\* A request of the page at depth d is answered or fails.
Answer(d) ==
  \/ \E part \in Parts : PartArrives(d, part) \/ PartFails(d, part)
  \/ MoviesArrive(d)
  \/ \E row \in pages[d].credits : CharacterArrives(d, row)
                                   \/ CharacterMissed(d, row)

-----------------------------------------------------------------------------
User ==
  \/ \E m \in Movies : OpenMovie(m)
  \/ \E a \in Actors : OpenActor(a)
  \/ On("actor") /\ \E row \in DOMAIN Filmography[Top.id] : OpenActorsMovie(row)
  \/ OpenGallery
  \/ OpenTrailer
  \/ Back
  \/ ShowFullBio

Next == User \/ \E d \in DOMAIN pages : Answer(d)

\* Every request is answered or fails after its time limit; users owe nothing.
Fairness ==
  \A d \in 1..MaxPages : WF_pages(d \in DOMAIN pages /\ Answer(d))

Spec == Init /\ [][Next]_pages /\ Fairness

-----------------------------------------------------------------------------
(* PROPERTIES *)

\* Whatever the order of the replies, of failures and of taps on "See full bio",
\* every section has been reloaded since the last thing its rows are made of came,
\* the characters of an actor's movies included.  It includes that the table view
\* has been told the number of reviews, without which UIKit ends the app at the
\* next reload of any section.  (Which character stands under which movie then is
\* what CharactersInOrder is about.)
Drawn(page) ==
  /\ \A s \in Sections : page.drawn[s] = Reads(page.kind, s) \cap page.has
  /\ page.drawnCharacters = Len(page.listOfCharacters)

PartsDrawn == \A d \in DOMAIN pages : Drawn(pages[d])

\* cellForItemAtIndexPath: the row whose character is written into the item of a
\* row, 0 when none is: a reused item then keeps the one it had.
RowCharacter(page, row) ==
  IF Len(page.listOfCharacters) >= row THEN page.listOfCharacters[row] ELSE 0

\* The characters of an actor's page are appended in the order of the nested
\* replies and read by row.  The character written for every movie is its own if
\* and only if no character came before that of an earlier movie: one movie whose
\* character is missing, or one reply that overtakes another, puts a character
\* under the wrong movie, and no later reply repairs it.
OwnCharacters(page) ==
  \A row \in DOMAIN page.listOfCharacters : RowCharacter(page, row) = row

CharactersInOrder ==
  \A d \in DOMAIN pages : pages[d].inOrder <=> OwnCharacters(pages[d])

\* No movie of an actor's page has two characters in the list, none is forgotten:
\* its credits are under way, or they have brought one character, or none.
Rows(page) ==
  IF "movies" \in page.has THEN DOMAIN Filmography[page.id] ELSE {}

OneCharacter(page) ==
  /\ Rows(page) = page.credits \cup Shown(page) \cup page.missed
  /\ page.credits \cap (Shown(page) \cup page.missed) = {}
  /\ Shown(page) \cap page.missed = {}
  /\ \A i, j \in DOMAIN page.listOfCharacters :
       page.listOfCharacters[i] = page.listOfCharacters[j] => i = j

OneCharacterEach == \A d \in DOMAIN pages : OneCharacter(pages[d])

\* A page lies over the one it was opened from: an actor's over a movie in which
\* the actor plays and whose credits are there, a movie's over an actor whose
\* filmography has it; a gallery or a trailer shows no more than its movie's page
\* had.  Late replies to covered pages do not change that.
OpenedFrom(page, below) ==
  CASE page.kind = "actor" -> /\ below.kind = "movie"
                              /\ "credits" \in below.has
                              /\ page.id \in Cast[below.id]
    [] page.kind = "movie" -> /\ below.kind = "actor"
                              /\ "movies" \in below.has
                              /\ \E row \in DOMAIN Filmography[below.id] :
                                   Filmography[below.id][row] = page.id
    [] OTHER               -> /\ below.kind = "movie"
                              /\ page.id = below.id
                              /\ page.has \subseteq below.has

PagesFollowRows ==
  \A d \in DOMAIN pages : d > 1 => OpenedFrom(pages[d], pages[d - 1])

\* A page that stays where it is goes on and never back, whatever is tapped above
\* it and however its replies come: it stays the page it was, no request is sent a
\* second time (those for the credits are sent when the filmography comes), nothing
\* that has arrived is lost, and a character keeps the item it once stood under, so
\* a wrong one is never repaired.
Onward(old, new) ==
  /\ new.kind = old.kind /\ new.id = old.id
  /\ new.waiting \subseteq old.waiting
  /\ \/ new.credits \subseteq old.credits
     \/ "movies" \in old.waiting \ new.waiting
  /\ old.has \cap Parts \subseteq new.has
  /\ old.missed \subseteq new.missed
  /\ \A i \in DOMAIN old.listOfCharacters :
       /\ i \in DOMAIN new.listOfCharacters
       /\ new.listOfCharacters[i] = old.listOfCharacters[i]

PagesGoOnward ==
  [][\A d \in DOMAIN pages \cap DOMAIN pages' : Onward(pages[d], pages'[d])]_pages

\* A page the user stays on is complete in the end, but for what has failed: all
\* its requests are answered, those for the credits of its movies included.
Whole(page) ==
  /\ page.waiting = {} /\ page.credits = {}
  /\ "movies" \in page.has
       => Shown(page) \cup page.missed = DOMAIN Filmography[page.id]

LoadedInTheEnd ==
  \A d \in 1..MaxPages :
    []<>(d \in DOMAIN pages => Whole(pages[d]))
=============================================================================
