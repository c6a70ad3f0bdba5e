--------------------------- MODULE Details_proofs ---------------------------
(***************************************************************************)
(* What the pages of movies and actors keep to for any movies, casts and   *)
(* filmographies, any depth of pages and any order of replies.             *)
(***************************************************************************)
EXTENDS Details, SequenceTheorems, TLAPS

IdsOf(kind) == IF kind = "actor" THEN Actors ELSE Movies

\* One page on its own.  A request that is under way has brought nothing yet,
\* and only an actor's page has movies to ask credits for.
PageOK(page) ==
  /\ page \in Page
  /\ page.id \in IdsOf(page.kind)
  /\ page.waiting \subseteq Asked[page.kind]
  /\ page.waiting \cap page.has = {}
  /\ page.kind # "actor" => "movies" \notin page.has
  /\ Drawn(page)
  /\ OneCharacter(page)
  /\ page.inOrder <=> OwnCharacters(page)

IInv ==
  /\ pages \in Seq(Page)
  /\ Len(pages) <= MaxPages
  /\ \A d \in DOMAIN pages : PageOK(pages[d])
  /\ PagesFollowRows

\* What a step may do to a page that others lie over: it stays the page it was
\* and keeps what the pages above were opened from.
Grown(old, new) ==
  /\ new.kind = old.kind /\ new.id = old.id
  /\ old.has \subseteq new.has \cup {"isBioExtended"}
  /\ old.kind = "movie" => old.has \subseteq new.has
  /\ old.kind \in {"gallery", "trailer"} => new.has = old.has

-----------------------------------------------------------------------------
(* Pages *)

\* A page that has just been opened (viewDidLoad).
LEMMA NewPageOK ==
  ASSUME NEW kind \in Kinds, NEW id \in IdsOf(kind),
         NEW has \in SUBSET Inputs, has \cap Asked[kind] = {}, "movies" \notin has,
         kind = "actor" => has = {}
  PROVE  PageOK(NewPage(kind, id, has)) /\ NewPage(kind, id, has).kind = kind
           /\ NewPage(kind, id, has).id = id /\ NewPage(kind, id, has).has = has
<1> DEFINE p == NewPage(kind, id, has)
<1>1. /\ p.kind = kind /\ p.id = id /\ p.waiting = Asked[kind] /\ p.has = has
      /\ p.drawn = [s \in Sections |-> {}] /\ p.credits = {}
      /\ p.listOfCharacters = << >> /\ p.drawnCharacters = 0
      /\ p.missed = {} /\ p.inOrder = TRUE
  BY DEF NewPage
<1>2. id \in Movies \cup Actors BY DEF IdsOf
<1>3. Asked[kind] \in SUBSET Parts BY DEF Asked, Kinds, Parts
<1>4. p \in Page BY <1>2, <1>3 DEF NewPage, Page
<1>5. Drawn(p)
  <2> SUFFICES ASSUME NEW s \in Sections PROVE Reads(kind, s) \cap has = {}
    <3>1. p.drawnCharacters = Len(p.listOfCharacters) BY <1>1
    <3> QED BY <1>1, <3>1 DEF Drawn
  <2>1. CASE kind = "movie" BY <2>1 DEF Reads, Asked, Sections
  <2>2. CASE kind = "actor" BY <2>2
  <2>3. CASE kind \notin {"movie", "actor"} BY <2>3 DEF Reads
  <2> QED BY <2>1, <2>2, <2>3
<1>6. OneCharacter(p) BY <1>1 DEF OneCharacter, Rows, Shown
<1>7. OwnCharacters(p) BY <1>1 DEF OwnCharacters
<1> HIDE DEF p
<1>8. PageOK(p) BY <1>1, <1>4, <1>5, <1>6, <1>7 DEF PageOK
<1> QED BY <1>1, <1>8 DEF p

\* A part arrives: the sections it is read by are exactly those its block
\* reloads, and the others keep what they show.
LEMMA WithPartOK ==
  ASSUME NEW p, PageOK(p), NEW part \in p.waiting \ {"movies"}
  PROVE  PageOK(WithPart(p, part)) /\ Grown(p, WithPart(p, part))
<1> DEFINE q == WithPart(p, part)
<1>1. p \in Page /\ part \in Parts /\ part \in Asked[p.kind] /\ part # "movies"
  BY DEF PageOK, Page
<1>2. /\ q.kind = p.kind /\ q.id = p.id
      /\ q.waiting = p.waiting \ {part} /\ q.has = p.has \cup {part}
      /\ q.drawn = Redrawn(p, p.has \cup {part}, Reloads(part))
      /\ q.credits = p.credits /\ q.listOfCharacters = p.listOfCharacters
      /\ q.drawnCharacters = p.drawnCharacters
      /\ q.missed = p.missed /\ q.inOrder = p.inOrder
  BY <1>1 DEF WithPart, Page
<1>3. q.has \in SUBSET Inputs BY <1>1, <1>2 DEF Page, Inputs
<1>4. \A s \in Sections : Reads(p.kind, s) \cap q.has \in SUBSET Inputs BY <1>3
<1>5. q.drawn \in [Sections -> SUBSET Inputs]
  BY <1>1, <1>2, <1>4 DEF Redrawn, Page
<1>6. q \in Page BY <1>1, <1>2, <1>3, <1>5 DEF WithPart, Page
<1>7. ASSUME NEW s \in Sections, s \notin Reloads(part)
      PROVE  part \notin Reads(p.kind, s)
  <2>1. CASE p.kind = "movie" BY <1>1, <1>7, <2>1 DEF Reads, Reloads, Sections, Asked
  <2>2. CASE p.kind = "actor" BY <1>1, <1>7, <2>2 DEF Reads, Reloads, Sections, Asked
  <2>3. CASE p.kind \notin {"movie", "actor"} BY <2>3 DEF Reads
  <2> QED BY <2>1, <2>2, <2>3
<1>8. Drawn(q)
  <2> SUFFICES ASSUME NEW s \in Sections
               PROVE  q.drawn[s] = Reads(p.kind, s) \cap (p.has \cup {part})
    BY <1>2 DEF PageOK, Drawn
  <2>1. p.drawn[s] = Reads(p.kind, s) \cap p.has BY DEF PageOK, Drawn
  <2>2. CASE s \in Reloads(part) BY <1>2, <2>2 DEF Redrawn
  <2>3. CASE s \notin Reloads(part) BY <1>2, <1>7, <2>1, <2>3 DEF Redrawn
  <2> QED BY <2>2, <2>3
<1>9. OneCharacter(q)
  BY <1>1, <1>2 DEF PageOK, OneCharacter, Rows, Shown
<1>10. q.inOrder <=> OwnCharacters(q)
  BY <1>2 DEF PageOK, OwnCharacters, RowCharacter
<1>11. /\ q.waiting \subseteq Asked[q.kind] /\ q.waiting \cap q.has = {}
       /\ q.kind # "actor" => "movies" \notin q.has
       /\ q.id \in IdsOf(q.kind)
  BY <1>1, <1>2 DEF PageOK
<1>12. Grown(p, q)
  BY <1>1, <1>2 DEF Grown, Asked
<1> HIDE DEF q
<1>13. PageOK(q) BY <1>6, <1>8, <1>9, <1>10, <1>11 DEF PageOK
<1> QED BY <1>12, <1>13 DEF q

\* A failed request leaves everything else as it is.
LEMMA WithoutPartOK ==
  ASSUME NEW p, PageOK(p), NEW part
  PROVE  PageOK(WithoutPart(p, part)) /\ Grown(p, WithoutPart(p, part))
<1> DEFINE q == WithoutPart(p, part)
<1>1. p \in Page BY DEF PageOK
<1>2. /\ q.kind = p.kind /\ q.id = p.id
      /\ q.waiting = p.waiting \ {part} /\ q.has = p.has
      /\ q.drawn = p.drawn /\ q.drawnCharacters = p.drawnCharacters
      /\ q.credits = p.credits /\ q.listOfCharacters = p.listOfCharacters
      /\ q.missed = p.missed /\ q.inOrder = p.inOrder
  BY <1>1 DEF WithoutPart, Page
<1>3. q \in Page BY <1>1 DEF WithoutPart, Page
<1>4. Drawn(q) BY <1>2 DEF PageOK, Drawn
<1>5. OneCharacter(q) BY <1>2 DEF PageOK, OneCharacter, Rows, Shown
<1>6. q.inOrder <=> OwnCharacters(q)
  BY <1>2 DEF PageOK, OwnCharacters, RowCharacter
<1>7. /\ q.waiting \subseteq Asked[q.kind] /\ q.waiting \cap q.has = {}
      /\ q.kind # "actor" => "movies" \notin q.has
      /\ q.id \in IdsOf(q.kind)
  BY <1>2 DEF PageOK
<1>8. Grown(p, q) BY <1>2 DEF Grown
<1> HIDE DEF q
<1>9. PageOK(q) BY <1>3, <1>4, <1>5, <1>6, <1>7 DEF PageOK
<1> QED BY <1>8, <1>9 DEF q

\* The filmography arrives: its rows are those whose credits are asked for.
LEMMA WithMoviesOK ==
  ASSUME NEW p, PageOK(p), p.kind = "actor", "movies" \in p.waiting
  PROVE  PageOK(WithMovies(p)) /\ Grown(p, WithMovies(p))
<1> DEFINE q == WithMovies(p)
<1>1. /\ p \in Page /\ p.id \in Actors /\ "movies" \notin p.has
      /\ Drawn(p) /\ OneCharacter(p)
  BY DEF PageOK, IdsOf
<1>2. /\ q.kind = p.kind /\ q.id = p.id
      /\ q.waiting = p.waiting \ {"movies"} /\ q.has = p.has \cup {"movies"}
      /\ q.drawn = Redrawn(p, p.has \cup {"movies"}, {1})
      /\ q.credits = CreditsAsked(p)
      /\ q.listOfCharacters = p.listOfCharacters
      /\ q.drawnCharacters = Len(p.listOfCharacters)
      /\ q.missed = p.missed /\ q.inOrder = p.inOrder
  BY <1>1 DEF WithMovies, Page, Reloads
<1>3. CreditsAsked(p) = DOMAIN Filmography[p.id] /\ CreditsAsked(p) \in SUBSET Nat
  BY <1>1, DetailsAssumption DEF CreditsAsked
<1>4. q \in Page
  <2>1. q.has \in SUBSET Inputs BY <1>1, <1>2 DEF Page, Inputs, Parts
  <2>2. \A s \in Sections : Reads(p.kind, s) \cap q.has \in SUBSET Inputs BY <2>1
  <2>3. q.drawn \in [Sections -> SUBSET Inputs]
    BY <1>1, <1>2, <2>2 DEF Redrawn, Page
  <2>4. Len(p.listOfCharacters) \in Nat BY <1>1 DEF Page
  <2> QED BY <1>1, <1>2, <1>3, <2>1, <2>3, <2>4 DEF WithMovies, Page
<1>5. Drawn(q)
  <2> SUFFICES ASSUME NEW s \in Sections
               PROVE  q.drawn[s] = Reads(p.kind, s) \cap (p.has \cup {"movies"})
    BY <1>2 DEF Drawn
  <2>1. p.drawn[s] = Reads(p.kind, s) \cap p.has BY <1>1 DEF Drawn
  <2>2. CASE s = 1 BY <1>2, <2>2 DEF Redrawn
  <2>3. CASE s # 1
    <3>1. "movies" \notin Reads(p.kind, s) BY <2>3 DEF Reads
    <3> QED BY <1>2, <2>1, <2>3, <3>1 DEF Redrawn
  <2> QED BY <2>2, <2>3
<1>6. Shown(p) = {} /\ p.missed = {} BY <1>1 DEF OneCharacter, Rows
<1>7. OneCharacter(q)
  <2>1. Rows(q) = q.credits BY <1>2, <1>3 DEF Rows
  <2>2. Shown(q) = {} /\ q.missed = {} BY <1>2, <1>6 DEF Shown
  <2>3. \A i, j \in DOMAIN q.listOfCharacters :
          q.listOfCharacters[i] = q.listOfCharacters[j] => i = j
    BY <1>1, <1>2 DEF OneCharacter
  <2> QED BY <2>1, <2>2, <2>3 DEF OneCharacter
<1>8. q.inOrder <=> OwnCharacters(q)
  BY <1>2 DEF PageOK, OwnCharacters, RowCharacter
<1>9. /\ q.waiting \subseteq Asked[q.kind] /\ q.waiting \cap q.has = {}
      /\ q.id \in IdsOf(q.kind) /\ q.kind = "actor"
  BY <1>2 DEF PageOK
<1>10. Grown(p, q) BY <1>2 DEF Grown
<1> HIDE DEF q
<1>11. PageOK(q) BY <1>4, <1>5, <1>7, <1>8, <1>9 DEF PageOK
<1> QED BY <1>10, <1>11 DEF q

\* A tap on "See full bio" (showFullBio:) redraws the only section that reads it.
LEMMA WithBioToggledOK ==
  ASSUME NEW p, PageOK(p), p.kind = "actor"
  PROVE  PageOK(WithBioToggled(p)) /\ Grown(p, WithBioToggled(p))
<1> DEFINE q == WithBioToggled(p)
<1>1. p \in Page /\ Drawn(p) /\ OneCharacter(p) BY DEF PageOK
<1>2. /\ q.kind = p.kind /\ q.id = p.id
      /\ q.waiting = p.waiting /\ q.has = Toggled(p.has)
      /\ q.drawn = Redrawn(p, Toggled(p.has), {0}) /\ q.credits = p.credits
      /\ q.listOfCharacters = p.listOfCharacters
      /\ q.drawnCharacters = p.drawnCharacters
      /\ q.missed = p.missed /\ q.inOrder = p.inOrder
  BY <1>1 DEF WithBioToggled, Page, Reloads
<1>3. /\ Toggled(p.has) \in SUBSET Inputs
      /\ \A x : x # "isBioExtended" => (x \in Toggled(p.has) <=> x \in p.has)
  BY <1>1 DEF Toggled, Page, Inputs
<1>4. Redrawn(p, Toggled(p.has), {0}) \in [Sections -> SUBSET Inputs]
  <2>1. \A s \in Sections : Reads(p.kind, s) \cap Toggled(p.has) \in SUBSET Inputs
    BY <1>3
  <2> QED BY <1>1, <2>1 DEF Redrawn, Page
<1>5. q \in Page BY <1>1, <1>2, <1>3, <1>4 DEF WithBioToggled, Page
<1>6. Drawn(q)
  <2> SUFFICES ASSUME NEW s \in Sections
               PROVE  q.drawn[s] = Reads(p.kind, s) \cap q.has
    BY <1>1, <1>2 DEF Drawn
  <2>1. CASE s = 0 BY <1>2, <2>1 DEF Redrawn
  <2>2. CASE s # 0
    <3>1. "isBioExtended" \notin Reads(p.kind, s) BY <2>2 DEF Reads
    <3>2. Reads(p.kind, s) \cap Toggled(p.has) = Reads(p.kind, s) \cap p.has
      BY <1>3, <3>1
    <3> QED BY <1>1, <1>2, <2>2, <3>2 DEF Redrawn, Drawn
  <2> QED BY <2>1, <2>2
<1>7. OneCharacter(q)
  BY <1>1, <1>2, <1>3 DEF OneCharacter, Rows, Shown
<1>8. q.inOrder <=> OwnCharacters(q)
  BY <1>2 DEF PageOK, OwnCharacters, RowCharacter
<1>9. /\ q.waiting \subseteq Asked[q.kind] /\ q.waiting \cap q.has = {}
      /\ q.id \in IdsOf(q.kind) /\ q.kind = "actor"
  <2>1. "isBioExtended" \notin p.waiting BY <1>1 DEF Page, Parts
  <2> QED BY <1>2, <1>3, <2>1 DEF PageOK
<1>10. Grown(p, q) BY <1>2, <1>3 DEF Grown
<1> HIDE DEF q
<1>11. PageOK(q) BY <1>5, <1>6, <1>7, <1>8, <1>9 DEF PageOK
<1> QED BY <1>10, <1>11 DEF q

-----------------------------------------------------------------------------
(* Characters *)

\* One more character keeps the list in order exactly when the characters of
\* all earlier rows are there.
LEMMA AppendInOrder ==
  ASSUME NEW s \in Seq(Nat), NEW row \in Nat \ {0},
         \A i \in DOMAIN s : s[i] # row
  PROVE  (\A i \in DOMAIN Append(s, row) : Append(s, row)[i] = i)
           <=> /\ \A i \in DOMAIN s : s[i] = i
               /\ 1 .. row - 1 \subseteq {s[i] : i \in DOMAIN s}
<1> DEFINE t == Append(s, row)
           n == Len(s)
<1>1. /\ n \in Nat /\ DOMAIN s = 1..n /\ DOMAIN t = 1 .. n + 1
      /\ \A i \in 1..n : t[i] = s[i] /\ s[i] \in Nat
      /\ t[n + 1] = row
  OBVIOUS
<1>2. ASSUME \A i \in DOMAIN t : t[i] = i
      PROVE  /\ \A i \in DOMAIN s : s[i] = i
             /\ 1 .. row - 1 \subseteq {s[i] : i \in DOMAIN s}
  <2>1. row = n + 1 BY <1>1, <1>2
  <2>2. \A i \in 1..n : s[i] = i BY <1>1, <1>2
  <2> QED BY <1>1, <2>1, <2>2
<1>3. ASSUME \A i \in DOMAIN s : s[i] = i,
             1 .. row - 1 \subseteq {s[i] : i \in DOMAIN s}
      PROVE  \A i \in DOMAIN t : t[i] = i
  <2>1. row \notin 1..n BY <1>1, <1>3
  <2>2. \A i \in 1 .. row - 1 : i \in 1..n BY <1>1, <1>3
  <2>3. row <= n + 1
    <3>1. SUFFICES ASSUME row > n + 1 PROVE FALSE BY <1>1
    <3>2. n + 1 \in 1 .. row - 1 BY <1>1, <3>1
    <3> QED BY <1>1, <2>2, <3>2
  <2>4. row = n + 1 BY <1>1, <2>1, <2>3
  <2> QED BY <1>1, <1>3, <2>4
<1> QED BY <1>2, <1>3

\* Reading by row sees the list itself (cellForItemAtIndexPath:).
LEMMA OwnIsInOrder ==
  ASSUME NEW p, p.listOfCharacters \in Seq(Nat)
  PROVE  OwnCharacters(p)
           <=> \A i \in DOMAIN p.listOfCharacters : p.listOfCharacters[i] = i
BY DEF OwnCharacters, RowCharacter

\* A character arrives for a row that had none.
LEMMA WithCharacterOK ==
  ASSUME NEW p, PageOK(p), NEW row \in p.credits
  PROVE  PageOK(WithCharacter(p, row)) /\ Grown(p, WithCharacter(p, row))
<1> DEFINE q == WithCharacter(p, row)
           s == p.listOfCharacters
           t == Append(s, row)
<1>1. p \in Page /\ Drawn(p) /\ OneCharacter(p) /\ p.id \in IdsOf(p.kind)
  BY DEF PageOK
<1>2. /\ q.kind = p.kind /\ q.id = p.id /\ q.waiting = p.waiting
      /\ q.has = p.has /\ q.drawn = p.drawn /\ q.credits = p.credits \ {row}
      /\ q.listOfCharacters = t /\ q.drawnCharacters = Len(t) /\ q.missed = p.missed
      /\ q.inOrder = (p.inOrder /\ 1 .. row - 1 \subseteq Shown(p))
  BY <1>1 DEF WithCharacter, CharacterAdded, Page
<1>3. /\ s \in Seq(Nat) /\ row \in Nat /\ p.credits \in SUBSET Nat
      /\ p.inOrder \in BOOLEAN
  BY <1>1 DEF Page
<1>4. q \in Page
  <2>1. t \in Seq(Nat) /\ Len(t) \in Nat BY <1>3
  <2>2. (p.inOrder /\ 1 .. row - 1 \subseteq Shown(p)) \in BOOLEAN OBVIOUS
  <2> HIDE DEF t
  <2> QED BY <1>1, <1>3, <2>1, <2>2 DEF WithCharacter, CharacterAdded, Page, t
<1>5. row \in Rows(p) BY <1>1 DEF OneCharacter
<1>6. p.kind = "actor" /\ p.id \in Actors
  BY <1>5 DEF PageOK, Rows, IdsOf
<1>7. row \in Nat \ {0} BY <1>5, <1>6, DetailsAssumption DEF Rows
<1>8. \A i \in DOMAIN s : s[i] # row BY <1>1 DEF OneCharacter, Shown
<1>9. /\ DOMAIN t = DOMAIN s \cup {Len(s) + 1} /\ Len(s) + 1 \notin DOMAIN s
      /\ t[Len(s) + 1] = row /\ \A i \in DOMAIN s : t[i] = s[i]
  BY <1>3
<1>10. Shown(q) = Shown(p) \cup {row} BY <1>2, <1>9 DEF Shown
<1>11. OneCharacter(q)
  <2>1. Rows(q) = Rows(p) BY <1>2 DEF Rows
  <2>2. \A i, j \in DOMAIN t : t[i] = t[j] => i = j
    BY <1>1, <1>8, <1>9 DEF OneCharacter
  <2>3. row \notin p.missed /\ row \notin Shown(p) BY <1>1 DEF OneCharacter
  <2> QED BY <1>1, <1>2, <1>10, <2>1, <2>2, <2>3 DEF OneCharacter
<1>12. q.inOrder <=> OwnCharacters(q)
  <2>1. OwnCharacters(q) <=> \A i \in DOMAIN t : t[i] = i
    BY <1>2, <1>4, OwnIsInOrder DEF Page
  <2>2. OwnCharacters(p) <=> \A i \in DOMAIN s : s[i] = i
    BY <1>3, OwnIsInOrder
  <2>3. (\A i \in DOMAIN t : t[i] = i)
          <=> (\A i \in DOMAIN s : s[i] = i) /\ 1 .. row - 1 \subseteq Shown(p)
    BY <1>3, <1>7, <1>8, AppendInOrder DEF Shown
  <2> QED BY <1>2, <2>1, <2>2, <2>3 DEF PageOK
<1>13. Drawn(q) BY <1>1, <1>2 DEF Drawn
<1>14. /\ q.waiting \subseteq Asked[q.kind] /\ q.waiting \cap q.has = {}
       /\ q.id \in IdsOf(q.kind) /\ q.kind = "actor"
  BY <1>2, <1>6 DEF PageOK
<1>15. Grown(p, q) BY <1>2 DEF Grown
<1> HIDE DEF q
<1>16. PageOK(q) BY <1>4, <1>11, <1>12, <1>13, <1>14 DEF PageOK
<1> QED BY <1>15, <1>16 DEF q

\* A reply brings no character: the row is done with.
LEMMA WithoutCharacterOK ==
  ASSUME NEW p, PageOK(p), NEW row \in p.credits
  PROVE  PageOK(WithoutCharacter(p, row)) /\ Grown(p, WithoutCharacter(p, row))
<1> DEFINE q == WithoutCharacter(p, row)
<1>1. p \in Page /\ Drawn(p) /\ OneCharacter(p) BY DEF PageOK
<1>2. /\ q.kind = p.kind /\ q.id = p.id /\ q.waiting = p.waiting
      /\ q.has = p.has /\ q.drawn = p.drawn /\ q.credits = p.credits \ {row}
      /\ q.listOfCharacters = p.listOfCharacters
      /\ q.drawnCharacters = p.drawnCharacters
      /\ q.missed = p.missed \cup {row} /\ q.inOrder = p.inOrder
  BY <1>1 DEF WithoutCharacter, Page
<1>3. q \in Page BY <1>1 DEF WithoutCharacter, Page
<1>4. OneCharacter(q)
  <2>1. Rows(q) = Rows(p) /\ Shown(q) = Shown(p) BY <1>2 DEF Rows, Shown
  <2> QED BY <1>1, <1>2, <2>1 DEF OneCharacter
<1>5. q.inOrder <=> OwnCharacters(q)
  BY <1>2 DEF PageOK, OwnCharacters, RowCharacter
<1>6. Drawn(q) BY <1>1, <1>2 DEF Drawn
<1>7. /\ q.waiting \subseteq Asked[q.kind] /\ q.waiting \cap q.has = {}
      /\ q.kind # "actor" => "movies" \notin q.has
      /\ q.id \in IdsOf(q.kind)
  BY <1>2 DEF PageOK
<1>8. Grown(p, q) BY <1>2 DEF Grown
<1> HIDE DEF q
<1>9. PageOK(q) BY <1>3, <1>4, <1>5, <1>6, <1>7 DEF PageOK
<1> QED BY <1>8, <1>9 DEF q

-----------------------------------------------------------------------------
(* The stack of pages *)

\* A reply and a tap on "See full bio" change one page and none of its
\* neighbours (the controllers below stay alive, self is captured by the blocks).
LEMMA ChangedPageOK ==
  ASSUME IInv, NEW d \in DOMAIN pages, NEW q, PageOK(q), Grown(pages[d], q),
         pages' = [pages EXCEPT ![d] = q]
  PROVE  IInv'
<1>1. pages \in Seq(Page) /\ q \in Page /\ DOMAIN pages = 1..Len(pages)
  BY DEF IInv, PageOK
<1>2. /\ pages' \in Seq(Page) /\ Len(pages') = Len(pages)
      /\ DOMAIN pages' = DOMAIN pages
      /\ \A e \in DOMAIN pages : pages'[e] = IF e = d THEN q ELSE pages[e]
  BY <1>1
<1>3. \A e \in DOMAIN pages : PageOK(pages[e]) BY DEF IInv
<1>4. \A e \in DOMAIN pages' : PageOK(pages'[e]) BY <1>2, <1>3
<1>5. ASSUME NEW e \in DOMAIN pages, e > 1
      PROVE  OpenedFrom(pages'[e], pages'[e - 1])
  <2>1. e - 1 \in DOMAIN pages /\ e - 1 # e BY <1>1, <1>5
  <2>2. OpenedFrom(pages[e], pages[e - 1]) BY <1>5 DEF IInv, PagesFollowRows
  <2>3. CASE e = d
    <3>1. pages'[e] = q /\ pages'[e - 1] = pages[e - 1] BY <1>2, <2>1, <2>3
    <3>2. /\ q.kind = pages[e].kind /\ q.id = pages[e].id
          /\ q.kind \in {"gallery", "trailer"} => q.has = pages[e].has
      BY <2>3 DEF Grown
    <3>3. q.kind \in Kinds BY <1>1 DEF Page
    <3>4. OpenedFrom(q, pages[e - 1])
      BY <2>2, <3>2, <3>3 DEF OpenedFrom, Kinds
    <3> QED BY <3>1, <3>4
  <2>4. CASE e - 1 = d
    <3>1. pages'[e] = pages[e] /\ pages'[e - 1] = q BY <1>2, <2>1, <2>4
    <3>2. /\ q.kind = pages[d].kind /\ q.id = pages[d].id
          /\ pages[d].has \subseteq q.has \cup {"isBioExtended"}
          /\ q.kind = "movie" => pages[d].has \subseteq q.has
      BY DEF Grown
    <3>3. OpenedFrom(pages[e], q)
      <4> DEFINE p == pages[d]
                 page == pages[e]
      <4>1. OpenedFrom(page, p) BY <2>2, <2>4
      <4>2. page.kind \in Kinds BY <1>3 DEF PageOK, Page
      <4> HIDE DEF p, page
      <4>3. /\ q.kind = p.kind /\ q.id = p.id
            /\ p.has \subseteq q.has \cup {"isBioExtended"}
            /\ q.kind = "movie" => p.has \subseteq q.has
        BY <3>2 DEF p
      <4>4. ASSUME page.kind = "actor" PROVE OpenedFrom(page, q)
        BY <4>1, <4>3, <4>4 DEF OpenedFrom
      <4>5. ASSUME page.kind = "movie" PROVE OpenedFrom(page, q)
        BY <4>1, <4>3, <4>5 DEF OpenedFrom
      <4>6. ASSUME page.kind \in {"gallery", "trailer"} PROVE OpenedFrom(page, q)
        BY <4>1, <4>3, <4>6 DEF OpenedFrom
      <4>7. OpenedFrom(page, q) BY <4>2, <4>4, <4>5, <4>6 DEF Kinds
      <4> QED BY <4>7 DEF page
    <3> QED BY <3>1, <3>3
  <2>5. CASE e # d /\ e - 1 # d BY <1>2, <2>1, <2>2, <2>5
  <2> QED BY <2>3, <2>4, <2>5
<1>6. PagesFollowRows' BY <1>2, <1>5 DEF PagesFollowRows
<1> QED BY <1>2, <1>4, <1>6 DEF IInv

\* A page opened from the one on top (the prepareForSegue: methods).
LEMMA PushedPageOK ==
  ASSUME IInv, NEW q, PageOK(q), Push(q),
         Len(pages) > 0 => OpenedFrom(q, Top)
  PROVE  IInv'
<1>1. /\ pages \in Seq(Page) /\ q \in Page /\ Len(pages) \in Nat
      /\ pages' = Append(pages, q) /\ Len(pages) < MaxPages
      /\ \A e \in DOMAIN pages : PageOK(pages[e])
  BY DEF IInv, PageOK, Push
<1>2. /\ pages' \in Seq(Page) /\ Len(pages') = Len(pages) + 1
      /\ DOMAIN pages = 1..Len(pages) /\ DOMAIN pages' = 1 .. Len(pages) + 1
      /\ pages'[Len(pages) + 1] = q
      /\ \A e \in DOMAIN pages : pages'[e] = pages[e]
  BY <1>1
<1>3. Len(pages') <= MaxPages BY <1>1, <1>2, DetailsAssumption DEF DetailsAssumption
<1>4. \A e \in DOMAIN pages' : e \in DOMAIN pages \/ e = Len(pages) + 1
  BY <1>1, <1>2
<1>5. \A e \in DOMAIN pages' : PageOK(pages'[e]) BY <1>1, <1>2, <1>4
<1>6. ASSUME NEW e \in DOMAIN pages', e > 1
      PROVE  OpenedFrom(pages'[e], pages'[e - 1])
  <2>1. CASE e \in DOMAIN pages
    <3>1. e - 1 \in DOMAIN pages BY <1>1, <1>2, <1>6, <2>1
    <3> QED BY <1>2, <1>6, <2>1, <3>1 DEF IInv, PagesFollowRows
  <2>2. CASE e = Len(pages) + 1
    <3>1. /\ Len(pages) > 0 /\ e - 1 = Len(pages) /\ Len(pages) \in DOMAIN pages
      BY <1>1, <1>2, <1>6, <2>2
    <3>2. pages'[e - 1] = Top /\ pages'[e] = q BY <1>2, <2>2, <3>1 DEF Top
    <3> QED BY <3>1, <3>2
  <2> QED BY <1>4, <2>1, <2>2
<1>7. PagesFollowRows' BY <1>6 DEF PagesFollowRows
<1> QED BY <1>2, <1>3, <1>5, <1>7 DEF IInv

\* The page on top is one of them.
LEMMA TopOK ==
  ASSUME IInv, Len(pages) > 0
  PROVE  /\ Len(pages) \in DOMAIN pages
         /\ PageOK(Top) /\ Top \in Page /\ Top.id \in IdsOf(Top.kind)
<1>1. pages \in Seq(Page) /\ Len(pages) \in Nat /\ DOMAIN pages = 1..Len(pages)
  BY DEF IInv
<1>2. Len(pages) \in DOMAIN pages BY <1>1
<1>3. PageOK(Top) BY <1>2 DEF IInv, Top
<1> QED BY <1>2, <1>3 DEF PageOK

\* Going back leaves the pages below as they are.
LEMMA BackKeeps ==
  ASSUME IInv, Back
  PROVE  /\ pages' \in Seq(Page) /\ Len(pages') = Len(pages) - 1
         /\ DOMAIN pages' = 1 .. Len(pages) - 1 /\ DOMAIN pages = 1..Len(pages)
         /\ \A e \in 1 .. Len(pages) - 1 : pages'[e] = pages[e]
<1> DEFINE n == Len(pages) - 1
<1>1. /\ pages \in Seq(Page) /\ Len(pages) \in Nat \ {0}
      /\ pages' = SubSeq(pages, 1, Len(pages) - 1)
  BY DEF IInv, Back
<1>2. /\ n \in Nat /\ DOMAIN pages = 1 .. n + 1
      /\ \A e \in 1..n : pages[e] \in Page
  BY <1>1
<1> HIDE DEF n
<1>3. pages' = SubSeq(pages, 1, n) BY <1>1 DEF n
<1>4. /\ pages' \in Seq(Page)
      /\ Len(pages') = IF 1 <= n THEN n - 1 + 1 ELSE 0
      /\ \A e \in 1 .. n - 1 + 1 : pages'[e] = pages[1 + e - 1]
  BY <1>2, <1>3, SubSeqProperties
<1>5. Len(pages') = n /\ \A e \in 1..n : pages'[e] = pages[e]
  BY <1>2, <1>4
<1>6. DOMAIN pages' = 1..n BY <1>4, <1>5
<1> QED BY <1>1, <1>4, <1>5, <1>6 DEF n

LEMMA BackStep == ASSUME IInv, Back PROVE IInv'
<1>1. /\ Len(pages) \in Nat \ {0} /\ MaxPages \in Nat /\ Len(pages) <= MaxPages
  BY DetailsAssumption DEF IInv, Back, DetailsAssumption
<1>2. /\ pages' \in Seq(Page) /\ Len(pages') = Len(pages) - 1
      /\ DOMAIN pages' = 1 .. Len(pages) - 1 /\ DOMAIN pages = 1..Len(pages)
      /\ \A e \in 1 .. Len(pages) - 1 : pages'[e] = pages[e]
  BY BackKeeps
<1>3. \A e \in DOMAIN pages' : e \in DOMAIN pages /\ pages'[e] = pages[e]
  BY <1>1, <1>2
<1>4. \A e \in DOMAIN pages' : PageOK(pages'[e]) BY <1>3 DEF IInv
<1>5. ASSUME NEW e \in DOMAIN pages', e > 1
      PROVE  OpenedFrom(pages'[e], pages'[e - 1])
  <2>1. e - 1 \in DOMAIN pages' BY <1>1, <1>2, <1>5
  <2> QED BY <1>3, <1>5, <2>1 DEF IInv, PagesFollowRows
<1>6. PagesFollowRows' BY <1>5 DEF PagesFollowRows
<1> QED BY <1>1, <1>2, <1>4, <1>6 DEF IInv

\* Each tap that opens a page opens it from a page that fits.
LEMMA OpenStep ==
  ASSUME IInv, NEW kind \in Kinds, NEW id \in IdsOf(kind),
         NEW has \in SUBSET Inputs, has \cap Asked[kind] = {}, "movies" \notin has,
         kind = "actor" => has = {},
         Push(NewPage(kind, id, has)),
         Len(pages) > 0 =>
           \A q : q.kind = kind /\ q.id = id /\ q.has = has => OpenedFrom(q, Top)
  PROVE  IInv'
<1> DEFINE q == NewPage(kind, id, has)
<1>1. PageOK(q) /\ q.kind = kind /\ q.id = id /\ q.has = has BY NewPageOK
<1> HIDE DEF q
<1>2. Len(pages) > 0 => OpenedFrom(q, Top) BY <1>1
<1>3. Push(q) BY DEF q
<1> QED BY <1>1, <1>2, <1>3, PushedPageOK

LEMMA OpenMovieStep ==
  ASSUME IInv, NEW m \in Movies, OpenMovie(m) PROVE IInv'
<1>1. /\ pages = << >> /\ Push(NewPage("movie", m, {})) BY DEF OpenMovie
<1>2. ~(Len(pages) > 0) BY <1>1
<1>3. "movie" \in Kinds /\ m \in IdsOf("movie") BY DEF Kinds, IdsOf
<1> QED BY <1>1, <1>2, <1>3, OpenStep

LEMMA OpenActorStep ==
  ASSUME IInv, NEW a \in Actors, OpenActor(a) PROVE IInv'
<1>1. /\ On("movie") /\ "credits" \in Top.has /\ a \in Cast[Top.id]
      /\ Push(NewPage("actor", a, {}))
  BY DEF OpenActor
<1>2. "actor" \in Kinds /\ a \in IdsOf("actor") BY DEF Kinds, IdsOf
<1>3. \A q : q.kind = "actor" /\ q.id = a /\ q.has = {} => OpenedFrom(q, Top)
  BY <1>1 DEF On, OpenedFrom
<1> QED BY <1>1, <1>2, <1>3, OpenStep

LEMMA OpenActorsMovieStep ==
  ASSUME IInv, On("actor"), NEW row \in DOMAIN Filmography[Top.id],
         OpenActorsMovie(row)
  PROVE  IInv'
<1> DEFINE m == Filmography[Top.id][row]
<1>1. /\ Len(pages) > 0 /\ Top.kind = "actor" /\ "movies" \in Top.has
      /\ Push(NewPage("movie", m, {}))
  BY DEF OpenActorsMovie, On
<1>2. Top.id \in Actors BY <1>1, TopOK DEF IdsOf
<1>3. m \in Movies
  <2>1. Filmography[Top.id] \in Seq(Movies) BY <1>2, DetailsAssumption DEF DetailsAssumption
  <2> QED BY <2>1, ElementOfSeq
<1>4. "movie" \in Kinds /\ m \in IdsOf("movie") BY <1>3 DEF Kinds, IdsOf
<1>5. \A q : q.kind = "movie" /\ q.id = m /\ q.has = {} => OpenedFrom(q, Top)
  BY <1>1 DEF OpenedFrom
<1> HIDE DEF m
<1> QED BY <1>1, <1>4, <1>5, OpenStep

LEMMA OpenGalleryStep == ASSUME IInv, OpenGallery PROVE IInv'
<1> DEFINE h == Top.has \cap {"images", "movieDetails"}
<1>1. /\ Len(pages) > 0 /\ Top.kind = "movie"
      /\ Push(NewPage("gallery", Top.id, h))
  BY DEF OpenGallery, On
<1>2. Top \in Page /\ Top.id \in Movies BY <1>1, TopOK DEF IdsOf
<1>3. /\ "gallery" \in Kinds /\ Top.id \in IdsOf("gallery")
      /\ h \in SUBSET Inputs /\ h \cap Asked["gallery"] = {} /\ "movies" \notin h
  BY <1>2 DEF Kinds, IdsOf, Page, Asked
<1>4. \A q : q.kind = "gallery" /\ q.id = Top.id /\ q.has = h => OpenedFrom(q, Top)
  BY <1>1 DEF OpenedFrom
<1> HIDE DEF h
<1> QED BY <1>1, <1>3, <1>4, OpenStep

LEMMA OpenTrailerStep == ASSUME IInv, OpenTrailer PROVE IInv'
<1> DEFINE h == Top.has \cap {"movieDetails"}
<1>1. /\ Len(pages) > 0 /\ Top.kind = "movie"
      /\ Push(NewPage("trailer", Top.id, h))
  BY DEF OpenTrailer, On
<1>2. Top \in Page /\ Top.id \in Movies BY <1>1, TopOK DEF IdsOf
<1>3. /\ "trailer" \in Kinds /\ Top.id \in IdsOf("trailer")
      /\ h \in SUBSET Inputs /\ h \cap Asked["trailer"] = {} /\ "movies" \notin h
  BY <1>2 DEF Kinds, IdsOf, Page, Asked
<1>4. \A q : q.kind = "trailer" /\ q.id = Top.id /\ q.has = h => OpenedFrom(q, Top)
  BY <1>1 DEF OpenedFrom
<1> HIDE DEF h
<1> QED BY <1>1, <1>3, <1>4, OpenStep

LEMMA ShowFullBioStep == ASSUME IInv, ShowFullBio PROVE IInv'
<1> DEFINE d == Len(pages)
           q == WithBioToggled(pages[d])
<1>1. /\ Len(pages) > 0 /\ pages[d].kind = "actor"
      /\ pages' = [pages EXCEPT ![d] = q]
  BY DEF ShowFullBio, On, Top
<1>2. d \in DOMAIN pages /\ PageOK(pages[d]) BY <1>1, TopOK DEF Top
<1>3. PageOK(q) /\ Grown(pages[d], q) BY <1>1, <1>2, WithBioToggledOK
<1> HIDE DEF d, q
<1> QED BY <1>1, <1>2, <1>3, ChangedPageOK

\* What each reply makes of its page is a page that grew.
LEMMA AnswerStep ==
  ASSUME IInv, NEW d \in DOMAIN pages, Answer(d) PROVE IInv'
<1> DEFINE p == pages[d]
<1>1. PageOK(p) BY DEF IInv
<1>2. SUFFICES \E q : PageOK(q) /\ Grown(p, q) /\ pages' = [pages EXCEPT ![d] = q]
  BY ChangedPageOK
<1>3. ASSUME NEW part \in Parts, PartArrives(d, part)
      PROVE  \E q : PageOK(q) /\ Grown(p, q) /\ pages' = [pages EXCEPT ![d] = q]
  <2>1. PageOK(WithPart(p, part)) /\ Grown(p, WithPart(p, part))
    BY <1>1, <1>3, WithPartOK DEF PartArrives
  <2> QED BY <1>3, <2>1 DEF PartArrives
<1>4. ASSUME NEW part \in Parts, PartFails(d, part)
      PROVE  \E q : PageOK(q) /\ Grown(p, q) /\ pages' = [pages EXCEPT ![d] = q]
  <2>1. PageOK(WithoutPart(p, part)) /\ Grown(p, WithoutPart(p, part))
    BY <1>1, WithoutPartOK
  <2> QED BY <1>4, <2>1 DEF PartFails
<1>5. ASSUME MoviesArrive(d)
      PROVE  \E q : PageOK(q) /\ Grown(p, q) /\ pages' = [pages EXCEPT ![d] = q]
  <2>1. "movies" \in p.waiting BY <1>5 DEF MoviesArrive
  <2>2. p.kind = "actor"
    <3>1. p.kind \in Kinds /\ "movies" \in Asked[p.kind] BY <1>1, <2>1 DEF PageOK, Page
    <3> QED BY <3>1 DEF Asked, Kinds
  <2>3. PageOK(WithMovies(p)) /\ Grown(p, WithMovies(p))
    BY <1>1, <2>1, <2>2, WithMoviesOK
  <2>4. PageOK(WithoutPart(p, "movies")) /\ Grown(p, WithoutPart(p, "movies"))
    BY <1>1, WithoutPartOK
  <2> QED BY <1>5, <2>3, <2>4 DEF MoviesArrive
<1>6. ASSUME NEW row \in p.credits, CharacterArrives(d, row)
      PROVE  \E q : PageOK(q) /\ Grown(p, q) /\ pages' = [pages EXCEPT ![d] = q]
  <2>1. PageOK(WithCharacter(p, row)) /\ Grown(p, WithCharacter(p, row))
    BY <1>1, <1>6, WithCharacterOK
  <2> QED BY <1>6, <2>1 DEF CharacterArrives
<1>7. ASSUME NEW row \in p.credits, CharacterMissed(d, row)
      PROVE  \E q : PageOK(q) /\ Grown(p, q) /\ pages' = [pages EXCEPT ![d] = q]
  <2>1. PageOK(WithoutCharacter(p, row)) /\ Grown(p, WithoutCharacter(p, row))
    BY <1>1, <1>7, WithoutCharacterOK
  <2> QED BY <1>7, <2>1 DEF CharacterMissed
<1> QED BY <1>3, <1>4, <1>5, <1>6, <1>7 DEF Answer

\* The invariant is inductive: each tap and each reply keeps it.
LEMMA InitIInv == ASSUME Init PROVE IInv
<1>1. /\ pages = << >> /\ MaxPages \in Nat
  BY DetailsAssumption DEF Init, DetailsAssumption
<1>2. pages \in Seq(Page) /\ Len(pages) = 0 /\ DOMAIN pages = {} BY <1>1
<1> QED BY <1>1, <1>2 DEF IInv, PagesFollowRows

LEMMA StepIInv == ASSUME IInv, [Next]_pages PROVE IInv'
<1>1. CASE UNCHANGED pages
  <2>1. pages' = pages BY <1>1
  <2> QED BY <2>1 DEF IInv, PagesFollowRows
<1>2. CASE User
  BY <1>2, OpenMovieStep, OpenActorStep, OpenActorsMovieStep, OpenGalleryStep,
     OpenTrailerStep, BackStep, ShowFullBioStep DEF User
<1>3. CASE \E d \in DOMAIN pages : Answer(d) BY <1>3, AnswerStep
<1> QED BY <1>1, <1>2, <1>3 DEF Next

LEMMA AlwaysIInv == Spec => []IInv
<1> QED BY InitIInv, StepIInv, PTL DEF Spec

-----------------------------------------------------------------------------
(* What it means for the user *)

\* Every page shows a movie or an actor, and no more pages lie over each other
\* than the bound allows (the pushes of the segues).
THEOREM TypeCorrect == Spec => []TypeOK
<1>1. ASSUME IInv PROVE TypeOK
  <2>1. ASSUME NEW d \in DOMAIN pages
        PROVE  pages[d].id \in IF pages[d].kind = "actor" THEN Actors ELSE Movies
    <3>1. PageOK(pages[d]) BY <1>1 DEF IInv
    <3> QED BY <3>1 DEF PageOK, IdsOf
  <2> QED BY <1>1, <2>1 DEF IInv, TypeOK
<1> QED BY <1>1, AlwaysIInv, PTL

\* Whatever the order of replies, failures and taps, no section of a page lacks
\* what has arrived for it: every block reloads the sections that read it, that
\* of a character the movies of the actor.
THEOREM PartsAreDrawn == Spec => []PartsDrawn
<1>1. ASSUME IInv PROVE PartsDrawn BY <1>1 DEF IInv, PageOK, PartsDrawn
<1> QED BY <1>1, AlwaysIInv, PTL

\* The characters of an actor's page stand under their own movies exactly when
\* their replies came in the order of the movies, without a gap.
THEOREM CharactersNeedOrder == Spec => []CharactersInOrder
<1>1. ASSUME IInv PROVE CharactersInOrder
  BY <1>1 DEF IInv, PageOK, CharactersInOrder
<1> QED BY <1>1, AlwaysIInv, PTL

\* The nested requests lose no movie and give none two characters.
THEOREM OneCharacterPerMovie == Spec => []OneCharacterEach
<1>1. ASSUME IInv PROVE OneCharacterEach
  BY <1>1 DEF IInv, PageOK, OneCharacterEach
<1> QED BY <1>1, AlwaysIInv, PTL

\* Each page lies over one that it can be opened from, late replies to covered
\* pages notwithstanding.
THEOREM PagesLieOverTheirRows == Spec => []PagesFollowRows
<1>1. ASSUME IInv PROVE PagesFollowRows BY <1>1 DEF IInv
<1> QED BY <1>1, AlwaysIInv, PTL

-----------------------------------------------------------------------------
(* A page never goes back *)

LEMMA SamePageOnward == ASSUME NEW p PROVE Onward(p, p)
BY DEF Onward

\* What a reply, a failure or a tap on "See full bio" makes of a page.
LEMMA PartOnward ==
  ASSUME NEW p \in Page, NEW part \in Parts
  PROVE  Onward(p, WithPart(p, part)) /\ Onward(p, WithoutPart(p, part))
BY DEF Page, Onward, WithPart, WithoutPart

LEMMA MoviesOnward ==
  ASSUME NEW p \in Page, "movies" \in p.waiting
  PROVE  Onward(p, WithMovies(p))
BY DEF Page, Onward, WithMovies

LEMMA BioOnward ==
  ASSUME NEW p \in Page
  PROVE  Onward(p, WithBioToggled(p))
<1>1. p.has \cap Parts \subseteq Toggled(p.has) BY DEF Toggled, Parts
<1> QED BY <1>1 DEF Page, Onward, WithBioToggled

LEMMA CharacterOnward ==
  ASSUME NEW p \in Page, NEW row \in p.credits
  PROVE  Onward(p, WithCharacter(p, row)) /\ Onward(p, WithoutCharacter(p, row))
<1>1. p.listOfCharacters \in Seq(Nat) /\ row \in Nat BY DEF Page
<1>2. \A i \in DOMAIN p.listOfCharacters :
        /\ i \in DOMAIN CharacterAdded(p, row)
        /\ CharacterAdded(p, row)[i] = p.listOfCharacters[i]
  BY <1>1, AppendProperties DEF CharacterAdded
<1>3. Onward(p, WithCharacter(p, row)) BY <1>2 DEF Page, Onward, WithCharacter
<1>4. Onward(p, WithoutCharacter(p, row)) BY DEF Page, Onward, WithoutCharacter
<1> QED BY <1>3, <1>4

\* A step that changes one page.
LEMMA ChangedOnward ==
  ASSUME IInv, NEW d \in DOMAIN pages, NEW q, Onward(pages[d], q),
         pages' = [pages EXCEPT ![d] = q],
         NEW e \in DOMAIN pages
  PROVE  Onward(pages[e], pages'[e])
<1>1. pages'[e] = IF e = d THEN q ELSE pages[e] BY DEF IInv
<1> QED BY <1>1, SamePageOnward

LEMMA StepOnward ==
  ASSUME IInv, Next, NEW e \in DOMAIN pages, e \in DOMAIN pages'
  PROVE  Onward(pages[e], pages'[e])
<1>p. pages \in Seq(Page) /\ \A d \in DOMAIN pages : pages[d] \in Page
  BY DEF IInv
<1>1. ASSUME NEW q, Push(q) PROVE Onward(pages[e], pages'[e])
  <2>1. pages'[e] = pages[e] BY <1>p, <1>1 DEF Push
  <2> QED BY <2>1, SamePageOnward
<1>2. CASE Back
  <2>1. pages'[e] = pages[e] BY <1>2, BackKeeps
  <2> QED BY <2>1, SamePageOnward
<1>3. CASE ShowFullBio
  <2>1. Len(pages) \in DOMAIN pages BY <1>p, <1>3 DEF ShowFullBio, On
  <2> QED BY <1>p, <1>3, <2>1, BioOnward, ChangedOnward DEF ShowFullBio
<1>4. ASSUME NEW d \in DOMAIN pages, NEW part \in Parts,
             PartArrives(d, part) \/ PartFails(d, part)
      PROVE  Onward(pages[e], pages'[e])
  <2>1. Onward(pages[d], WithPart(pages[d], part))
        /\ Onward(pages[d], WithoutPart(pages[d], part))
    BY <1>p, PartOnward
  <2> QED BY <1>4, <2>1, ChangedOnward DEF PartArrives, PartFails
<1>5. ASSUME NEW d \in DOMAIN pages, MoviesArrive(d)
      PROVE  Onward(pages[e], pages'[e])
  <2>1. Onward(pages[d], WithMovies(pages[d]))
    BY <1>p, <1>5, MoviesOnward DEF MoviesArrive
  <2>2. Onward(pages[d], WithoutPart(pages[d], "movies"))
    BY <1>p, PartOnward DEF Parts
  <2> QED BY <1>5, <2>1, <2>2, ChangedOnward DEF MoviesArrive
<1>6. ASSUME NEW d \in DOMAIN pages, NEW row \in pages[d].credits,
             CharacterArrives(d, row) \/ CharacterMissed(d, row)
      PROVE  Onward(pages[e], pages'[e])
  <2>1. Onward(pages[d], WithCharacter(pages[d], row))
        /\ Onward(pages[d], WithoutCharacter(pages[d], row))
    BY <1>p, CharacterOnward
  <2> QED BY <1>6, <2>1, ChangedOnward DEF CharacterArrives, CharacterMissed
<1> QED BY <1>1, <1>2, <1>3, <1>4, <1>5, <1>6
        DEF Next, User, Answer, OpenMovie, OpenActor, OpenActorsMovie,
            OpenGallery, OpenTrailer

\* No page sends a request twice, loses what has come or moves a character,
\* whatever lies over it (the blocks of viewDidLoad capture their controller).
THEOREM PagesOnlyGoOnward == Spec => PagesGoOnward
<1> DEFINE AllOnward ==
      \A d \in DOMAIN pages \cap DOMAIN pages' : Onward(pages[d], pages'[d])
<1>1. IInv /\ [Next]_pages => [AllOnward]_pages BY StepOnward
<1>2. Spec => [][AllOnward]_pages
  <2> HIDE DEF AllOnward
  <2> QED BY <1>1, AlwaysIInv, PTL DEF Spec
<1> QED BY <1>2 DEF PagesGoOnward
=============================================================================
