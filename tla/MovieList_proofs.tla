--------------------------- MODULE MovieList_proofs ---------------------------
(***************************************************************************)
(* What the main screen keeps to for lists of any length and any number of *)
(* requests under way.                                                     *)
(***************************************************************************)
EXTENDS MovieGrid, FiniteSetTheorems, FunctionTheorems, TLAPS

\* Undisturbed, there is one list under way and it is the checked one's, or
\* none and the checked one is shown.
Asked(k) ==
  /\ asks[k] = 1 /\ OptionOf(k) = numberOfOption
  /\ \A j \in Requests \ {k} : asks[j] = 0

OneList ==
  undisturbed =>
    \/ \E k \in Requests : Asked(k)
    \/ ListsQuiet /\ movieList \in Requests /\ OptionOf(movieList) = numberOfOption

\* Alone, no genre is under way before the list is there, and afterwards those
\* of its own movies only, once each.
NoOtherGenres ==
  alone =>
    /\ undisturbed
    /\ ListsQuiet \/ GenresQuiet
    /\ \A k \in Requests, i \in Rows :
         details[k][i] # 0 => k = movieList /\ details[k][i] = 1

\* The genres of the list that is on its way start from none.
CleanStart ==
  \A k \in Requests :
    alone /\ asks[k] > 0 /\ k # "popular" => listOfGenres = << >> /\ inOrder

\* Alone, the first genre of Most popular that comes drops all others.
OneKept ==
  alone /\ ListsQuiet /\ movieList = "popular" =>
    Len(listOfGenres) <= 1 \/ \A i \in Rows : details["popular"][i] # 0

\* Alone, the genres stand in the order of their movies if and only if none came
\* before that of an earlier one.
GenresInOrder ==
  alone /\ ListsQuiet /\ movieList # "popular" =>
    (inOrder <=> \A i \in DOMAIN listOfGenres :
                   listOfGenres[i] = <<OptionOf(movieList), i>>)

IInv ==
  /\ TypeOK
  /\ GridFollowsPanel
  /\ TitleLags
  /\ OneList
  /\ NoOtherGenres
  /\ CleanStart
  /\ OneKept
  /\ GenresOfShownList
  /\ GenresInOrder

\* The variables without the panel's, for the steps that move only that.
Lists == <<numberOfOption, movieList, listOfGenres, asks, details, historyVars>>

LEMMA OptionOfType ==
  ASSUME NEW k \in Requests
  PROVE  /\ OptionOf(k) \in Options
         /\ OptionOf(k) = "popular" <=> k \in {"first", "popular"}
         /\ k \in Options => OptionOf(k) = k
BY DEF OptionOf, Requests, Options

LEMMA NoDetailsType ==
  /\ NoDetails \in [Requests -> [Rows -> Nat]]
  /\ \A k \in Requests, i \in Rows : NoDetails[k][i] = 0
BY DEF NoDetails

LEMMA FreshIInv ==
  ASSUME title = "popular", numberOfOption = "popular", hidden = TRUE, lowered = 0,
         movieList = None, listOfGenres = << >>,
         asks = [k \in Requests |-> IF k = "first" THEN 1 ELSE 0],
         details = NoDetails, undisturbed = TRUE, alone = TRUE, inOrder = TRUE
  PROVE  IInv
<1> USE MovieListAssumption, NoDetailsType
<1>1. TypeOK BY DEF TypeOK, Options
<1>2. GridFollowsPanel /\ TitleLags BY DEF GridFollowsPanel, TitleLags
<1>3. Asked("first") BY DEF Asked, OptionOf, Requests
<1>4. OneList BY <1>3 DEF OneList, Requests
<1>5. NoOtherGenres BY DEF NoOtherGenres, GenresQuiet
<1>6. CleanStart BY DEF CleanStart
<1>7. ~ListsQuiet
  <2>1. "first" \in Requests BY DEF Requests
  <2>2. asks["first"] = 1 BY <2>1
  <2> QED BY <2>1, <2>2 DEF ListsQuiet
<1>8. GenresOfShownList /\ GenresInOrder /\ OneKept
  BY <1>7 DEF GenresOfShownList, GenresInOrder, OneKept
<1> QED BY <1>1, <1>2, <1>4, <1>5, <1>6, <1>8 DEF IInv

LEMMA InitIInv == Init => IInv
BY FreshIInv DEF Init

\* A step that leaves the lists alone keeps what is said about them.
LEMMA ListsKept ==
  ASSUME IInv, UNCHANGED Lists
  PROVE  /\ OneList' /\ NoOtherGenres' /\ CleanStart' /\ OneKept'
         /\ GenresOfShownList' /\ GenresInOrder'
<1> USE DEF IInv, Lists, historyVars, ListsQuiet, GenresQuiet
<1>1. OneList' /\ NoOtherGenres' /\ CleanStart'
  BY DEF OneList, NoOtherGenres, CleanStart, Asked
<1>2. OneKept' /\ GenresInOrder'
  BY DEF OneKept, GenresInOrder
<1>3. GenresOfShownList'
  BY DEF GenresOfShownList, Genres
<1> QED
  BY <1>1, <1>2, <1>3

LEMMA TapSortedByKeeps == ASSUME IInv, TapSortedBy PROVE IInv'
<1>1. UNCHANGED Lists BY DEF TapSortedBy, Lists
<1>2. TypeOK' BY DEF IInv, TypeOK, TapSortedBy, historyVars
<1>3. GridFollowsPanel'
  <2>1. CASE hidden
    <3>1. hidden' = FALSE BY <2>1 DEF TapSortedBy
    <3>2. lowered = 0 /\ lowered' = lowered + 1
      BY <2>1 DEF IInv, GridFollowsPanel, TapSortedBy
    <3> QED BY <3>1, <3>2 DEF GridFollowsPanel
  <2>2. CASE ~hidden
    <3>1. hidden' = TRUE BY <2>2 DEF TapSortedBy
    <3>2. lowered = 1 /\ lowered' = lowered - 1
      BY <2>2 DEF IInv, GridFollowsPanel, TapSortedBy
    <3> QED BY <3>1, <3>2 DEF GridFollowsPanel
  <2> QED BY <2>1, <2>2
<1>4. TitleLags' BY DEF IInv, TitleLags, TapSortedBy
<1> QED BY <1>1, <1>2, <1>3, <1>4, ListsKept DEF IInv

LEMMA TapOptionKeeps ==
  ASSUME IInv, NEW option \in Options, TapOption(option)
  PROVE  IInv'
<1> USE MovieListAssumption, NoDetailsType
<1>t. TypeOK BY DEF IInv
<1>r. option \in Requests /\ OptionOf(option) = option
  BY OptionOfType DEF Requests
<1>1. /\ title' = TitleAfter(option) /\ numberOfOption' = option /\ ~hidden
      /\ UNCHANGED <<movieList, details>>
  BY DEF TapOption
<1>2. TitleLags' /\ title' \in Options
  BY <1>1 DEF TitleLags, TitleAfter, Options
<1>3. GridFollowsPanel' /\ lowered' \in Int /\ hidden' \in BOOLEAN
  <2>1. CASE title = option
    BY <2>1, <1>1 DEF TapOption, ClosePanel, IInv, TypeOK, GridFollowsPanel
  <2>2. CASE title # option
    <3>1. hidden' = ~hidden /\ lowered' = lowered - 1
      BY <2>2 DEF TapOption, ClosePanel
    <3>2. lowered = 1 BY <1>1 DEF IInv, GridFollowsPanel
    <3>3. hidden' = TRUE BY <1>1, <3>1
    <3>4. lowered' = 0 BY <3>1, <3>2
    <3> QED BY <3>3, <3>4 DEF GridFollowsPanel
  <2> QED BY <2>1, <2>2
<1>4. CASE numberOfOption # option
  <2>1. Ask(option) BY <1>4 DEF TapOption
  <2>2. /\ asks' = [asks EXCEPT ![option] = @ + 1]
        /\ listOfGenres' = IF option = "popular" THEN listOfGenres ELSE << >>
        /\ undisturbed' = ListsQuiet
        /\ alone' = (ListsQuiet /\ GenresQuiet)
        /\ inOrder' = TRUE
    BY <2>1 DEF Ask
  <2>3. TypeOK'
    BY <1>t, <1>1, <1>2, <1>3, <1>r, <2>2 DEF TypeOK, ListsQuiet, GenresQuiet
  <2>4. \A j \in Requests : asks'[j] = IF j = option THEN asks[j] + 1 ELSE asks[j]
    BY <1>t, <2>2 DEF TypeOK
  <2>5. ListsQuiet => Asked(option)'
    BY <1>1, <1>r, <2>4 DEF ListsQuiet, Asked, OptionOf
  <2>6. OneList' BY <2>2, <2>5, <1>r DEF OneList
  <2>7. NoOtherGenres' BY <1>1, <2>2 DEF NoOtherGenres, GenresQuiet
  <2>8. CleanStart'
    <3> SUFFICES ASSUME NEW k \in Requests, alone', asks'[k] > 0, k # "popular"
                 PROVE  listOfGenres' = << >> /\ inOrder'
      BY DEF CleanStart
    <3>1. ListsQuiet BY <2>2
    <3>2. k = option BY <2>4, <3>1 DEF ListsQuiet
    <3> QED BY <2>2, <3>2
  <2>9. ~ListsQuiet'
    <3>1. asks'[option] # 0 BY <1>t, <1>r, <2>4 DEF TypeOK
    <3> QED BY <1>r, <3>1 DEF ListsQuiet
  <2>10. GenresOfShownList' /\ GenresInOrder' /\ OneKept'
    BY <2>9 DEF GenresOfShownList, GenresInOrder, OneKept
  <2> QED BY <1>2, <1>3, <2>3, <2>6, <2>7, <2>8, <2>10 DEF IInv
<1>5. CASE numberOfOption = option
  <2>1. UNCHANGED Lists BY <1>1, <1>5 DEF TapOption, Lists, Ask
  <2>2. TypeOK' BY <1>t, <1>2, <1>3, <2>1 DEF TypeOK, Lists, historyVars
  <2> QED BY <1>2, <1>3, <2>1, <2>2, ListsKept DEF IInv
<1> QED BY <1>4, <1>5

\* A list under way while undisturbed is the one that was asked for.
LEMMA TheList ==
  ASSUME IInv, NEW k \in Requests, asks[k] > 0, undisturbed
  PROVE  Asked(k)
<1>1. ~ListsQuiet BY DEF ListsQuiet
<1>2. PICK j \in Requests : Asked(j) BY <1>1 DEF IInv, OneList
<1>3. j = k BY <1>2 DEF Asked
<1> QED BY <1>2, <1>3

LEMMA ListReplyKeeps ==
  ASSUME IInv, NEW k \in Requests, ListReply(k)
  PROVE  IInv'
<1> USE MovieListAssumption, NoDetailsType
<1>t. TypeOK BY DEF IInv
<1>1. /\ asks[k] > 0 /\ asks' = [asks EXCEPT ![k] = @ - 1] /\ movieList' = k
      /\ details' = [details EXCEPT ![k] = [i \in Rows |-> @[i] + 1]]
      /\ UNCHANGED <<panelVars, listOfGenres, historyVars>>
  BY DEF ListReply
<1>2. UNCHANGED <<title, numberOfOption, hidden, lowered, undisturbed, alone, inOrder>>
  BY <1>1 DEF panelVars, historyVars
<1>3. details' = [details EXCEPT ![k] = [i \in Rows |-> details[k][i] + 1]]
  BY <1>1
<1>4. \A j \in Requests, i \in Rows :
        details'[j][i] = IF j = k THEN details[j][i] + 1 ELSE details[j][i]
  BY <1>t, <1>3 DEF TypeOK
<1>5. \A j \in Requests : asks'[j] = IF j = k THEN asks[j] - 1 ELSE asks[j]
  BY <1>t, <1>1 DEF TypeOK
<1>6. TypeOK'
  <2>1. [i \in Rows |-> details[k][i] + 1] \in [Rows -> Nat] BY <1>t DEF TypeOK
  <2>2. details' \in [Requests -> [Rows -> Nat]] BY <1>t, <1>3, <2>1 DEF TypeOK
  <2>3. asks[k] - 1 \in Nat BY <1>t, <1>1 DEF TypeOK
  <2>4. asks' \in [Requests -> Nat] BY <1>t, <1>1, <2>3 DEF TypeOK
  <2> QED BY <1>t, <1>1, <1>2, <2>2, <2>4 DEF TypeOK
<1>7. GridFollowsPanel' /\ TitleLags' BY <1>2 DEF IInv, GridFollowsPanel, TitleLags
<1>8. undisturbed => Asked(k) BY <1>1, TheList
<1>9. undisturbed => ListsQuiet' BY <1>5, <1>8 DEF Asked, ListsQuiet
<1>10. OneList' BY <1>1, <1>2, <1>8, <1>9 DEF OneList, Asked
<1>11. alone => undisturbed /\ GenresQuiet
  <2>1. ~ListsQuiet BY <1>1 DEF ListsQuiet
  <2> QED BY <2>1 DEF IInv, NoOtherGenres
<1>12. alone => \A j \in Requests, i \in Rows :
                  details'[j][i] = IF j = k THEN 1 ELSE 0
  BY <1>4, <1>11 DEF GenresQuiet
<1>13. NoOtherGenres' BY <1>1, <1>2, <1>9, <1>11, <1>12 DEF NoOtherGenres
<1>14. CleanStart' BY <1>2, <1>9, <1>11 DEF CleanStart, ListsQuiet
<1>15. ASSUME alone, k # "popular"
       PROVE  listOfGenres' = << >> /\ inOrder'
  BY <1>1, <1>2, <1>15 DEF IInv, CleanStart
<1>16. GenresOfShownList'
  <2> SUFFICES ASSUME alone, k # "popular"
               PROVE  /\ \A a, b \in DOMAIN listOfGenres' :
                           listOfGenres'[a] = listOfGenres'[b] => a = b
                      /\ Genres' = {movie \in Movies \ NoGenre :
                                      /\ movie[1] = OptionOf(k)
                                      /\ details'[k][movie[2]] = 0}
    BY <1>1, <1>2 DEF GenresOfShownList
  <2>1. DOMAIN listOfGenres' = {} BY <1>15
  <2>2. \A movie \in Movies : movie[2] \in Rows BY DEF Movies
  <2>3. \A movie \in Movies : details'[k][movie[2]] # 0 BY <1>12, <2>2
  <2> QED BY <2>1, <2>3 DEF Genres
<1>17. GenresInOrder'
  <2> SUFFICES ASSUME alone, k # "popular"
               PROVE  inOrder' /\ DOMAIN listOfGenres' = {}
    BY <1>1, <1>2 DEF GenresInOrder
  <2> QED BY <1>15
<1>18. OneKept'
  BY <1>1, <1>2, <1>12 DEF OneKept
<1> QED BY <1>6, <1>7, <1>10, <1>13, <1>14, <1>16, <1>17, <1>18 DEF IInv

LEMMA ListFailsKeeps ==
  ASSUME IInv, NEW k \in Requests, ListFails(k)
  PROVE  IInv'
<1>1. /\ asks[k] > 0 /\ asks' = [asks EXCEPT ![k] = @ - 1]
      /\ undisturbed' = FALSE /\ alone' = FALSE
      /\ UNCHANGED <<title, numberOfOption, hidden, lowered, movieList,
                     listOfGenres, details, inOrder>>
  BY DEF ListFails, panelVars
<1>2. asks[k] - 1 \in Nat BY <1>1 DEF IInv, TypeOK
<1>3. TypeOK' BY <1>1, <1>2 DEF IInv, TypeOK
<1>4. GridFollowsPanel' /\ TitleLags' BY <1>1 DEF IInv, GridFollowsPanel, TitleLags
<1>5. /\ OneList' /\ NoOtherGenres' /\ CleanStart' /\ OneKept'
      /\ GenresOfShownList' /\ GenresInOrder'
  BY <1>1 DEF OneList, NoOtherGenres, CleanStart, OneKept, GenresOfShownList,
              GenresInOrder
<1> QED BY <1>3, <1>4, <1>5 DEF IInv

\* One genre more: there is one of each movie still, and they are in order
\* exactly when they were and those of all earlier movies are there.
LEMMA AppendGenre ==
  ASSUME NEW list \in Seq(Movies), NEW option \in Options, NEW pos \in Rows,
         \A i \in DOMAIN list : list[i] # <<option, pos>>,
         \A i, j \in DOMAIN list : list[i] = list[j] => i = j
  PROVE  LET more == Append(list, <<option, pos>>)
             in(l) == {l[i] : i \in DOMAIN l}
             own(l) == \A i \in DOMAIN l : l[i] = <<option, i>>
         IN  /\ \A i, j \in DOMAIN more : more[i] = more[j] => i = j
             /\ in(more) = in(list) \cup {<<option, pos>>}
             /\ own(more) <=> own(list) /\ {option} \X (1 .. pos - 1) \subseteq in(list)
<1> DEFINE more == Append(list, <<option, pos>>)
           in(l) == {l[i] : i \in DOMAIN l}
           own(l) == \A i \in DOMAIN l : l[i] = <<option, i>>
           n == Len(list)
<1>1. /\ n \in Nat /\ DOMAIN list = 1..n /\ DOMAIN more = 1 .. n + 1
      /\ \A i \in 1..n : more[i] = list[i]
      /\ more[n + 1] = <<option, pos>>
  OBVIOUS
<1> HIDE DEF more
<1>2. pos \in Nat \ {0} BY MovieListAssumption DEF Rows
<1>3. \A i, j \in DOMAIN more : more[i] = more[j] => i = j
  <2> SUFFICES ASSUME NEW i \in 1 .. n + 1, NEW j \in 1 .. n + 1, more[i] = more[j], i # j
               PROVE  FALSE
    BY <1>1
  <2>1. CASE i \in 1..n /\ j \in 1..n BY <1>1, <2>1
  <2>2. CASE i = n + 1 /\ j \in 1..n BY <1>1, <2>2
  <2>3. CASE j = n + 1 /\ i \in 1..n BY <1>1, <2>3
  <2> QED BY <1>1, <2>1, <2>2, <2>3
<1>4. in(more) = in(list) \cup {<<option, pos>>}
  <2>1. \A x \in in(more) : x \in in(list) \cup {<<option, pos>>}
    <3> SUFFICES ASSUME NEW i \in 1 .. n + 1
                 PROVE  more[i] \in in(list) \cup {<<option, pos>>}
      BY <1>1
    <3>1. CASE i = n + 1 BY <1>1, <3>1
    <3>2. CASE i # n + 1
      <4>1. i \in 1..n BY <1>1, <3>2
      <4> QED BY <1>1, <4>1
    <3> QED BY <3>1, <3>2
  <2>2. <<option, pos>> \in in(more)
    <3>1. n + 1 \in DOMAIN more BY <1>1
    <3> QED BY <1>1, <3>1
  <2>3. \A x \in in(list) : x \in in(more)
    <3> SUFFICES ASSUME NEW i \in 1..n PROVE list[i] \in in(more)
      BY <1>1
    <3>1. i \in DOMAIN more /\ more[i] = list[i] BY <1>1
    <3> QED BY <3>1
  <2> QED BY <2>1, <2>2, <2>3
<1>5. ASSUME own(more)
      PROVE  own(list) /\ {option} \X (1 .. pos - 1) \subseteq in(list)
  <2>1. <<option, pos>> = <<option, n + 1>> BY <1>1, <1>5
  <2>2. pos = n + 1 BY <2>1
  <2>3. \A i \in 1..n : list[i] = <<option, i>> BY <1>1, <1>5
  <2>4. ASSUME NEW x \in {option} \X (1 .. pos - 1) PROVE x \in in(list)
    <3>1. PICK i \in 1 .. pos - 1 : x = <<option, i>> OBVIOUS
    <3>2. i \in 1..n BY <1>1, <2>2
    <3> QED BY <1>1, <2>3, <3>1, <3>2
  <2> QED BY <1>1, <2>3, <2>4
<1>6. ASSUME own(list), {option} \X (1 .. pos - 1) \subseteq in(list)
      PROVE  own(more)
  <2>1. pos \notin 1..n BY <1>1, <1>6
  <2>2. ASSUME NEW i \in 1 .. pos - 1 PROVE i \in 1..n
    <3>1. <<option, i>> \in in(list) BY <1>6
    <3>2. PICK j \in 1..n : list[j] = <<option, i>> BY <1>1, <3>1
    <3>3. <<option, j>> = <<option, i>> BY <1>1, <1>6, <3>2
    <3> QED BY <3>3
  <2>3. pos <= n + 1
    <3>1. SUFFICES ASSUME pos > n + 1 PROVE FALSE BY <1>1, <1>2
    <3>2. n + 1 \in 1 .. pos - 1 BY <1>1, <1>2, <3>1
    <3> QED BY <1>1, <2>2, <3>2
  <2>4. pos = n + 1 BY <1>1, <1>2, <2>1, <2>3
  <2> QED BY <1>1, <1>6, <2>4
<1> QED BY <1>3, <1>4, <1>5, <1>6 DEF more

LEMMA DetailReplyKeeps ==
  ASSUME IInv, NEW k \in Requests, NEW i \in Rows, DetailReply(k, i)
  PROVE  IInv'
<1> USE MovieListAssumption, NoDetailsType
<1> DEFINE movie == <<OptionOf(k), i>>
           Before == {OptionOf(k)} \X (1 .. i - 1)
<1>t. TypeOK BY DEF IInv
<1>m. movie \in Movies BY OptionOfType DEF Movies
<1>1. /\ details[k][i] > 0
      /\ details' = [details EXCEPT ![k][i] = @ - 1]
      /\ UNCHANGED <<title, numberOfOption, hidden, lowered, movieList, asks,
                     undisturbed, alone>>
  BY DEF DetailReply, panelVars
<1>2. \/ movie \in NoGenre /\ listOfGenres' = Kept(k) /\ inOrder' = inOrder
      \/ /\ movie \notin NoGenre /\ listOfGenres' = Append(Kept(k), movie)
         /\ inOrder' = (inOrder /\ Before \subseteq Genres)
  BY DEF DetailReply, GenreAdded
<1>3. Kept(k) \in Seq(Movies) BY <1>t DEF Kept, TypeOK
<1> HIDE DEF movie, Before
<1>4. listOfGenres' \in Seq(Movies) /\ inOrder' \in BOOLEAN
  <2>1. Append(Kept(k), movie) \in Seq(Movies) BY <1>3, <1>m
  <2>2. inOrder \in BOOLEAN BY <1>t DEF TypeOK
  <2> QED BY <1>2, <1>3, <2>1, <2>2
<1>5. \A j \in Requests, r \in Rows :
        details'[j][r] = IF j = k /\ r = i THEN details[j][r] - 1 ELSE details[j][r]
  BY <1>t, <1>1 DEF TypeOK
<1>6. TypeOK'
  <2>1. details[k] \in [Rows -> Nat] BY <1>t DEF TypeOK
  <2>2. details[k][i] - 1 \in Nat BY <1>1, <2>1
  <2>3. [details[k] EXCEPT ![i] = details[k][i] - 1] \in [Rows -> Nat]
    BY <2>1, <2>2
  <2>4. details' = [details EXCEPT ![k] = [details[k] EXCEPT ![i] = details[k][i] - 1]]
    BY <1>1
  <2>5. details' \in [Requests -> [Rows -> Nat]] BY <1>t, <2>3, <2>4 DEF TypeOK
  <2> QED BY <1>t, <1>1, <1>4, <2>5 DEF TypeOK
<1>7. GridFollowsPanel' /\ TitleLags' BY <1>1 DEF IInv, GridFollowsPanel, TitleLags
<1>8. OneList' BY <1>1 DEF IInv, OneList, Asked, ListsQuiet
<1>9. alone => /\ k = movieList /\ details[k][i] = 1 /\ ListsQuiet
  <2>1. details[k][i] # 0 BY <1>1
  <2>2. ~GenresQuiet BY <2>1 DEF GenresQuiet
  <2> QED BY <2>1, <2>2 DEF IInv, NoOtherGenres
<1>10. NoOtherGenres'
  <2> SUFFICES ASSUME alone
               PROVE  /\ undisturbed /\ ListsQuiet'
                      /\ \A j \in Requests, r \in Rows :
                           details'[j][r] # 0 => j = movieList /\ details'[j][r] = 1
    BY <1>1 DEF NoOtherGenres
  <2>1. \A j \in Requests, r \in Rows :
          details[j][r] # 0 => j = movieList /\ details[j][r] = 1
    BY DEF IInv, NoOtherGenres
  <2>2. \A j \in Requests, r \in Rows :
          details'[j][r] # 0 => j = movieList /\ details'[j][r] = 1
    BY <1>5, <1>9, <2>1
  <2> QED BY <1>1, <1>9, <2>2 DEF IInv, NoOtherGenres, ListsQuiet
<1>11. CleanStart' BY <1>1, <1>9 DEF CleanStart, ListsQuiet
<1>12. OneKept'
  <2> SUFFICES ASSUME alone, movieList = "popular" PROVE Len(listOfGenres') <= 1
    BY <1>1 DEF OneKept
  <2>1. Kept(k) = << >> BY <1>9 DEF Kept
  <2>2. Len(<< >>) <= 1 /\ Len(Append(<< >>, movie)) <= 1 OBVIOUS
  <2>3. listOfGenres' = << >> \/ listOfGenres' = Append(<< >>, movie)
    BY <1>2, <2>1
  <2>4. CASE listOfGenres' = << >> BY <2>2, <2>4
  <2>5. CASE listOfGenres' = Append(<< >>, movie) BY <2>2, <2>5
  <2> QED BY <2>3, <2>4, <2>5
\* The rest is about a list that was loaded on its own.
<1>13. ASSUME alone, movieList # "popular"
       PROVE  /\ GenresOfShownList' /\ GenresInOrder'
  <2> DEFINE Come(d) == {m \in Movies \ NoGenre : /\ m[1] = OptionOf(k)
                                                  /\ d[k][m[2]] = 0}
  <2>1. k = movieList /\ Kept(k) = listOfGenres /\ ListsQuiet
    BY <1>9, <1>13 DEF Kept
  <2>2. /\ \A a, b \in DOMAIN listOfGenres : listOfGenres[a] = listOfGenres[b] => a = b
        /\ Genres = Come(details)
        /\ inOrder <=> \A a \in DOMAIN listOfGenres : listOfGenres[a] = <<OptionOf(k), a>>
    BY <1>13, <2>1 DEF IInv, GenresOfShownList, GenresInOrder
  <2>3. movie[1] = OptionOf(k) /\ movie[2] = i BY DEF movie
  <2>4. \A m \in Movies : m[1] = OptionOf(k) /\ m[2] = i => m = movie
    BY DEF movie, Movies
  <2>5. \A m \in Movies : m[2] \in Rows BY DEF Movies
  <2>6. /\ \A m \in Movies : m[1] = OptionOf(k) /\ m # movie
                               => details'[k][m[2]] = details[k][m[2]]
        /\ details'[k][i] = 0 /\ details[k][i] = 1
    BY <1>5, <1>9, <1>13, <2>4, <2>5
  <2>7. Come(details') = Come(details) \cup ({movie} \ NoGenre)
    BY <1>m, <2>3, <2>6
  <2>8. movie \notin Genres BY <2>2, <2>3, <2>6
  <2> HIDE DEF Come
  <2>9. ASSUME movie \in NoGenre
        PROVE  GenresOfShownList' /\ GenresInOrder'
    <3>1. UNCHANGED <<listOfGenres, inOrder, movieList>> BY <1>1, <1>2, <2>1, <2>9
    <3>2. Genres' = Come(details') BY <2>2, <2>7, <2>9, <3>1 DEF Genres
    <3> QED
      BY <2>1, <2>2, <3>1, <3>2 DEF GenresOfShownList, GenresInOrder, Come
  <2>10. ASSUME movie \notin NoGenre
         PROVE  GenresOfShownList' /\ GenresInOrder'
    <3>1. /\ listOfGenres' = Append(listOfGenres, <<OptionOf(k), i>>)
          /\ inOrder' = (inOrder /\ Before \subseteq Genres)
      BY <1>2, <2>1, <2>10 DEF movie
    <3>2. listOfGenres \in Seq(Movies) /\ OptionOf(k) \in Options
      BY <1>t, OptionOfType DEF TypeOK
    <3>3. \A a \in DOMAIN listOfGenres : listOfGenres[a] # <<OptionOf(k), i>>
      BY <2>8 DEF Genres, movie
    <3>4. /\ \A a, b \in DOMAIN listOfGenres' : listOfGenres'[a] = listOfGenres'[b] => a = b
          /\ Genres' = Genres \cup {movie}
          /\ (\A a \in DOMAIN listOfGenres' : listOfGenres'[a] = <<OptionOf(k), a>>)
               <=> /\ \A a \in DOMAIN listOfGenres : listOfGenres[a] = <<OptionOf(k), a>>
                   /\ Before \subseteq Genres
      <4> DEFINE more == Append(listOfGenres, <<OptionOf(k), i>>)
      <4>1. /\ \A a, b \in DOMAIN more : more[a] = more[b] => a = b
            /\ {more[a] : a \in DOMAIN more}
                 = {listOfGenres[a] : a \in DOMAIN listOfGenres} \cup {<<OptionOf(k), i>>}
            /\ (\A a \in DOMAIN more : more[a] = <<OptionOf(k), a>>)
                 <=> /\ \A a \in DOMAIN listOfGenres : listOfGenres[a] = <<OptionOf(k), a>>
                     /\ {OptionOf(k)} \X (1 .. i - 1)
                          \subseteq {listOfGenres[a] : a \in DOMAIN listOfGenres}
        BY <2>2, <3>2, <3>3, AppendGenre
      <4>2. listOfGenres' = more BY <3>1
      <4> HIDE DEF more
      <4> QED BY <4>1, <4>2 DEF Genres, Before, movie
    <3>5. Genres' = Come(details') BY <2>2, <2>7, <2>10, <3>4
    <3>6. inOrder' <=> \A a \in DOMAIN listOfGenres' : listOfGenres'[a] = <<OptionOf(k), a>>
      BY <2>2, <3>1, <3>4
    <3>7. GenresOfShownList'
      BY <1>1, <2>1, <3>4, <3>5 DEF GenresOfShownList, Come
    <3>8. GenresInOrder'
      BY <1>1, <2>1, <3>6 DEF GenresInOrder
    <3> QED BY <3>7, <3>8
  <2> QED BY <2>9, <2>10
<1>14. GenresOfShownList' /\ GenresInOrder'
  BY <1>1, <1>13 DEF GenresOfShownList, GenresInOrder
<1> QED BY <1>6, <1>7, <1>8, <1>10, <1>11, <1>12, <1>14 DEF IInv

LEMMA DetailFailsKeeps ==
  ASSUME IInv, NEW k \in Requests, NEW i \in Rows, DetailFails(k, i)
  PROVE  IInv'
<1>1. /\ details[k][i] > 0
      /\ details' = [details EXCEPT ![k][i] = @ - 1]
      /\ alone' = FALSE
      /\ UNCHANGED <<title, numberOfOption, hidden, lowered, movieList,
                     listOfGenres, asks, undisturbed, inOrder>>
  BY DEF DetailFails, panelVars
<1>2. TypeOK'
  <2>1. details[k] \in [Rows -> Nat] BY DEF IInv, TypeOK
  <2>2. details[k][i] - 1 \in Nat BY <1>1, <2>1
  <2>3. [details[k] EXCEPT ![i] = details[k][i] - 1] \in [Rows -> Nat]
    BY <2>1, <2>2
  <2>4. details' = [details EXCEPT ![k] = [details[k] EXCEPT ![i] = details[k][i] - 1]]
    BY <1>1
  <2>5. details' \in [Requests -> [Rows -> Nat]] BY <2>3, <2>4 DEF IInv, TypeOK
  <2> QED BY <1>1, <2>5 DEF IInv, TypeOK
<1>3. GridFollowsPanel' /\ TitleLags' BY <1>1 DEF IInv, GridFollowsPanel, TitleLags
<1>4. OneList' BY <1>1 DEF IInv, OneList, Asked, ListsQuiet
<1>5. /\ NoOtherGenres' /\ CleanStart' /\ OneKept'
      /\ GenresOfShownList' /\ GenresInOrder'
  BY <1>1 DEF NoOtherGenres, CleanStart, OneKept, GenresOfShownList,
              GenresInOrder
<1> QED BY <1>2, <1>3, <1>4, <1>5 DEF IInv

LEMMA StepIInv == IInv /\ [Next]_vars => IInv'
<1> SUFFICES ASSUME IInv, [Next]_vars PROVE IInv' OBVIOUS
<1>1. CASE TapSortedBy BY <1>1, TapSortedByKeeps
<1>2. CASE \E option \in Options : TapOption(option) BY <1>2, TapOptionKeeps
<1>3. CASE \E k \in Requests : Reply(k)
  BY <1>3, ListReplyKeeps, ListFailsKeeps, DetailReplyKeeps, DetailFailsKeeps DEF Reply
<1>4. CASE CellForItemEndsApp
  <2>1. Init' BY <1>4 DEF CellForItemEndsApp, Init
  <2>2. Init' => IInv' BY InitIInv, PTL
  <2> QED BY <2>1, <2>2
<1>5. CASE UNCHANGED vars
  <2>1. UNCHANGED Lists /\ UNCHANGED <<title, hidden, lowered>>
    BY <1>5 DEF vars, Lists, panelVars, historyVars
  <2>2. TypeOK' BY <2>1 DEF IInv, TypeOK, Lists, historyVars
  <2>3. GridFollowsPanel' /\ TitleLags' BY <2>1 DEF IInv, GridFollowsPanel, TitleLags, Lists
  <2> QED BY <2>1, <2>2, <2>3, ListsKept DEF IInv
<1> QED BY <1>1, <1>2, <1>3, <1>4, <1>5 DEF Next

LEMMA Invariant == Spec => []IInv
BY InitIInv, StepIInv, PTL DEF Spec

-----------------------------------------------------------------------------
\* The panel of options and the grid under it move together, whatever is tapped
\* in whatever order, and the title names another option than the one checked
\* only when Highest-rated was picked after Latest.
THEOREM OptionsPanelHolds == Spec => []OptionsPanel
<1>1. IInv => OptionsPanel BY DEF IInv, OptionsPanel
<1> QED BY <1>1, Invariant, PTL

\* With all lists answered the grid shows the option that is checked, unless
\* lists overtook one another or the last one failed.
THEOREM ListShownHolds == Spec => []ListShown
<1>1. IInv => ListShown
  <2> SUFFICES ASSUME IInv, undisturbed, ListsQuiet
               PROVE  movieList # None /\ OptionOf(movieList) = numberOfOption
    BY DEF ListShown
  <2>1. ~ \E k \in Requests : Asked(k) BY DEF Asked, ListsQuiet
  <2> QED BY <2>1, MovieListAssumption DEF IInv, OneList
<1> QED BY <1>1, Invariant, PTL

\* The genres kept for a list loaded on its own are those of its movies, once
\* each, as far as they have arrived.
THEOREM GenresHold == Spec => []GenresOfShownList
<1>1. IInv => GenresOfShownList BY DEF IInv
<1> QED BY <1>1, Invariant, PTL

\* Every row of such a list has a genre once all have come and none is missing:
\* cellForItemAtIndexPath: stays in range.
LEMMA GenresEnough == IInv => GenreForEveryRow
<1> USE MovieListAssumption
<1> SUFFICES ASSUME IInv, alone, ListsQuiet, GenresQuiet, movieList # "popular",
                    \A i \in Rows : <<OptionOf(movieList), i>> \notin NoGenre,
                    movieList # None
             PROVE  ~(Len(listOfGenres) \in 1 .. MovieCount - 1)
  BY DEF GenreForEveryRow, RowWithoutGenre
<1> DEFINE N == 1..Len(listOfGenres)
           rowOf == [i \in N |-> listOfGenres[i][2]]
<1>1. /\ listOfGenres \in Seq(Movies) /\ Len(listOfGenres) \in Nat
      /\ DOMAIN listOfGenres = N /\ movieList \in Requests
  BY DEF IInv, TypeOK
<1>2. \A i \in N : listOfGenres[i] \in Movies BY <1>1
<1>3. rowOf \in [N -> Rows] BY <1>2 DEF Movies
<1>4. ASSUME NEW r \in Rows PROVE \E i \in N : rowOf[i] = r
  <2>1. details[movieList][r] = 0 BY <1>1, NoDetailsType DEF GenresQuiet
  <2>2. <<OptionOf(movieList), r>> \in Movies \ NoGenre
    BY <1>1, OptionOfType DEF Movies
  <2>3. <<OptionOf(movieList), r>> \in Genres
    BY <2>1, <2>2 DEF IInv, GenresOfShownList
  <2>4. PICK i \in N : listOfGenres[i] = <<OptionOf(movieList), r>>
    BY <1>1, <2>3 DEF Genres
  <2> QED BY <2>4
<1>5. rowOf \in Surjection(N, Rows) BY <1>3, <1>4, Fun_IsSurj
<1>6. IsFiniteSet(N) /\ Cardinality(N) = Len(listOfGenres)
      /\ Cardinality(Rows) = MovieCount
  <2>1. /\ IsFiniteSet(N)
        /\ Cardinality(N) = IF 1 > Len(listOfGenres) THEN 0 ELSE Len(listOfGenres) - 1 + 1
    BY <1>1, FS_Interval
  <2>2. Cardinality(Rows) = IF 1 > MovieCount THEN 0 ELSE MovieCount - 1 + 1
    BY FS_Interval DEF Rows
  <2> HIDE DEF N
  <2> QED BY <1>1, <2>1, <2>2
<1>7. Cardinality(Rows) <= Cardinality(N) BY <1>5, <1>6, FS_Surjection
<1> QED BY <1>1, <1>6, <1>7

\* A list loaded on its own, in which every movie has a genre, does not end the
\* app once all genres have come (cellForItemAtIndexPath:).
THEOREM GenreForEveryRowHolds == Spec => []GenreForEveryRow
BY GenresEnough, Invariant, PTL

\* After a return to Most popular one genre at most is left when all replies have
\* come, each of which drops those before it (removeAllObjects in its block).
THEOREM PopularKeepsOne == Spec => []PopularAgainKeepsOne
<1>1. IInv => PopularAgainKeepsOne
  <2> SUFFICES ASSUME IInv, alone, ListsQuiet, GenresQuiet, movieList = "popular"
               PROVE  Len(listOfGenres) <= 1
    BY DEF PopularAgainKeepsOne
  <2>1. 1 \in Rows /\ "popular" \in Requests
    BY MovieListAssumption DEF Rows, Requests, Options
  <2>2. details["popular"][1] = 0 BY <2>1, NoDetailsType DEF GenresQuiet
  <2> QED BY <2>1, <2>2 DEF IInv, OneKept
<1> QED BY <1>1, Invariant, PTL

-----------------------------------------------------------------------------
(* The main screen implements RequestedList. *)

\* The option that is awaited, before and after a step.
LEMMA AwaitedOption ==
  /\ ListsQuiet => Awaited = None
  /\ ListsQuiet' => Awaited' = None
  /\ \A k \in Requests : /\ Asked(k) => Awaited = OptionOf(k)
                         /\ Asked(k)' => Awaited' = OptionOf(k)
<1>1. ASSUME NEW k \in Requests, Asked(k) PROVE Awaited = OptionOf(k)
  <2>1. \A j \in Requests : asks[j] > 0 <=> j = k
    BY <1>1 DEF Asked
  <2> QED
    BY <2>1 DEF Awaited, ListsQuiet
<1>2. ASSUME NEW k \in Requests, Asked(k)' PROVE Awaited' = OptionOf(k)
  <2>1. \A j \in Requests : asks'[j] > 0 <=> j = k
    BY <1>2 DEF Asked
  <2> QED
    BY <2>1 DEF Awaited, ListsQuiet, OptionOf
<1>3. /\ ListsQuiet => Awaited = None
      /\ ListsQuiet' => Awaited' = None
  BY DEF Awaited
<1> QED
  BY <1>1, <1>2, <1>3

\* An option is tapped: if it is asked for alone, it is what is awaited.
LEMMA AskStep ==
  ASSUME TypeOK, NEW option \in Options, Ask(option), numberOfOption' = option,
         UNCHANGED movieList, undisturbed'
  PROVE  Screen!Next
<1>1. /\ ListsQuiet /\ option \in Requests /\ OptionOf(option) = option
  BY OptionOfType DEF Ask, Requests
<1>2. \A j \in Requests : asks'[j] = IF j = option THEN 1 ELSE 0
  BY <1>1 DEF Ask, TypeOK, ListsQuiet
<1>3. Asked(option)'
  BY <1>1, <1>2 DEF Asked, OptionOf
<1>4. Awaited = None /\ Awaited' = option
  BY <1>1, <1>3, AwaitedOption
<1>5. Shown' = Shown
  BY DEF Shown, OptionOf
<1>6. CASE undisturbed
  BY <1>4, <1>5, <1>6 DEF Screen!Next, Screen!Ask
<1>7. CASE ~undisturbed
  BY <1>4, <1>5, <1>7 DEF Screen!Next, Screen!AskAlone
<1> QED
  BY <1>6, <1>7

\* A list comes: undisturbed, it is the one that is awaited.
LEMMA ListReplyStep ==
  ASSUME IInv, NEW k \in Requests, ListReply(k), undisturbed'
  PROVE  Screen!Next
<1>1. /\ undisturbed /\ asks[k] > 0 /\ movieList' = k
      /\ asks' = [asks EXCEPT ![k] = @ - 1]
  BY DEF ListReply, historyVars
<1>2. Asked(k)
  BY <1>1, TheList
<1>3. ListsQuiet'
  BY <1>1, <1>2 DEF IInv, TypeOK, Asked, ListsQuiet
<1>4. Awaited = OptionOf(k) /\ Awaited' = None
  BY <1>2, <1>3, AwaitedOption
<1>5. k # None /\ None \notin Options /\ OptionOf(k) \in Options
  BY MovieListAssumption, OptionOfType DEF MovieListAssumption, Requests
<1>6. Shown' = OptionOf(k)
  BY <1>1, <1>5 DEF Shown, OptionOf
<1> QED
  BY <1>1, <1>4, <1>5, <1>6 DEF Screen!Next, Screen!Arrive

\* The app begins anew, with the list of viewDidLoad under way.
LaunchState == Shown = None /\ Awaited = "popular"

LEMMA LaunchedAwaits == Init => LaunchState
<1> SUFFICES ASSUME Init PROVE LaunchState
  OBVIOUS
<1>1. Asked("first") /\ "first" \in Requests
  BY DEF Init, Asked, OptionOf, Requests
<1>2. Awaited = "popular"
  BY <1>1, AwaitedOption DEF OptionOf
<1> QED
  BY <1>2 DEF Init, Shown, LaunchState

\* Every step of the main screen is a step of RequestedList or none.
LEMMA StepList == IInv /\ [Next]_vars => [Screen!Next]_(Screen!vars)
<1> SUFFICES ASSUME IInv, [Next]_vars PROVE [Screen!Next]_(Screen!vars)
  OBVIOUS
<1>t. TypeOK
  BY DEF IInv
<1>s. ASSUME UNCHANGED <<movieList, asks, undisturbed>>
      PROVE  UNCHANGED Screen!vars
  BY <1>s DEF Screen!vars, Shown, Awaited, OptionOf, ListsQuiet
<1>d. CASE undisturbed' = FALSE
  BY <1>d DEF Screen!Next
<1>1. CASE TapSortedBy
  BY <1>1, <1>s DEF TapSortedBy, historyVars
<1>2. ASSUME NEW option \in Options, TapOption(option)
      PROVE  [Screen!Next]_(Screen!vars)
  <2>1. CASE numberOfOption # option /\ Ask(option)
    <3>1. undisturbed' = ListsQuiet
      BY <2>1 DEF Ask
    <3>2. CASE undisturbed'
      BY <1>2, <1>t, <2>1, <3>2, AskStep DEF TapOption
    <3>3. CASE ~undisturbed'
      BY <3>3 DEF Screen!Next
    <3> QED
      BY <3>2, <3>3
  <2>2. CASE UNCHANGED <<asks, listOfGenres, historyVars>>
    BY <1>2, <1>s, <2>2 DEF TapOption, historyVars
  <2> QED
    BY <1>2, <2>1, <2>2 DEF TapOption
<1>3. ASSUME NEW k \in Requests, ListReply(k)
      PROVE  [Screen!Next]_(Screen!vars)
  <2>1. undisturbed' \in BOOLEAN
    BY <1>3, <1>t DEF ListReply, historyVars, TypeOK
  <2> QED
    BY <1>3, <1>d, <2>1, ListReplyStep
<1>4. ASSUME NEW k \in Requests, ListFails(k)
      PROVE  undisturbed' = FALSE
  BY <1>4 DEF ListFails
<1>5. ASSUME NEW k \in Requests, NEW i \in Rows,
             DetailReply(k, i) \/ DetailFails(k, i)
      PROVE  UNCHANGED <<movieList, asks, undisturbed>>
  BY <1>5 DEF DetailReply, DetailFails
<1>6. CASE CellForItemEndsApp
  <2>1. Init'
    BY <1>6 DEF CellForItemEndsApp, Init
  <2>2. Init' => LaunchState'
    BY LaunchedAwaits, PTL
  <2>3. undisturbed' = TRUE
    BY <1>6 DEF CellForItemEndsApp
  <2> QED
    BY <2>1, <2>2, <2>3 DEF LaunchState, Screen!Next, Screen!StartAnew, Options
<1>7. CASE UNCHANGED vars
  BY <1>7, <1>s DEF vars, historyVars
<1> QED
  BY <1>1, <1>2, <1>3, <1>4, <1>5, <1>6, <1>7, <1>d, <1>s DEF Next, Reply

\* The main screen keeps what RequestedList promises: an undisturbed grid never
\* changes to an option picked before (buttonOnOptionsTapped: and the blocks of
\* its requests).
THEOREM GridIsRequestedList == Spec => ListSpec
<1>1. Init => Screen!Init
  BY LaunchedAwaits DEF LaunchState, Init, Screen!Init, Options
<1> QED
  BY <1>1, Invariant, StepList, PTL DEF Spec, ListSpec, Screen!Spec

-----------------------------------------------------------------------------
(* The cells *)

CellTypes ==
  /\ row \in [Cells -> Rows \cup {0}]
  /\ label \in [Cells -> Movies \cup {None}]
  /\ written \in [Cells -> BOOLEAN]

\* No row is on the screen twice.
RowsDiffer == \A c, d \in Cells : row[c] # 0 /\ row[c] = row[d] => c = d

\* Alone, the array only grows, so that what was written for a row is still what
\* the array has at it.
LabelsFromGenres ==
  alone /\ ListsQuiet /\ movieList # "popular" =>
    \A c \in Labelled : row[c] \in DOMAIN listOfGenres /\ label[c] = listOfGenres[row[c]]

GInv == IInv /\ CellTypes /\ RowsDiffer /\ LabelsFromGenres

\* Rows are numbers from 1, of which 0 is none.
LEMMA ZeroIsNoRow == 0 \notin Rows /\ \A i \in Rows : i # 0
BY DEF Rows

\* A step of the grid is one of the list, or leaves the list alone.
LEMMA GridStepIsListStep == [GridNext]_gridVars => [Next]_vars
<1> SUFFICES ASSUME [GridNext]_gridVars PROVE [Next]_vars OBVIOUS
<1>1. CASE ListStep BY <1>1 DEF ListStep, Next, Reply
<1>2. CASE OtherStep BY <1>2 DEF OtherStep, Next, Reply
<1>3. CASE \E c \in Cells, i \in Rows : CellForItem(c, i) \/ CellForItemRaises(c, i)
  BY <1>3 DEF CellForItem, CellForItemRaises, Next
<1>4. CASE \E c \in Cells : ScrollAway(c) BY <1>4 DEF ScrollAway
<1>5. CASE UNCHANGED gridVars BY <1>5 DEF gridVars
<1> QED BY <1>1, <1>2, <1>3, <1>4, <1>5 DEF GridNext

\* With every cell off the screen there is nothing to be said of rows and labels.
LEMMA OffScreenOK ==
  ASSUME row = OffScreen, written = Unwritten, label \in [Cells -> Movies \cup {None}]
  PROVE  CellTypes /\ RowsDiffer /\ LabelsFromGenres
<1>1. CellTypes BY DEF CellTypes, OffScreen, Unwritten
<1>2. \A c \in Cells : row[c] = 0 BY DEF OffScreen
<1>3. Labelled = {} BY <1>2 DEF Labelled
<1> QED BY <1>1, <1>2, <1>3 DEF RowsDiffer, LabelsFromGenres

LEMMA InitGInv == GridInit => GInv
<1> SUFFICES ASSUME GridInit PROVE GInv OBVIOUS
<1>1. label \in [Cells -> Movies \cup {None}] BY DEF GridInit, AsMade
<1> QED BY <1>1, InitIInv, OffScreenOK DEF GridInit, GInv

\* Alone, a reply with a genre adds one at the end or nothing.
LEMMA AloneArrayGrows ==
  ASSUME IInv, NEW k \in Requests, NEW i \in Rows, DetailReply(k, i),
         alone, ListsQuiet, movieList # "popular"
  PROVE  \A n \in DOMAIN listOfGenres :
           n \in DOMAIN listOfGenres' /\ listOfGenres'[n] = listOfGenres[n]
<1>1. k = movieList
  <2>1. details[k][i] # 0 BY DEF DetailReply
  <2> QED BY <2>1 DEF IInv, NoOtherGenres
<1>2. Kept(k) = listOfGenres BY <1>1 DEF Kept
<1>3. listOfGenres \in Seq(Movies) BY DEF IInv, TypeOK
<1>4. \/ listOfGenres' = listOfGenres
      \/ listOfGenres' = Append(listOfGenres, <<OptionOf(k), i>>)
  BY <1>2 DEF DetailReply, GenreAdded
<1>5. <<OptionOf(k), i>> \in Movies BY OptionOfType DEF Movies
<1> QED BY <1>3, <1>4, <1>5

\* What the cells show stays right when the list does not reach them.
LEMMA OtherStepOK ==
  ASSUME GInv, OtherStep
  PROVE  CellTypes' /\ RowsDiffer' /\ LabelsFromGenres'
<1>c. UNCHANGED <<row, label, written>> BY DEF OtherStep, cellVars
<1>1. CellTypes' /\ RowsDiffer' BY <1>c DEF GInv, CellTypes, RowsDiffer
<1>l. Labelled' = Labelled /\ \A c \in Labelled : c \in Cells BY <1>c DEF Labelled
<1>s. ASSUME UNCHANGED <<movieList, listOfGenres, asks, alone>> PROVE LabelsFromGenres'
  BY <1>c, <1>l, <1>s DEF GInv, LabelsFromGenres, ListsQuiet
<1>2. CASE TapSortedBy
  <2>1. UNCHANGED <<movieList, listOfGenres, asks, alone>>
    BY <1>2 DEF TapSortedBy, historyVars
  <2> QED BY <1>1, <1>s, <2>1
<1>3. ASSUME NEW option \in Options, TapOption(option) PROVE LabelsFromGenres'
  <2>1. CASE Ask(option)
    <3>1. option \in Requests /\ asks'[option] = asks[option] + 1 /\ asks[option] \in Nat
      BY <2>1 DEF Ask, GInv, IInv, TypeOK, Requests
    <3>2. ~ListsQuiet' BY <3>1 DEF ListsQuiet
    <3> QED BY <3>2 DEF LabelsFromGenres
  <2>2. CASE UNCHANGED <<asks, listOfGenres, historyVars>>
    BY <1>3, <1>s, <2>2 DEF TapOption, historyVars
  <2> QED BY <1>3, <2>1, <2>2 DEF TapOption
<1>4. ASSUME NEW k \in Requests, ListFails(k) PROVE LabelsFromGenres'
  BY <1>4 DEF ListFails, LabelsFromGenres
<1>5. ASSUME NEW k \in Requests, NEW i \in Rows, DetailFails(k, i)
      PROVE  LabelsFromGenres'
  BY <1>5 DEF DetailFails, LabelsFromGenres
<1>6. ASSUME NEW k \in Requests, NEW i \in Rows, DetailReply(k, i)
      PROVE  LabelsFromGenres'
  <2>1. UNCHANGED <<movieList, asks, alone>> BY <1>6 DEF DetailReply
  <2> SUFFICES ASSUME alone, ListsQuiet, movieList # "popular", NEW c \in Labelled
               PROVE  /\ row[c] \in DOMAIN listOfGenres'
                      /\ label[c] = listOfGenres'[row[c]]
    BY <1>c, <1>l, <2>1 DEF LabelsFromGenres, ListsQuiet
  <2>2. row[c] \in DOMAIN listOfGenres /\ label[c] = listOfGenres[row[c]]
    BY DEF GInv, LabelsFromGenres
  <2> QED BY <1>6, <2>2, AloneArrayGrows DEF GInv
<1> QED BY <1>2, <1>3, <1>4, <1>5, <1>6, <1>1 DEF OtherStep

LEMMA CellForItemOK ==
  ASSUME GInv, NEW c \in Cells, NEW i \in Rows, CellForItem(c, i)
  PROVE  CellTypes' /\ RowsDiffer' /\ LabelsFromGenres'
<1>1. /\ row[c] = 0 /\ \A d \in Cells : row[d] # i
      /\ row' = [row EXCEPT ![c] = i]
      /\ UNCHANGED <<movieList, listOfGenres, asks, alone>>
  BY DEF CellForItem, ComesInto, vars, historyVars
<1>t. CellTypes /\ listOfGenres \in Seq(Movies) BY DEF GInv, IInv, TypeOK
<1>2. \A d \in Cells : row'[d] = IF d = c THEN i ELSE row[d] BY <1>1, <1>t DEF CellTypes
<1>3. RowsDiffer' BY <1>1, <1>2 DEF GInv, RowsDiffer
<1>4. CASE listOfGenres = << >> /\ written' = [written EXCEPT ![c] = FALSE] /\ label' = label
  <2>1. CellTypes' BY <1>1, <1>4, <1>t DEF CellTypes
  <2>2. \A d \in Cells : written'[d] = IF d = c THEN FALSE ELSE written[d]
    BY <1>4, <1>t DEF CellTypes
  <2>3. \A d \in Labelled' : d \in Labelled /\ d # c BY <1>2, <2>2 DEF Labelled
  <2>4. \A d \in Labelled : d \in Cells BY DEF Labelled
  <2>5. LabelsFromGenres'
    BY <1>1, <1>2, <1>4, <2>3, <2>4 DEF GInv, LabelsFromGenres, ListsQuiet
  <2> QED BY <1>3, <2>1, <2>5
<1>5. CASE /\ i \in DOMAIN listOfGenres /\ written' = [written EXCEPT ![c] = TRUE]
           /\ label' = [label EXCEPT ![c] = listOfGenres[i]]
  <2>1. CellTypes' BY <1>1, <1>5, <1>t DEF CellTypes
  <2>2. \A d \in Cells : /\ label'[d] = IF d = c THEN listOfGenres[i] ELSE label[d]
                         /\ d # c => written'[d] = written[d]
    BY <1>5, <1>t DEF CellTypes
  <2>3. \A d \in Labelled' : d = c \/ d \in Labelled BY <1>2, <2>2 DEF Labelled
  <2>4. \A d \in Labelled : d \in Cells BY DEF Labelled
  <2>5. LabelsFromGenres'
    <3> SUFFICES ASSUME alone, ListsQuiet, movieList # "popular", NEW d \in Labelled'
                 PROVE  row'[d] \in DOMAIN listOfGenres /\ label'[d] = listOfGenres[row'[d]]
      BY <1>1 DEF LabelsFromGenres, ListsQuiet
    <3>1. CASE d = c BY <1>2, <1>5, <2>2, <3>1
    <3>2. CASE d # c
      <4>1. d \in Labelled /\ d \in Cells BY <2>3, <2>4, <3>2
      <4>2. row[d] \in DOMAIN listOfGenres /\ label[d] = listOfGenres[row[d]]
        BY <4>1 DEF GInv, LabelsFromGenres
      <4> QED BY <1>2, <2>2, <3>2, <4>1, <4>2
    <3> QED BY <3>1, <3>2
  <2> QED BY <1>3, <2>1, <2>5
<1> QED BY <1>4, <1>5 DEF CellForItem

LEMMA ScrollAwayOK ==
  ASSUME GInv, NEW c \in Cells, ScrollAway(c)
  PROVE  CellTypes' /\ RowsDiffer' /\ LabelsFromGenres'
<1>1. /\ row' = [row EXCEPT ![c] = 0] /\ written' = [written EXCEPT ![c] = FALSE]
      /\ UNCHANGED <<label, movieList, listOfGenres, asks, alone>>
  BY DEF ScrollAway, vars, historyVars
<1>2. CellTypes' BY <1>1 DEF GInv, CellTypes
<1>3. \A d \in Cells : /\ row'[d] = IF d = c THEN 0 ELSE row[d]
                       /\ d # c => written'[d] = written[d]
  BY <1>1 DEF GInv, CellTypes
<1>4. RowsDiffer' BY <1>3 DEF GInv, RowsDiffer
<1>5. \A d \in Labelled' : d \in Labelled /\ d \in Cells /\ d # c BY <1>3 DEF Labelled
<1>6. LabelsFromGenres' BY <1>1, <1>3, <1>5 DEF GInv, LabelsFromGenres, ListsQuiet
<1> QED BY <1>2, <1>4, <1>6

LEMMA StepGInv == GInv /\ [GridNext]_gridVars => GInv'
<1> SUFFICES ASSUME GInv, [GridNext]_gridVars PROVE GInv' OBVIOUS
<1>i. IInv' BY GridStepIsListStep, StepIInv DEF GInv
<1> SUFFICES CellTypes' /\ RowsDiffer' /\ LabelsFromGenres' BY <1>i DEF GInv
<1>l. label \in [Cells -> Movies \cup {None}] BY DEF GInv, CellTypes
<1>o. OffScreen' = OffScreen /\ Unwritten' = Unwritten BY DEF OffScreen, Unwritten
<1>p. ASSUME row' = OffScreen, written' = Unwritten, label' \in [Cells -> Movies \cup {None}]
      PROVE  CellTypes' /\ RowsDiffer' /\ LabelsFromGenres'
  <2>1. CellTypes' BY <1>p DEF CellTypes, OffScreen, Unwritten
  <2>2. \A c \in Cells : row'[c] = 0 BY <1>p DEF OffScreen
  <2>3. Labelled' = {} BY <2>2 DEF Labelled
  <2> QED BY <2>1, <2>2, <2>3 DEF RowsDiffer, LabelsFromGenres
<1>1. CASE ListStep BY <1>1, <1>l, <1>p DEF ListStep, ReloadData
<1>2. CASE OtherStep BY <1>2, OtherStepOK
<1>3. ASSUME NEW c \in Cells, NEW i \in Rows, CellForItem(c, i)
      PROVE  CellTypes' /\ RowsDiffer' /\ LabelsFromGenres'
  BY <1>3, CellForItemOK
<1>4. ASSUME NEW c \in Cells, NEW i \in Rows, CellForItemRaises(c, i)
      PROVE  CellTypes' /\ RowsDiffer' /\ LabelsFromGenres'
  <2>1. AsMade \in [Cells -> Movies \cup {None}] BY DEF AsMade
  <2> QED BY <1>4, <1>p, <2>1 DEF CellForItemRaises
<1>5. ASSUME NEW c \in Cells, ScrollAway(c)
      PROVE  CellTypes' /\ RowsDiffer' /\ LabelsFromGenres'
  BY <1>5, ScrollAwayOK
<1>6. CASE UNCHANGED gridVars
  <2>1. UNCHANGED <<row, label, written, movieList, listOfGenres, asks, alone>>
    BY <1>6 DEF gridVars, cellVars, vars, historyVars
  <2> QED
    BY <2>1 DEF GInv, CellTypes, RowsDiffer, LabelsFromGenres, Labelled, ListsQuiet
<1> QED BY <1>1, <1>2, <1>3, <1>4, <1>5, <1>6 DEF GridNext

LEMMA GridInvariant == GridSpec => []GInv
BY InitGInv, StepGInv, PTL DEF GridSpec

\* Drawing, scrolling and reloading do nothing to the list but what MovieList
\* says of it: the grid behaves as its list, and what holds of the list holds
\* on the screen (the blocks of the requests, cellForItemAtIndexPath:).
THEOREM GridIsMovieList == GridSpec => Spec
<1>1. GridInit => Init BY DEF GridInit
<1> QED BY <1>1, GridStepIsListStep, PTL DEF GridSpec, Spec

\* The main screen and its cells have their types.
THEOREM TypeCorrect == GridSpec => []GridTypeOK
<1>1. GInv => GridTypeOK BY DEF GInv, IInv, CellTypes, GridTypeOK
<1> QED BY <1>1, GridInvariant, PTL

\* A label that was written for its row, in a list loaded on its own, names a
\* movie of this list, no other row's label names it too, and it is the row's own
\* if the genres came in the order of their movies (addObject: in the order of the
\* replies, setupGenre: by row and only while there are any).
THEOREM GenresByRow == GridSpec => []GenreUnderItsMovie
<1>1. GInv => GenreUnderItsMovie
  <2> SUFFICES ASSUME GInv, alone, ListsQuiet, movieList # "popular"
               PROVE  /\ \A c \in Labelled :
                           /\ label[c] \in {OptionOf(movieList)} \X Rows
                           /\ inOrder => label[c] = <<OptionOf(movieList), row[c]>>
                      /\ \A c, d \in Labelled : c # d => label[c] # label[d]
    BY DEF GenreUnderItsMovie
  <2>1. \A c \in Labelled : /\ c \in Cells /\ row[c] # 0
                            /\ row[c] \in DOMAIN listOfGenres
                            /\ label[c] = listOfGenres[row[c]]
    BY DEF GInv, LabelsFromGenres, Labelled
  <2>2. ASSUME NEW c \in Labelled PROVE label[c] \in {OptionOf(movieList)} \X Rows
    <3>1. label[c] \in Genres BY <2>1 DEF Genres
    <3>2. label[c] \in Movies /\ label[c][1] = OptionOf(movieList)
      BY <3>1 DEF GInv, IInv, GenresOfShownList
    <3> QED BY <3>2 DEF Movies
  <2>3. ASSUME NEW c \in Labelled, inOrder
        PROVE  label[c] = <<OptionOf(movieList), row[c]>>
    BY <2>1, <2>3 DEF GInv, IInv, GenresInOrder
  <2>4. ASSUME NEW c \in Labelled, NEW d \in Labelled, label[c] = label[d]
        PROVE  c = d
    <3>1. row[c] = row[d] BY <2>1, <2>4 DEF GInv, IInv, GenresOfShownList
    <3> QED BY <2>1, <3>1 DEF GInv, RowsDiffer
  <2> QED BY <2>2, <2>3, <2>4
<1> QED BY <1>1, GridInvariant, PTL
=============================================================================
