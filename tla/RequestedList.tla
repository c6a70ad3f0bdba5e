----------------------------- MODULE RequestedList -----------------------------
(***************************************************************************)
(* What a screen with a list from the web service promises its user: as    *)
(* long as nothing disturbs it there is one list that has been asked for,  *)
(* and nothing but that list ever takes the place of the one shown.  The   *)
(* promise ends with a request that meets one for another list, or fails,  *)
(* and holds again from the next request that is made alone.               *)
(***************************************************************************)
CONSTANTS
  Lists,
  None   \* no list

VARIABLES shown, asked, disturbed

vars == <<shown, asked, disturbed>>

Init == shown = None /\ asked \in Lists \cup {None} /\ disturbed = FALSE

\* Asked for once more, or after the last one has come.
Ask ==
  \E list \in Lists :
    asked \in {None, list} /\ asked' = list /\ UNCHANGED shown

\* The list comes, for the last time or before it comes once more.
Arrive == asked # None /\ shown' = asked /\ asked' \in {asked, None}

\* The list is taken away, and the screen may begin anew.
StartAnew == shown' = None /\ asked' \in Lists \cup {None}

\* What was disturbed is put right by the next list.
AskAlone == asked' \in Lists /\ UNCHANGED shown

Next ==
  \/ disturbed' = FALSE /\ (StartAnew \/ IF disturbed THEN AskAlone ELSE Ask \/ Arrive)
  \/ disturbed' = TRUE

Spec == Init /\ [][Next]_vars
=============================================================================
