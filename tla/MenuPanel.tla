------------------------------ MODULE MenuPanel ------------------------------
(***************************************************************************)
(* What a side menu promises to the rest of the app: it is hidden, opening,*)
(* shown or closing, and comes to rest only from opening or closing, so    *)
(* that nobody sees it jump.  The promise ends when it is disturbed.       *)
(***************************************************************************)
VARIABLES phase, disturbed

vars == <<phase, disturbed>>

Init == phase = "hidden" /\ disturbed = FALSE

\* A transition starts, or turns round.
Move ==
  /\ phase' \in CASE phase = "hidden" -> {"opening"}
                  [] phase = "shown"  -> {"closing"}
                  [] OTHER            -> {"opening", "closing"}

ComeToRest ==
  /\ phase \in {"opening", "closing"}
  /\ phase' \in {"hidden", "shown"}

Next ==
  \/ ~disturbed /\ (Move \/ ComeToRest) /\ disturbed' = FALSE
  \/ disturbed' = TRUE

Spec == Init /\ [][Next]_vars
=============================================================================
