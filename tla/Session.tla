------------------------------- MODULE Session -------------------------------
(***************************************************************************)
(* Logging in and out: the login screen (LoginViewController.m), the side  *)
(* menu's rows (LeftSideViewController.m, ButtonTableViewCell.m) and the   *)
(* flag "UserLogedIn" that NSUserDefaults keeps across launches.           *)
(*                                                                         *)
(* Every screen change presents a new controller over the old one and      *)
(* nothing is ever dismissed, so the screens form a growing stack.  A menu *)
(* builds its rows once, from the flag at that time.                       *)
(***************************************************************************)
EXTENDS Naturals, Sequences

CONSTANTS
  Calls,      \* bound: the login attempts that can be under way at once
  MaxScreens  \* bound: how deep the stack of screens is followed

ASSUME SessionAssumption == MaxScreens \in Nat \ {0}

VARIABLES
  loggedIn,   \* UserLogedIn of NSUserDefaults
  stack,      \* the presented screens, the one on top last
  alert,      \* "Are you sure you want to logout?" is shown on the top menu
  calls,      \* per attempt: what it waits for, or Idle
  overlapped  \* history: an attempt was started while one of the same login
              \* screen was under way

vars == <<loggedIn, stack, alert, calls, overlapped>>

\* "guest" is a menu with the one row Login, "member" one with the rows
\* Cinema, Settings and Logout.  valid: the text fields hold an account's
\* name and password.
Screens == [kind : {"guest", "member", "login"}, valid : BOOLEAN]

\* An attempt waits for its token or for its session, and belongs to the
\* login screen at a position of the stack.
Waiting == [step : {"token", "session"}, screen : Nat, valid : BOOLEAN]
Idle    == [step |-> "idle", screen |-> 0, valid |-> FALSE]

TypeOK ==
  /\ loggedIn \in BOOLEAN
  /\ stack \in Seq(Screens) /\ stack # << >>
  /\ alert \in BOOLEAN
  /\ calls \in [Calls -> Waiting \cup {Idle}]
  /\ overlapped \in BOOLEAN

Depth == Len(stack)
Top   == stack[Depth]

\* numberOfSectionsInTableView: and cellForRowAtIndexPath: when the table of a
\* new LeftSideViewController loads.
Menu(flag) == [kind |-> IF flag THEN "member" ELSE "guest", valid |-> FALSE]

Init ==
  /\ loggedIn \in BOOLEAN
  /\ stack = <<Menu(loggedIn)>>
  /\ alert = FALSE
  /\ calls = [c \in Calls |-> Idle]
  /\ overlapped = FALSE

Present(screen) == Depth < MaxScreens /\ stack' = Append(stack, screen)

-----------------------------------------------------------------------------
\* The row Login of the menu.
TapLogin ==
  /\ Top.kind = "guest"
  /\ Present([kind |-> "login", valid |-> FALSE])
  /\ UNCHANGED <<loggedIn, alert, calls, overlapped>>

EnterText ==
  /\ Top.kind = "login"
  /\ \E valid \in BOOLEAN : stack' = [stack EXCEPT ![Depth].valid = valid]
  /\ UNCHANGED <<loggedIn, alert, calls, overlapped>>

\* The button of the login screen: it stays enabled, every tap asks for a token.
ButtonPressed(c) ==
  /\ Top.kind = "login"
  /\ calls[c] = Idle
  /\ calls' = [calls EXCEPT
       ![c] = [step |-> "token", screen |-> Depth, valid |-> FALSE]]
  /\ overlapped' = (overlapped \/ \E b \in Calls : calls[b] # Idle
                                                /\ calls[b].screen = Depth)
  /\ UNCHANGED <<loggedIn, stack, alert>>

\* The token arrives: the session is asked for with what the text fields of
\* that screen hold now.
TokenReply(c) ==
  /\ calls[c].step = "token"
  /\ calls' = [calls EXCEPT ![c].step = "session",
                            ![c].valid = stack[calls[c].screen].valid]
  /\ UNCHANGED <<loggedIn, stack, alert, overlapped>>

\* Mutant: the attempt is not over with its reply.
SessionReplyKept(c) ==
  /\ calls[c].step = "session" /\ calls[c].valid
  /\ loggedIn' = TRUE
  /\ IF calls[c].screen = Depth THEN Present(Menu(TRUE)) ELSE UNCHANGED stack
  /\ UNCHANGED <<alert, calls, overlapped>>

\* Mutant: the main screen is presented over whatever is on top.
SessionReplyOnTop(c) ==
  /\ calls[c].step = "session" /\ calls[c].valid
  /\ calls' = [calls EXCEPT ![c] = Idle]
  /\ loggedIn' = TRUE
  /\ Present(Menu(TRUE))
  /\ UNCHANGED <<alert, overlapped>>

\* The session arrives, which takes the right credentials: the flag is set
\* and the main screen presented, which UIKit refuses to a covered screen.
SessionReply(c) ==
  /\ calls[c].step = "session" /\ calls[c].valid
  /\ calls' = [calls EXCEPT ![c] = Idle]
  /\ loggedIn' = TRUE
  /\ IF calls[c].screen = Depth THEN Present(Menu(TRUE)) ELSE UNCHANGED stack
  /\ UNCHANGED <<alert, overlapped>>

\* No token, success other than "true", a refused login or no network: the
\* failure blocks are empty, the attempt just ends.
CallFails(c) ==
  /\ calls[c] # Idle
  /\ calls' = [calls EXCEPT ![c] = Idle]
  /\ UNCHANGED <<loggedIn, stack, alert, overlapped>>

-----------------------------------------------------------------------------
TapLogout ==
  /\ Top.kind = "member" /\ ~alert
  /\ alert' = TRUE
  /\ UNCHANGED <<loggedIn, stack, calls, overlapped>>

AnswerNo ==
  /\ alert
  /\ alert' = FALSE
  /\ UNCHANGED <<loggedIn, stack, calls, overlapped>>

\* Mutant: the menu stays where it is.
AnswerYesStaying ==
  /\ alert
  /\ alert' = FALSE
  /\ loggedIn' = FALSE
  /\ UNCHANGED <<stack, calls, overlapped>>

\* The flag is cleared and showBack presents the main screen anew.  Requests
\* under way are not cancelled.
AnswerYes ==
  /\ alert
  /\ alert' = FALSE
  /\ loggedIn' = FALSE
  /\ Present(Menu(FALSE))
  /\ UNCHANGED <<calls, overlapped>>

\* The app is killed and launched again.
Relaunch ==
  /\ stack' = <<Menu(loggedIn)>>
  /\ alert' = FALSE
  /\ calls' = [c \in Calls |-> Idle]
  /\ overlapped' = FALSE
  /\ UNCHANGED loggedIn

Attempt(c) == ButtonPressed(c) \/ TokenReply(c) \/ SessionReply(c) \/ CallFails(c)

Next ==
  \/ TapLogin \/ EnterText \/ TapLogout \/ AnswerNo \/ AnswerYes \/ Relaunch
  \/ \E c \in Calls : Attempt(c)

Spec == Init /\ [][Next]_vars

-----------------------------------------------------------------------------
(* PROPERTIES *)

\* A menu that offers Cinema and Logout is never on top after a logout: the
\* rows are built once, and every step that clears the flag covers them.
MemberMenuIsLoggedIn == Top.kind = "member" => loggedIn

\* The other way round the menu can be wrong: a session that arrives after
\* the logout sets the flag again behind a menu that offers Login only.  That
\* takes a login button tapped again while its first attempt was under way; a
\* screen has no other way to be covered with an attempt still running.
LateLoginNeedsDoubleTap == Top.kind = "guest" /\ loggedIn => overlapped

\* So the menu on top agrees with the flag but for that one case.
MenuMatchesFlag == MemberMenuIsLoggedIn /\ LateLoginNeedsDoubleTap

\* Nothing is dismissed, yet no screen gets where it does not belong: over a
\* guest's menu lies its login screen, over a login screen the member's menu,
\* over a member's menu the guest's, however many attempts answer late.  So the
\* screens grow by three with every login that is logged out again, and by
\* nothing else.
Covering == [guest |-> "login", login |-> "member", member |-> "guest"]

ScreensAlternate ==
  \A i \in 1..(Depth - 1) : stack[i + 1].kind = Covering[stack[i].kind]
=============================================================================
