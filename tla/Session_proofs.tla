---------------------------- MODULE Session_proofs ----------------------------
(***************************************************************************)
(* What Session keeps to for any number of attempts and any depth of the   *)
(* stack.                                                                  *)
(***************************************************************************)
EXTENDS Session, SequenceTheorems, TLAPS

\* As long as no login button was tapped twice, the one attempt under way is
\* that of the screen on top: nothing can cover a login screen before its
\* attempt is over.
OneAttempt ==
  ~overlapped =>
    /\ \A c \in Calls : calls[c] # Idle => /\ calls[c].screen = Depth
                                           /\ Top.kind = "login"
    /\ \A b, c \in Calls : calls[b] # Idle /\ calls[c] # Idle => b = c

\* The attempts belong to screens of the stack, which only grows.
OnStack == \A c \in Calls : calls[c] # Idle => calls[c].screen \in 1..Depth

\* The logout question does not outlive the menu that asked it.
AlertOnMemberMenu == alert => Top.kind = "member"

IInv ==
  /\ TypeOK
  /\ OnStack
  /\ MemberMenuIsLoggedIn
  /\ AlertOnMemberMenu
  /\ OneAttempt
  /\ LateLoginNeedsDoubleTap

\* Presenting a screen puts it on top and leaves a stack (Present).
LEMMA PresentTop ==
  ASSUME TypeOK, NEW screen \in Screens, Present(screen)
  PROVE  /\ stack' \in Seq(Screens) /\ stack' # << >>
         /\ Top' = screen /\ Depth' = Depth + 1 /\ Depth \in Nat \ {0}
<1>1. stack \in Seq(Screens) /\ stack # << >> BY DEF TypeOK
<1>2. stack' = Append(stack, screen) BY DEF Present
<1>3. /\ stack' \in Seq(Screens) /\ Len(stack') = Len(stack) + 1
      /\ stack'[Len(stack')] = screen
  BY <1>1, <1>2, AppendProperties
<1>4. Len(stack) \in Nat \ {0} BY <1>1, EmptySeq, LenProperties
<1> QED BY <1>2, <1>3, <1>4 DEF Top, Depth

\* A new menu is a screen (the menus LeftSideViewController builds).
LEMMA MenuIsScreen ==
  ASSUME NEW flag \in BOOLEAN
  PROVE  Menu(flag) \in Screens /\ Menu(flag).kind = IF flag THEN "member" ELSE "guest"
BY DEF Menu, Screens

\* The screen on top is a screen, an attempt is a record of one of two kinds.
LEMMA TopAndCalls ==
  ASSUME TypeOK
  PROVE  /\ Depth \in Nat \ {0} /\ Top \in Screens
         /\ \A c \in Calls : calls[c] \in Waiting \cup {Idle}
         /\ Idle \notin Waiting
<1>1. stack \in Seq(Screens) /\ stack # << >> BY DEF TypeOK
<1>2. Len(stack) \in Nat \ {0} BY <1>1, EmptySeq, LenProperties
<1>3. stack[Len(stack)] \in Screens BY <1>1, <1>2, ElementOfSeq
<1> QED BY <1>2, <1>3 DEF TypeOK, Top, Depth, Idle, Waiting

LEMMA InitIInv == Init => IInv
<1> SUFFICES ASSUME Init PROVE IInv OBVIOUS
<1>1. Menu(loggedIn) \in Screens /\ loggedIn \in BOOLEAN BY MenuIsScreen DEF Init
<1>2. stack = <<Menu(loggedIn)>> BY DEF Init
<1>3. stack \in Seq(Screens) /\ stack # << >> /\ Len(stack) = 1 BY <1>1, <1>2
<1>4. Top = Menu(loggedIn) BY <1>2, <1>3 DEF Top, Depth
<1>5. TypeOK BY <1>1, <1>3 DEF Init, TypeOK
<1>6. MemberMenuIsLoggedIn /\ LateLoginNeedsDoubleTap
  BY <1>1, <1>4, MenuIsScreen DEF MemberMenuIsLoggedIn, LateLoginNeedsDoubleTap
<1>7. AlertOnMemberMenu /\ OneAttempt /\ OnStack
  BY DEF Init, AlertOnMemberMenu, OneAttempt, OnStack
<1> QED BY <1>5, <1>6, <1>7 DEF IInv

\* Every step of the app keeps the invariant; one step per action.
LEMMA StepIInv == IInv /\ [Next]_vars => IInv'
<1> SUFFICES ASSUME IInv, [Next]_vars PROVE IInv' OBVIOUS
<1> USE SessionAssumption
<1>t. TypeOK BY DEF IInv
<1>u. /\ Depth \in Nat \ {0} /\ Top \in Screens
      /\ \A c \in Calls : calls[c] \in Waiting \cup {Idle}
      /\ Idle \notin Waiting
  BY <1>t, TopAndCalls
<1>1. CASE TapLogin
  <2> DEFINE login == [kind |-> "login", valid |-> FALSE]
  <2>1. Present(login) /\ Top.kind = "guest" BY <1>1 DEF TapLogin
  <2>2. login \in Screens BY DEF Screens
  <2>3. /\ stack' \in Seq(Screens) /\ stack' # << >>
        /\ Top' = login /\ Depth' = Depth + 1
    BY <1>t, <2>1, <2>2, PresentTop
  <2>4. UNCHANGED <<loggedIn, alert, calls, overlapped>> BY <1>1 DEF TapLogin
  <2>5. Top'.kind = "login" BY <2>3
  <2>6. ~overlapped => \A c \in Calls : calls[c] = Idle
    BY <2>1 DEF IInv, OneAttempt
  <2>7. TypeOK' BY <1>t, <2>3, <2>4 DEF TypeOK
  <2>8. OneAttempt' BY <2>4, <2>6 DEF OneAttempt
  <2>9. AlertOnMemberMenu' /\ OnStack'
    BY <1>u, <2>1, <2>3, <2>4 DEF IInv, AlertOnMemberMenu, OnStack
  <2>10. MemberMenuIsLoggedIn' /\ LateLoginNeedsDoubleTap'
    BY <2>5 DEF MemberMenuIsLoggedIn, LateLoginNeedsDoubleTap
  <2> QED BY <2>7, <2>8, <2>9, <2>10 DEF IInv
<1>2. CASE EnterText
  <2>1. PICK valid \in BOOLEAN : stack' = [stack EXCEPT ![Depth].valid = valid]
    BY <1>2 DEF EnterText
  <2>2. Top.kind = "login" /\ UNCHANGED <<loggedIn, alert, calls, overlapped>>
    BY <1>2 DEF EnterText
  <2>3. stack' = [stack EXCEPT ![Depth] = [Top EXCEPT !.valid = valid]]
    BY <2>1 DEF Top
  <2>4. [Top EXCEPT !.valid = valid] \in Screens BY <1>u DEF Screens
  <2>5. /\ stack' \in Seq(Screens) /\ Len(stack') = Len(stack)
        /\ stack'[Depth] = [Top EXCEPT !.valid = valid]
    BY <1>t, <1>u, <2>3, <2>4, ExceptSeq DEF TypeOK, Depth
  <2>6. stack' # << >> /\ Depth' = Depth
    BY <1>u, <2>5, EmptySeq DEF Depth
  <2>7. Top' = [Top EXCEPT !.valid = valid] BY <2>5, <2>6 DEF Top
  <2>8. Top'.kind = Top.kind BY <1>u, <2>7 DEF Screens
  <2>9. TypeOK' BY <1>t, <2>2, <2>5, <2>6 DEF TypeOK
  <2>10. OneAttempt' BY <2>2, <2>6, <2>8 DEF IInv, OneAttempt
  <2>11. /\ AlertOnMemberMenu' /\ MemberMenuIsLoggedIn'
         /\ LateLoginNeedsDoubleTap' /\ OnStack'
    BY <2>2, <2>6, <2>8 DEF IInv, AlertOnMemberMenu, MemberMenuIsLoggedIn,
                            LateLoginNeedsDoubleTap, OnStack
  <2> QED BY <2>9, <2>10, <2>11 DEF IInv
<1>3. CASE TapLogout \/ AnswerNo
  <2>1. UNCHANGED <<loggedIn, stack, calls, overlapped>> /\ alert' \in BOOLEAN
    BY <1>3 DEF TapLogout, AnswerNo
  <2>2. alert' => Top.kind = "member" BY <1>3 DEF TapLogout, AnswerNo
  <2>3. Top' = Top /\ Depth' = Depth BY <2>1 DEF Top, Depth
  <2>4. TypeOK' BY <1>t, <2>1 DEF TypeOK
  <2>5. OneAttempt' BY <2>1, <2>3 DEF IInv, OneAttempt
  <2>6. /\ AlertOnMemberMenu' /\ MemberMenuIsLoggedIn'
        /\ LateLoginNeedsDoubleTap' /\ OnStack'
    BY <2>1, <2>2, <2>3 DEF IInv, AlertOnMemberMenu, MemberMenuIsLoggedIn,
                            LateLoginNeedsDoubleTap, OnStack
  <2> QED BY <2>4, <2>5, <2>6 DEF IInv
<1>4. CASE AnswerYes
  <2>1. Present(Menu(FALSE)) /\ alert /\ alert' = FALSE /\ loggedIn' = FALSE
        /\ UNCHANGED <<calls, overlapped>>
    BY <1>4 DEF AnswerYes
  <2>2. Menu(FALSE) \in Screens /\ Menu(FALSE).kind = "guest" BY MenuIsScreen
  <2>3. /\ stack' \in Seq(Screens) /\ stack' # << >>
        /\ Top' = Menu(FALSE) /\ Depth' = Depth + 1
    BY <1>t, <2>1, <2>2, PresentTop
  <2>4. Top.kind = "member" BY <2>1 DEF IInv, AlertOnMemberMenu
  <2>5. ~overlapped => \A c \in Calls : calls[c] = Idle
    BY <2>4 DEF IInv, OneAttempt
  <2>6. TypeOK' BY <1>t, <2>1, <2>3 DEF TypeOK
  <2>7. OneAttempt' BY <2>1, <2>5 DEF OneAttempt
  <2>8. Top'.kind = "guest" BY <2>2, <2>3
  <2>9. MemberMenuIsLoggedIn' BY <2>8 DEF MemberMenuIsLoggedIn
  <2>10. AlertOnMemberMenu' /\ LateLoginNeedsDoubleTap'
    BY <2>1 DEF AlertOnMemberMenu, LateLoginNeedsDoubleTap
  <2>11. OnStack' BY <1>u, <2>1, <2>3 DEF IInv, OnStack
  <2> QED BY <2>6, <2>7, <2>9, <2>10, <2>11 DEF IInv
<1>5. CASE Relaunch
  <2>1. /\ stack' = <<Menu(loggedIn)>> /\ alert' = FALSE /\ overlapped' = FALSE
        /\ calls' = [c \in Calls |-> Idle] /\ loggedIn' = loggedIn
    BY <1>5 DEF Relaunch
  <2>2. loggedIn \in BOOLEAN BY <1>t DEF TypeOK
  <2>3. /\ Menu(loggedIn) \in Screens
        /\ Menu(loggedIn).kind = IF loggedIn THEN "member" ELSE "guest"
    BY <2>2, MenuIsScreen
  <2>4. stack' \in Seq(Screens) /\ stack' # << >> /\ Len(stack') = 1
    BY <2>1, <2>3
  <2>5. Top' = Menu(loggedIn) BY <2>1, <2>4 DEF Top, Depth
  <2>6. TypeOK' BY <2>1, <2>2, <2>4 DEF TypeOK
  <2>7. OneAttempt' /\ AlertOnMemberMenu' /\ OnStack'
    BY <2>1 DEF OneAttempt, AlertOnMemberMenu, OnStack
  <2>8. MemberMenuIsLoggedIn' /\ LateLoginNeedsDoubleTap'
    BY <2>1, <2>2, <2>3, <2>5 DEF MemberMenuIsLoggedIn, LateLoginNeedsDoubleTap
  <2> QED BY <2>6, <2>7, <2>8 DEF IInv
<1>6. ASSUME NEW c \in Calls, ButtonPressed(c) PROVE IInv'
  <2> DEFINE new == [step |-> "token", screen |-> Depth, valid |-> FALSE]
  <2>1. /\ Top.kind = "login" /\ calls[c] = Idle
        /\ calls' = [calls EXCEPT ![c] = new]
        /\ UNCHANGED <<loggedIn, stack, alert>>
    BY <1>6 DEF ButtonPressed
  <2>2. overlapped' = (overlapped \/ \E b \in Calls : calls[b] # Idle
                                                   /\ calls[b].screen = Depth)
    BY <1>6 DEF ButtonPressed
  <2>3. new \in Waiting BY <1>u DEF Waiting
  <2>4. Top' = Top /\ Depth' = Depth BY <2>1 DEF Top, Depth
  <2>5. TypeOK' BY <1>t, <2>1, <2>2, <2>3 DEF TypeOK
  <2>6. ~overlapped' => \A b \in Calls : calls[b] = Idle
    BY <2>2 DEF IInv, OneAttempt
  <2>7. \A b \in Calls : calls'[b] = IF b = c THEN new ELSE calls[b]
    BY <1>t, <2>1 DEF TypeOK
  <2>8. OneAttempt'
    <3> SUFFICES ASSUME ~overlapped' PROVE OneAttempt' BY DEF OneAttempt
    <3>1. \A b \in Calls : calls'[b] # Idle => b = c BY <2>6, <2>7
    <3>2. calls'[c].screen = Depth BY <2>7
    <3> QED BY <2>1, <2>4, <3>1, <3>2 DEF OneAttempt
  <2>9. ~overlapped' => ~overlapped BY <2>2
  <2>10. AlertOnMemberMenu' /\ MemberMenuIsLoggedIn' /\ LateLoginNeedsDoubleTap'
    BY <2>1, <2>4, <2>9 DEF IInv, AlertOnMemberMenu, MemberMenuIsLoggedIn,
                            LateLoginNeedsDoubleTap
  <2>11. OnStack' BY <1>u, <2>4, <2>7 DEF IInv, OnStack
  <2> QED BY <2>5, <2>8, <2>10, <2>11 DEF IInv
<1>7. ASSUME NEW c \in Calls, TokenReply(c) PROVE IInv'
  <2> DEFINE sent == stack[calls[c].screen].valid
             new  == [calls[c] EXCEPT !.step = "session", !.valid = sent]
  <2>1. calls[c].step = "token" /\ UNCHANGED <<loggedIn, stack, alert, overlapped>>
    BY <1>7 DEF TokenReply
  <2>2. calls[c] \in Waiting BY <1>u, <2>1 DEF Idle
  <2>3. calls[c] # Idle BY <1>u, <2>2
  <2>4. calls[c].screen \in 1..Depth BY <2>3 DEF IInv, OnStack
  <2>5. sent \in BOOLEAN
    <3>1. stack[calls[c].screen] \in Screens
      BY <1>t, <2>4, ElementOfSeq DEF TypeOK, Depth
    <3> QED BY <3>1 DEF Screens
  <2>6. calls' = [calls EXCEPT ![c] = new] BY <1>7 DEF TokenReply
  <2>7. new \in Waiting /\ new.screen = calls[c].screen
    BY <2>2, <2>5 DEF Waiting
  <2> HIDE DEF new
  <2>8. \A b \in Calls : calls'[b] = IF b = c THEN new ELSE calls[b]
    BY <1>t, <2>6 DEF TypeOK
  <2>9. TypeOK' BY <1>t, <2>1, <2>6, <2>7 DEF TypeOK
  <2>10. Top' = Top /\ Depth' = Depth BY <2>1 DEF Top, Depth
  <2>11. \A b \in Calls : calls'[b] # Idle => /\ calls[b] # Idle
                                              /\ calls'[b].screen = calls[b].screen
    BY <2>3, <2>7, <2>8
  <2>12. OnStack' /\ OneAttempt'
    BY <2>1, <2>10, <2>11 DEF IInv, OnStack, OneAttempt
  <2>13. /\ AlertOnMemberMenu' /\ MemberMenuIsLoggedIn'
         /\ LateLoginNeedsDoubleTap'
    BY <2>1, <2>10 DEF IInv, AlertOnMemberMenu, MemberMenuIsLoggedIn,
                       LateLoginNeedsDoubleTap
  <2> QED BY <2>9, <2>12, <2>13 DEF IInv
<1>8. ASSUME NEW c \in Calls, SessionReply(c) PROVE IInv'
  <2>1. /\ calls[c].step = "session" /\ loggedIn' = TRUE
        /\ calls' = [calls EXCEPT ![c] = Idle]
        /\ UNCHANGED <<alert, overlapped>>
    BY <1>8 DEF SessionReply
  <2>2. calls[c] # Idle BY <2>1 DEF Idle
  <2>3. \A b \in Calls : calls'[b] = IF b = c THEN Idle ELSE calls[b]
    BY <1>t, <2>1 DEF TypeOK
  <2>4. CASE calls[c].screen = Depth
    <3>1. Present(Menu(TRUE)) BY <1>8, <2>4 DEF SessionReply
    <3>2. Menu(TRUE) \in Screens /\ Menu(TRUE).kind = "member" BY MenuIsScreen
    <3>3. /\ stack' \in Seq(Screens) /\ stack' # << >>
          /\ Top' = Menu(TRUE) /\ Depth' = Depth + 1
      BY <1>t, <3>1, <3>2, PresentTop
    <3>4. TypeOK' BY <1>t, <2>1, <3>3 DEF TypeOK
    <3>5. ~overlapped => \A b \in Calls : calls'[b] = Idle
      BY <2>2, <2>3 DEF IInv, OneAttempt
    <3>6. OneAttempt' BY <2>1, <3>5 DEF OneAttempt
    <3>7. OnStack' BY <1>u, <2>3, <3>3 DEF IInv, OnStack
    <3>8. /\ AlertOnMemberMenu' /\ MemberMenuIsLoggedIn'
          /\ LateLoginNeedsDoubleTap'
      BY <2>1, <3>2, <3>3 DEF AlertOnMemberMenu, MemberMenuIsLoggedIn,
                              LateLoginNeedsDoubleTap
    <3> QED BY <3>4, <3>6, <3>7, <3>8 DEF IInv
  <2>5. CASE calls[c].screen # Depth
    <3>1. stack' = stack BY <1>8, <2>5 DEF SessionReply
    <3>2. Top' = Top /\ Depth' = Depth BY <3>1 DEF Top, Depth
    <3>3. overlapped BY <2>2, <2>5 DEF IInv, OneAttempt
    <3>4. TypeOK' BY <1>t, <2>1, <3>1 DEF TypeOK
    <3>5. OnStack' BY <2>3, <3>2 DEF IInv, OnStack
    <3>6. /\ AlertOnMemberMenu' /\ MemberMenuIsLoggedIn' /\ OneAttempt'
          /\ LateLoginNeedsDoubleTap'
      BY <2>1, <3>2, <3>3 DEF IInv, AlertOnMemberMenu, MemberMenuIsLoggedIn,
                              OneAttempt, LateLoginNeedsDoubleTap
    <3> QED BY <3>4, <3>5, <3>6 DEF IInv
  <2> QED BY <2>4, <2>5
<1>9. ASSUME NEW c \in Calls, CallFails(c) PROVE IInv'
  <2>1. /\ calls' = [calls EXCEPT ![c] = Idle]
        /\ UNCHANGED <<loggedIn, stack, alert, overlapped>>
    BY <1>9 DEF CallFails
  <2>2. \A b \in Calls : calls'[b] = IF b = c THEN Idle ELSE calls[b]
    BY <1>t, <2>1 DEF TypeOK
  <2>3. Top' = Top /\ Depth' = Depth BY <2>1 DEF Top, Depth
  <2>4. TypeOK' BY <1>t, <2>1 DEF TypeOK
  <2>5. OnStack' /\ OneAttempt'
    BY <2>1, <2>2, <2>3 DEF IInv, OnStack, OneAttempt
  <2>6. /\ AlertOnMemberMenu' /\ MemberMenuIsLoggedIn'
        /\ LateLoginNeedsDoubleTap'
    BY <2>1, <2>3 DEF IInv, AlertOnMemberMenu, MemberMenuIsLoggedIn,
                      LateLoginNeedsDoubleTap
  <2> QED BY <2>4, <2>5, <2>6 DEF IInv
<1>10. CASE UNCHANGED vars
  <2>1. UNCHANGED <<loggedIn, stack, alert, calls, overlapped>> BY <1>10 DEF vars
  <2>2. Top' = Top /\ Depth' = Depth BY <2>1 DEF Top, Depth
  <2> QED BY <2>1, <2>2 DEF IInv, TypeOK, MemberMenuIsLoggedIn, OneAttempt,
                            OnStack, AlertOnMemberMenu, LateLoginNeedsDoubleTap
<1> QED BY <1>1, <1>2, <1>3, <1>4, <1>5, <1>6, <1>7, <1>8, <1>9, <1>10
        DEF Next, Attempt

-----------------------------------------------------------------------------
LEMMA Invariant == Spec => []IInv
BY InitIInv, StepIInv, PTL DEF Spec

\* The state of the session has its type whatever the taps and the replies.
THEOREM TypeCorrect == Spec => []TypeOK
<1>1. IInv => TypeOK BY DEF IInv
<1> QED BY <1>1, Invariant, PTL

\* A menu with the row Logout is on top only while UserLogedIn is set, and one
\* that offers Login only while it is not, unless a login button was tapped again
\* during its first attempt.
THEOREM MenuMatches == Spec => []MenuMatchesFlag
<1>1. IInv => MenuMatchesFlag BY DEF IInv, MenuMatchesFlag
<1> QED BY <1>1, Invariant, PTL

-----------------------------------------------------------------------------
(* Which screens lie over which *)

\* An attempt of the screen on top is one of a login screen, so that no session
\* can put a screen over a menu.
AttemptOfLogin ==
  \A c \in Calls : calls[c] # Idle /\ calls[c].screen = Depth => Top.kind = "login"

\* Presenting a screen leaves all attempts behind.
LEMMA PresentLeavesAttempts ==
  ASSUME IInv, NEW screen \in Screens, Present(screen),
         \A c \in Calls : calls'[c] # Idle => calls'[c].screen \in 1..Depth
  PROVE  AttemptOfLogin'
<1>1. Depth' = Depth + 1 /\ Depth \in Nat \ {0} BY PresentTop DEF IInv
<1>2. \A c \in Calls : calls'[c] # Idle => calls'[c].screen # Depth'
  BY <1>1
<1> QED BY <1>2 DEF AttemptOfLogin

\* No step of Session puts another screen under an attempt of the screen on top.
LEMMA AttemptsStepOfLogin == IInv /\ AttemptOfLogin /\ [Next]_vars => AttemptOfLogin'
<1> SUFFICES ASSUME IInv, AttemptOfLogin, [Next]_vars PROVE AttemptOfLogin' OBVIOUS
<1>t. TypeOK BY DEF IInv
<1>u. /\ Depth \in Nat \ {0} /\ Top \in Screens
      /\ \A c \in Calls : calls[c] \in Waiting \cup {Idle}
      /\ Idle \notin Waiting
  BY <1>t, TopAndCalls
<1>o. \A c \in Calls : calls[c] # Idle => calls[c].screen \in 1..Depth
  BY DEF IInv, OnStack
<1>f. calls \in [Calls -> Waiting \cup {Idle}] BY <1>t DEF TypeOK
<1>1. CASE TapLogin
  <2> DEFINE login == [kind |-> "login", valid |-> FALSE]
  <2>1. Present(login) /\ UNCHANGED calls BY <1>1 DEF TapLogin
  <2>2. login \in Screens BY DEF Screens
  <2> QED BY <1>o, <2>1, <2>2, PresentLeavesAttempts
<1>2. CASE EnterText
  <2>1. Top.kind = "login" /\ UNCHANGED calls BY <1>2 DEF EnterText
  <2>2. PICK valid \in BOOLEAN : stack' = [stack EXCEPT ![Depth].valid = valid]
    BY <1>2 DEF EnterText
  <2>3. stack' = [stack EXCEPT ![Depth] = [Top EXCEPT !.valid = valid]]
    BY <2>2 DEF Top
  <2>4. [Top EXCEPT !.valid = valid] \in Screens
        /\ [Top EXCEPT !.valid = valid].kind = Top.kind
    BY <1>u DEF Screens
  <2>5. /\ Len(stack') = Len(stack) /\ stack'[Depth] = [Top EXCEPT !.valid = valid]
    BY <1>t, <1>u, <2>3, <2>4, ExceptSeq DEF TypeOK, Depth
  <2>6. Top'.kind = "login" BY <2>1, <2>4, <2>5 DEF Top, Depth
  <2> QED BY <2>6 DEF AttemptOfLogin
<1>3. CASE TapLogout \/ AnswerNo
  BY <1>3 DEF TapLogout, AnswerNo, AttemptOfLogin, Top, Depth
<1>4. CASE AnswerYes
  <2>1. Present(Menu(FALSE)) /\ UNCHANGED calls BY <1>4 DEF AnswerYes
  <2> QED BY <1>o, <2>1, MenuIsScreen, PresentLeavesAttempts
<1>5. CASE Relaunch
  <2>1. calls' = [c \in Calls |-> Idle] BY <1>5 DEF Relaunch
  <2> QED BY <2>1 DEF AttemptOfLogin
<1>6. ASSUME NEW c \in Calls, ButtonPressed(c) PROVE AttemptOfLogin'
  BY <1>6 DEF ButtonPressed, AttemptOfLogin, Top, Depth
<1>7. ASSUME NEW c \in Calls, TokenReply(c) PROVE AttemptOfLogin'
  <2>1. /\ UNCHANGED stack /\ calls[c].step = "token"
        /\ calls' = [calls EXCEPT ![c].step = "session",
                                  ![c].valid = stack[calls[c].screen].valid]
    BY <1>7 DEF TokenReply
  <2>2. calls[c] # Idle BY <2>1 DEF Idle
  <2>3. calls[c] \in Waiting BY <1>u, <2>2
  <2>4. calls'[c].screen = calls[c].screen /\ \A b \in Calls \ {c} : calls'[b] = calls[b]
    BY <1>f, <2>1, <2>3 DEF Waiting
  <2>5. Top' = Top /\ Depth' = Depth BY <2>1 DEF Top, Depth
  <2> QED BY <2>2, <2>4, <2>5 DEF AttemptOfLogin
<1>8. ASSUME NEW c \in Calls, SessionReply(c) \/ CallFails(c) PROVE AttemptOfLogin'
  <2>1. calls' = [calls EXCEPT ![c] = Idle] BY <1>8 DEF SessionReply, CallFails
  <2>2. \A b \in Calls : calls'[b] # Idle => calls'[b] = calls[b] BY <1>f, <2>1
  <2>3. CASE Present(Menu(TRUE))
    BY <1>o, <2>2, <2>3, MenuIsScreen, PresentLeavesAttempts
  <2>4. CASE UNCHANGED stack
    BY <2>2, <2>4 DEF AttemptOfLogin, Top, Depth
  <2> QED BY <1>8, <2>3, <2>4 DEF SessionReply, CallFails
<1>9. CASE UNCHANGED vars
  BY <1>9 DEF vars, AttemptOfLogin, Top, Depth
<1> QED BY <1>1, <1>2, <1>3, <1>4, <1>5, <1>6, <1>7, <1>8, <1>9 DEF Next, Attempt

\* A screen of the kind that belongs over the one on top keeps the order.
LEMMA PresentAlternates ==
  ASSUME TypeOK, ScreensAlternate, NEW screen \in Screens, Present(screen),
         screen.kind = Covering[Top.kind]
  PROVE  ScreensAlternate'
<1>1. stack \in Seq(Screens) /\ Depth \in Nat \ {0} BY PresentTop DEF TypeOK
<1>2. stack' = Append(stack, screen) BY DEF Present
<1>3. /\ Depth' = Depth + 1 /\ stack'[Depth + 1] = screen
      /\ \A i \in 1..Depth : stack'[i] = stack[i]
  BY <1>1, <1>2, AppendProperties DEF Depth
<1>4. SUFFICES ASSUME NEW i \in 1..Depth
               PROVE  stack'[i + 1].kind = Covering[stack'[i].kind]
  BY <1>1, <1>3 DEF ScreensAlternate
<1>5. CASE i = Depth BY <1>1, <1>3, <1>5 DEF Top
<1>6. CASE i # Depth
  <2>1. i \in 1..(Depth - 1) /\ i + 1 \in 1..Depth BY <1>1, <1>6
  <2> QED BY <1>3, <2>1 DEF ScreensAlternate
<1> QED BY <1>5, <1>6

\* Every step keeps the order of the screens; one step per action.
LEMMA StepAlternate ==
  IInv /\ AttemptOfLogin /\ ScreensAlternate /\ [Next]_vars => ScreensAlternate'
<1> SUFFICES ASSUME IInv, AttemptOfLogin, ScreensAlternate, [Next]_vars
             PROVE  ScreensAlternate'
  OBVIOUS
<1>t. TypeOK BY DEF IInv
<1>u. /\ Depth \in Nat \ {0} /\ Top \in Screens /\ Idle \notin Waiting
      /\ stack \in Seq(Screens)
  BY <1>t, TopAndCalls DEF TypeOK
<1>c. /\ Covering["guest"] = "login" /\ Covering["login"] = "member"
      /\ Covering["member"] = "guest"
  BY DEF Covering
<1>1. CASE TapLogin
  <2> DEFINE login == [kind |-> "login", valid |-> FALSE]
  <2>1. Present(login) /\ Top.kind = "guest" BY <1>1 DEF TapLogin
  <2>2. login \in Screens /\ login.kind = "login" BY DEF Screens
  <2> QED BY <1>t, <1>c, <2>1, <2>2, PresentAlternates
<1>2. CASE EnterText
  <2>1. PICK valid \in BOOLEAN : stack' = [stack EXCEPT ![Depth].valid = valid]
    BY <1>2 DEF EnterText
  <2>2. [Top EXCEPT !.valid = valid] \in Screens
        /\ [Top EXCEPT !.valid = valid].kind = Top.kind
    BY <1>u DEF Screens
  <2>3. /\ Len(stack') = Len(stack)
        /\ stack' = [stack EXCEPT ![Depth] = [Top EXCEPT !.valid = valid]]
    BY <1>u, <2>1, <2>2, ExceptSeq DEF Top, Depth
  <2>4. \A i \in 1..Depth : stack'[i].kind = stack[i].kind
    BY <1>u, <2>2, <2>3 DEF Top, Depth
  <2>5. Depth' = Depth BY <2>3 DEF Depth
  <2>6. \A i \in 1..(Depth - 1) : i \in 1..Depth /\ i + 1 \in 1..Depth BY <1>u
  <2> QED BY <2>4, <2>5, <2>6 DEF ScreensAlternate
<1>3. CASE AnswerYes
  <2>1. Present(Menu(FALSE)) /\ Top.kind = "member"
    BY <1>3 DEF AnswerYes, IInv, AlertOnMemberMenu
  <2> QED BY <1>t, <1>c, <2>1, MenuIsScreen, PresentAlternates
<1>4. CASE Relaunch
  <2>1. Depth' = 1 BY <1>4 DEF Relaunch, Depth
  <2> QED BY <2>1 DEF ScreensAlternate
<1>5. ASSUME NEW c \in Calls, SessionReply(c) PROVE ScreensAlternate'
  <2>1. CASE calls[c].screen = Depth
    <3>1. Present(Menu(TRUE)) BY <1>5, <2>1 DEF SessionReply
    <3>2. calls[c] # Idle BY <1>5 DEF SessionReply, Idle
    <3>3. Top.kind = "login" BY <2>1, <3>2 DEF AttemptOfLogin
    <3> QED BY <1>t, <1>c, <3>1, <3>3, MenuIsScreen, PresentAlternates
  <2>2. CASE calls[c].screen # Depth
    BY <1>5, <2>2 DEF SessionReply, ScreensAlternate, Depth
  <2> QED BY <2>1, <2>2
<1>6. CASE UNCHANGED stack BY <1>6 DEF ScreensAlternate, Depth
<1>7. ASSUME NEW c \in Calls, ButtonPressed(c) \/ TokenReply(c) \/ CallFails(c)
      PROVE  UNCHANGED stack
  BY <1>7 DEF ButtonPressed, TokenReply, CallFails
<1>8. TapLogout \/ AnswerNo \/ UNCHANGED vars => UNCHANGED stack
  BY DEF TapLogout, AnswerNo, vars
<1> QED BY <1>1, <1>2, <1>3, <1>4, <1>5, <1>6, <1>7, <1>8 DEF Next, Attempt

\* However late the attempts of covered screens answer, no menu and no login
\* screen is presented where it does not belong.
THEOREM ScreensHold == Spec => []ScreensAlternate
<1>1. Init => AttemptOfLogin /\ ScreensAlternate
  <2>1. Init => Depth = 1 BY DEF Init, Depth
  <2> QED BY <2>1 DEF Init, AttemptOfLogin, ScreensAlternate
<1> QED BY <1>1, Invariant, AttemptsStepOfLogin, StepAlternate, PTL DEF Spec
=============================================================================
