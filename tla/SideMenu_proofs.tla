--------------------------- MODULE SideMenu_proofs ---------------------------
(***************************************************************************)
(* Theorems about SideMenu, for any number of waiting blocks.  The         *)
(* inductive invariant says who will end an undisturbed transition: the    *)
(* finger, or exactly one completion block, of the transition's own kind.  *)
(***************************************************************************)
EXTENDS SideMenu, SequenceTheorems, TLAPS

\* As long as nothing met a transition halfway, a swipe has no completion block
\* waiting, and any other transition has its own one and no other.
OneEnd ==
  undisturbed =>
    /\ swiping => Going /\ animations = << >>
    /\ ~swiping /\ leftViewGoingToShow => animations = <<"show">>
    /\ ~swiping /\ leftViewGoingToHide => animations = <<"hide">>
    /\ ~Going => animations = << >>

Inv == TypeOK /\ NoCoverLeft /\ MenuSeen /\ OneDirection /\ OneEnd

-----------------------------------------------------------------------------
\* What happens to the waiting blocks: one more comes, the oldest goes.
LEMMA Queue ==
  ASSUME TypeOK
  PROVE  /\ \A what \in {"show", "hide"} :
              /\ Append(animations, what) \in Seq({"show", "hide"})
              /\ animations = << >> => Append(animations, what) = <<what>>
         /\ animations # << >> =>
              /\ Tail(animations) \in Seq({"show", "hide"})
              /\ Head(animations) \in {"show", "hide"}
         /\ \A what \in {"show", "hide"} :
              animations = <<what>> => /\ Tail(animations) = << >>
                                       /\ Head(animations) = what
                                       /\ animations # << >>
<1>1. animations \in Seq({"show", "hide"})
  BY DEF TypeOK
<1>2. \A what \in {"show", "hide"} :
         Append(animations, what) \in Seq({"show", "hide"})
  BY <1>1, AppendProperties
<1>3. ASSUME NEW what \in {"show", "hide"}, animations = << >>
      PROVE  Append(animations, what) = <<what>>
  BY <1>3
<1>4. ASSUME animations # << >>
      PROVE  /\ Tail(animations) \in Seq({"show", "hide"})
             /\ Head(animations) \in {"show", "hide"}
  BY <1>1, <1>4, HeadTailProperties
<1>5. ASSUME NEW what \in {"show", "hide"}, animations = <<what>>
      PROVE  /\ Tail(animations) = << >>
             /\ Head(animations) = what
             /\ animations # << >>
  BY <1>5
<1> QED
  BY <1>2, <1>3, <1>4, <1>5

\* The four phases, before and after a step.
LEMMA Phases ==
  /\ leftViewGoingToShow => Phase = "opening"
  /\ ~leftViewGoingToShow /\ leftViewGoingToHide => Phase = "closing"
  /\ ~Going /\ leftViewShowing => Phase = "shown"
  /\ ~Going /\ ~leftViewShowing => Phase = "hidden"
  /\ leftViewGoingToShow' => Phase' = "opening"
  /\ ~leftViewGoingToShow' /\ leftViewGoingToHide' => Phase' = "closing"
  /\ ~Going' /\ leftViewShowing' => Phase' = "shown"
  /\ ~Going' /\ ~leftViewShowing' => Phase' = "hidden"
<1>1. /\ leftViewGoingToShow => Phase = "opening"
      /\ ~leftViewGoingToShow /\ leftViewGoingToHide => Phase = "closing"
  BY DEF Phase, Going
<1>2. /\ leftViewGoingToShow' => Phase' = "opening"
      /\ ~leftViewGoingToShow' /\ leftViewGoingToHide' => Phase' = "closing"
  BY DEF Phase, Going
<1>3. /\ ~Going /\ leftViewShowing => Phase = "shown"
      /\ ~Going /\ ~leftViewShowing => Phase = "hidden"
  BY DEF Phase, Going
<1>4. /\ ~Going' /\ leftViewShowing' => Phase' = "shown"
      /\ ~Going' /\ ~leftViewShowing' => Phase' = "hidden"
  BY DEF Phase, Going
<1> QED
  BY <1>1, <1>2, <1>3, <1>4

\* Hiding begins with a menu at rest, and the menu stays visible.
LEMMA Hiding ==
  ASSUME TypeOK, HideLeftViewAnimated
  PROVE  /\ isLeftViewVisible' <=> isLeftViewVisible
         /\ \/ Phase = "shown" /\ Phase' = "closing"
            \/ UNCHANGED flags
<1>1. CASE CanHide
  <2>1. /\ leftViewGoingToHide' = TRUE
        /\ leftViewShowing' = leftViewShowing
        /\ leftViewGoingToShow' = leftViewGoingToShow
    BY ONLY HideLeftViewAnimated, <1>1 DEF HideLeftViewAnimated
  <2>2. /\ leftViewShowing = TRUE
        /\ leftViewGoingToShow = FALSE /\ leftViewGoingToHide = FALSE
    BY <1>1 DEF CanHide, Going, TypeOK
  <2>3. Phase = "shown"
    BY <2>2, Phases DEF Going
  <2>4. Phase' = "closing"
    BY <2>1, <2>2, Phases
  <2>5. isLeftViewVisible /\ isLeftViewVisible'
    BY <2>1, <2>2 DEF isLeftViewVisible, Going
  <2> QED
    BY <2>3, <2>4, <2>5
<1>2. CASE ~CanHide
  BY <1>2 DEF HideLeftViewAnimated, isLeftViewVisible, Going, flags
<1> QED
  BY <1>1, <1>2

\* visibilityValidate gives the views what the flags say.
LEMMA Validated ==
  ASSUME VisibilityValidate PROVE NoCoverLeft' /\ MenuSeen'
BY DEF VisibilityValidate, NoCoverLeft, MenuSeen

\* Undisturbed and waiting for a finger or a block, the menu is on its way.
LEMMA OnItsWay ==
  ASSUME Inv, undisturbed, swiping \/ animations # << >>
  PROVE  Going /\ Phase \in {"opening", "closing"}
<1>1. Going
  BY DEF Inv, OneEnd
<1> QED
  BY <1>1, Phases DEF Going

LEMMA InitInv == Init => Inv
<1> SUFFICES ASSUME Init PROVE Inv
  OBVIOUS
<1>1. << >> \in Seq({"show", "hide"})
  BY EmptySeq
<1>2. TypeOK
  BY <1>1 DEF Init, TypeOK
<1>3. ~isLeftViewVisible /\ ~Going
  BY DEF Init, isLeftViewVisible, Going
<1>4. NoCoverLeft /\ MenuSeen /\ OneDirection /\ OneEnd
  BY <1>3 DEF Init, NoCoverLeft, MenuSeen, OneDirection, OneEnd
<1> QED
  BY <1>2, <1>4 DEF Inv

LEMMA StepTypes == TypeOK /\ [Next]_vars => TypeOK'
<1> SUFFICES ASSUME TypeOK, [Next]_vars PROVE TypeOK'
  OBVIOUS
<1> USE DEF TypeOK, Going
<1>1. CASE TouchBorder
  BY <1>1 DEF TouchBorder, flags, queue, views
<1>2. CASE TouchEnds
  BY <1>2 DEF TouchEnds, flags, queue, views
<1>3. CASE SwipeToShow
  BY <1>3 DEF SwipeToShow, VisibilityValidate, isLeftViewVisible, queue
<1>4. CASE SwipeToHide
  BY <1>4 DEF SwipeToHide, queue, views
<1>5. CASE SwipeEndsToShow
  BY <1>5, Queue DEF SwipeEndsToShow, SwipeEnds, Animate, views
<1>6. CASE SwipeEndsToHide
  BY <1>6, Queue DEF SwipeEndsToHide, SwipeEnds, Animate, views
<1>7. CASE SwipeEndsShown
  BY <1>7 DEF SwipeEndsShown, SwipeEnds, queue, views
<1>8. CASE SwipeEndsHidden
  BY <1>8 DEF SwipeEndsHidden, SwipeEnds, VisibilityValidate,
              isLeftViewVisible, queue
<1>9. CASE TapCover
  <2>1. HideLeftViewAnimated
    BY <1>9 DEF TapCover
  <2>2. /\ leftViewShowing' \in BOOLEAN
        /\ leftViewGoingToShow' \in BOOLEAN /\ leftViewGoingToHide' \in BOOLEAN
        /\ animating' \in BOOLEAN /\ animations' \in Seq({"show", "hide"})
    BY <2>1, Queue DEF HideLeftViewAnimated, Animate, flags, queue
  <2> QED
    BY <1>9, <2>2 DEF TapCover, CanHide, fingers, views
<1>10. CASE TapCinema
  <2>1. HideLeftViewAnimated
    BY <1>10 DEF TapCinema
  <2>2. /\ leftViewShowing' \in BOOLEAN
        /\ leftViewGoingToShow' \in BOOLEAN /\ leftViewGoingToHide' \in BOOLEAN
        /\ animating' \in BOOLEAN /\ animations' \in Seq({"show", "hide"})
    BY <2>1, Queue DEF HideLeftViewAnimated, Animate, flags, queue
  <2> QED
    BY <1>10, <2>2 DEF TapCinema, SetRootViewController, VisibilityValidate,
                       isLeftViewVisible, fingers
<1>11. CASE AnimationEnds
  BY <1>11, Queue DEF AnimationEnds, ShowDone, HideDone, VisibilityValidate,
                      isLeftViewVisible, fingers, views
<1>12. CASE Rotate
  <2>1. delayed' \in Nat
    BY <1>12 DEF Rotate, LayoutAgain
  <2>2. viewsHidden' \in BOOLEAN /\ coverHidden' \in BOOLEAN
    BY <1>12 DEF Rotate, LayoutAgain, VisibilityValidate, isLeftViewVisible, views
  <2> QED
    BY <1>12, <2>1, <2>2 DEF Rotate, EndTransition, LayoutAgain, queue
<1>13. CASE DelayedHide
  BY <1>13 DEF DelayedHide, isLeftViewVisible, flags, fingers, queue
<1>14. CASE UNCHANGED vars
  BY <1>14 DEF vars, flags, fingers, queue, views
<1> QED
  BY <1>1, <1>2, <1>3, <1>4, <1>5, <1>6, <1>7, <1>8, <1>9, <1>10, <1>11,
     <1>12, <1>13, <1>14 DEF Next, SwipeStarts, SwipeComesToEnd

\* One step per action: the views.  Whatever ends a transition looks after them.
LEMMA StepNoCoverLeft == TypeOK /\ NoCoverLeft /\ [Next]_vars => NoCoverLeft'
<1> SUFFICES ASSUME TypeOK, NoCoverLeft, [Next]_vars PROVE NoCoverLeft'
  OBVIOUS
<1> USE DEF TypeOK, NoCoverLeft, isLeftViewVisible, Going
<1>1. CASE TouchBorder \/ TouchEnds
  BY <1>1 DEF TouchBorder, TouchEnds, flags, views
<1>2. CASE SwipeStarts
  BY <1>2 DEF SwipeStarts, SwipeToShow, SwipeToHide
<1>3. CASE SwipeEndsToShow \/ SwipeEndsToHide \/ SwipeEndsShown
  BY <1>3 DEF SwipeEndsToShow, SwipeEndsToHide, SwipeEndsShown
<1>4. CASE SwipeEndsHidden
  BY <1>4 DEF SwipeEndsHidden, VisibilityValidate
<1>5. CASE TapCover
  BY <1>5 DEF TapCover, HideLeftViewAnimated, flags, views
<1>6. CASE TapCinema
  BY <1>6 DEF TapCinema, SetRootViewController, VisibilityValidate
<1>7. CASE AnimationEnds
  BY <1>7 DEF AnimationEnds, ShowDone, HideDone, VisibilityValidate
<1>8. CASE Rotate
  BY <1>8 DEF Rotate, EndTransition, LayoutAgain, VisibilityValidate, views
<1>9. CASE DelayedHide
  BY <1>9 DEF DelayedHide
<1>10. CASE UNCHANGED vars
  BY <1>10 DEF vars, flags, views
<1> QED
  BY <1>1, <1>2, <1>3, <1>4, <1>5, <1>6, <1>7, <1>8, <1>9, <1>10
     DEF Next, SwipeComesToEnd

\* The flags and the waiting blocks, which only make sense together.
LEMMA StepOneEnd == Inv /\ [Next]_vars => OneDirection' /\ OneEnd'
<1> SUFFICES ASSUME Inv, [Next]_vars PROVE OneDirection' /\ OneEnd'
  OBVIOUS
<1>t. TypeOK /\ OneDirection /\ OneEnd
  BY DEF Inv
<1> USE <1>t DEF TypeOK, OneDirection, OneEnd, Going
<1>1. CASE TouchBorder \/ TouchEnds
  BY <1>1 DEF TouchBorder, TouchEnds, flags, queue
<1>2. CASE SwipeStarts
  BY <1>2 DEF SwipeStarts, SwipeToShow, SwipeToHide, queue
<1>3. CASE SwipeEndsToShow
  BY <1>3, Queue DEF SwipeEndsToShow, SwipeEnds, Animate
<1>4. CASE SwipeEndsToHide
  BY <1>4, Queue DEF SwipeEndsToHide, SwipeEnds, Animate
<1>5. CASE SwipeEndsShown \/ SwipeEndsHidden
  BY <1>5 DEF SwipeEndsShown, SwipeEndsHidden, SwipeEnds, queue
<1>6. ASSUME HideLeftViewAnimated, UNCHANGED fingers, UNCHANGED undisturbed
      PROVE  OneDirection' /\ OneEnd'
  <2>1. CASE CanHide
    <3>0. /\ leftViewGoingToHide' = TRUE
          /\ Animate("hide")
          /\ leftViewGoingToShow' = leftViewGoingToShow
      BY ONLY <1>6, <2>1 DEF HideLeftViewAnimated
    <3>1. /\ ~leftViewGoingToShow' /\ leftViewGoingToHide'
          /\ animations' = Append(animations, "hide")
      BY <2>1, <3>0 DEF CanHide, Animate
    <3>2. undisturbed => ~swiping /\ animations = << >>
      BY <2>1 DEF CanHide
    <3>3. undisturbed => animations' = <<"hide">>
      BY <3>1, <3>2, Queue
    <3>4. swiping' = swiping /\ undisturbed' = undisturbed
      BY <1>6 DEF fingers
    <3> QED
      BY <3>1, <3>2, <3>3, <3>4
  <2>2. CASE ~CanHide
    BY <1>6, <2>2 DEF HideLeftViewAnimated, flags, queue, fingers
  <2> QED
    BY <2>1, <2>2
<1>7. CASE TapCover \/ TapCinema
  BY <1>6, <1>7 DEF TapCover, TapCinema
<1>8. CASE AnimationEnds
  <2>1. CASE ~undisturbed
    BY <1>8, <2>1 DEF AnimationEnds
  <2>2. CASE undisturbed /\ animations = <<"show">>
    <3>1. Tail(animations) = << >> /\ Head(animations) = "show"
      BY <2>2, Queue
    <3> QED
      BY <1>8, <2>2, <3>1 DEF AnimationEnds, ShowDone, fingers
  <2>3. CASE undisturbed /\ animations = <<"hide">>
    <3>1. Tail(animations) = << >> /\ Head(animations) = "hide"
      BY <2>3, Queue
    <3> QED
      BY <1>8, <2>3, <3>1 DEF AnimationEnds, HideDone, fingers
  <2> QED
    BY <1>8, <2>1, <2>2, <2>3 DEF AnimationEnds
<1>9. CASE Rotate
  BY <1>9 DEF Rotate, EndTransition, LayoutAgain, queue
<1>10. CASE DelayedHide
  BY <1>10 DEF DelayedHide, flags, fingers, queue
<1>11. CASE UNCHANGED vars
  BY <1>11 DEF vars, flags, fingers, queue
<1> QED
  BY <1>1, <1>2, <1>3, <1>4, <1>5, <1>7, <1>8, <1>9, <1>10, <1>11
     DEF Next, SwipeComesToEnd

\* The views of a menu that is there: every step that makes it visible shows
\* them, and no other step hides them before it is gone.
LEMMA StepMenuSeen == Inv /\ [Next]_vars => MenuSeen'
<1> SUFFICES ASSUME Inv, [Next]_vars PROVE MenuSeen'
  OBVIOUS
<1>t. TypeOK /\ MenuSeen /\ OneEnd
  BY DEF Inv
<1> USE <1>t DEF TypeOK, MenuSeen, isLeftViewVisible, Going
<1>1. CASE TouchBorder \/ TouchEnds
  BY <1>1 DEF TouchBorder, TouchEnds, flags, views
<1>2. CASE SwipeStarts
  <2>1. CASE SwipeToShow
    BY <2>1, Validated DEF SwipeToShow
  <2>2. CASE SwipeToHide
    BY <2>2 DEF SwipeToHide, views
  <2> QED
    BY <1>2, <2>1, <2>2 DEF SwipeStarts
<1>3. CASE SwipeEndsToShow \/ SwipeEndsToHide \/ SwipeEndsShown
  <2>1. undisturbed' => ~viewsHidden /\ ~coverHidden
    BY <1>3, OnItsWay
       DEF SwipeEndsToShow, SwipeEndsToHide, SwipeEndsShown, SwipeEnds
  <2> QED
    BY <1>3, <2>1 DEF SwipeEndsToShow, SwipeEndsToHide, SwipeEndsShown, views
<1>4. CASE SwipeEndsHidden
  BY <1>4 DEF SwipeEndsHidden
<1>5. CASE TapCover
  BY <1>5, Hiding DEF TapCover, views
<1>6. CASE TapCinema
  <2>1. viewsHidden' = ~isLeftViewVisible' /\ coverHidden' = ~isLeftViewVisible'
    BY <1>6 DEF TapCinema, SetRootViewController, VisibilityValidate
  <2> QED
    BY <2>1
<1>7. CASE AnimationEnds
  <2>1. undisturbed => Going
    BY <1>7 DEF AnimationEnds, OneEnd
  <2>2. CASE Head(animations) = "show"
    BY <1>7, <2>1, <2>2 DEF AnimationEnds, ShowDone, views
  <2>3. CASE Head(animations) # "show"
    BY <1>7, <2>3 DEF AnimationEnds, HideDone, VisibilityValidate
  <2> QED
    BY <2>2, <2>3
<1>8. CASE Rotate
  BY <1>8 DEF Rotate, LayoutAgain, VisibilityValidate
<1>9. CASE DelayedHide
  BY <1>9 DEF DelayedHide, flags
<1>10. CASE UNCHANGED vars
  BY <1>10 DEF vars, flags, views
<1> QED
  BY <1>1, <1>2, <1>3, <1>4, <1>5, <1>6, <1>7, <1>8, <1>9, <1>10
     DEF Next, SwipeComesToEnd

LEMMA StepInv == Inv /\ [Next]_vars => Inv'
BY StepTypes, StepNoCoverLeft, StepOneEnd, StepMenuSeen DEF Inv

LEMMA Invariance == Spec => []Inv
<1>1. Init /\ [][Next]_vars => []Inv
  BY InitInv, StepInv, PTL
<1> QED
  BY <1>1, PTL DEF Spec

-----------------------------------------------------------------------------
\* Every step of the menu is a step of MenuPanel or none.
LEMMA StepPanel == Inv /\ [Next]_vars => [Panel!Next]_(Panel!vars)
<1> SUFFICES ASSUME Inv, [Next]_vars PROVE [Panel!Next]_(Panel!vars)
  OBVIOUS
<1>t. TypeOK /\ OneDirection /\ OneEnd
  BY DEF Inv
<1> USE <1>t DEF TypeOK, Going
<1>d. CASE ~undisturbed'
  BY <1>d DEF Panel!Next
<1>s. ASSUME UNCHANGED flags, UNCHANGED undisturbed
      PROVE  UNCHANGED Panel!vars
  BY <1>s DEF flags, Panel!vars, Phase
<1>m. ASSUME undisturbed, undisturbed', Panel!Move \/ Panel!ComeToRest
      PROVE  Panel!Next
  BY <1>m DEF Panel!Next
<1>u. ASSUME undisturbed, undisturbed', Next
      PROVE  Panel!Move \/ Panel!ComeToRest \/ UNCHANGED flags
  <2>1. CASE TouchBorder \/ TouchEnds
    BY <2>1 DEF TouchBorder, TouchEnds
  <2>2. CASE SwipeToShow
    <3>1. Phase = "hidden" /\ Phase' = "opening"
      BY <1>u, <2>2, Phases DEF SwipeToShow
    <3> QED
      BY <3>1 DEF Panel!Move
  <2>3. CASE SwipeToHide
    <3>1. Phase = "shown" /\ Phase' = "closing"
      BY <1>u, <2>3, Phases DEF SwipeToHide
    <3> QED
      BY <3>1 DEF Panel!Move
  <2>4. CASE SwipeComesToEnd
    <3>1. Phase \in {"opening", "closing"}
      BY <1>u, <2>4, OnItsWay DEF SwipeComesToEnd, SwipeEndsToShow,
         SwipeEndsToHide, SwipeEndsShown, SwipeEndsHidden, SwipeEnds
    <3>2. Phase' \in {"opening", "closing", "hidden", "shown"}
      BY DEF Phase
    <3> QED
      BY <3>1, <3>2 DEF Panel!Move, Panel!ComeToRest
  <2>5. ASSUME HideLeftViewAnimated
        PROVE  Panel!Move \/ UNCHANGED flags
    <3>1. Phase = "shown" /\ Phase' = "closing" => Panel!Move
      BY DEF Panel!Move
    <3> QED
      BY <2>5, <3>1, Hiding
  <2>6. CASE TapCover \/ TapCinema
    BY <2>5, <2>6 DEF TapCover, TapCinema
  <2>7. CASE AnimationEnds
    <3>1. Phase \in {"opening", "closing"}
      BY <1>u, <2>7, OnItsWay DEF AnimationEnds
    <3>2. Phase' \in {"opening", "closing", "hidden", "shown"}
      BY DEF Phase
    <3> QED
      BY <3>1, <3>2 DEF Panel!Move, Panel!ComeToRest
  <2>8. CASE Rotate
    BY <1>u, <2>8 DEF Rotate, EndTransition, flags
  <2>9. CASE DelayedHide
    BY <2>9 DEF DelayedHide
  <2> QED
    BY <1>u, <2>1, <2>2, <2>3, <2>4, <2>6, <2>7, <2>8, <2>9
       DEF Next, SwipeStarts
<1>k. undisturbed' => undisturbed
  BY DEF Next, SwipeStarts, SwipeComesToEnd, TouchBorder, TouchEnds, SwipeToShow,
     SwipeToHide, SwipeEndsToShow, SwipeEndsToHide, SwipeEndsShown,
     SwipeEndsHidden, TapCover, TapCinema, AnimationEnds, Rotate, DelayedHide,
     vars
<1>n. CASE undisturbed' /\ Next
  BY <1>k, <1>n, <1>m, <1>s, <1>u
<1>v. CASE UNCHANGED vars
  BY <1>v, <1>s DEF vars
<1> QED
  BY <1>d, <1>n, <1>v

-----------------------------------------------------------------------------
(* A flag of a transition has an end in sight, disturbed or not. *)

Waits(what) == \E i \in DOMAIN animations : animations[i] = what

\* Without a finger each flag has a completion block of its own kind, whatever
\* other blocks are waiting.  While a finger pulls, a rotation clears the flag to
\* show and keeps the other, which then needs its block.  A menu that is shown
\* once more admits no touch, so no swipe to hide it begins.
FlagsEnd ==
  /\ leftViewGoingToShow /\ ~swiping => Waits("show")
  /\ leftViewGoingToHide /\ ~swiping => Waits("hide")
  /\ leftViewGoingToShow /\ leftViewGoingToHide => Waits("hide")
  /\ leftViewGoingToShow /\ leftViewShowing /\ ~swiping => animating /\ ~touch

\* A new block waits behind the others; the oldest may go if it is another's.
LEMMA Waiting ==
  ASSUME TypeOK, NEW what \in {"show", "hide"}
  PROVE  /\ animations' = Append(animations, what) =>
              /\ Waits(what)'
              /\ \A other \in {"show", "hide"} : Waits(other) => Waits(other)'
         /\ animations # << >> /\ animations' = Tail(animations)
              /\ Head(animations) # what /\ Waits(what) => Waits(what)'
<1>1. /\ animations \in Seq({"show", "hide"}) /\ Len(animations) \in Nat
      /\ DOMAIN animations = 1..Len(animations)
  BY DEF TypeOK
<1>2. ASSUME animations' = Append(animations, what)
      PROVE  /\ Waits(what)'
             /\ \A other \in {"show", "hide"} : Waits(other) => Waits(other)'
  <2>1. /\ DOMAIN animations' = 1..(Len(animations) + 1)
        /\ animations'[Len(animations) + 1] = what
        /\ \A i \in 1..Len(animations) : animations'[i] = animations[i]
    BY <1>1, <1>2
  <2>2. Len(animations) + 1 \in DOMAIN animations'
    BY <1>1, <2>1
  <2>3. DOMAIN animations \subseteq DOMAIN animations'
    BY <1>1, <2>1
  <2> QED
    BY <1>1, <2>1, <2>2, <2>3 DEF Waits
<1>3. ASSUME animations # << >>, animations' = Tail(animations),
             Head(animations) # what, Waits(what)
      PROVE  Waits(what)'
  <2>1. PICK i \in DOMAIN animations : animations[i] = what
    BY <1>3 DEF Waits
  <2>2. i # 1 /\ i \in 1..Len(animations)
    BY <1>1, <1>3, <2>1
  <2>3. /\ DOMAIN animations' = 1..(Len(animations) - 1)
        /\ \A j \in 1..(Len(animations) - 1) : animations'[j] = animations[j + 1]
    BY <1>1, <1>3, HeadTailProperties
  <2>4. i - 1 \in 1..(Len(animations) - 1) /\ (i - 1) + 1 = i
    BY <1>1, <2>2
  <2> QED
    BY <2>1, <2>3, <2>4 DEF Waits
<1> QED
  BY <1>2, <1>3

\* One step per action: flags, fingers and blocks.
LEMMA StepFlagsEnd == TypeOK /\ FlagsEnd /\ [Next]_vars => FlagsEnd'
<1> SUFFICES ASSUME TypeOK, FlagsEnd, [Next]_vars PROVE FlagsEnd'
  OBVIOUS
<1>w. UNCHANGED animations =>
        (Waits("show")' <=> Waits("show")) /\ (Waits("hide")' <=> Waits("hide"))
  BY DEF Waits
<1> USE DEF TypeOK, FlagsEnd, Going
<1>1. CASE TouchBorder \/ TouchEnds
  BY <1>1, <1>w DEF TouchBorder, TouchEnds, flags, queue
<1>2. CASE SwipeStarts
  BY <1>2, <1>w DEF SwipeStarts, SwipeToShow, SwipeToHide, queue
<1>3. CASE SwipeEndsToShow
  BY <1>3, Waiting DEF SwipeEndsToShow, SwipeEnds, Animate
<1>4. CASE SwipeEndsToHide
  BY <1>4, Waiting DEF SwipeEndsToHide, SwipeEnds, Animate
<1>5. CASE SwipeEndsShown \/ SwipeEndsHidden
  BY <1>5 DEF SwipeEndsShown, SwipeEndsHidden
<1>6. ASSUME HideLeftViewAnimated, UNCHANGED fingers
      PROVE  FlagsEnd'
  <2>1. CASE CanHide
    <3>1. /\ leftViewGoingToHide' = TRUE /\ animations' = Append(animations, "hide")
          /\ UNCHANGED leftViewGoingToShow
      BY <1>6, <2>1 DEF HideLeftViewAnimated, Animate
    <3>2. Waits("hide")' /\ ~leftViewGoingToShow
      BY <2>1, <3>1, Waiting DEF CanHide
    <3> QED
      BY <3>1, <3>2
  <2>2. CASE ~CanHide
    BY <1>6, <1>w, <2>2 DEF HideLeftViewAnimated, flags, queue, fingers
  <2> QED
    BY <2>1, <2>2
<1>7. CASE TapCover \/ TapCinema
  BY <1>6, <1>7 DEF TapCover, TapCinema
<1>8. CASE AnimationEnds
  <2>1. animations # << >> /\ animations' = Tail(animations) /\ UNCHANGED fingers
    BY <1>8 DEF AnimationEnds
  <2>2. CASE Head(animations) = "show"
    <3>1. Waits("hide") => Waits("hide")'
      BY <2>1, <2>2, Waiting
    <3> QED
      BY <1>8, <2>1, <2>2, <3>1 DEF AnimationEnds, ShowDone, fingers
  <2>3. CASE Head(animations) # "show"
    <3>1. Waits("show") => Waits("show")'
      BY <2>1, <2>3, Waiting
    <3> QED
      BY <1>8, <2>1, <2>3, <3>1 DEF AnimationEnds, HideDone, fingers
  <2> QED
    BY <2>2, <2>3
<1>9. CASE Rotate
  BY <1>9, <1>w DEF Rotate, EndTransition, queue
<1>10. CASE DelayedHide
  BY <1>10, <1>w DEF DelayedHide, flags, fingers, queue
<1>11. CASE UNCHANGED vars
  BY <1>11, <1>w DEF vars, flags, fingers, queue
<1> QED
  BY <1>1, <1>2, <1>3, <1>4, <1>5, <1>7, <1>8, <1>9, <1>10, <1>11
     DEF Next, SwipeComesToEnd

-----------------------------------------------------------------------------
(* The root and its parent. *)

\* A finger that pulls at a menu already shown is not opening it.
RootInv ==
  /\ RootAttached
  /\ undisturbed /\ swiping /\ leftViewShowing => ~leftViewGoingToShow

\* One step per action: what takes the root off is an opening, and what ends an
\* opening in a shown menu brings it back.
LEMMA StepRoot == Inv /\ RootInv /\ [Next]_vars => RootInv'
<1> SUFFICES ASSUME Inv, RootInv, [Next]_vars PROVE RootInv'
  OBVIOUS
<1>t. TypeOK /\ OneDirection /\ OneEnd
  BY DEF Inv
<1> USE <1>t DEF TypeOK, RootInv, RootAttached, Going
<1>1. CASE TouchBorder \/ TouchEnds
  BY <1>1 DEF TouchBorder, TouchEnds, flags
<1>2. CASE SwipeStarts
  BY <1>2 DEF SwipeStarts, SwipeToShow, SwipeToHide
<1>3. CASE SwipeComesToEnd
  BY <1>3 DEF SwipeComesToEnd, SwipeEnds, SwipeEndsToShow, SwipeEndsToHide,
              SwipeEndsShown, SwipeEndsHidden
<1>4. ASSUME HideLeftViewAnimated
      PROVE  UNCHANGED <<leftViewShowing, leftViewGoingToShow>>
  BY <1>4 DEF HideLeftViewAnimated, flags
<1>5. CASE TapCover \/ TapCinema
  BY <1>4, <1>5 DEF TapCover, TapCinema, SetRootViewController, fingers
<1>6. CASE AnimationEnds
  <2>1. undisturbed => ~swiping /\ Going
    BY <1>6 DEF AnimationEnds, OneEnd
  <2>2. CASE Head(animations) = "show"
    <3>1. undisturbed => leftViewGoingToShow
      BY <2>1, <2>2, Queue DEF OneEnd
    <3> QED
      BY <1>6, <2>1, <2>2, <3>1 DEF AnimationEnds, ShowDone, fingers
  <2>3. CASE Head(animations) # "show"
    BY <1>6, <2>1, <2>3 DEF AnimationEnds, HideDone, fingers
  <2> QED
    BY <2>2, <2>3
<1>7. CASE Rotate
  BY <1>7 DEF Rotate, EndTransition, LayoutAgain
<1>8. CASE DelayedHide
  BY <1>8 DEF DelayedHide, flags, fingers
<1>9. CASE UNCHANGED vars
  BY <1>9 DEF vars, flags, fingers
<1> QED
  BY <1>1, <1>2, <1>3, <1>5, <1>6, <1>7, <1>8, <1>9 DEF Next

-----------------------------------------------------------------------------
\* Types hold, for any number of blocks waiting (all of LGSideMenuController's
\* handlers together).
THEOREM TypeCorrect == Spec => []TypeOK
<1>1. Inv => TypeOK
  BY DEF Inv
<1> QED
  BY <1>1, Invariance, PTL

\* No sequence of swipes, taps, completion blocks, rotations and delayed blocks
\* leaves the cover of a hidden menu over the app (hideLeftViewDoneWithGesture:,
\* visibilityValidateWithDelay:), and a menu nothing has disturbed can be seen
\* and closed by a tap on its cover (visibilityValidate).
THEOREM CoverHolds == Spec => []CoverGoesWithMenu
<1>1. Inv => CoverGoesWithMenu
  BY DEF Inv, CoverGoesWithMenu
<1> QED
  BY <1>1, Invariance, PTL

\* It goes one way at a time (the guards of hideLeftViewAnimated: and the flags
\* panGesture: clears).
THEOREM OneDirectionHolds == Spec => []OneDirection
<1>1. Inv => OneDirection
  BY DEF Inv
<1> QED
  BY <1>1, Invariance, PTL

\* No order of rotations, fingers and stale blocks leaves a flag set for good: a
\* finger or a block that will clear it is there (hideLeftViewAnimated: refuses
\* everything until then).
THEOREM GoingHasAnEnd == Spec => []GoingEnds
<1>1. Init => FlagsEnd
  BY DEF Init, FlagsEnd
<1>2. TypeOK /\ FlagsEnd => GoingEnds
  <2> SUFFICES ASSUME TypeOK, FlagsEnd, Going, ~swiping PROVE animations # << >>
    BY DEF GoingEnds
  <2>1. Waits("show") \/ Waits("hide")
    BY DEF FlagsEnd, Going
  <2> QED
    BY <2>1 DEF Waits
<1> QED
  BY <1>1, <1>2, StepFlagsEnd, TypeCorrect, PTL DEF Spec

\* A menu that nothing disturbs gives its root back to its parent by the time it is
\* shown and keeps it there (showLeftViewDoneWithGesture:, hideLeftViewPrepare...,
\* setRootViewController:).
THEOREM RootIsAttached == Spec => []RootAttached
<1>1. Init => RootInv
  BY DEF Init, RootInv, RootAttached
<1>2. RootInv => RootAttached
  BY DEF RootInv
<1> QED
  BY <1>1, <1>2, StepRoot, Invariance, PTL DEF Spec

\* SideMenu implements MenuPanel: it comes to rest only from a transition, until
\* it is disturbed.
THEOREM Refinement == Spec => PanelSpec
<1>1. Init => Panel!Init
  BY DEF Init, Panel!Init, Phase
<1>2. Inv /\ [Next]_vars => [Panel!Next]_(Panel!vars)
  BY StepPanel
<1> QED
  BY <1>1, <1>2, Invariance, PTL DEF Spec, PanelSpec, Panel!Spec
=============================================================================
