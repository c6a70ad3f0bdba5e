------------------------------- MODULE SideMenu -------------------------------
(***************************************************************************)
(* The side menu of the app: LGSideMenuController.m and its gesture        *)
(* handler, as the app uses them: one left menu, not always visible, that  *)
(* slides above the root view.  The user opens it with a swipe and closes  *)
(* it with a swipe, a tap on the cover or the row Cinema, which also puts  *)
(* another screen at the root.                                             *)
(*                                                                         *)
(* Transitions are animated: a completion block of UIKit ends them later,  *)
(* and a rotation of the device ends them at once, without taking the      *)
(* block back.  Where the views are meanwhile is left out.                 *)
(***************************************************************************)
EXTENDS Integers, Sequences

CONSTANTS
  MaxAnimations,  \* bound: completion blocks waiting at once
  MaxDelayed      \* bound: delayed blocks of visibilityValidateWithDelay:

ASSUME SideMenuAssumption == MaxAnimations \in Nat /\ MaxDelayed \in Nat

VARIABLES
  leftViewShowing, leftViewGoingToShow, leftViewGoingToHide,
  swiping,     \* leftViewGestireStartX is set
  touch,       \* the pan recognizer has been given a touch that goes on
  animating,   \* gesturesHandler.animating
  animations,  \* the completion blocks to come: "show" or "hide"
  viewsHidden, \* leftViewContainer.hidden, and the style view's with it
  coverHidden, \* rootViewCoverView.hidden, and sideViewsCoverView's with it
  delayed,     \* the delayed blocks that will hide all of these
  attached,    \* rootViewController is a child of the menu controller
  undisturbed  \* history: no rotation and no second finger met a transition,
               \* no delayed block a visible menu

flags   == <<leftViewShowing, leftViewGoingToShow, leftViewGoingToHide>>
fingers == <<swiping, touch>>
views   == <<viewsHidden, coverHidden>>
queue   == <<animating, animations>>
vars    == <<flags, fingers, queue, views, delayed, attached, undisturbed>>

TypeOK ==
  /\ leftViewShowing \in BOOLEAN
  /\ leftViewGoingToShow \in BOOLEAN /\ leftViewGoingToHide \in BOOLEAN
  /\ swiping \in BOOLEAN /\ touch \in BOOLEAN /\ animating \in BOOLEAN
  /\ animations \in Seq({"show", "hide"})
  /\ viewsHidden \in BOOLEAN /\ coverHidden \in BOOLEAN
  /\ delayed \in Nat /\ attached \in BOOLEAN /\ undisturbed \in BOOLEAN

\* setupDefaults, the segues of awakeFromNib and the first layout.
Init ==
  /\ leftViewShowing = FALSE
  /\ leftViewGoingToShow = FALSE /\ leftViewGoingToHide = FALSE
  /\ swiping = FALSE /\ touch = FALSE
  /\ animating = FALSE /\ animations = << >>
  /\ viewsHidden = TRUE /\ coverHidden = TRUE /\ delayed = 0
  /\ attached = TRUE
  /\ undisturbed = TRUE

Going == leftViewGoingToShow \/ leftViewGoingToHide

isLeftViewVisible == leftViewShowing \/ Going

\* visibilityValidate, in the state the flags get.
VisibilityValidate ==
  /\ viewsHidden' = ~isLeftViewVisible'
  /\ coverHidden' = ~isLeftViewVisible'

-----------------------------------------------------------------------------
\* The parts that showing and hiding are put together from.

\* show/hideLeftViewAnimatedActions: with an animation.
Animate(what) ==
  /\ Len(animations) < MaxAnimations
  /\ animations' = Append(animations, what)
  /\ animating' = TRUE

\* Mutant: the root stays where it is.
ShowDoneDetached ==
  /\ leftViewShowing' = TRUE
  /\ leftViewGoingToShow' = FALSE
  /\ UNCHANGED <<leftViewGoingToHide, views, attached>>

\* Mutant: the flag stays.
ShowDoneStillGoing ==
  /\ leftViewShowing' = TRUE
  /\ attached' = (attached \/ leftViewGoingToShow)
  /\ UNCHANGED <<leftViewGoingToShow, leftViewGoingToHide, views>>

\* showLeftViewDoneWithGesture:
ShowDone ==
  /\ leftViewShowing' = TRUE
  /\ leftViewGoingToShow' = FALSE
  /\ attached' = (attached \/ leftViewGoingToShow)
  /\ UNCHANGED <<leftViewGoingToHide, views>>

\* Mutant: the views are looked after only when the hiding was asked for.
HideDoneUnasked ==
  /\ leftViewShowing' = FALSE
  /\ leftViewGoingToHide' = FALSE
  /\ UNCHANGED <<leftViewGoingToShow, attached>>
  /\ viewsHidden' = ~isLeftViewVisible'
  /\ UNCHANGED coverHidden

\* hideLeftViewDoneWithGesture: it does not attach the root again.
HideDone ==
  /\ leftViewShowing' = FALSE
  /\ leftViewGoingToHide' = FALSE
  /\ UNCHANGED <<leftViewGoingToShow, attached>>
  /\ VisibilityValidate

-----------------------------------------------------------------------------
\* gestureRecognizer:shouldReceiveTouch: for the pan recognizer.
TouchBorder ==
  /\ ~touch /\ ~animating
  /\ touch' = TRUE
  /\ UNCHANGED <<flags, swiping, queue, views, delayed, attached, undisturbed>>

\* The finger has gone before the pan was one.
TouchEnds ==
  /\ touch /\ ~swiping
  /\ touch' = FALSE
  /\ UNCHANGED <<flags, swiping, queue, views, delayed, attached, undisturbed>>

\* panGesture:, the first movement.  showLeftViewPrepareWithGesture:
SwipeToShow ==
  /\ touch /\ ~swiping /\ ~leftViewShowing
  /\ swiping' = TRUE
  /\ leftViewGoingToShow' = TRUE
  /\ attached' = FALSE
  /\ UNCHANGED <<leftViewShowing, leftViewGoingToHide>>
  /\ VisibilityValidate
  /\ undisturbed' = (undisturbed /\ ~Going)
  /\ UNCHANGED <<touch, queue, delayed>>

\* hideLeftViewPrepareWithGesture:
SwipeToHide ==
  /\ touch /\ ~swiping /\ leftViewShowing
  /\ swiping' = TRUE
  /\ leftViewGoingToHide' = TRUE
  /\ attached' = TRUE
  /\ undisturbed' = (undisturbed /\ ~Going)
  /\ UNCHANGED <<leftViewShowing, leftViewGoingToShow, touch, queue, views,
                 delayed>>

SwipeEnds == touch /\ swiping /\ touch' = FALSE /\ swiping' = FALSE

\* panGesture:, the finger is lifted between the ends: where it was moving to
\* decides, whatever it had started.
SwipeEndsToShow ==
  /\ SwipeEnds
  /\ leftViewGoingToShow' = TRUE /\ leftViewGoingToHide' = FALSE
  /\ Animate("show")
  /\ UNCHANGED <<leftViewShowing, views, delayed, attached, undisturbed>>

\* Mutant: the swipe's own flag is forgotten.
SwipeEndsToHideStillShowing ==
  /\ SwipeEnds
  /\ leftViewGoingToHide' = TRUE /\ UNCHANGED leftViewGoingToShow
  /\ Animate("hide")
  /\ UNCHANGED <<leftViewShowing, views, delayed, attached, undisturbed>>

SwipeEndsToHide ==
  /\ SwipeEnds
  /\ leftViewGoingToHide' = TRUE /\ leftViewGoingToShow' = FALSE
  /\ Animate("hide")
  /\ UNCHANGED <<leftViewShowing, views, delayed, attached, undisturbed>>

\* At an end there is nothing to animate: the flags are set and done with.
SwipeEndsShown ==
  /\ SwipeEnds
  /\ leftViewShowing' = TRUE
  /\ leftViewGoingToShow' = FALSE /\ leftViewGoingToHide' = FALSE
  /\ attached' = TRUE
  /\ UNCHANGED <<queue, views, delayed, undisturbed>>

SwipeEndsHidden ==
  /\ SwipeEnds
  /\ leftViewShowing' = FALSE
  /\ leftViewGoingToShow' = FALSE /\ leftViewGoingToHide' = FALSE
  /\ VisibilityValidate
  /\ UNCHANGED <<queue, delayed, attached, undisturbed>>

-----------------------------------------------------------------------------
CanHide == leftViewShowing /\ ~Going

\* Mutant: the menu is gone before its animation.
HideLeftViewAtOnce ==
  \/ CanHide /\ leftViewShowing' = FALSE /\ Animate("hide")
             /\ UNCHANGED <<leftViewGoingToShow, leftViewGoingToHide>>
  \/ ~CanHide /\ UNCHANGED <<flags, queue>>

\* hideLeftViewAnimated:completionHandler: with its early return.
HideLeftViewAnimated ==
  \/ CanHide /\ leftViewGoingToHide' = TRUE /\ Animate("hide")
             /\ UNCHANGED <<leftViewShowing, leftViewGoingToShow>>
  \/ ~CanHide /\ UNCHANGED <<flags, queue>>

\* tapGesture:, for a touch on the cover.
TapCover ==
  /\ ~animating /\ ~coverHidden
  /\ HideLeftViewAnimated
  /\ attached' = (attached \/ CanHide)
  /\ UNCHANGED <<fingers, views, delayed, undisturbed>>

\* setRootViewController: drops the old root; rootViewsValidate attaches the new
\* one unless the menu is opening.
SetRootViewController ==
  /\ attached' = ~leftViewGoingToShow
  /\ VisibilityValidate

\* The row Cinema puts another root there, then hides the menu.  The rows can
\* be touched during animations.
TapCinema ==
  /\ ~viewsHidden
  /\ HideLeftViewAnimated
  /\ SetRootViewController
  /\ UNCHANGED <<fingers, delayed, undisturbed>>

\* The completion block of the oldest animation.
AnimationEnds ==
  /\ animations # << >>
  /\ animations' = Tail(animations)
  /\ animating' = FALSE
  /\ IF Head(animations) = "show" THEN ShowDone ELSE HideDone
  /\ UNCHANGED <<fingers, delayed, undisturbed>>

-----------------------------------------------------------------------------
\* viewWillTransitionToSize: ends a transition at once.
EndTransition ==
  /\ leftViewShowing' = (leftViewGoingToShow
                           \/ (leftViewShowing /\ ~leftViewGoingToHide))
  /\ leftViewGoingToShow' = FALSE
  /\ leftViewGoingToHide' = (leftViewGoingToHide /\ leftViewGoingToShow)
  /\ swiping' = (swiping /\ ~Going)

\* viewWillLayoutSubviews, with the new size: the root is attached, the views of
\* a visible menu are shown now, those of any other are hidden later.
LayoutAgain ==
  /\ attached' = TRUE
  /\ IF isLeftViewVisible' \/ Going THEN VisibilityValidate ELSE UNCHANGED views
  /\ delayed' = IF isLeftViewVisible' THEN delayed ELSE delayed + 1

Rotate ==
  /\ delayed < MaxDelayed
  /\ EndTransition
  /\ LayoutAgain
  /\ undisturbed' = (undisturbed /\ ~Going)
  /\ UNCHANGED <<touch, queue>>

\* Mutant: a block that nobody has left.
DelayedHideUnasked ==
  /\ delayed' = delayed - 1
  /\ viewsHidden' = TRUE /\ coverHidden' = TRUE
  /\ undisturbed' = (undisturbed /\ ~isLeftViewVisible)
  /\ UNCHANGED <<flags, fingers, queue, attached>>

\* The delayed block does not look whether the menu is still hidden.
DelayedHide ==
  /\ delayed > 0
  /\ delayed' = delayed - 1
  /\ viewsHidden' = TRUE /\ coverHidden' = TRUE
  /\ undisturbed' = (undisturbed /\ ~isLeftViewVisible)
  /\ UNCHANGED <<flags, fingers, queue, attached>>

-----------------------------------------------------------------------------
SwipeStarts == SwipeToShow \/ SwipeToHide

SwipeComesToEnd ==
  SwipeEndsToShow \/ SwipeEndsToHide \/ SwipeEndsShown \/ SwipeEndsHidden

Next ==
  \/ TouchBorder \/ TouchEnds \/ SwipeStarts \/ SwipeComesToEnd
  \/ TapCover \/ TapCinema
  \/ AnimationEnds \/ Rotate \/ DelayedHide

\* UIKit ends every animation; users owe nothing.
Spec == Init /\ [][Next]_vars /\ WF_vars(AnimationEnds)

-----------------------------------------------------------------------------
(* PROPERTIES *)

Phase == CASE leftViewGoingToShow                         -> "opening"
           [] leftViewGoingToHide /\ ~leftViewGoingToShow -> "closing"
           [] leftViewShowing /\ ~Going                   -> "shown"
           [] OTHER                                       -> "hidden"

\* The menu keeps what MenuPanel promises until a rotation or a second finger
\* meets a transition or a delayed block a visible menu.
Panel == INSTANCE MenuPanel WITH phase <- Phase, disturbed <- ~undisturbed

PanelSpec == Panel!Spec

\* A menu that is not there never leaves its cover over the app, where it
\* would take every touch.
NoCoverLeft == ~isLeftViewVisible => viewsHidden /\ coverHidden

\* A menu that is there can be seen, and its cover can be tapped, as long as
\* nothing disturbs it.
MenuSeen == isLeftViewVisible /\ undisturbed => ~viewsHidden /\ ~coverHidden

\* Both, whatever completion blocks, rotations and delayed blocks come.
CoverGoesWithMenu == NoCoverLeft /\ MenuSeen

\* Showing and hiding exclude each other: both are refused while either flag is
\* set, and a swipe clears the other one.
OneDirection == undisturbed => ~(leftViewGoingToShow /\ leftViewGoingToHide)

\* A flag that makes the menu refuse everything has an end in sight.
GoingEnds == Going => swiping \/ animations # << >>

\* The root is taken from its parent while the menu opens, which costs it the
\* rotations and the appearance calls of its parent.  As long as nothing disturbs
\* the menu it is back once the menu is shown, whatever is put at the root and
\* however often a finger turns round, and stays until the menu is hidden; only
\* an opening that is given up leaves it off.
RootAttached ==
  undisturbed /\ ~attached => leftViewGoingToShow \/ ~leftViewShowing

\* The comment in setRootViewController: "when any of side menus is showing,
\* rootViewController is removed from it's parentViewController".
RootRemovedWhileShowing == Phase = "shown" => ~attached

\* Every transition ends, in whatever order completion blocks and rotations
\* come, unless a user swipes again and again.
TransitionEnds == <>[]~touch => (Going ~> ~Going)
=============================================================================
