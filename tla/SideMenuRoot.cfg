SPECIFICATION Spec
CONSTANTS
  MaxAnimations = 2
  MaxDelayed = 1
INVARIANT RootRemovedWhileShowing
