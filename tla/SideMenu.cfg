SPECIFICATION Spec
CONSTANTS
  MaxAnimations = 3
  MaxDelayed = 2
INVARIANTS TypeOK CoverGoesWithMenu OneDirection GoingEnds RootAttached
PROPERTIES PanelSpec TransitionEnds
