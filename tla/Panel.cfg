\* Two channels, two verbs in flight, two presses, two changes.
CONSTANTS
  Slots = {0, 1}
  MaxPosts = 2
  MaxPresses = 2
  MaxChanges = 2
SPECIFICATION PanelFairSpec
INVARIANTS
  HeldIsPressed
  TalkIsHeld
PROPERTIES
  TalkEnds
  PanelCatchesUp
CHECK_DEADLOCK FALSE
