SPECIFICATION FairSpec
CONSTANTS
  f1 = f1
  f2 = f2
  a = a
  Touches <- MCTouches
  Buttons <- MCButtons
  Tilts <- MCTilts
  HoldPolls = 1
  Boat = TRUE
INVARIANTS
  SuppressedIsNeutral
  SharedMatchesHeld
  FlickReplayedOnce
PROPERTY
  InputEnds
