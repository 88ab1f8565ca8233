CONSTANTS
  Bits = 1
  HoldPolls = 3
  Used <- MCUsed
  Tapped <- MCTapped
  TapPolls = 2
  AxisValues <- MCAxisValues
  Sticks <- MCSticks
SPECIFICATION FairInputSpec
INVARIANTS
  TapIsHeld
  ClearedStaysSilent
  KeyTapIsHeld
  LogIsCurrent
PROPERTY
  TapEnds
