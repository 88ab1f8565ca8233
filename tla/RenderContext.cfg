CONSTANTS
  Modes <- MCModes
  Saved <- MCSaved
  WindowScale = 7
  fbSize <- MCSize
  MaxChanges = 2
SPECIFICATION FairSpec
INVARIANTS
  PresentedIsWhole
  FramebuffersMatchConfig
PROPERTY
  LabelSettles
