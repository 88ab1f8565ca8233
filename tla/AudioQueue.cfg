CONSTANTS
  OutRate = 2
  Rates <- MCRates
  VI = 2
  Short = 2
  Long = 4
  Target = 4
  Labels = 24
  MaxFaults = 2
  MaxChanges = 2
  MaxInCall = 3
  MaxWindow = 2
  None = None
SPECIFICATION FairSpec
INVARIANTS
  SoundIsContinuous
  BufferIsBounded
  PromptUnderrunsAreCounted
PROPERTY
  StreamDrains
