SPECIFICATION FairInputSpec
CONSTANTS
  c1 = c1
  c2 = c2
  c3 = c3
  None = None
  MaxPlayers = 2
  Preferred = 2
  Ids <- MCIds
  Gamepads <- MCIds
INVARIANTS
  SlotIdentity
  HandlesBalanced
  PollUsesOpenHandle
PROPERTIES
  SlotsKeepPromise
  EveryoneServed
  OverlayFollowsSlots
