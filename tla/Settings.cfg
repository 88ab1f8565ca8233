SPECIFICATION Spec
CONSTANTS
  Screens <- MCScreens
  MaxChanges = 3
  Closed = Closed
INVARIANTS
  ChoicesSurvive
  OverlayShowsSettings
PROPERTIES
  EngineFollows
