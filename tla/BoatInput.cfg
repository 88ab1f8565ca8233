SPECIFICATION BoatSpec
CONSTANT TapPolls = 2
INVARIANTS
  PresentedIsSuspended
  ControlsComeBack
  MenuPressIsSilent
  BoatTapIsHeld
