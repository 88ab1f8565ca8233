------------------------------ MODULE BoatInput ------------------------------
(***************************************************************************)
(* Key presses of the PaperBoat build across everything InputSuspension    *)
(* does.  SDL calls eventWatch of apple/paperboat/bridge.mm on the main    *)
(* thread, between UIKit's callbacks; it latches a tap of the key in       *)
(* keyTaps, so that a key pressed and released between two polls is not    *)
(* lost.  PaperPadBoat_ReadController polls, atomic by atomic, while the   *)
(* main thread goes on.  Keys do not influence each other: there is one    *)
(* here, and what the keyboard says of a key that is still down is left    *)
(* out, as are the controller and the touch overlay (GetInput has them for *)
(* the other build).                                                       *)
(***************************************************************************)
EXTENDS InputSuspension

CONSTANT TapPolls  \* polls that report a tap

ASSUME TapPollsAssumption == TapPolls \in Nat \ {0}

VARIABLES
  keyTap,  \* keyTaps of the key
  poll,    \* where the poll is: idle, modal, native, clear, tap, swap
  tap,     \* what it has loaded from keyTap
  owed,    \* history: polls that still have to report the last press
  inMenu   \* history: the tap was latched by a press in the menu or one of its sheets,
           \*   no callback having come too late

tapVars  == <<keyTap, poll, tap, owed, inMenu>>
boatVars == <<suspensionVars, tapVars>>

-----------------------------------------------------------------------------
\* eventWatch: a key goes down.  It looks at active and modal, not at nativeModal.
KeyDown ==
  /\ active /\ ~modal
  /\ keyTap' = TapPolls
  /\ owed' = TapPolls
  /\ inMenu' = (InMenu /\ ~late)
  /\ UNCHANGED <<suspensionVars, poll, tap>>

\* PaperPadBoat_ReadController loads active, modal and nativeModal until one of them
\* says that input is suspended.
LoadActive ==
  /\ poll = "idle"
  /\ poll' = IF active THEN "modal" ELSE "clear"
  /\ UNCHANGED <<suspensionVars, keyTap, tap, owed, inMenu>>

LoadModal ==
  /\ poll = "modal"
  /\ poll' = IF modal THEN "clear" ELSE "native"
  /\ UNCHANGED <<suspensionVars, keyTap, tap, owed, inMenu>>

LoadNativeModal ==
  /\ poll = "native"
  /\ poll' = IF nativeModal THEN "clear" ELSE "tap"
  /\ UNCHANGED <<suspensionVars, keyTap, tap, owed, inMenu>>

\* Neutral pads, and no tap is left.
ClearTaps ==
  /\ poll = "clear"
  /\ poll' = "idle"
  /\ keyTap' = 0
  /\ owed' = 0
  /\ UNCHANGED <<suspensionVars, tap, inMenu>>

\* The button is reported if a tap is latched.
LoadTap ==
  /\ poll = "tap"
  /\ tap' = keyTap
  /\ poll' = "swap"
  /\ UNCHANGED <<suspensionVars, keyTap, owed, inMenu>>

Reported == IF tap > 0 /\ owed > 0 THEN owed - 1 ELSE owed

\* Mutant of CountTap: the count is stored, whatever was latched meanwhile.
StoreTap ==
  /\ poll = "swap"
  /\ keyTap' = IF tap > 0 THEN tap - 1 ELSE keyTap
  /\ owed' = Reported
  /\ tap' = 0
  /\ poll' = "idle"
  /\ UNCHANGED <<suspensionVars, inMenu>>

\* compare_exchange_strong, once: a tap latched since the load stays whole.
CountTap ==
  /\ poll = "swap"
  /\ keyTap' = IF tap > 0 /\ keyTap = tap THEN tap - 1 ELSE keyTap
  /\ owed' = Reported
  /\ tap' = 0
  /\ poll' = "idle"
  /\ UNCHANGED <<suspensionVars, inMenu>>

-----------------------------------------------------------------------------
InitBoat ==
  /\ InitSuspension
  /\ keyTap = 0 /\ poll = "idle" /\ tap = 0
  /\ owed = 0 /\ inMenu = FALSE

Poll ==
  LoadActive \/ LoadModal \/ LoadNativeModal \/ ClearTaps \/ LoadTap \/ CountTap

NextBoat ==
  \/ NextSuspension /\ UNCHANGED tapVars
  \/ KeyDown
  \/ Poll

BoatSpec == InitBoat /\ [][NextBoat]_boatVars

-----------------------------------------------------------------------------
(* Properties *)

\* A key pressed in the menu, or in a sheet that hides the controls, is never played
\* as a tap, however soon the sheet is dismissed after it; the late callbacks that
\* PresentedIsSuspended leaves out are left out here.
MenuPressIsSilent == tap > 0 => ~inMenu

\* A latched tap stays latched for all the polls that still owe it a report, also when
\* a press comes between a poll's load of the count and its exchange, unless a suspended
\* poll dropped it.
BoatTapIsHeld == keyTap >= owed
=============================================================================
