--------------------------- MODULE InputSuspension ---------------------------
(***************************************************************************)
(* Who suspends the game's input in the PaperBoat build, and who resumes it. *)
(* The native menu, the sheets it leads to and the "Save Problem" alert all *)
(* write one flag, modal of apple/paperboat/bridge.mm; the overlay keeps    *)
(* _modalControlsHidden beside it, and every frame notes in nativeModal     *)
(* whether UIKit is presenting anything.  PaperPadBoat_ReadController gives *)
(* the game neutral pads while any of them is set.                          *)
(*                                                                         *)
(* Everything here runs on the main thread, callback by callback; what the  *)
(* player and UIKit do decides their order, and some callbacks come late:   *)
(* a menu action 0.4 s after it was chosen, a share sheet 0.35 s after the  *)
(* problem report that leads to it, the answer to openURL at any time.      *)
(* UIKit is modelled from its use: only the topmost sheet can be dismissed, *)
(* and a menu can be opened only while no sheet covers its button.          *)
(*                                                                         *)
(* Bounds: one menu action waits, one share sheet is queued and one answer  *)
(* is awaited at a time.                                                    *)
(***************************************************************************)
EXTENDS Sequences, Integers

\* The sheets whose actions call setModalControlsHidden, and one that does not.
Hiding  == {"settings", "confirm", "share", "report"}
Kinds   == Hiding \cup {"rom", "alert", "notice"}
Actions == Hiding \cup {"rom", "edit", "reset"}

VARIABLES
  menu,        \* the native menu: closed, open, closing (its animation runs)
  chosen,      \* the menu action waiting for its dispatch_after, or "none"
  sharing,     \* the block that presents the share sheet is queued
  awaited,     \* the call of openURL whose answer is awaited: github, original, or "none"
  sheets,      \* what is presented, topmost last
  modal,       \* modal of bridge.mm
  hidden,      \* _modalControlsHidden
  nativeModal, \* nativeModal of bridge.mm
  showing,     \* ReportSaveError's showing
  previously,  \* its previouslySuspended
  active,      \* the app is in the foreground
  late         \* history: a callback came too late since the menu was opened last

pending        == <<chosen, sharing, awaited>>
alertVars      == <<showing, previously>>
suspensionVars == <<menu, pending, sheets, modal, hidden, nativeModal, alertVars, active, late>>

Top     == sheets[Len(sheets)]
Below   == SubSeq(sheets, 1, Len(sheets) - 1)
Present(kind) == sheets' = Append(sheets, kind)

\* setModalControlsHidden, and setMenuVisible
SetHidden(on) == modal' = on /\ hidden' = on

HidingUp == \E i \in DOMAIN sheets : sheets[i] \in Hiding

-----------------------------------------------------------------------------
(* The menu.  PaperPadMenuButton reports both ends of its life. *)

\* The button, or a touch where it is while it is hidden
WillDisplayMenu ==
  /\ menu = "closed"
  /\ sheets = <<>>
  /\ menu' = "open"
  /\ SetHidden(TRUE)
  /\ late' = FALSE
  /\ UNCHANGED <<pending, sheets, nativeModal, alertVars, active>>

WillEndMenu ==
  /\ menu = "open"
  /\ menu' = "closing"
  /\ UNCHANGED <<pending, sheets, modal, hidden, nativeModal, alertVars, active, late>>

MenuEnded ==
  /\ menu = "closing"
  /\ menu' = "closed"
  /\ SetHidden(FALSE)
  /\ UNCHANGED <<pending, sheets, nativeModal, alertVars, active, late>>

\* An action is chosen.  It is performed 0.4 s later.
Choose(action) ==
  /\ menu = "open"
  /\ chosen = "none"
  /\ menu' = "closing"
  /\ chosen' = action
  /\ UNCHANGED <<sharing, awaited, sheets, modal, hidden, nativeModal, alertVars, active, late>>

-----------------------------------------------------------------------------
(* What the menu's actions do.  The delay is there to let the menu go first, but nothing
   waits for it. *)

\* Mutant of PerformSheet: a sheet is presented before input is suspended for it.
PerformSheetUnhidden ==
  /\ chosen \in Hiding \ {"share"}
  /\ chosen' = "none"
  /\ Present(chosen)
  /\ late' = (late \/ menu # "closed")
  /\ UNCHANGED <<menu, sharing, awaited, modal, hidden, nativeModal, alertVars, active>>

PerformSheet ==
  /\ chosen \in Hiding \ {"share"}
  /\ chosen' = "none"
  /\ SetHidden(TRUE)
  /\ Present(chosen)
  /\ late' = (late \/ menu # "closed")
  /\ UNCHANGED <<menu, sharing, awaited, nativeModal, alertVars, active>>

\* paperpad_present_diagnostics_share queues a block of its own.
PerformShare ==
  /\ chosen = "share"
  /\ ~sharing
  /\ chosen' = "none"
  /\ SetHidden(TRUE)
  /\ sharing' = TRUE
  /\ UNCHANGED <<menu, awaited, sheets, nativeModal, alertVars, active, late>>

PerformRom ==
  /\ chosen = "rom"
  /\ chosen' = "none"
  /\ Present("rom")
  /\ UNCHANGED <<menu, sharing, awaited, modal, hidden, nativeModal, alertVars, active, late>>

\* "Edit Touch Layout" shows the controls it edits; the reset shows nothing.
PerformOnControls ==
  /\ chosen \in {"edit", "reset"}
  /\ chosen' = "none"
  /\ hidden' = (hidden /\ chosen = "reset")
  /\ UNCHANGED <<menu, sharing, awaited, sheets, modal, nativeModal, alertVars, active, late>>

\* The queued block of paperpad_present_diagnostics_share suspends nothing itself: it
\* relies on the flag that the menu or the problem report has set.
PresentShare ==
  /\ sharing
  /\ sharing' = FALSE
  /\ Present("share")
  /\ late' = (late \/ ~modal \/ menu # "closed" \/ chosen # "none" \/ HidingUp)
  /\ UNCHANGED <<menu, chosen, awaited, modal, hidden, nativeModal, alertVars, active>>

-----------------------------------------------------------------------------
(* The ways out of the sheets *)

\* The topmost sheet goes away, "Report on GitHub", "Share Diagnostics" and the alert's
\* OK apart; a hiding one ends in setModalControlsHidden:NO.
Dismiss ==
  /\ sheets # <<>>
  /\ Top # "alert"
  /\ sheets' = Below
  /\ IF Top \in Hiding THEN SetHidden(FALSE) ELSE UNCHANGED <<modal, hidden>>
  /\ UNCHANGED <<menu, pending, nativeModal, alertVars, active, late>>

\* "Open Original" resumes the input and asks for the other app.
OpenOriginal ==
  /\ sheets # <<>>
  /\ Top = "confirm"
  /\ awaited = "none"
  /\ sheets' = Below
  /\ SetHidden(FALSE)
  /\ awaited' = "original"
  /\ UNCHANGED <<menu, chosen, sharing, nativeModal, alertVars, active, late>>

\* "Share Diagnostics" in the problem report: the share sheet comes 0.35 s later, and
\* input stays suspended until then.
ShareFromReport ==
  /\ sheets # <<>>
  /\ Top = "report"
  /\ ~sharing
  /\ sheets' = Below
  /\ sharing' = TRUE
  /\ UNCHANGED <<menu, chosen, awaited, modal, hidden, nativeModal, alertVars, active, late>>

\* "Report on GitHub": input stays suspended until openURL has answered.
ReportOnGitHub ==
  /\ sheets # <<>>
  /\ Top = "report"
  /\ awaited = "none"
  /\ sheets' = Below
  /\ awaited' = "github"
  /\ UNCHANGED <<menu, chosen, sharing, modal, hidden, nativeModal, alertVars, active, late>>

\* A URL that was not opened is reported by an alert without consequences, if its
\* presenter, the root or the save alert, is not presenting something else.
Answered ==
  \/ UNCHANGED sheets
  \/ sheets \in {<<>>, <<"alert">>} /\ Present("notice")

OriginalAnswered ==
  /\ awaited = "original"
  /\ awaited' = "none"
  /\ Answered
  /\ UNCHANGED <<menu, chosen, sharing, modal, hidden, nativeModal, alertVars, active, late>>

\* Mutant of GitHubAnswered: the report is completed only if the page was opened.
GitHubAnsweredIfOpened ==
  /\ awaited = "github"
  /\ awaited' = "none"
  /\ \/ SetHidden(FALSE) /\ UNCHANGED sheets
     \/ UNCHANGED <<modal, hidden>> /\ Answered
  /\ late' = (late \/ menu # "closed" \/ HidingUp)
  /\ UNCHANGED <<menu, chosen, sharing, nativeModal, alertVars, active>>

\* The report is complete, whatever has been opened since.
GitHubAnswered ==
  /\ awaited = "github"
  /\ awaited' = "none"
  /\ SetHidden(FALSE)
  /\ Answered
  /\ late' = (late \/ menu # "closed" \/ HidingUp)
  /\ UNCHANGED <<menu, chosen, sharing, nativeModal, alertVars, active>>

-----------------------------------------------------------------------------
(* The save alert *)

\* PaperPadBoat_ReportSaveError, once its block runs
ReportSaveError ==
  /\ ~showing
  /\ Present("alert")
  /\ showing' = TRUE
  /\ previously' = modal
  /\ modal' = TRUE
  /\ UNCHANGED <<menu, pending, hidden, nativeModal, active, late>>

\* Mutant of AcknowledgeSaveError: input is resumed whatever is below the alert.
AcknowledgeAndResume ==
  /\ sheets # <<>>
  /\ Top = "alert"
  /\ sheets' = Below
  /\ showing' = FALSE
  /\ modal' = FALSE
  /\ UNCHANGED <<menu, pending, hidden, nativeModal, previously, active, late>>

\* Its OK button
AcknowledgeSaveError ==
  /\ sheets # <<>>
  /\ Top = "alert"
  /\ sheets' = Below
  /\ showing' = FALSE
  /\ modal' = previously
  /\ UNCHANGED <<menu, pending, hidden, nativeModal, previously, active, late>>

-----------------------------------------------------------------------------
(* The game loop and the application's life cycle *)

\* PaperPadBoat_Frame
Frame ==
  /\ nativeModal' = (sheets # <<>>)
  /\ UNCHANGED <<menu, pending, sheets, modal, hidden, alertVars, active, late>>

\* eventWatch
EnterBackground ==
  /\ active' = FALSE
  /\ UNCHANGED <<menu, pending, sheets, modal, hidden, nativeModal, alertVars, late>>

EnterForeground ==
  /\ active' = TRUE
  /\ UNCHANGED <<menu, pending, sheets, modal, hidden, nativeModal, alertVars, late>>

\* The gate of PaperPadBoat_ReadController
Suspended == ~active \/ modal \/ nativeModal

-----------------------------------------------------------------------------
InitSuspension ==
  /\ menu = "closed" /\ chosen = "none" /\ sharing = FALSE /\ awaited = "none" /\ sheets = <<>>
  /\ modal = FALSE /\ hidden = FALSE /\ nativeModal = FALSE
  /\ showing = FALSE /\ previously = FALSE
  /\ active = TRUE
  /\ late = FALSE

NextSuspension ==
  \/ WillDisplayMenu \/ WillEndMenu \/ MenuEnded
  \/ \E action \in Actions : Choose(action)
  \/ PerformSheet \/ PerformShare \/ PerformRom \/ PerformOnControls
  \/ PresentShare
  \/ Dismiss \/ OpenOriginal \/ ShareFromReport \/ ReportOnGitHub
  \/ OriginalAnswered \/ GitHubAnswered
  \/ ReportSaveError \/ AcknowledgeSaveError
  \/ Frame \/ EnterBackground \/ EnterForeground

SuspensionSpec == InitSuspension /\ [][NextSuspension]_suspensionVars

-----------------------------------------------------------------------------
(* Properties *)

\* The menu is on screen, or the topmost sheet is one that hides the controls.
InMenu == menu # "closed" \/ (sheets # <<>> /\ Top \in Hiding)

Quiet == menu = "closed" /\ chosen = "none" /\ ~sharing /\ awaited # "github" /\ sheets = <<>>

\* While the menu is on screen, or one of the sheets that hide the controls is the
\* topmost, the game gets neutral input from the first poll on, whatever alerts came
\* and went in between.  Left out are the episodes in which a callback came too late:
\* an action's sheet before the menu had gone, a share sheet after the flag it relies on
\* had been reset, or GitHub's answer after the menu or a sheet had been opened again.
PresentedIsSuspended == InMenu /\ ~late => Suspended

\* When everything has been dismissed, and GitHub has answered, the touch controls are
\* back, and so is the game's input, late callbacks included; unless the last save alert
\* came up while input was suspended and has restored that.
ControlsComeBack == Quiet => ~hidden /\ (modal => previously)
=============================================================================
