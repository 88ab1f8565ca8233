---------------------------- MODULE TouchOverlay ----------------------------
(***************************************************************************)
(* The touch overlay of apple/app/ios_main.mm: UIKit's touch callbacks and  *)
(* the calls that hide, clear or edit the controls, on the main thread, and *)
(* the game's poll, paperpad_touch_snapshot, on another.  They share relaxed *)
(* atomics only, so the stores of a callback reach the poll one at a time   *)
(* and in any order, and the poll's loads are a step each.                  *)
(*                                                                         *)
(* A callback is one step on the overlay's own state; the stores it makes   *)
(* are then in "stores" until they have been done, and the next callback    *)
(* waits for them.  What a callback stores is a function of the overlay's   *)
(* state (HeldButtons, Deflections), whether it publishes or clears.        *)
(* One touch per callback.  x and y are one value here, and the tap latch   *)
(* one atomic step per poll (TouchTapLatch has its steps).                  *)
(***************************************************************************)
EXTENDS Integers

CONSTANTS
  Touches,    \* fingers
  Buttons,    \* button controls
  Tilts,      \* deflections of the stick beyond its dead zone
  HoldPolls,  \* kTapHoldPolls
  Boat        \* TRUE in the build with PAPERPAD_APP, the PaperBoat engine

ASSUME HoldPollsAssumption == HoldPolls \in Nat \ {0}
ASSUME BoatAssumption      == Boat \in BOOLEAN
ASSUME ButtonsAssumption   == Buttons \cap {"stick", "none"} = {}

VARIABLES
  down,      \* touches on the glass
  role,      \* _touchRoles: the control a touch drives; "none" when it has none
  tilt,      \* where a touch is, seen from _stickOrigin
  editing, enabled, physical, modalHidden,  \* the overlay's four flags
  stores,    \* the atomics the last callback has not stored to yet
  buttons,   \* g_touch_buttons
  taps,      \* g_touch_taps
  stick,     \* g_touch_x, g_touch_y
  flick,     \* g_touch_flick_x, g_touch_flick_y
  flickPolls,\* g_touch_flick_polls
  snapshot,  \* where the snapshot stands: idle, stick, polls, flick, swap
  polled,    \* what it has read: the last snapshot, while idle
  leaked,    \* history: the edit mode ended with a finger on a control, and no clear since
  replays    \* history: snapshots that replayed the flick since it was stored, up to 2

flags   == <<editing, enabled, physical, modalHidden>>
touch   == <<down, role, tilt, leaked>>
shared  == <<buttons, taps, stick, flick, flickPolls, replays>>
polling == <<snapshot, polled>>
vars    == <<touch, flags, stores, shared, polling>>

Neutral     == "neutral"
HoldsStick  == {t \in Touches : role[t] = "stick"}
HeldButtons == {role[t] : t \in Touches} \cap Buttons
Deflections == {tilt[t] : t \in HoldsStick} \ {Neutral}
Suppressed  == ~enabled \/ physical \/ modalHidden

-----------------------------------------------------------------------------
(* What callbacks end in *)

\* publishInput: the flick is stored when the stick is deflected.
Publish ==
  stores' = {"buttons", "stick"} \cup (IF Deflections' # {} THEN {"flick", "flickPolls"} ELSE {})

\* clearInput
Clear ==
  /\ role' = [t \in Touches |-> "none"]
  /\ leaked' = FALSE
  /\ stores' = {"buttons", "taps", "stick", "flick", "flickPolls"}
  /\ UNCHANGED <<down, tilt>>

Callback == stores = {} /\ UNCHANGED polling

\* One of the stores.  With several stick touches the last one visited wins.
Store ==
  /\ UNCHANGED <<touch, flags, polling>>
  /\ \E s \in stores : stores' = stores \ {s} /\
       \/ /\ s = "buttons"
          /\ buttons' = HeldButtons
          /\ UNCHANGED <<taps, stick, flick, flickPolls, replays>>
       \/ /\ s = "taps"
          /\ taps' = [b \in Buttons |-> 0]
          /\ UNCHANGED <<buttons, stick, flick, flickPolls, replays>>
       \/ /\ s = "stick"
          /\ IF HoldsStick = {} THEN stick' = Neutral
             ELSE \E t \in HoldsStick : stick' = tilt[t]
          /\ UNCHANGED <<buttons, taps, flick, flickPolls, replays>>
       \/ /\ s = "flick"
          /\ IF Deflections = {} THEN flick' = Neutral ELSE flick' \in Deflections
          /\ UNCHANGED <<buttons, taps, stick, flickPolls, replays>>
       \/ /\ s = "flickPolls"
          /\ flickPolls' = IF Deflections = {} THEN 0 ELSE 1
          /\ replays' = 0
          /\ UNCHANGED <<buttons, taps, stick, flick>>

-----------------------------------------------------------------------------
(* touchesBegan.  A touch lands on a control, on the region left of the       *)
(* controls where the stick can be picked up, or on "none" of them.           *)

\* In the edit mode a touch takes a control to drag it.
BeginOnEditor(t, control) ==
  /\ Callback
  /\ editing
  /\ t \notin down
  /\ down' = down \cup {t}
  /\ role' = [role EXCEPT ![t] = control]
  /\ tilt' \in {[tilt EXCEPT ![t] = d] : d \in Tilts \cup {Neutral}}
  /\ UNCHANGED <<leaked, flags, stores, shared>>

\* controlAtPoint finds no control while they are suppressed; in the Boat build
\* a second finger does not take the stick.
Refused(control) ==
  \/ control = "none"
  \/ Suppressed
  \/ Boat /\ control = "stick" /\ HoldsStick # {}

BeginRefused(t, control) ==
  /\ Callback
  /\ ~editing
  /\ t \notin down
  /\ Refused(control)
  /\ down' = down \cup {t}
  /\ UNCHANGED <<role, tilt, leaked, flags, shared>>
  /\ Publish

\* The Boat build anchors the stick where the touch lands, the other one at the control.
BeginOnStick(t) ==
  /\ Callback
  /\ ~editing
  /\ t \notin down
  /\ ~Refused("stick")
  /\ down' = down \cup {t}
  /\ role' = [role EXCEPT ![t] = "stick"]
  /\ tilt' \in {[tilt EXCEPT ![t] = d] : d \in {Neutral} \cup (IF Boat THEN {} ELSE Tilts)}
  /\ UNCHANGED <<leaked, flags, shared>>
  /\ Publish

BeginOnButton(t, b) ==
  /\ Callback
  /\ ~editing
  /\ t \notin down
  /\ ~Refused(b)
  /\ down' = down \cup {t}
  /\ role' = [role EXCEPT ![t] = b]
  /\ taps' = [taps EXCEPT ![b] = HoldPolls]
  /\ UNCHANGED <<tilt, leaked, flags, buttons, stick, flick, flickPolls, replays>>
  /\ Publish

Begin(t) ==
  \/ \E c \in Buttons \cup {"stick", "none"} : BeginOnEditor(t, c) \/ BeginRefused(t, c)
  \/ BeginOnStick(t)
  \/ \E b \in Buttons : BeginOnButton(t, b)

-----------------------------------------------------------------------------
(* touchesMoved and finishTouches *)

\* Outside the edit mode a stick touch deflects the stick ...
MoveStick(t) ==
  /\ Callback
  /\ ~editing
  /\ role[t] = "stick"
  /\ tilt' \in {[tilt EXCEPT ![t] = d] : d \in Tilts \cup {Neutral}}
  /\ UNCHANGED <<down, role, leaked, flags, shared>>
  /\ Publish

\* ... and a button touch loses its button when it slides off.
SlideOff(t) ==
  /\ Callback
  /\ ~editing
  /\ role[t] \in Buttons
  /\ role' = [role EXCEPT ![t] = "none"]
  /\ UNCHANGED <<down, tilt, leaked, flags, shared>>
  /\ Publish

\* Mutant of Finish: a touch that ends does not publish.
FinishQuietly(t) ==
  /\ Callback
  /\ t \in down
  /\ down' = down \ {t}
  /\ role' = [role EXCEPT ![t] = "none"]
  /\ UNCHANGED <<tilt, leaked, flags, stores, shared>>

\* A touch ends or is cancelled; the edit mode only saves the layout.
Finish(t) ==
  /\ Callback
  /\ t \in down
  /\ down' = down \ {t}
  /\ role' = [role EXCEPT ![t] = "none"]
  /\ UNCHANGED <<tilt, leaked, flags, shared>>
  /\ IF editing THEN UNCHANGED stores ELSE Publish

-----------------------------------------------------------------------------
(* The edit mode and the calls that hide the controls *)

BeginEditingLayout ==
  /\ Callback
  /\ editing' = TRUE
  /\ modalHidden' = FALSE
  /\ Clear
  /\ UNCHANGED <<enabled, physical, shared>>

EndEditing ==
  /\ editing' = FALSE
  /\ leaked' = (leaked \/ \E t \in Touches : editing /\ role[t] # "none")

\* handleToolbarPoint: a touch on the toolbar's DONE, which is index 0.
DoneEditing(t) ==
  /\ Callback
  /\ editing
  /\ t \notin down
  /\ down' = down \cup {t}
  /\ EndEditing
  /\ UNCHANGED <<role, tilt, enabled, physical, modalHidden, shared>>
  /\ Publish

ResetLayout ==
  /\ Callback
  /\ EndEditing
  /\ UNCHANGED <<down, role, tilt, enabled, physical, modalHidden, stores, shared>>

\* clearInput when the controls go away, otherwise nothing is stored.
ClearIf(hide) == IF hide THEN Clear ELSE UNCHANGED <<touch, stores>>

SetModalControlsHidden(hidden) ==
  /\ Callback
  /\ modalHidden' = hidden
  /\ ClearIf(hidden)
  /\ UNCHANGED <<editing, enabled, physical, shared>>

\* visibilityChanged of the Boat build's menu clears in both directions.
SetMenuVisible(visible) ==
  /\ Boat
  /\ Callback
  /\ modalHidden' = visible
  /\ Clear
  /\ UNCHANGED <<editing, enabled, physical, shared>>

SetGameplayControlsEnabled(on) ==
  /\ Callback
  /\ enabled' = on
  /\ ClearIf(~on)
  /\ UNCHANGED <<editing, physical, modalHidden, shared>>

\* Mutant of SetPhysicalControllerConnected: held input is not cleared.
ConnectWithoutClear(connected) ==
  /\ Callback
  /\ physical' = connected
  /\ UNCHANGED <<touch, stores, editing, enabled, modalHidden, shared>>

SetPhysicalControllerConnected(connected) ==
  /\ Callback
  /\ physical' = connected
  /\ ClearIf(connected)
  /\ UNCHANGED <<editing, enabled, modalHidden, shared>>

\* UIApplicationWillResignActiveNotification, and a menu action that was chosen
ResignActive ==
  /\ Callback
  /\ Clear
  /\ UNCHANGED <<flags, shared>>

-----------------------------------------------------------------------------
(* paperpad_touch_snapshot *)

\* g_touch_buttons, and consume of the latch
SnapshotButtons ==
  /\ snapshot = "idle"
  /\ polled' = [buttons |-> buttons \cup {b \in Buttons : taps[b] > 0}, stick |-> Neutral]
  /\ taps' = [b \in Buttons |-> IF taps[b] > 0 THEN taps[b] - 1 ELSE 0]
  /\ snapshot' = "stick"
  /\ UNCHANGED <<touch, flags, stores, buttons, stick, flick, flickPolls, replays>>

SnapshotStick ==
  /\ snapshot = "stick"
  /\ polled' = [polled EXCEPT !.stick = stick]
  /\ snapshot' = "polls"
  /\ UNCHANGED <<touch, flags, stores, shared>>

\* flickPolls is loaded: with the stick neutral it decides about the replay.
SnapshotPolls ==
  /\ snapshot = "polls"
  /\ IF polled.stick = Neutral /\ flickPolls > 0
     THEN snapshot' = "flick" ELSE snapshot' = "idle"
  /\ UNCHANGED <<touch, flags, stores, polled, buttons, taps, stick, flick, flickPolls, replays>>

SnapshotFlick ==
  /\ snapshot = "flick"
  /\ polled' = [polled EXCEPT !.stick = flick]
  /\ snapshot' = "swap"
  /\ UNCHANGED <<touch, flags, stores, shared>>

\* Mutant of SnapshotSwap: the replayed flick is left for further polls.
SnapshotKeeps ==
  /\ snapshot = "swap"
  /\ replays' = IF replays < 2 THEN replays + 1 ELSE 2
  /\ snapshot' = "idle"
  /\ UNCHANGED <<touch, flags, stores, polled, buttons, taps, stick, flick, flickPolls>>

\* The strong compare-exchange of flickPolls, which was 1.
SnapshotSwap ==
  /\ snapshot = "swap"
  /\ flickPolls' = IF flickPolls = 1 THEN 0 ELSE flickPolls
  /\ replays' = IF flickPolls = 1 /\ replays < 2 THEN replays + 1 ELSE replays
  /\ snapshot' = "idle"
  /\ UNCHANGED <<touch, flags, stores, polled, buttons, taps, stick, flick>>

-----------------------------------------------------------------------------
Init ==
  /\ down = {} /\ leaked = FALSE
  /\ role = [t \in Touches |-> "none"]
  /\ tilt = [t \in Touches |-> Neutral]
  /\ editing = FALSE /\ modalHidden = FALSE
  /\ enabled \in BOOLEAN
  /\ physical \in BOOLEAN
  /\ stores = {}
  /\ buttons = {}
  /\ taps = [b \in Buttons |-> 0]
  /\ stick = Neutral /\ flick = Neutral /\ flickPolls = 0
  /\ snapshot = "idle"
  /\ polled = [buttons |-> {}, stick |-> Neutral]
  /\ replays = 0

SnapshotStep == SnapshotStick \/ SnapshotPolls \/ SnapshotFlick \/ SnapshotSwap

Next ==
  \/ \E t \in Touches : Begin(t) \/ MoveStick(t) \/ SlideOff(t) \/ Finish(t) \/ DoneEditing(t)
  \/ BeginEditingLayout \/ ResetLayout \/ ResignActive
  \/ \E on \in BOOLEAN :
       \/ SetModalControlsHidden(on) \/ SetMenuVisible(on)
       \/ SetGameplayControlsEnabled(on) \/ SetPhysicalControllerConnected(on)
  \/ Store
  \/ SnapshotButtons
  \/ SnapshotStep

Spec == Init /\ [][Next]_vars

\* The main thread's stores are done, the game polls for as long as it runs.
FairSpec == Spec /\ WF_vars(Store) /\ WF_vars(SnapshotButtons) /\ WF_vars(SnapshotStep)

-----------------------------------------------------------------------------
(* Properties *)

NeutralInput ==
  /\ buttons = {}
  /\ \A b \in Buttons : taps[b] = 0
  /\ stick = Neutral
  /\ flickPolls = 0

\* While a controller is connected, a sheet is up or the controls are switched off,
\* nothing is left for the game to read: no button, tap, stick or late flick.
\* A finger that drags a control when the edit mode ends is the exception (leaked).
SuppressedIsNeutral ==
  Suppressed /\ ~editing /\ ~leaked /\ stores = {} => NeutralInput

\* What the game can read is what the fingers hold, whichever callbacks came
\* between: no button stays pressed after its finger has gone.
SharedMatchesHeld ==
  stores = {} /\ ~editing /\ ~leaked =>
    /\ buttons = HeldButtons
    /\ IF HoldsStick = {} THEN stick = Neutral ELSE \E t \in HoldsStick : stick = tilt[t]

\* A released flick is replayed to one poll and no more, so that a selector does
\* not overshoot.
FlickReplayedOnce == replays <= 1

\* Once every finger has been lifted for good, the snapshots become neutral and stay so.
InputEnds ==
  <>[](down = {}) => <>[](polled = [buttons |-> {}, stick |-> Neutral])
=============================================================================
