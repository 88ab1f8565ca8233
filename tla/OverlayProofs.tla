---------------------------- MODULE OverlayProofs ----------------------------
(***************************************************************************)
(* Who gets the player's touches and keys, and when they are let go: the    *)
(* touch overlay, for any fingers and buttons and both builds, and what     *)
(* suspends and resumes the input of the PaperBoat build, for taps held for *)
(* any number of polls.                                                    *)
(***************************************************************************)
EXTENDS TouchOverlay, BoatInput, TLAPS

-----------------------------------------------------------------------------
(* The touch overlay, for any fingers, buttons and tilts, in both builds *)

NothingHeld == \A t \in Touches : role[t] = "none"

StickMatches == IF HoldsStick = {} THEN stick = Neutral ELSE \E t \in HoldsStick : stick = tilt[t]

OverlayTypes ==
  /\ role \in [Touches -> Buttons \cup {"stick", "none"}]
  /\ editing \in BOOLEAN /\ enabled \in BOOLEAN /\ physical \in BOOLEAN
  /\ modalHidden \in BOOLEAN /\ leaked \in BOOLEAN
  /\ stores \subseteq {"buttons", "taps", "stick", "flick", "flickPolls"}
  /\ taps \in [Buttons -> Nat]
  /\ flickPolls \in {0, 1} /\ replays \in Nat

\* What is not about to be stored is what the fingers hold ...
HeldInv ==
  ~editing /\ ~leaked => /\ "buttons" \notin stores => buttons = HeldButtons
                         /\ "stick" \notin stores => StickMatches

\* ... or neutral, in the edit mode, where the fingers hold controls to drag them, once the
\* stores of the clear that began it have been done ...
EditInv ==
  editing => /\ ~leaked
             /\ stores # {} => NothingHeld
             /\ "buttons" \notin stores => buttons = {}
             /\ "stick" \notin stores => stick = Neutral

\* ... and nothing late is left by what suppressed the controls.
SilentInv ==
  (Suppressed \/ editing) /\ ~leaked =>
    /\ ~editing => NothingHeld
    /\ "taps" \notin stores => \A b \in Buttons : taps[b] = 0
    /\ "flickPolls" \notin stores => flickPolls = 0

OverlayInv == OverlayTypes /\ HeldInv /\ EditInv /\ SilentInv /\ replays + flickPolls <= 1

\* No finger on a control: there is nothing to publish.
LEMMA NothingHeldIsNeutral ==
  ASSUME NothingHeld
  PROVE  HeldButtons = {} /\ HoldsStick = {} /\ Deflections = {}
BY ButtonsAssumption DEF NothingHeld, HeldButtons, HoldsStick, Deflections

\* What there is to publish depends on the roles and tilts of the fingers only.
LEMMA HeldUnchanged ==
  ASSUME UNCHANGED <<role, tilt>>
  PROVE  /\ HeldButtons' = HeldButtons /\ HoldsStick' = HoldsStick /\ Deflections' = Deflections
         /\ NothingHeld' <=> NothingHeld
         /\ stick' = stick => (StickMatches' <=> StickMatches)
BY DEF HeldButtons, HoldsStick, Deflections, NothingHeld, StickMatches

\* A callback that publishes what the fingers hold, which is nothing if the controls are
\* suppressed.
LEMMA PublishPreserves ==
  ASSUME OverlayInv, OverlayTypes', stores = {}, Publish, ~editing',
         UNCHANGED <<enabled, physical, modalHidden, buttons, stick, flickPolls, replays>>,
         Suppressed /\ ~leaked' => ~leaked /\ NothingHeld' /\ UNCHANGED taps
  PROVE  OverlayInv'
<1>1. stores' \in {{"buttons", "stick"}, {"buttons", "stick", "flick", "flickPolls"}}
  BY DEF Publish
<1>2. HeldInv' /\ EditInv'
  BY <1>1 DEF HeldInv, EditInv
<1>3. SilentInv'
  BY <1>1 DEF OverlayInv, SilentInv, Suppressed
<1> QED
  BY <1>2, <1>3 DEF OverlayInv

\* A callback that clears.
LEMMA ClearPreserves ==
  ASSUME OverlayInv, Clear, UNCHANGED shared,
         editing' \in BOOLEAN, enabled' \in BOOLEAN, physical' \in BOOLEAN, modalHidden' \in BOOLEAN
  PROVE  OverlayInv'
<1>1. /\ NothingHeld' /\ ~leaked'
      /\ stores' = {"buttons", "taps", "stick", "flick", "flickPolls"}
      /\ UNCHANGED <<taps, flickPolls, replays>>
  BY DEF Clear, NothingHeld, shared
<1>2. OverlayTypes'
  BY <1>1 DEF OverlayInv, OverlayTypes, Clear
<1>3. HeldInv' /\ EditInv' /\ SilentInv'
  BY <1>1 DEF HeldInv, EditInv, SilentInv
<1> QED
  BY <1>1, <1>2, <1>3 DEF OverlayInv

\* The controls that touches begin on.
LEMMA BeginPreserves ==
  ASSUME OverlayInv, NEW t \in Touches, Begin(t)
  PROVE  OverlayInv'
<1> USE DEF OverlayInv, Callback
<1>1. ASSUME NEW c \in Buttons \cup {"stick", "none"}, BeginOnEditor(t, c) PROVE OverlayInv'
  <2>1. /\ editing /\ stores = {} /\ role' = [role EXCEPT ![t] = c]
        /\ UNCHANGED <<leaked, editing, enabled, physical, modalHidden, stores, buttons, taps, stick,
                       flickPolls, replays>>
    BY <1>1 DEF BeginOnEditor, flags, shared
  <2>2. OverlayTypes'
    BY <2>1 DEF OverlayTypes
  <2>3. HeldInv' /\ EditInv'
    BY <2>1 DEF HeldInv, EditInv
  <2>4. SilentInv'
    BY <2>1 DEF SilentInv, EditInv
  <2> QED
    BY <2>1, <2>2, <2>3, <2>4
<1>2. ASSUME NEW c \in Buttons \cup {"stick", "none"}, BeginRefused(t, c) PROVE OverlayInv'
  <2>1. /\ ~editing /\ stores = {} /\ Publish
        /\ UNCHANGED <<role, leaked, editing, enabled, physical, modalHidden, buttons, taps, stick,
                       flickPolls, replays>>
    BY <1>2 DEF BeginRefused, flags, shared
  <2>2. OverlayTypes'
    BY <2>1 DEF OverlayTypes, Publish
  <2>3. Suppressed /\ ~leaked' => ~leaked /\ NothingHeld' /\ UNCHANGED taps
    BY <2>1 DEF SilentInv, NothingHeld
  <2> QED
    BY <2>1, <2>2, <2>3, PublishPreserves
<1>3. CASE BeginOnStick(t)
  <2>1. /\ ~editing /\ stores = {} /\ ~Suppressed /\ Publish /\ role' = [role EXCEPT ![t] = "stick"]
        /\ UNCHANGED <<leaked, editing, enabled, physical, modalHidden, buttons, taps, stick,
                       flickPolls, replays>>
    BY <1>3 DEF BeginOnStick, Refused, flags, shared
  <2>2. OverlayTypes'
    BY <2>1 DEF OverlayTypes, Publish
  <2> QED
    BY <2>1, <2>2, PublishPreserves
<1>4. ASSUME NEW b \in Buttons, BeginOnButton(t, b) PROVE OverlayInv'
  <2>1. /\ ~editing /\ stores = {} /\ ~Suppressed /\ Publish
        /\ role' = [role EXCEPT ![t] = b] /\ taps' = [taps EXCEPT ![b] = HoldPolls]
        /\ UNCHANGED <<leaked, editing, enabled, physical, modalHidden, buttons, stick,
                       flickPolls, replays>>
    BY <1>4 DEF BeginOnButton, Refused, flags
  <2>2. OverlayTypes'
    BY <2>1, HoldPollsAssumption DEF OverlayTypes, Publish
  <2> QED
    BY <2>1, <2>2, PublishPreserves
<1> QED
  BY <1>1, <1>2, <1>3, <1>4 DEF Begin

\* What a touch does until it ends.
LEMMA TouchPreserves ==
  ASSUME OverlayInv, NEW t \in Touches, MoveStick(t) \/ SlideOff(t) \/ Finish(t) \/ DoneEditing(t)
  PROVE  OverlayInv'
<1> USE DEF OverlayInv, Callback
<1>1. CASE MoveStick(t)
  <2>1. /\ ~editing /\ stores = {} /\ role[t] = "stick" /\ Publish
        /\ UNCHANGED <<role, leaked, editing, enabled, physical, modalHidden, buttons, taps, stick,
                       flickPolls, replays>>
    BY <1>1 DEF MoveStick, flags, shared
  <2>2. OverlayTypes'
    BY <2>1 DEF OverlayTypes, Publish
  <2>3. ~(Suppressed /\ ~leaked)
    BY <2>1 DEF SilentInv, NothingHeld
  <2> QED
    BY <2>1, <2>2, <2>3, PublishPreserves
<1>2. CASE SlideOff(t)
  <2>1. /\ ~editing /\ stores = {} /\ role[t] \in Buttons /\ Publish
        /\ role' = [role EXCEPT ![t] = "none"]
        /\ UNCHANGED <<leaked, editing, enabled, physical, modalHidden, buttons, taps, stick,
                       flickPolls, replays>>
    BY <1>2 DEF SlideOff, flags, shared
  <2>2. OverlayTypes'
    BY <2>1 DEF OverlayTypes, Publish
  <2>3. ~(Suppressed /\ ~leaked)
    BY <2>1, ButtonsAssumption DEF SilentInv, NothingHeld
  <2> QED
    BY <2>1, <2>2, <2>3, PublishPreserves
<1>3. CASE Finish(t)
  <2>1. /\ stores = {} /\ role' = [role EXCEPT ![t] = "none"]
        /\ IF editing THEN UNCHANGED stores ELSE Publish
        /\ UNCHANGED <<leaked, editing, enabled, physical, modalHidden, buttons, taps, stick,
                       flickPolls, replays>>
    BY <1>3 DEF Finish, flags, shared
  <2>2. OverlayTypes'
    BY <2>1 DEF OverlayTypes, Publish
  <2>3. CASE editing
    <3>1. HeldInv' /\ EditInv'
      BY <2>1, <2>3 DEF HeldInv, EditInv
    <3>2. SilentInv'
      BY <2>1, <2>3 DEF SilentInv, EditInv
    <3> QED
      BY <2>1, <2>2, <3>1, <3>2
  <2>4. CASE ~editing
    <3>1. Suppressed /\ ~leaked' => ~leaked /\ NothingHeld' /\ UNCHANGED taps
      BY <2>1, <2>4 DEF SilentInv, NothingHeld, OverlayTypes
    <3> QED
      BY <2>1, <2>2, <2>4, <3>1, PublishPreserves
  <2> QED
    BY <2>3, <2>4
<1>4. CASE DoneEditing(t)
  <2>1. /\ editing /\ ~editing' /\ editing' \in BOOLEAN /\ stores = {} /\ Publish
        /\ leaked' \in BOOLEAN /\ (~leaked' => ~leaked /\ NothingHeld)
        /\ UNCHANGED <<role, enabled, physical, modalHidden, buttons, taps, stick,
                       flickPolls, replays>>
    <3>1. leaked' = (leaked \/ ~NothingHeld)
      BY <1>4 DEF DoneEditing, EndEditing, NothingHeld
    <3>2. leaked' \in BOOLEAN /\ (~leaked' => ~leaked /\ NothingHeld)
      BY <3>1, Zenon
    <3> QED
      BY <1>4, <3>2 DEF DoneEditing, EndEditing, shared
  <2>2. OverlayTypes'
    BY <2>1 DEF OverlayTypes, Publish
  <2>3. ~leaked' => NothingHeld'
    BY <2>1 DEF NothingHeld
  <2> QED
    BY <2>1, <2>2, <2>3, PublishPreserves
<1> QED
  BY <1>1, <1>2, <1>3, <1>4

\* The edit mode and the calls that hide the controls.
LEMMA CallsPreserve ==
  ASSUME OverlayInv,
         \/ BeginEditingLayout \/ ResetLayout \/ ResignActive
         \/ \E on \in BOOLEAN : \/ SetModalControlsHidden(on) \/ SetMenuVisible(on)
                                \/ SetGameplayControlsEnabled(on)
                                \/ SetPhysicalControllerConnected(on)
  PROVE  OverlayInv'
<1> USE DEF OverlayInv, Callback
<1>1. CASE BeginEditingLayout
  BY <1>1, ClearPreserves DEF BeginEditingLayout, OverlayTypes
<1>2. CASE ResignActive
  BY <1>2, ClearPreserves DEF ResignActive, flags, OverlayTypes
<1>3. CASE ResetLayout
  <2>1. /\ ~editing' /\ editing' \in BOOLEAN /\ stores = {}
        /\ UNCHANGED <<role, tilt, enabled, physical, modalHidden, stores, buttons, taps, stick,
                       flickPolls, replays>>
    BY <1>3 DEF ResetLayout, EndEditing, shared
  <2>2. leaked' \in BOOLEAN /\ (~leaked' => ~leaked /\ (editing => NothingHeld))
    <3>1. leaked' = (leaked \/ (editing /\ ~NothingHeld))
      BY <1>3 DEF ResetLayout, EndEditing, NothingHeld
    <3> QED
      BY <3>1, Zenon
  <2>3. OverlayTypes'
    BY <2>1, <2>2 DEF OverlayTypes
  <2>4. HeldInv'
    BY <2>1, <2>2, HeldUnchanged, NothingHeldIsNeutral DEF HeldInv, EditInv, StickMatches
  <2>5. EditInv' /\ SilentInv'
    BY <2>1, <2>2, HeldUnchanged DEF EditInv, SilentInv, Suppressed
  <2> QED
    BY <2>1, <2>3, <2>4, <2>5
<1>4. ASSUME NEW on \in BOOLEAN,
             \/ SetModalControlsHidden(on) \/ SetMenuVisible(on)
             \/ SetGameplayControlsEnabled(on) \/ SetPhysicalControllerConnected(on)
      PROVE  OverlayInv'
  <2>1. /\ UNCHANGED <<editing, shared>>
        /\ enabled' \in BOOLEAN /\ physical' \in BOOLEAN /\ modalHidden' \in BOOLEAN
        /\ Clear \/ (UNCHANGED <<touch, stores>> /\ (Suppressed' => Suppressed))
    BY <1>4 DEF SetModalControlsHidden, SetMenuVisible, SetGameplayControlsEnabled,
       SetPhysicalControllerConnected, ClearIf, Suppressed, OverlayTypes
  <2>2. CASE Clear
    BY <2>1, <2>2, ClearPreserves DEF OverlayTypes
  <2>3. CASE UNCHANGED <<touch, stores>> /\ (Suppressed' => Suppressed)
    <3>1. /\ OverlayTypes' /\ EditInv'
      BY <2>1, <2>3, HeldUnchanged DEF touch, shared, OverlayTypes, EditInv
    <3>2. HeldInv' /\ SilentInv'
      BY <2>1, <2>3, HeldUnchanged DEF touch, shared, HeldInv, SilentInv
    <3> QED
      BY <2>1, <3>1, <3>2 DEF shared
  <2> QED
    BY <2>1, <2>2, <2>3
<1> QED
  BY <1>1, <1>2, <1>3, <1>4

\* One of the atomics is stored.
LEMMA StorePreserves ==
  ASSUME OverlayInv, Store
  PROVE  OverlayInv'
<1> USE DEF OverlayInv
<1>1. PICK s \in stores :
        /\ stores' = stores \ {s}
        /\ \/ /\ s = "buttons"
              /\ buttons' = HeldButtons
              /\ UNCHANGED <<taps, stick, flick, flickPolls, replays>>
           \/ /\ s = "taps"
              /\ taps' = [b \in Buttons |-> 0]
              /\ UNCHANGED <<buttons, stick, flick, flickPolls, replays>>
           \/ /\ s = "stick"
              /\ IF HoldsStick = {} THEN stick' = Neutral
                 ELSE \E t \in HoldsStick : stick' = tilt[t]
              /\ UNCHANGED <<buttons, taps, flick, flickPolls, replays>>
           \/ /\ s = "flick"
              /\ UNCHANGED <<buttons, taps, stick, flickPolls, replays>>
           \/ /\ s = "flickPolls"
              /\ flickPolls' = IF Deflections = {} THEN 0 ELSE 1
              /\ replays' = 0
              /\ UNCHANGED <<buttons, taps, stick, flick>>
  BY DEF Store
<1>2. /\ UNCHANGED <<role, tilt, leaked, editing, enabled, physical, modalHidden>>
      /\ s \in {"buttons", "taps", "stick", "flick", "flickPolls"}
  BY DEF Store, touch, flags, OverlayTypes
<1>3. OverlayTypes'
  BY <1>1, <1>2 DEF OverlayTypes
<1>4. /\ "buttons" \notin stores' => (buttons' = IF s = "buttons" THEN HeldButtons ELSE buttons)
      /\ "taps" \notin stores' => (taps' = IF s = "taps" THEN [b \in Buttons |-> 0] ELSE taps)
      /\ "flickPolls" \notin stores' =>
           (flickPolls' = IF s = "flickPolls" THEN (IF Deflections = {} THEN 0 ELSE 1) ELSE flickPolls)
      /\ \A name \in stores : name = s \/ name \in stores'
  BY <1>1
<1>5. HeldInv'
  <2>1. SUFFICES ASSUME ~editing, ~leaked
                 PROVE  /\ "buttons" \notin stores' => buttons' = HeldButtons
                        /\ "stick" \notin stores' =>
                             IF HoldsStick = {} THEN stick' = Neutral
                             ELSE \E t \in HoldsStick : stick' = tilt[t]
    BY <1>2, HeldUnchanged DEF HeldInv, StickMatches
  <2>2. "buttons" \notin stores' => buttons' = HeldButtons
    <3>1. "buttons" \notin stores => buttons = HeldButtons
      BY <2>1, Zenon DEF HeldInv
    <3> QED
      BY <3>1, <1>4
  <2>3. CASE s = "stick"
    BY <2>3, <2>2, <1>1
  <2>4. CASE s # "stick"
    <3>1. "stick" \notin stores => StickMatches
      BY <2>1, Zenon DEF HeldInv
    <3>2. stick' = stick
      BY <2>4, <1>1
    <3>3. "stick" \in stores => "stick" \in stores'
      BY <2>4, <1>4
    <3> QED
      BY <2>2, <3>1, <3>2, <3>3 DEF StickMatches
  <2> QED
    BY <2>3, <2>4
<1>6. EditInv'
  <2>1. SUFFICES ASSUME editing, NothingHeld
                 PROVE  /\ "buttons" \notin stores' => buttons' = {}
                        /\ "stick" \notin stores' => stick' = Neutral
    BY <1>1, <1>2, HeldUnchanged DEF EditInv
  <2>2. HeldButtons = {} /\ HoldsStick = {}
    BY <2>1, NothingHeldIsNeutral
  <2>3. "buttons" \notin stores' => buttons' = {}
    BY <2>1, <2>2, <1>4 DEF EditInv
  <2>4. "stick" \notin stores' => stick' = Neutral
    BY <2>1, <2>2, <1>1, <1>4 DEF EditInv
  <2> QED
    BY <2>3, <2>4
<1>7. SilentInv'
  <2>1. SUFFICES ASSUME Suppressed \/ editing, ~leaked
                 PROVE  /\ ~editing => NothingHeld
                        /\ "taps" \notin stores' => \A b \in Buttons : taps'[b] = 0
                        /\ "flickPolls" \notin stores' => flickPolls' = 0
    BY <1>2, HeldUnchanged DEF SilentInv, Suppressed
  <2>2. NothingHeld
    BY <2>1, <1>1 DEF SilentInv, EditInv
  <2>3. Deflections = {}
    BY <2>2, NothingHeldIsNeutral
  <2>4. "taps" \notin stores' => \A b \in Buttons : taps'[b] = 0
    BY <2>1, <1>4 DEF SilentInv
  <2>5. "flickPolls" \notin stores' => flickPolls' = 0
    BY <2>1, <2>3, <1>4 DEF SilentInv
  <2> QED
    BY <2>2, <2>4, <2>5
<1>8. replays' + flickPolls' <= 1
  BY <1>1
<1> QED
  BY <1>3, <1>5, <1>6, <1>7, <1>8

\* A step of a poll.
LEMMA SnapshotPreserves ==
  ASSUME OverlayInv, SnapshotButtons \/ SnapshotStep \/ UNCHANGED vars
  PROVE  OverlayInv'
<1> USE DEF OverlayInv
<1>1. /\ UNCHANGED <<role, tilt, leaked, editing, enabled, physical, modalHidden, stores, buttons, stick>>
      /\ \/ /\ taps' = [b \in Buttons |-> IF taps[b] > 0 THEN taps[b] - 1 ELSE 0]
            /\ UNCHANGED <<flickPolls, replays>>
         \/ UNCHANGED <<taps, flickPolls, replays>>
         \/ /\ flickPolls' = IF flickPolls = 1 THEN 0 ELSE flickPolls
            /\ replays' = IF flickPolls = 1 /\ replays < 2 THEN replays + 1 ELSE replays
            /\ UNCHANGED taps
  BY DEF SnapshotButtons, SnapshotStep, SnapshotStick, SnapshotPolls, SnapshotFlick, SnapshotSwap,
     vars, touch, flags, shared
<1>2. /\ taps' \in [Buttons -> Nat]
      /\ (\A b \in Buttons : taps[b] = 0) => \A b \in Buttons : taps'[b] = 0
  BY <1>1 DEF OverlayTypes
<1>3. /\ flickPolls' \in {0, 1} /\ replays' \in Nat /\ replays' + flickPolls' <= 1
      /\ flickPolls = 0 => flickPolls' = 0
  BY <1>1 DEF OverlayTypes
<1>4. OverlayTypes'
  BY <1>1, <1>2, <1>3 DEF OverlayTypes
<1>5. HeldInv' /\ EditInv'
  BY <1>1, HeldUnchanged DEF HeldInv, EditInv
<1>6. SilentInv'
  BY <1>1, <1>2, <1>3, HeldUnchanged DEF SilentInv, Suppressed
<1> QED
  BY <1>3, <1>4, <1>5, <1>6

\* The inductive invariant holds in every behaviour of the overlay and its poll.
THEOREM OverlayInvariance == Spec => []OverlayInv
<1>1. Init => OverlayInv
  <2> SUFFICES ASSUME Init PROVE OverlayInv
    OBVIOUS
  <2>1. NothingHeld
    BY DEF Init, NothingHeld
  <2>2. OverlayTypes
    BY DEF Init, OverlayTypes
  <2>3. HeldInv
    BY <2>1, NothingHeldIsNeutral DEF Init, HeldInv, StickMatches
  <2>4. EditInv /\ SilentInv
    BY <2>1 DEF Init, EditInv, SilentInv
  <2> QED
    BY <2>2, <2>3, <2>4 DEF Init, OverlayInv
<1>2. OverlayInv /\ [Next]_vars => OverlayInv'
  BY BeginPreserves, TouchPreserves, CallsPreserve, StorePreserves, SnapshotPreserves DEF Next
<1> QED
  BY <1>1, <1>2, PTL DEF Spec

\* While the controls are suppressed the game reads neutral input (SuppressedIsNeutral).
THEOREM SuppressedStaysNeutral == Spec => []SuppressedIsNeutral
<1>1. OverlayInv => SuppressedIsNeutral
  <2>1. SUFFICES ASSUME OverlayInv, Suppressed, ~editing, ~leaked, stores = {} PROVE NeutralInput
    BY DEF SuppressedIsNeutral
  <2>2. NothingHeld
    BY <2>1 DEF OverlayInv, SilentInv
  <2>3. HeldButtons = {} /\ HoldsStick = {}
    BY <2>2, NothingHeldIsNeutral
  <2>4. buttons = {} /\ stick = Neutral
    BY <2>1, <2>3, Zenon DEF OverlayInv, HeldInv, StickMatches
  <2> QED
    BY <2>1, <2>4 DEF OverlayInv, SilentInv, NeutralInput
<1> QED
  BY <1>1, OverlayInvariance, PTL

\* What the game reads is what the fingers hold (SharedMatchesHeld).
THEOREM SharedStaysHeld == Spec => []SharedMatchesHeld
<1>1. OverlayInv => SharedMatchesHeld
  BY Zenon DEF OverlayInv, HeldInv, StickMatches, SharedMatchesHeld
<1> QED
  BY <1>1, OverlayInvariance, PTL

\* A flick is replayed to one poll at most (FlickReplayedOnce).
THEOREM FlicksAreReplayedOnce == Spec => []FlickReplayedOnce
<1>1. OverlayInv => FlickReplayedOnce
  BY DEF OverlayInv, OverlayTypes, FlickReplayedOnce
<1> QED
  BY <1>1, OverlayInvariance, PTL

-----------------------------------------------------------------------------
(* Nothing stays pressed without a finger, the edit mode's drags included *)

\* Only a finger on the glass has a control, and what is not about to be stored is held
\* by one: in the edit mode nothing is, and a drag that outlives it has its finger.
PressedInv ==
  /\ \A t \in Touches : role[t] # "none" => t \in down
  /\ "buttons" \notin stores => buttons \subseteq HeldButtons
  /\ "stick" \notin stores => stick = Neutral \/ \E t \in HoldsStick : stick = tilt[t]

\* Once a callback's stores are done every pressed button has a finger on it, and
\* without a finger the stick is neutral.
PressedIsTouched ==
  stores = {} => /\ \A b \in buttons : \E t \in down : role[t] = b
                 /\ down = {} => stick = Neutral

\* A callback that stores both anew need only look after the roles.
LEMMA StoredAnewIsPressed ==
  ASSUME "buttons" \in stores', "stick" \in stores',
         \A t \in Touches : role'[t] # "none" => t \in down'
  PROVE  PressedInv'
BY DEF PressedInv

\* Every step keeps it.
LEMMA PressedStep == OverlayInv /\ PressedInv /\ [Next]_vars => PressedInv'
<1> SUFFICES ASSUME OverlayInv, PressedInv, [Next]_vars PROVE PressedInv'
  OBVIOUS
<1>0. /\ role \in [Touches -> Buttons \cup {"stick", "none"}]
      /\ \A t \in Touches : role[t] # "none" => t \in down
  BY DEF OverlayInv, OverlayTypes, PressedInv
<1>p. Publish => {"buttons", "stick"} \subseteq stores'
  BY DEF Publish
<1>1. CASE UNCHANGED <<down, role, tilt, stores, buttons, stick>>
  BY <1>1 DEF PressedInv, HeldButtons, HoldsStick
<1>2. CASE Clear
  <2>1. "buttons" \in stores' /\ "stick" \in stores' /\ \A t \in Touches : role'[t] = "none"
    BY <1>2 DEF Clear
  <2> QED
    BY <2>1, StoredAnewIsPressed
<1>3. ASSUME NEW t \in Touches, NEW c \in Buttons \cup {"stick", "none"}, BeginOnEditor(t, c)
      PROVE  PressedInv'
  <2>1. /\ editing /\ stores = {} /\ stores' = {} /\ UNCHANGED <<buttons, stick>>
        /\ down' = down \cup {t} /\ role' = [role EXCEPT ![t] = c]
    BY <1>3 DEF BeginOnEditor, Callback, shared
  <2>2. buttons = {} /\ stick = Neutral
    BY <2>1 DEF OverlayInv, EditInv
  <2>3. \A u \in Touches : role'[u] # "none" => u \in down'
    BY <1>0, <2>1
  <2> QED
    BY <2>1, <2>2, <2>3 DEF PressedInv
<1>4. ASSUME NEW t \in Touches,
             \/ \E c \in Buttons \cup {"stick", "none"} : BeginRefused(t, c)
             \/ BeginOnStick(t) \/ \E b \in Buttons : BeginOnButton(t, b)
             \/ DoneEditing(t)
      PROVE  PressedInv'
  <2>1. /\ Publish /\ down' = down \cup {t}
        /\ role' = role \/ \E c \in Buttons \cup {"stick"} : role' = [role EXCEPT ![t] = c]
    BY <1>4 DEF BeginRefused, BeginOnStick, BeginOnButton, DoneEditing
  <2>2. \A u \in Touches : role'[u] # "none" => u \in down'
    BY <1>0, <2>1
  <2> QED
    BY <1>p, <2>1, <2>2, StoredAnewIsPressed
<1>5. ASSUME NEW t \in Touches, MoveStick(t) \/ SlideOff(t) PROVE PressedInv'
  <2>1. Publish /\ down' = down /\ (role' = role \/ role' = [role EXCEPT ![t] = "none"])
    BY <1>5 DEF MoveStick, SlideOff
  <2>2. \A u \in Touches : role'[u] # "none" => u \in down'
    BY <1>0, <2>1
  <2> QED
    BY <1>p, <2>1, <2>2, StoredAnewIsPressed
<1>6. ASSUME NEW t \in Touches, Finish(t) PROVE PressedInv'
  <2>1. /\ stores = {} /\ down' = down \ {t} /\ role' = [role EXCEPT ![t] = "none"]
        /\ UNCHANGED <<buttons, stick>>
        /\ IF editing THEN stores' = stores ELSE Publish
    BY <1>6 DEF Finish, Callback, shared
  <2>2. \A u \in Touches : role'[u] # "none" => u \in down'
    BY <1>0, <2>1
  <2>3. CASE editing
    <3>1. buttons' = {} /\ stick' = Neutral
      BY <2>1, <2>3 DEF OverlayInv, EditInv
    <3> QED
      BY <2>2, <3>1 DEF PressedInv
  <2>4. CASE ~editing
    BY <1>p, <2>1, <2>2, <2>4, StoredAnewIsPressed
  <2> QED
    BY <2>3, <2>4
<1>7. CASE ResetLayout
  <2>1. UNCHANGED <<down, role, tilt, stores, buttons, stick>>
    BY <1>7 DEF ResetLayout, shared
  <2> QED
    BY <1>1, <2>1
<1>8. CASE BeginEditingLayout \/ ResignActive
  BY <1>2, <1>8 DEF BeginEditingLayout, ResignActive
<1>9. ASSUME NEW on \in BOOLEAN,
             \/ SetModalControlsHidden(on) \/ SetMenuVisible(on)
             \/ SetGameplayControlsEnabled(on) \/ SetPhysicalControllerConnected(on)
      PROVE  PressedInv'
  <2>1. Clear \/ UNCHANGED <<down, role, tilt, stores, buttons, stick>>
    BY <1>9 DEF SetModalControlsHidden, SetMenuVisible, SetGameplayControlsEnabled,
                SetPhysicalControllerConnected, ClearIf, touch, shared
  <2> QED
    BY <1>1, <1>2, <2>1
<1>10. CASE Store
  <2>1. UNCHANGED <<down, role, tilt>>
    BY <1>10 DEF Store, touch
  <2>2. PICK s \in stores :
          /\ stores' = stores \ {s}
          /\ IF s = "buttons" THEN buttons' = HeldButtons ELSE buttons' = buttons
          /\ IF s # "stick" THEN stick' = stick
             ELSE IF HoldsStick = {} THEN stick' = Neutral
             ELSE \E t \in HoldsStick : stick' = tilt[t]
    BY <1>10 DEF Store
  <2>3. HeldButtons' = HeldButtons /\ HoldsStick' = HoldsStick
    BY <2>1, HeldUnchanged
  <2>4. "buttons" \notin stores' => buttons' \subseteq HeldButtons'
    BY <2>2, <2>3 DEF PressedInv
  <2>5. "stick" \notin stores' => stick' = Neutral \/ \E t \in HoldsStick' : stick' = tilt'[t]
    BY <2>1, <2>2, <2>3 DEF PressedInv
  <2> QED
    BY <1>0, <2>1, <2>4, <2>5 DEF PressedInv
<1>11. CASE SnapshotButtons \/ SnapshotStep \/ UNCHANGED vars
  <2>1. UNCHANGED <<down, role, tilt, stores, buttons, stick>>
    BY <1>11 DEF SnapshotButtons, SnapshotStep, SnapshotStick, SnapshotPolls, SnapshotFlick,
                 SnapshotSwap, vars, touch, shared
  <2> QED
    BY <1>1, <2>1
<1> QED
  BY <1>3, <1>4, <1>5, <1>6, <1>7, <1>8, <1>9, <1>10, <1>11 DEF Next, Begin

\* No button and no direction stays pressed without a finger, not even one that the edit
\* mode let go of: what leaves it held (leaked) lasts no longer than the touch.  It is what
\* InputEnds rests on, without fairness.
THEOREM PressedIsAlwaysTouched == Spec => []PressedIsTouched
<1>1. Init => PressedInv
  BY DEF Init, PressedInv
<1>2. PressedInv => PressedIsTouched
  <2> SUFFICES ASSUME PressedInv, stores = {} PROVE PressedIsTouched
    BY DEF PressedIsTouched
  <2>1. \A b \in buttons : b \in Buttons /\ \E t \in Touches : role[t] = b
    BY DEF PressedInv, HeldButtons
  <2>2. \A b \in buttons : \E t \in down : role[t] = b
    BY <2>1, ButtonsAssumption DEF PressedInv
  <2>3. down = {} => stick = Neutral
    BY DEF PressedInv, HoldsStick
  <2> QED
    BY <2>2, <2>3 DEF PressedIsTouched
<1> QED
  BY <1>1, <1>2, OverlayInvariance, PressedStep, PTL DEF Spec

-----------------------------------------------------------------------------
(* What suspends and resumes the input of the PaperBoat build: the sheets *)

AlertUp == \E i \in DOMAIN sheets : sheets[i] = "alert"

OneAlert  == \A i, j \in DOMAIN sheets : sheets[i] = "alert" /\ sheets[j] = "alert" => i = j
OneHiding == \A i, j \in DOMAIN sheets : sheets[i] \in Hiding /\ sheets[j] \in Hiding => i = j

\* The save alert lies over a sheet that hides the controls.
Covered == \E i, j \in DOMAIN sheets : j < i /\ sheets[i] = "alert" /\ sheets[j] \in Hiding

\* A sheet is presented on top.
LEMMA Presented ==
  ASSUME sheets \in Seq(Kinds), NEW kind \in Kinds, Present(kind)
  PROVE  /\ sheets' \in Seq(Kinds)
         /\ HidingUp' <=> HidingUp \/ kind \in Hiding
         /\ AlertUp' <=> AlertUp \/ kind = "alert"
         /\ Covered' <=> Covered \/ (kind = "alert" /\ HidingUp)
         /\ OneHiding /\ (kind \in Hiding => ~HidingUp) => OneHiding'
         /\ OneAlert /\ (kind = "alert" => ~AlertUp) => OneAlert'
<1> DEFINE n == Len(sheets)
<1>1. /\ n \in Nat /\ DOMAIN sheets = 1..n
      /\ sheets' \in Seq(Kinds) /\ DOMAIN sheets' = 1..(n + 1)
      /\ \A i \in 1..n : sheets'[i] = sheets[i]
      /\ sheets'[n + 1] = kind
  BY DEF Present
<1>2. "alert" \notin Hiding
  BY DEF Hiding
<1> HIDE DEF n
<1>3. \A i \in DOMAIN sheets' : i = n + 1 \/ i \in DOMAIN sheets
  BY <1>1
<1>4. n + 1 \in DOMAIN sheets' /\ n + 1 \notin DOMAIN sheets /\ DOMAIN sheets \subseteq DOMAIN sheets'
  BY <1>1
<1>5. \A i \in DOMAIN sheets : sheets'[i] = sheets[i] /\ i < n + 1
  BY <1>1
<1>6. HidingUp' <=> HidingUp \/ kind \in Hiding
  BY <1>1, <1>3, <1>4, <1>5 DEF HidingUp
<1>7. AlertUp' <=> AlertUp \/ kind = "alert"
  BY <1>1, <1>3, <1>4, <1>5 DEF AlertUp
<1>8. Covered' <=> Covered \/ (kind = "alert" /\ HidingUp)
  <2>1. ASSUME Covered \/ (kind = "alert" /\ HidingUp) PROVE Covered'
    BY <2>1, <1>1, <1>4, <1>5 DEF Covered, HidingUp
  <2>2. ASSUME Covered' PROVE Covered \/ (kind = "alert" /\ HidingUp)
    <3>1. PICK i, j \in 1..(n + 1) : j < i /\ sheets'[i] = "alert" /\ sheets'[j] \in Hiding
      BY <2>2, <1>1 DEF Covered
    <3>2. j \in DOMAIN sheets /\ sheets[j] \in Hiding
      BY <3>1, <1>1
    <3> QED
      BY <3>1, <3>2, <1>1 DEF Covered, HidingUp
  <2> QED
    BY <2>1, <2>2
<1>9. OneHiding /\ (kind \in Hiding => ~HidingUp) => OneHiding'
  BY <1>1, <1>3, <1>4, <1>5 DEF OneHiding, HidingUp
<1>10. OneAlert /\ (kind = "alert" => ~AlertUp) => OneAlert'
  BY <1>1, <1>3, <1>4, <1>5 DEF OneAlert, AlertUp
<1> QED
  BY <1>1, <1>6, <1>7, <1>8, <1>9, <1>10

\* The topmost sheet goes away.
LEMMA Dismissed ==
  ASSUME sheets \in Seq(Kinds), sheets # <<>>, sheets' = Below
  PROVE  /\ sheets' \in Seq(Kinds)
         /\ HidingUp <=> HidingUp' \/ Top \in Hiding
         /\ AlertUp <=> AlertUp' \/ Top = "alert"
         /\ Covered <=> Covered' \/ (Top = "alert" /\ HidingUp')
         /\ OneHiding => OneHiding' /\ (Top \in Hiding => ~HidingUp')
         /\ OneAlert => OneAlert' /\ (Top = "alert" => ~AlertUp')
<1> DEFINE n == Len(sheets)
<1>1. /\ n \in Nat \ {0} /\ DOMAIN sheets = 1..n
      /\ sheets' \in Seq(Kinds) /\ DOMAIN sheets' = 1..(n - 1)
      /\ \A i \in 1..(n - 1) : sheets'[i] = sheets[i]
      /\ sheets[n] = Top
  BY DEF Below, Top
<1> HIDE DEF n
<1>3. \A i \in DOMAIN sheets : i = n \/ i \in DOMAIN sheets'
  BY <1>1
<1>4. n \in DOMAIN sheets /\ n \notin DOMAIN sheets' /\ DOMAIN sheets' \subseteq DOMAIN sheets
  BY <1>1
<1>5. \A i \in DOMAIN sheets' : sheets'[i] = sheets[i] /\ i < n
  BY <1>1
<1>6. HidingUp <=> HidingUp' \/ Top \in Hiding
  BY <1>1, <1>3, <1>4, <1>5 DEF HidingUp
<1>7. AlertUp <=> AlertUp' \/ Top = "alert"
  BY <1>1, <1>3, <1>4, <1>5 DEF AlertUp
<1>8. Covered <=> Covered' \/ (Top = "alert" /\ HidingUp')
  <2>1. ASSUME Covered' \/ (Top = "alert" /\ HidingUp') PROVE Covered
    BY <2>1, <1>1, <1>4, <1>5 DEF Covered, HidingUp
  <2>2. ASSUME Covered PROVE Covered' \/ (Top = "alert" /\ HidingUp')
    <3>1. PICK i, j \in 1..n : j < i /\ sheets[i] = "alert" /\ sheets[j] \in Hiding
      BY <2>2, <1>1 DEF Covered
    <3>2. j \in DOMAIN sheets' /\ sheets'[j] \in Hiding
      BY <3>1, <1>1
    <3> QED
      BY <3>1, <3>2, <1>1 DEF Covered, HidingUp
  <2> QED
    BY <2>1, <2>2
<1>9. OneHiding => OneHiding' /\ (Top \in Hiding => ~HidingUp')
  BY <1>1, <1>3, <1>4, <1>5 DEF OneHiding, HidingUp
<1>10. OneAlert => OneAlert' /\ (Top = "alert" => ~AlertUp')
  BY <1>1, <1>3, <1>4, <1>5 DEF OneAlert, AlertUp
<1> QED
  BY <1>1, <1>6, <1>7, <1>8, <1>9, <1>10

\* Nothing is presented and nothing goes away.
LEMMA NothingPresented ==
  ASSUME sheets' = sheets
  PROVE  /\ HidingUp' <=> HidingUp
         /\ AlertUp' <=> AlertUp
         /\ Covered' <=> Covered
         /\ OneHiding' <=> OneHiding
         /\ OneAlert' <=> OneAlert
BY DEF HidingUp, AlertUp, Covered, OneHiding, OneAlert

-----------------------------------------------------------------------------
(* The flags that suspend and resume the input *)

SuspensionTypes ==
  /\ menu \in {"closed", "open", "closing"}
  /\ chosen \in Actions \cup {"none"}
  /\ sharing \in BOOLEAN /\ awaited \in {"none", "github", "original"}
  /\ sheets \in Seq(Kinds)
  /\ modal \in BOOLEAN /\ hidden \in BOOLEAN
  /\ showing \in BOOLEAN /\ previously \in BOOLEAN
  /\ late \in BOOLEAN

AlertInv == (showing <=> AlertUp) /\ OneAlert

\* Something is up or on its way that resumes the input and shows the controls.
Resumes == menu # "closed" \/ sharing \/ awaited = "github" \/ HidingUp

ResumeInv ==
  /\ hidden => Resumes
  /\ modal => Resumes \/ showing \/ previously

\* As long as no callback comes too late, the menu and one hiding sheet at most take
\* turns; each finds the input suspended, and an alert that comes up while one of them
\* is there remembers it.
SuspendInv ==
  ~late => /\ menu # "closed" \/ chosen # "none" => ~HidingUp
           /\ menu # "closed" \/ HidingUp => modal
           /\ OneHiding
           /\ (menu # "closed" /\ AlertUp) \/ Covered => previously

SuspensionInv == SuspensionTypes /\ AlertInv /\ ResumeInv /\ SuspendInv

\* The kinds of sheets, and which of them the menu leads to.
LEMMA KindsDiffer == /\ Hiding \subseteq Kinds /\ Hiding \subseteq Actions
                     /\ {"rom", "alert", "notice", "share"} \subseteq Kinds
                     /\ {"confirm", "report", "share"} \subseteq Hiding
                     /\ "alert" \notin Hiding /\ "rom" \notin Hiding /\ "notice" \notin Hiding
                     /\ "none" \notin Actions
BY DEF Hiding, Kinds, Actions

\* The callbacks that present nothing and dismiss nothing.
LEMMA MenuPreserves ==
  ASSUME SuspensionInv,
         \/ WillDisplayMenu \/ WillEndMenu \/ MenuEnded \/ PerformShare \/ PerformOnControls
         \/ \E action \in Actions : Choose(action)
  PROVE  SuspensionInv'
<1> USE DEF SuspensionInv, SuspensionTypes, AlertInv, ResumeInv, SuspendInv, Resumes, pending, alertVars
<1>1. CASE WillDisplayMenu
  <2>1. sheets' = sheets /\ ~HidingUp /\ ~AlertUp /\ ~Covered /\ OneHiding
    BY <1>1 DEF WillDisplayMenu, HidingUp, AlertUp, Covered, OneHiding
  <2> QED
    BY <1>1, <2>1, NothingPresented DEF WillDisplayMenu, SetHidden
<1>2. CASE WillEndMenu
  BY <1>2, NothingPresented DEF WillEndMenu
<1>3. CASE MenuEnded
  BY <1>3, NothingPresented DEF MenuEnded, SetHidden
<1>4. CASE PerformShare
  BY <1>4, NothingPresented DEF PerformShare, SetHidden
<1>5. CASE PerformOnControls
  BY <1>5, NothingPresented DEF PerformOnControls
<1>6. ASSUME NEW action \in Actions, Choose(action) PROVE SuspensionInv'
  BY <1>6, NothingPresented DEF Choose
<1> QED
  BY <1>1, <1>2, <1>3, <1>4, <1>5, <1>6

\* What presents a sheet: an action of the menu, the queued share sheet, an answer.
LEMMA PresentingPreserves ==
  ASSUME SuspensionInv,
         PerformSheet \/ PerformRom \/ PresentShare \/ OriginalAnswered \/ GitHubAnswered
  PROVE  SuspensionInv'
<1> USE DEF SuspensionInv, SuspensionTypes, AlertInv, ResumeInv, SuspendInv, Resumes, pending, alertVars
<1>1. CASE PerformSheet
  <2>1. PICK kind \in Hiding : kind = chosen /\ Present(kind)
    BY <1>1 DEF PerformSheet
  <2> QED
    BY <1>1, <2>1, Presented, KindsDiffer DEF PerformSheet, SetHidden
<1>2. CASE PerformRom
  BY <1>2, Presented, KindsDiffer DEF PerformRom
<1>3. CASE PresentShare
  BY <1>3, Presented, KindsDiffer DEF PresentShare
<1>4. CASE OriginalAnswered
  <2>1. sheets' = sheets \/ Present("notice")
    BY <1>4 DEF OriginalAnswered, Answered
  <2> QED
    BY <1>4, <2>1, Presented, NothingPresented, KindsDiffer DEF OriginalAnswered
<1>5. CASE GitHubAnswered
  <2>1. sheets' = sheets \/ Present("notice")
    BY <1>5 DEF GitHubAnswered, Answered
  <2> QED
    BY <1>5, <2>1, Presented, NothingPresented, KindsDiffer DEF GitHubAnswered, SetHidden
<1> QED
  BY <1>1, <1>2, <1>3, <1>4, <1>5

\* The ways out of a sheet.
LEMMA DismissingPreserves ==
  ASSUME SuspensionInv, Dismiss \/ OpenOriginal \/ ShareFromReport \/ ReportOnGitHub
  PROVE  SuspensionInv'
<1> USE DEF SuspensionInv, SuspensionTypes, AlertInv, ResumeInv, SuspendInv, Resumes, pending, alertVars
<1>1. CASE Dismiss
  BY <1>1, Dismissed DEF Dismiss, SetHidden
<1>2. CASE OpenOriginal
  BY <1>2, Dismissed, KindsDiffer DEF OpenOriginal, SetHidden
<1>3. CASE ShareFromReport
  BY <1>3, Dismissed, KindsDiffer DEF ShareFromReport
<1>4. CASE ReportOnGitHub
  BY <1>4, Dismissed, KindsDiffer DEF ReportOnGitHub
<1> QED
  BY <1>1, <1>2, <1>3, <1>4

\* The save alert, over whatever is presented.
LEMMA AlertPreserves ==
  ASSUME SuspensionInv, ReportSaveError \/ AcknowledgeSaveError
  PROVE  SuspensionInv'
<1> USE DEF SuspensionInv, SuspensionTypes, AlertInv, ResumeInv, SuspendInv, Resumes, pending
<1>1. CASE ReportSaveError
  <2>1. /\ ~showing /\ showing' = TRUE /\ previously' = modal /\ modal' = TRUE
        /\ UNCHANGED <<menu, chosen, sharing, awaited, hidden, late>>
    BY <1>1 DEF ReportSaveError
  <2>2. /\ sheets' \in Seq(Kinds) /\ AlertUp' /\ OneAlert'
        /\ HidingUp' <=> HidingUp
        /\ Covered' <=> Covered \/ HidingUp
        /\ OneHiding => OneHiding'
    BY <1>1, <2>1, Presented, KindsDiffer DEF ReportSaveError
  <2>3. ~Covered
    BY <2>1 DEF Covered, AlertUp
  <2>4. SuspensionTypes' /\ AlertInv' /\ ResumeInv'
    BY <2>1, <2>2
  <2>5. SuspendInv'
    BY <2>1, <2>2, <2>3
  <2> QED
    BY <2>4, <2>5
<1>2. CASE AcknowledgeSaveError
  BY <1>2, Dismissed, KindsDiffer DEF AcknowledgeSaveError
<1> QED
  BY <1>1, <1>2

\* Every step preserves the invariant.
LEMMA SuspensionPreserves ==
  ASSUME SuspensionInv, [NextSuspension]_suspensionVars
  PROVE  SuspensionInv'
<1>1. CASE Frame \/ EnterBackground \/ EnterForeground \/ UNCHANGED suspensionVars
  BY <1>1, NothingPresented
     DEF Frame, EnterBackground, EnterForeground, suspensionVars, pending, alertVars,
         SuspensionInv, SuspensionTypes, AlertInv, ResumeInv, SuspendInv, Resumes
<1> QED
  BY <1>1, MenuPreserves, PresentingPreserves, DismissingPreserves, AlertPreserves
     DEF NextSuspension

\* The flag modal alone suspends the input.
LEMMA PresentedIsModal ==
  ASSUME SuspensionInv
  PROVE  InMenu /\ ~late => modal
<1>1. SUFFICES ASSUME ~late, sheets # <<>>, Top \in Hiding PROVE HidingUp
  BY DEF InMenu, SuspensionInv, SuspendInv
<1>2. Len(sheets) \in DOMAIN sheets
  BY <1>1 DEF SuspensionInv, SuspensionTypes
<1> QED
  BY <1>1, <1>2 DEF HidingUp, Top

\* It holds at the start.
LEMMA SuspensionStarts ==
  ASSUME InitSuspension
  PROVE  SuspensionInv
<1>1. SuspensionTypes
  <2>1. sheets \in Seq(Kinds)
    BY DEF InitSuspension
  <2> QED
    BY <2>1 DEF InitSuspension, SuspensionTypes
<1>2. ~HidingUp /\ ~AlertUp /\ ~Covered /\ OneHiding /\ OneAlert
  BY DEF InitSuspension, HidingUp, AlertUp, Covered, OneHiding, OneAlert
<1> QED
  BY <1>1, <1>2 DEF InitSuspension, SuspensionInv, AlertInv, ResumeInv, SuspendInv

-----------------------------------------------------------------------------
(* The keys of the PaperBoat build, for taps held for any number of polls *)

\* A tap is latched with input resumed, hence never in the menu, and what the polls owe
\* is latched whatever the poll under way has loaded.
KeyInv ==
  /\ keyTap \in Nat /\ tap \in Nat /\ owed \in Nat
  /\ keyTap >= owed
  /\ ~inMenu

BoatInv == SuspensionInv /\ KeyInv

\* The inductive invariant holds in every behaviour of the keys, the menu and the sheets.
THEOREM BoatInvariance == BoatSpec => []BoatInv
<1>1. InitBoat => BoatInv
  <2>1. InitBoat => SuspensionInv
    BY SuspensionStarts DEF InitBoat
  <2> QED
    BY <2>1 DEF InitBoat, KeyInv, BoatInv
<1>2. ASSUME BoatInv, [NextBoat]_boatVars PROVE BoatInv'
  <2> USE <1>2 DEF BoatInv, KeyInv
  <2>1. CASE NextSuspension /\ UNCHANGED tapVars
    BY <2>1, SuspensionPreserves DEF tapVars
  <2>2. CASE KeyDown
    <3>1. ~inMenu'
      BY <2>2, PresentedIsModal, Zenon DEF KeyDown
    <3>2. SuspensionInv'
      BY <2>2, SuspensionPreserves DEF KeyDown
    <3> QED
      BY <2>2, <3>1, <3>2, TapPollsAssumption DEF KeyDown
  <2>3. CASE Poll
    <3>1. UNCHANGED suspensionVars /\ UNCHANGED inMenu
      BY <2>3 DEF Poll, LoadActive, LoadModal, LoadNativeModal, ClearTaps, LoadTap, CountTap
    <3>2. SuspensionInv' /\ ~inMenu'
      <4>1. SuspensionInv'
        BY <3>1, SuspensionPreserves
      <4> QED
        BY <3>1, <4>1, Zenon
    <3>3. keyTap' \in Nat /\ tap' \in Nat /\ owed' \in Nat /\ keyTap' >= owed'
      BY <2>3 DEF Poll, LoadActive, LoadModal, LoadNativeModal, ClearTaps, LoadTap, CountTap, Reported
    <3> QED
      BY <3>2, <3>3
  <2>4. CASE UNCHANGED boatVars
    <3>1. SuspensionInv'
      BY <2>4, SuspensionPreserves DEF boatVars
    <3> QED
      BY <2>4, <3>1 DEF boatVars, tapVars
  <2> QED
    BY <2>1, <2>2, <2>3, <2>4 DEF NextBoat
<1> QED
  BY <1>1, <1>2, PTL DEF BoatSpec

\* The menu and the sheets that hide the controls suspend the input from the first poll on,
\* whatever alerts come and go in between, as long as no callback comes too late
\* (PresentedIsSuspended).
THEOREM PresentedStaysSuspended == BoatSpec => []PresentedIsSuspended
<1>1. BoatInv => PresentedIsSuspended
  BY PresentedIsModal DEF BoatInv, InMenu, PresentedIsSuspended, Suspended
<1> QED
  BY <1>1, BoatInvariance, PTL

\* With everything dismissed and answered the touch controls are on screen again, and the
\* input is resumed but for what the save alert restored (ControlsComeBack).
THEOREM ControlsAlwaysComeBack == BoatSpec => []ControlsComeBack
<1>1. SuspensionInv => ControlsComeBack
  <2>1. sheets = <<>> => ~HidingUp /\ ~AlertUp
    BY DEF HidingUp, AlertUp
  <2> QED
    BY <2>1 DEF SuspensionInv, AlertInv, ResumeInv, Resumes, ControlsComeBack, Quiet
<1> QED
  BY <1>1, BoatInvariance, PTL DEF BoatInv

\* No poll plays a key that was pressed in the menu or one of its sheets, as long as no
\* callback comes too late (MenuPressIsSilent).
THEOREM MenuPressesStaySilent == BoatSpec => []MenuPressIsSilent
<1>1. BoatInv => MenuPressIsSilent
  BY DEF BoatInv, KeyInv, MenuPressIsSilent
<1> QED
  BY <1>1, BoatInvariance, PTL

\* A tap of a key is latched for every poll that still owes it a report (BoatTapIsHeld).
THEOREM BoatTapsAreHeld == BoatSpec => []BoatTapIsHeld
<1>1. BoatInv => BoatTapIsHeld
  BY DEF BoatInv, KeyInv, BoatTapIsHeld
<1> QED
  BY <1>1, BoatInvariance, PTL
=============================================================================
