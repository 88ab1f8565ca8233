------------------------------ MODULE GetInput ------------------------------
(***************************************************************************)
(* get_input of the Original build (src/paperpad_main.cpp), called by the  *)
(* game on its own thread: what it gives the game is put together from the *)
(* keyboard and its tap latches, player one's controller, and the touch    *)
(* overlay with its tap latch (TouchTapLatch), while the main thread       *)
(* handles key and touch events; and a line of the log tells of changes.   *)
(*                                                                         *)
(* Strengths and deflections are in percent.  A button is a number, as in  *)
(* TouchTapLatch, and 0 is none.  The controller's own reading is in       *)
(* ControllerInput, the overlay's in TouchOverlay: here both may be        *)
(* anything.                                                               *)
(***************************************************************************)
EXTENDS TouchTapLatch, Sequences

CONSTANTS
  Used,          \* bound: the actions whose key or controller input is ever active
  Tapped,        \* bound: those whose keys are pressed for less than a poll, too
  TapPolls,      \* polls a key tap is held for
  AxisValues,    \* raw axis values the controller may show
  Sticks         \* the overlay's stick, <<x, y>>

\* InputAction, in its order: buttons A, B, Start, Z, L, R, C up, down, left and
\* right, the D-pad's, then the stick's directions.
Actions == 1..18

Action(button, x, y) == [button |-> button, axis_x |-> x, axis_y |-> y]

input_actions ==
  [k \in Actions |-> IF k <= 14 THEN Action(k, 0, 0)
                     ELSE <<Action(0, 0, 1), Action(0, 0, -1),
                            Action(0, -1, 0), Action(0, 1, 0)>>[k - 14]]

\* The default bindings, which nothing changes: a key of its own for every action,
\* and on the controller buttons, but for the left trigger, the right stick as C
\* buttons and the left stick.
gamepad_bindings ==
  [k \in Actions |-> CASE k \in {4, 8, 10, 16, 18} -> "AxisPositive"
                       [] k \in {7, 9, 15, 17} -> "AxisNegative"
                       [] OTHER -> "Button"]

ASSUME UsedAssumption ==
  Used \subseteq Actions /\ Used # {} /\ Tapped \subseteq Used
ASSUME TapPollsAssumption == TapPolls \in Nat \ {0}
ASSUME ValuesAssumption == AxisValues \subseteq Int /\ Sticks \subseteq Int \X Int
ASSUME BitsAreButtons == Bits <= 14

FirstUsed == CHOOSE k \in Used : \A j \in Used : k <= j
UsedAfter(k) == {j \in Used : j > k}

VARIABLES
  keyboard_tap_latches,
  at,        \* where get_input is: idle, load, swap, pad, touch
  key,       \* the action whose key it is at
  remaining, \* what it loaded of that action's latch
  out,       \* out_buttons, out_x, out_y
  taps,      \* history: the actions whose latch this poll took down
  keyGiven,  \* history: the polls, up to TapPolls, that gave the game a tapped
             \* action's button since the key was pressed
  keyPressed,\* history: the actions whose key was ever pressed
  previous,  \* previous_buttons and previous_direction
  recent,    \* 100 ms have not passed since last_direction_log_ms
  line       \* buttons and direction of the last line written

keyVars == <<keyboard_tap_latches, keyGiven, keyPressed>>
getVars == <<at, key, remaining, out, taps>>
logVars == <<previous, recent, line>>
allVars == <<vars, keyVars, getVars, logVars>>

NoInput == [buttons |-> {}, x |-> 0, y |-> 0]

-----------------------------------------------------------------------------
(* The main thread *)

\* SDL_KEYDOWN of a key bound to action k
KeyDown(k) ==
  /\ keyboard_tap_latches' = [keyboard_tap_latches EXCEPT ![k] = TapPolls]
  /\ keyGiven' = [keyGiven EXCEPT ![k] = 0]
  /\ keyPressed' = keyPressed \cup {k}
  /\ taps' = taps \ {k}
  /\ UNCHANGED <<vars, at, key, remaining, out, logVars>>

\* The overlay's tap latch is set and cleared.
TouchEvent ==
  /\ (\E b \in Buttons : Extend(b)) \/ ClearAll \/ MainStep
  /\ UNCHANGED <<keyVars, getVars, logVars>>

-----------------------------------------------------------------------------
(* The game's thread *)

apply_input_action(k, strength, o) ==
  LET a == input_actions[k] IN
  IF strength <= 0 THEN o
  ELSE [buttons |-> o.buttons \cup
                      (IF a.button # 0 /\ strength >= 50 THEN {a.button} ELSE {}),
        x |-> o.x + a.axis_x * strength,
        y |-> o.y + a.axis_y * strength]

Begin ==
  /\ at = "idle"
  /\ at' = "load"
  /\ key' = FirstUsed
  /\ out' = NoInput
  /\ UNCHANGED <<vars, keyVars, remaining, taps, logVars>>

KeyLoad ==
  /\ at = "load"
  /\ remaining' = keyboard_tap_latches[key]
  /\ at' = "swap"
  /\ UNCHANGED <<vars, keyVars, key, out, taps, logVars>>

NextKey ==
  /\ remaining' = 0
  /\ IF UsedAfter(key) # {}
     THEN key' = (CHOOSE k \in UsedAfter(key) : \A j \in UsedAfter(key) : k <= j) /\ at' = "load"
     ELSE key' = FirstUsed /\ at' = "pad"

\* No tap: the key counts if it is down now.
KeyState ==
  /\ at = "swap"
  /\ remaining = 0
  /\ \E down \in BOOLEAN :
       out' = IF down THEN apply_input_action(key, 100, out) ELSE out
  /\ NextKey
  /\ UNCHANGED <<vars, keyVars, taps, logVars>>

TakeTap ==
  /\ out' = apply_input_action(key, 100, out)
  /\ taps' = taps \cup {key}
  /\ NextKey
  /\ UNCHANGED <<vars, keyGiven, keyPressed, logVars>>

\* Mutant of KeySwaps: a plain store of remaining - 1.
KeyStores ==
  /\ at = "swap"
  /\ remaining # 0
  /\ keyboard_tap_latches' = [keyboard_tap_latches EXCEPT ![key] = remaining - 1]
  /\ TakeTap

KeySwaps ==
  /\ at = "swap"
  /\ remaining # 0
  /\ keyboard_tap_latches[key] = remaining
  /\ keyboard_tap_latches' = [keyboard_tap_latches EXCEPT ![key] = remaining - 1]
  /\ TakeTap

\* The main thread was faster, or the weak exchange failed spuriously.
KeyFails ==
  /\ at = "swap"
  /\ remaining # 0
  /\ remaining' = keyboard_tap_latches[key]
  /\ UNCHANGED <<vars, keyVars, at, key, out, taps, logVars>>

ClampTo(v, l, h) == IF v < l THEN l ELSE IF v > h THEN h ELSE v
AbsOf(v) == IF v < 0 THEN -v ELSE v

\* Toward zero, as a division of C does.
normalize_axis(value) ==
  LET share == (AbsOf(value) * 100) \div 32767 IN
  IF AbsOf(value) < 8000 THEN 0
  ELSE ClampTo(IF value < 0 THEN -share ELSE share, -100, 100)

\* What the controller's input for action k may be: a button is up or down.
gamepad_binding_strengths(k) ==
  CASE gamepad_bindings[k] = "Button" -> {0, 100}
    [] gamepad_bindings[k] = "AxisPositive" -> {ClampTo(normalize_axis(v), 0, 100) : v \in AxisValues}
    [] gamepad_bindings[k] = "AxisNegative" -> {ClampTo(-normalize_axis(v), 0, 100) : v \in AxisValues}

\* Every action on top of what the keys gave: the stick's directions add up.
Applied(strengths) ==
  LET strength(k) == IF k \in Used THEN strengths[k] ELSE 0 IN
  [buttons |-> out.buttons \cup
                 ({input_actions[k].button : k \in {j \in Used : strengths[j] >= 50}} \ {0}),
   x |-> out.x + strength(18) - strength(17),
   y |-> out.y + strength(15) - strength(16)]

\* Player one's controller, none or detached included: all its strengths are 0.
\* Then the overlay's snapshot begins to consume its tap latch.
ReadPad ==
  /\ at = "pad"
  /\ \E strengths \in [Used -> UNION {gamepad_binding_strengths(k) : k \in Used}] :
       /\ \A k \in Used : strengths[k] \in gamepad_binding_strengths(k) \cup {0}
       /\ out' = Applied(strengths)
  /\ at' = "touch"
  /\ Consume
  /\ UNCHANGED <<keyVars, key, remaining, taps, logVars>>

ReadTouch ==
  /\ at = "touch"
  /\ PollStep
  /\ UNCHANGED <<keyVars, getVars, logVars>>

Direction(x, y) ==
  IF AbsOf(x) < 20 /\ AbsOf(y) < 20 THEN 0
  ELSE IF 4 * AbsOf(x) > 5 * AbsOf(y) THEN (IF x > 0 THEN 1 ELSE 2)
  ELSE IF 4 * AbsOf(y) > 5 * AbsOf(x) THEN (IF y > 0 THEN 3 ELSE 4)
  ELSE 5

\* Mutant of DirectionChanged: a release waits for its 100 ms as well.
DirectionChangedLater(d) == d # previous.direction /\ ~recent

\* direction_changed: a new direction is logged at most every 100 ms, a release always.
DirectionChanged(d) == d # previous.direction /\ (d = 0 \/ ~recent)

\* The overlay's buttons and taps, on top of the others
Merged(held) == out.buttons \cup held \cup buttons

\* The end of the poll: what the overlay holds is added, the stick clamped, and a
\* line written if the buttons or the direction changed.
Give ==
  /\ at = "touch"
  /\ poll = "idle"
  /\ \E held \in SUBSET Buttons, stick \in Sticks :
       LET x == ClampTo(out.x + stick[1], -100, 100)
           y == ClampTo(out.y + stick[2], -100, 100)
           given_buttons == Merged(held)
           direction == Direction(x, y)
           now == [buttons |-> given_buttons, direction |-> direction]
       IN
       /\ keyGiven' = [k \in Used |->
            IF /\ k \in taps /\ input_actions[k].button \in given_buttons
               /\ keyGiven[k] < TapPolls
            THEN keyGiven[k] + 1 ELSE keyGiven[k]]
       /\ line' = IF given_buttons # previous.buttons \/ DirectionChanged(direction)
                  THEN now ELSE line
       /\ recent' = (recent \/ DirectionChanged(direction))
       /\ previous' = now
  /\ at' = "idle"
  /\ out' = NoInput
  /\ taps' = {} /\ buttons' = {}
  /\ UNCHANGED <<counters, mainVars, poll, pollBit, pollValue, pressed, given,
                 keyboard_tap_latches, keyPressed, key, remaining>>

\* 100 ms pass.
Elapse ==
  /\ recent
  /\ recent' = FALSE
  /\ UNCHANGED <<vars, keyVars, getVars, previous, line>>

-----------------------------------------------------------------------------
InitInput ==
  /\ Init
  /\ keyboard_tap_latches = [k \in Used |-> 0]
  /\ keyGiven = [k \in Used |-> 0] /\ keyPressed = {}
  /\ at = "idle" /\ key = FirstUsed /\ remaining = 0
  /\ out = NoInput /\ taps = {}
  /\ previous = [buttons |-> {}, direction |-> 0]
  /\ line = previous
  /\ recent = TRUE

KeyStep == KeyLoad \/ KeyState \/ KeySwaps \/ KeyFails
GetStep == KeyStep \/ ReadPad \/ ReadTouch \/ Give

NextInput ==
  \/ \E k \in Tapped : KeyDown(k)
  \/ TouchEvent
  \/ Begin
  \/ GetStep
  \/ Elapse

InputSpec == InitInput /\ [][NextInput]_allVars

\* The game polls for as long as it runs, the main thread ends each event, and a
\* weak exchange that is not interfered with does not fail for ever.
InputFairness ==
  /\ WF_allVars(Begin) /\ WF_allVars(GetStep)
  /\ SF_allVars(KeySwaps) /\ SF_allVars(ConsumeSwaps /\ ReadTouch)
  /\ WF_allVars(MainStep /\ TouchEvent) /\ SF_allVars(ExtendSwaps /\ TouchEvent)

FairInputSpec == InputSpec /\ InputFairness

-----------------------------------------------------------------------------
(* Properties; TapIsHeld, ClearedStaysSilent and TapEnds are TouchTapLatch's. *)

TypeOKInput ==
  /\ TypeOK
  /\ keyboard_tap_latches \in [Used -> 0..TapPolls]
  /\ keyGiven \in [Used -> 0..TapPolls] /\ keyPressed \subseteq Used
  /\ at \in {"idle", "load", "swap", "pad", "touch"}
  /\ key \in Used /\ remaining \in 0..TapPolls
  /\ out.buttons \subseteq 1..14 /\ out.x \in Int /\ out.y \in Int
  /\ taps \subseteq Used
  /\ previous.buttons \subseteq 1..14 /\ previous.direction \in 0..5
  /\ line.buttons \subseteq 1..14 /\ line.direction \in 0..5
  /\ recent \in BOOLEAN

\* A key pressed and let go between two polls reaches the game in as many polls as
\* its tap was given, whatever the main thread presses meanwhile: of those polls,
\* the ones that have not given its button yet still will.
KeyTapIsHeld ==
  \A k \in keyPressed :
    input_actions[k].button # 0 =>
      keyboard_tap_latches[k] + keyGiven[k] + (IF k \in taps THEN 1 ELSE 0) >= TapPolls

\* The log's last line tells the buttons that the game was given last, and that the
\* stick is released when it is ("enough to tell whether the app delivered a touch
\* or controller action").  It may name an older direction of a stick that is held:
\* a change within 100 ms of another is never logged.
LogIsCurrent ==
  /\ line.buttons = previous.buttons
  /\ previous.direction = 0 => line.direction = 0
=============================================================================
