---------------------------- MODULE GetInputProofs ----------------------------
(***************************************************************************)
(* For any number of buttons, keys and polls: no interleaving of touches,   *)
(* clears, key presses and polls loses a tap or brings back a cleared       *)
(* button, and the log tells what the game was given last.                  *)
(***************************************************************************)
EXTENDS GetInput, TLAPS, WellFoundedInduction

-----------------------------------------------------------------------------
(* The latch, which is used by get_input as by any other poll *)

\* While extend is between its load and its exchange, the polls account for all
\* that the counter has lost since the load.
ExtendAccounts ==
  main = "swap" => counters[mainBit] + given[mainBit] >= mainValue

LatchInv == TypeOK /\ TapIsHeld /\ ClearedStaysSilent /\ ExtendAccounts

\* The constants are natural numbers, so a bit and a count are integers.
LEMMA LatchNumbers == Bits \in Nat /\ Bits >= 1 /\ HoldPolls \in Nat /\ HoldPolls >= 1
BY BitsAssumption, HoldPollsAssumption

\* extend's steps keep the accounts: the load starts them, the exchange or the
\* counter that was high enough closes them.
LEMMA ExtendPreserves ==
  ASSUME LatchInv, (\E b \in Buttons : Extend(b)) \/ ExtendLoad \/ ExtendKeeps
                 \/ ExtendSwaps \/ ExtendFails
  PROVE  LatchInv'
<1>1. ASSUME NEW b \in Buttons, Extend(b) PROVE LatchInv'
  BY <1>1, LatchNumbers DEF LatchInv, TypeOK, TapIsHeld, ClearedStaysSilent, ExtendAccounts,
       Extending, Extend, pollVars
<1>2. CASE ExtendLoad
  BY <1>2, LatchNumbers DEF LatchInv, TypeOK, TapIsHeld, ClearedStaysSilent, ExtendAccounts,
       Extending, ExtendLoad, pollVars
<1>3. CASE ExtendKeeps
  BY <1>3, LatchNumbers, SMTT(20) DEF LatchInv, TypeOK, TapIsHeld, ClearedStaysSilent, ExtendAccounts,
       Extending, ExtendKeeps, ExtendDone, pollVars, Buttons
<1>4. CASE ExtendSwaps
  <2>1. TypeOK'
    BY <1>4, LatchNumbers, SMTT(20) DEF LatchInv, TypeOK, ExtendSwaps, ExtendDone, pollVars, Buttons
  <2>2. /\ \A b \in Buttons : counters'[b] = IF b = mainBit THEN HoldPolls ELSE counters[b]
        /\ pressed' = pressed \cup {mainBit} /\ given' = given /\ main' = "idle"
    BY <1>4 DEF LatchInv, TypeOK, ExtendSwaps, ExtendDone
  <2>3. TapIsHeld'
    BY <1>4, <2>1, <2>2, LatchNumbers DEF LatchInv, TypeOK, TapIsHeld, Extending
  <2>4. ClearedStaysSilent' /\ ExtendAccounts'
    BY <2>2 DEF LatchInv, TypeOK, ClearedStaysSilent, ExtendAccounts
  <2> QED
    BY <2>1, <2>3, <2>4 DEF LatchInv
<1>5. CASE ExtendFails
  BY <1>5, LatchNumbers DEF LatchInv, TypeOK, TapIsHeld, ClearedStaysSilent, ExtendAccounts,
       Extending, ExtendFails, pollVars
<1> QED BY <1>1, <1>2, <1>3, <1>4, <1>5

\* clearAll's steps silence what they clear and disturb no account: the main
\* thread is not inside extend.
LEMMA ClearPreserves ==
  ASSUME LatchInv, ClearAll \/ ClearBit
  PROVE  LatchInv'
<1>1. CASE ClearAll
  BY <1>1, LatchNumbers DEF LatchInv, TypeOK, TapIsHeld, ClearedStaysSilent, ExtendAccounts,
       Extending, ClearAll, pollVars, Buttons
<1>2. CASE ClearBit
  <2>1. /\ main' \in {"clear", "idle"}
        /\ counters' = [counters EXCEPT ![mainBit] = 0]
        /\ pressed' = pressed \ {mainBit}
        /\ UNCHANGED <<mainValue, poll, pollBit, pollValue, buttons, given>>
    BY <1>2 DEF ClearBit, pollVars
  <2>2. mainBit' \in Buttons
    BY <1>2, LatchNumbers DEF LatchInv, TypeOK, ClearBit, Buttons
  <2>3. TypeOK'
    BY <2>1, <2>2, LatchNumbers DEF LatchInv, TypeOK
  <2>4. main # "swap" /\ main' # "swap"
    BY <1>2, <2>1 DEF ClearBit
  <2>5. TapIsHeld' /\ ClearedStaysSilent' /\ ExtendAccounts'
    BY <2>1, <2>4 DEF LatchInv, TypeOK, TapIsHeld, ClearedStaysSilent, ExtendAccounts, Extending
  <2> QED BY <2>3, <2>5 DEF LatchInv
<1> QED BY <1>1, <1>2

\* A poll takes one from a counter and reports the bit in the same step, so the sum stays.
LEMMA ConsumePreserves ==
  ASSUME LatchInv, Consume \/ ConsumeLoad \/ ConsumeNothing \/ ConsumeSwaps \/ ConsumeFails
  PROVE  LatchInv'
<1>1. CASE Consume
  BY <1>1, LatchNumbers DEF LatchInv, TypeOK, TapIsHeld, ClearedStaysSilent, ExtendAccounts,
       Extending, Consume, mainVars, Buttons
<1>2. CASE ConsumeLoad
  BY <1>2, LatchNumbers DEF LatchInv, TypeOK, TapIsHeld, ClearedStaysSilent, ExtendAccounts,
       Extending, ConsumeLoad, mainVars
<1>3. CASE ConsumeNothing
  BY <1>3, LatchNumbers DEF LatchInv, TypeOK, TapIsHeld, ClearedStaysSilent, ExtendAccounts,
       Extending, ConsumeNothing, NextBit, mainVars, Buttons
<1>4. CASE ConsumeSwaps
  <2>1. pollBit \in pressed
    BY <1>4 DEF LatchInv, TypeOK, ClearedStaysSilent, ConsumeSwaps
  <2>2. TypeOK'
    <3>1. counters' \in [Buttons -> 0..HoldPolls] /\ given' \in [Buttons -> 0..HoldPolls]
      BY <1>4, LatchNumbers DEF LatchInv, TypeOK, ConsumeSwaps, ReportBit
    <3>2. poll' \in {"load", "idle"} /\ pollValue' \in 0..HoldPolls
      BY <1>4, LatchNumbers DEF ConsumeSwaps, ReportBit, NextBit
    <3>3. pollBit' \in Buttons
      BY <1>4, LatchNumbers DEF LatchInv, TypeOK, ConsumeSwaps, ReportBit, NextBit, Buttons
    <3>4. buttons' \subseteq Buttons
      BY <1>4 DEF LatchInv, TypeOK, ConsumeSwaps, ReportBit
    <3>5. UNCHANGED <<main, mainBit, mainValue, pressed>>
      BY <1>4 DEF ConsumeSwaps, ReportBit, mainVars
    <3> QED BY <3>1, <3>2, <3>3, <3>4, <3>5 DEF LatchInv, TypeOK
  <2>3. \A b \in Buttons : \/ counters'[b] = counters[b] /\ given'[b] = given[b]
                           \/ counters'[b] + given'[b] = counters[b] + given[b]
                           \/ given'[b] = HoldPolls
    BY <1>4, LatchNumbers DEF LatchInv, TypeOK, ConsumeSwaps, ReportBit
  <2>4. UNCHANGED <<main, mainBit, mainValue, pressed>>
    BY <1>4 DEF ConsumeSwaps, ReportBit, mainVars
  <2>5. \A b \in Buttons \ pressed : counters'[b] = counters[b]
    BY <1>4, <2>1 DEF LatchInv, TypeOK, ConsumeSwaps
  <2>6. TapIsHeld'
    BY <2>2, <2>3, <2>4, LatchNumbers DEF LatchInv, TypeOK, TapIsHeld, Extending
  <2>7. ClearedStaysSilent'
    BY <2>4, <2>5 DEF LatchInv, ClearedStaysSilent
  <2>8. ExtendAccounts'
    BY <2>2, <2>3, <2>4, LatchNumbers DEF LatchInv, TypeOK, ExtendAccounts
  <2> QED BY <2>2, <2>6, <2>7, <2>8 DEF LatchInv
<1>5. CASE ConsumeFails
  BY <1>5, LatchNumbers DEF LatchInv, TypeOK, TapIsHeld, ClearedStaysSilent, ExtendAccounts,
       Extending, ConsumeFails, mainVars
<1> QED BY <1>1, <1>2, <1>3, <1>4, <1>5

\* At the start nothing is latched.
LEMMA InitLatch == Init => LatchInv
BY LatchNumbers DEF Init, LatchInv, TypeOK, TapIsHeld, ClearedStaysSilent, ExtendAccounts,
     Extending, Buttons

\* The inductive invariant holds in every behaviour.
THEOREM LatchInvariance == Spec => []LatchInv
<1>1. Init => LatchInv
  BY InitLatch
<1>2. LatchInv /\ [Next]_vars => LatchInv'
  <2> SUFFICES ASSUME LatchInv, [Next]_vars PROVE LatchInv'
    OBVIOUS
  <2>1. CASE UNCHANGED vars
    BY <2>1 DEF LatchInv, TypeOK, TapIsHeld, ClearedStaysSilent, ExtendAccounts, Extending,
         vars, mainVars, pollVars
  <2>2. CASE Next
    BY <2>2, ExtendPreserves, ClearPreserves, ConsumePreserves DEF Next, MainStep, PollStep
  <2> QED BY <2>1, <2>2
<1> QED BY <1>1, <1>2, PTL DEF Spec

\* Counters stay between zero and the hold: no step wraps one around (TypeOK).
THEOREM LatchTypeCorrect == Spec => []TypeOK
BY LatchInvariance, PTL DEF LatchInv

\* No tap is lost to a poll that runs while it is latched (TapIsHeld).
THEOREM TapsAreHeld == Spec => []TapIsHeld
BY LatchInvariance, PTL DEF LatchInv

\* A poll caught in the middle of its countdown never revives a cleared button
\* (ClearedStaysSilent).
THEOREM ClearedButtonsStaySilent == Spec => []ClearedStaysSilent
BY LatchInvariance, PTL DEF LatchInv

-----------------------------------------------------------------------------
(* The tables and the operators *)

\* What the constants are.
LEMMA GetNumbers ==
  /\ TapPolls \in Nat /\ TapPolls >= 1
  /\ Used \subseteq 1..18 /\ Used # {} /\ Tapped \subseteq Used
  /\ Buttons \subseteq 1..14
<1>1. Used \subseteq 1..18 /\ Used # {} /\ Tapped \subseteq Used
  BY UsedAssumption DEF Actions
<1>2. Buttons \subseteq 1..14
  BY BitsAreButtons, LatchNumbers DEF Buttons
<1> QED
  BY <1>1, <1>2, TapPollsAssumption

\* A nonempty set of natural numbers has a least element.
LEMMA LeastOne ==
  ASSUME NEW S \in SUBSET Nat, S # {}
  PROVE  \E m \in S : \A n \in S : m <= n
<1>1. PICK m \in S : \A n \in S : <<n, m>> \notin OpToRel(<, Nat)
  BY NatLessThanWellFounded, WFMin
<1>2. \A n \in S : ~(n < m)
  BY <1>1, Zenon DEF OpToRel
<1> QED
  BY <1>2

\* The loop over the actions starts at one that is used ...
LEMMA FirstIsUsed == FirstUsed \in Used
<1>1. Used \in SUBSET Nat /\ Used # {}
  BY GetNumbers
<1>2. \E k \in Used : \A j \in Used : k <= j
  BY <1>1, LeastOne
<1> QED
  BY <1>2, Zenon DEF FirstUsed

\* ... and goes up, to its end or to one that is used.
LEMMA KeysGoUp ==
  ASSUME NextKey, key \in Used
  PROVE  /\ remaining' = 0
         /\ key' \in Used
         /\ at' = "pad" \/ (at' = "load" /\ key < key')
<1>1. CASE UsedAfter(key) = {}
  BY <1>1, FirstIsUsed DEF NextKey
<1>2. CASE UsedAfter(key) # {}
  <2>1. UsedAfter(key) \in SUBSET Nat
    <3>1. \A j \in UsedAfter(key) : j \in 1..18
      BY GetNumbers DEF UsedAfter
    <3> QED
      BY <3>1
  <2>2. \E k \in UsedAfter(key) : \A j \in UsedAfter(key) : k <= j
    BY <1>2, <2>1, LeastOne
  <2>3. key' \in UsedAfter(key) /\ at' = "load" /\ remaining' = 0
    BY <1>2, <2>2, Zenon DEF NextKey
  <2> QED
    BY <2>3, GetNumbers DEF UsedAfter
<1> QED
  BY <1>1, <1>2

\* An action is a button of the controller or a direction of its stick.
LEMMA ActionTypes ==
  ASSUME NEW k \in Used
  PROVE  /\ input_actions[k].button \in 0..14
         /\ input_actions[k].axis_x \in Int /\ input_actions[k].axis_y \in Int
<1>1. k \in Actions /\ k \in 1..18
  BY GetNumbers DEF Actions
<1>2. CASE k <= 14
  BY <1>1, <1>2 DEF input_actions, Action
<1>3. CASE k = 15
  BY <1>1, <1>3 DEF input_actions, Action
<1>4. CASE k = 16
  BY <1>1, <1>4 DEF input_actions, Action
<1>5. CASE k = 17
  BY <1>1, <1>5 DEF input_actions, Action
<1>6. CASE k = 18
  BY <1>1, <1>6 DEF input_actions, Action
<1> QED
  BY <1>1, <1>2, <1>3, <1>4, <1>5, <1>6

\* What one poll has gathered
IsInput(o) == o.buttons \subseteq 1..14 /\ o.x \in Int /\ o.y \in Int

\* A key that counts adds its button and takes none away.
LEMMA KeyAdds ==
  ASSUME NEW k \in Used, IsInput(out)
  PROVE  LET o == apply_input_action(k, 100, out) IN
         /\ IsInput(o)
         /\ out.buttons \subseteq o.buttons
         /\ input_actions[k].button # 0 => input_actions[k].button \in o.buttons
<1> DEFINE a == input_actions[k]
<1>1. a.button \in 0..14 /\ a.axis_x \in Int /\ a.axis_y \in Int
  BY ActionTypes
<1>2. apply_input_action(k, 100, out) =
        [buttons |-> out.buttons \cup (IF a.button # 0 THEN {a.button} ELSE {}),
         x |-> out.x + a.axis_x * 100, y |-> out.y + a.axis_y * 100]
  BY DEF apply_input_action
<1> HIDE DEF a
<1>3. IsInput(out) /\ out.x + a.axis_x * 100 \in Int /\ out.y + a.axis_y * 100 \in Int
  BY <1>1 DEF IsInput
<1>4. out.buttons \cup (IF a.button # 0 THEN {a.button} ELSE {}) \subseteq 1..14
  BY <1>1 DEF IsInput
<1> QED
  BY <1>2, <1>3, <1>4 DEF IsInput, a

\* A strength is a number, whatever the axis shows.
LEMMA StrengthTypes ==
  ASSUME NEW k \in Used
  PROVE  gamepad_binding_strengths(k) \subseteq Int
<1>1. \A v \in AxisValues : normalize_axis(v) \in Int
  BY ValuesAssumption DEF normalize_axis, AbsOf, ClampTo
<1>2. gamepad_bindings[k] \in {"Button", "AxisPositive", "AxisNegative"}
  BY GetNumbers DEF gamepad_bindings, Actions
<1>3. CASE gamepad_bindings[k] = "Button"
  BY <1>3 DEF gamepad_binding_strengths
<1>4. CASE gamepad_bindings[k] = "AxisPositive"
  BY <1>1, <1>4 DEF gamepad_binding_strengths, ClampTo
<1>5. CASE gamepad_bindings[k] = "AxisNegative"
  BY <1>1, <1>5 DEF gamepad_binding_strengths, ClampTo
<1> QED
  BY <1>2, <1>3, <1>4, <1>5

\* So does the controller: it adds to what the keys gave.
LEMMA PadAdds ==
  ASSUME IsInput(out), NEW strengths,
         \A k \in Used : strengths[k] \in gamepad_binding_strengths(k) \cup {0}
  PROVE  IsInput(Applied(strengths)) /\ out.buttons \subseteq Applied(strengths).buttons
<1> DEFINE strength(k) == IF k \in Used THEN strengths[k] ELSE 0
           pressing == {input_actions[k].button : k \in {j \in Used : strengths[j] >= 50}} \ {0}
<1>1. \A k \in Used : strengths[k] \in Int
  BY StrengthTypes
<1>2. \A k \in 1..18 : strength(k) \in Int
  BY <1>1
<1>3. pressing \subseteq 1..14
  BY ActionTypes
<1>4. Applied(strengths) = [buttons |-> out.buttons \cup pressing,
                            x |-> out.x + strength(18) - strength(17),
                            y |-> out.y + strength(15) - strength(16)]
  BY DEF Applied
<1>5. /\ out.x + strength(18) - strength(17) \in Int
      /\ out.y + strength(15) - strength(16) \in Int
  <2>1. strength(15) \in Int /\ strength(16) \in Int /\ strength(17) \in Int /\ strength(18) \in Int
    BY <1>2
  <2> HIDE DEF strength
  <2> QED
    BY <2>1 DEF IsInput
<1> HIDE DEF strength, pressing
<1>6. /\ Applied(strengths).buttons = out.buttons \cup pressing
      /\ Applied(strengths).x \in Int /\ Applied(strengths).y \in Int
  BY <1>4, <1>5
<1> QED
  BY <1>3, <1>6 DEF IsInput
-----------------------------------------------------------------------------
(* The inductive invariant *)

\* The loop takes every key's latch down at most once: those it has taken down are
\* behind it.  What it took is in out, and is given when the poll ends.
LoopInv ==
  /\ at \in {"load", "swap"} => \A k \in taps : k < key
  /\ at = "idle" => taps = {}
  /\ \A k \in taps : input_actions[k].button # 0 => input_actions[k].button \in out.buttons

GetInv == LatchInv /\ TypeOKInput /\ LoopInv /\ KeyTapIsHeld /\ LogIsCurrent

\* What is promised of the keys, without the part that the latch's own invariant has.
KeyTypes ==
  /\ keyboard_tap_latches \in [Used -> 0..TapPolls]
  /\ keyGiven \in [Used -> 0..TapPolls] /\ keyPressed \subseteq Used
  /\ at \in {"idle", "load", "swap", "pad", "touch"}
  /\ key \in Used /\ remaining \in 0..TapPolls
  /\ IsInput(out)
  /\ taps \subseteq Used

LogTypes ==
  /\ previous.buttons \subseteq 1..14 /\ previous.direction \in 0..5
  /\ line.buttons \subseteq 1..14 /\ line.direction \in 0..5
  /\ recent \in BOOLEAN

\* The type invariant, part by part.
LEMMA TypesSplit == TypeOKInput <=> TypeOK /\ KeyTypes /\ LogTypes
BY DEF TypeOKInput, KeyTypes, LogTypes, IsInput

\* To the latch, a step of get_input is a step of its own or none, and giving the
\* mask to the game empties it.
LEMMA LatchStepPreserves ==
  ASSUME LatchInv, [NextInput]_allVars
  PROVE  LatchInv'
<1>1. CASE UNCHANGED vars
  BY <1>1 DEF LatchInv, TypeOK, TapIsHeld, ClearedStaysSilent, ExtendAccounts, Extending,
       vars, mainVars, pollVars
<1>2. CASE TouchEvent
  BY <1>2, ExtendPreserves, ClearPreserves DEF TouchEvent, MainStep
<1>3. CASE ReadPad
  BY <1>3, ConsumePreserves DEF ReadPad
<1>4. CASE ReadTouch
  BY <1>4, ConsumePreserves DEF ReadTouch, PollStep
<1>5. CASE Give
  <2>1. /\ UNCHANGED <<counters, main, mainBit, mainValue, poll, pollBit, pollValue, pressed, given>>
        /\ buttons' = {}
    BY <1>5 DEF Give, mainVars
  <2> QED
    BY <2>1 DEF LatchInv, TypeOK, TapIsHeld, ClearedStaysSilent, ExtendAccounts, Extending
<1>6. CASE UNCHANGED allVars \/ (\E k \in Tapped : KeyDown(k)) \/ Begin \/ KeyStep \/ Elapse
  <2>1. UNCHANGED vars
    BY <1>6 DEF allVars, KeyDown, Begin, KeyStep, KeyLoad, KeyState, KeySwaps, TakeTap, KeyFails,
         Elapse
  <2> QED
    BY <1>1, <2>1
<1> QED
  BY <1>2, <1>3, <1>4, <1>5, <1>6 DEF NextInput, GetStep

\* A key press starts its tap anew, also for the poll that has just taken it down.
LEMMA KeyDownPreserves ==
  ASSUME KeyTypes, LoopInv, KeyTapIsHeld, NEW k \in Tapped, KeyDown(k)
  PROVE  KeyTypes' /\ LoopInv' /\ KeyTapIsHeld'
<1>0. k \in Used
  BY GetNumbers
<1>1. /\ keyboard_tap_latches' = [keyboard_tap_latches EXCEPT ![k] = TapPolls]
      /\ keyGiven' = [keyGiven EXCEPT ![k] = 0]
      /\ keyPressed' = keyPressed \cup {k} /\ taps' = taps \ {k}
      /\ UNCHANGED <<at, key, remaining, out>>
  BY DEF KeyDown
<1>2. KeyTypes'
  <2>1. keyboard_tap_latches' \in [Used -> 0..TapPolls] /\ keyGiven' \in [Used -> 0..TapPolls]
    BY <1>0, <1>1, GetNumbers DEF KeyTypes
  <2> QED
    BY <1>0, <1>1, <2>1 DEF KeyTypes, IsInput
<1>3. LoopInv'
  BY <1>1 DEF LoopInv
<1>4. ASSUME NEW j \in keyPressed', input_actions[j].button # 0
      PROVE  keyboard_tap_latches'[j] + keyGiven'[j] + (IF j \in taps' THEN 1 ELSE 0) >= TapPolls
  <2>1. CASE j = k
    BY <1>0, <1>1, <2>1, GetNumbers DEF KeyTypes
  <2>2. CASE j # k
    <3>1. j \in keyPressed /\ (j \in taps' <=> j \in taps)
      BY <1>1, <2>2
    <3>2. keyboard_tap_latches'[j] = keyboard_tap_latches[j] /\ keyGiven'[j] = keyGiven[j]
      BY <1>1, <2>2, <3>1 DEF KeyTypes
    <3> QED
      BY <1>4, <3>1, <3>2 DEF KeyTapIsHeld
  <2> QED
    BY <2>1, <2>2
<1> QED
  BY <1>2, <1>3, <1>4 DEF KeyTapIsHeld

\* The loop's steps: a latch is taken down by one in the step in which the poll takes
\* the tap, and the loop goes on to a higher key.
LEMMA KeyStepPreserves ==
  ASSUME KeyTypes, LoopInv, KeyTapIsHeld, KeyStep
  PROVE  KeyTypes' /\ LoopInv' /\ KeyTapIsHeld'
<1>1. CASE KeyLoad \/ KeyFails
  BY <1>1, GetNumbers DEF KeyLoad, KeyFails, keyVars, KeyTypes, IsInput, LoopInv, KeyTapIsHeld
<1>2. CASE KeyState
  <2>1. /\ NextKey /\ at = "swap" /\ UNCHANGED <<keyboard_tap_latches, keyGiven, keyPressed, taps>>
        /\ out' = out \/ out' = apply_input_action(key, 100, out)
    BY <1>2 DEF KeyState, keyVars
  <2>2. remaining' = 0 /\ key' \in Used /\ (at' = "pad" \/ (at' = "load" /\ key < key'))
    BY <2>1, KeysGoUp DEF KeyTypes
  <2>3. IsInput(out)' /\ out.buttons \subseteq out'.buttons
    BY <2>1, KeyAdds DEF KeyTypes, IsInput
  <2>4. KeyTypes'
    BY <2>1, <2>2, <2>3, GetNumbers DEF KeyTypes
  <2>5. \A k \in taps : k < key
    BY <2>1 DEF LoopInv
  <2>6. LoopInv'
    BY <2>1, <2>2, <2>3, <2>5, GetNumbers DEF LoopInv, KeyTypes
  <2>7. KeyTapIsHeld'
    BY <2>1 DEF KeyTapIsHeld
  <2> QED
    BY <2>4, <2>6, <2>7
<1>3. CASE KeySwaps
  <2>1. /\ NextKey /\ at = "swap" /\ UNCHANGED <<keyGiven, keyPressed>>
        /\ remaining # 0 /\ keyboard_tap_latches[key] = remaining
        /\ keyboard_tap_latches' = [keyboard_tap_latches EXCEPT ![key] = remaining - 1]
        /\ taps' = taps \cup {key}
        /\ out' = apply_input_action(key, 100, out)
    BY <1>3 DEF KeySwaps, TakeTap
  <2>2. remaining' = 0 /\ key' \in Used /\ (at' = "pad" \/ (at' = "load" /\ key < key'))
    BY <2>1, KeysGoUp DEF KeyTypes
  <2>3. /\ IsInput(out)' /\ out.buttons \subseteq out'.buttons
        /\ input_actions[key].button # 0 => input_actions[key].button \in out'.buttons
    BY <2>1, KeyAdds DEF KeyTypes, IsInput
  <2>4. KeyTypes'
    BY <2>1, <2>2, <2>3, GetNumbers DEF KeyTypes
  <2>5. (\A k \in taps : k < key) /\ key \notin taps
    BY <2>1, GetNumbers DEF LoopInv, KeyTypes
  <2>6. LoopInv'
    <3>1. \A k \in taps' : input_actions[k].button # 0 => input_actions[k].button \in out'.buttons
      BY <2>1, <2>3 DEF LoopInv
    <3>2. at' = "load" => \A k \in taps' : k < key'
      BY <2>1, <2>2, <2>5, GetNumbers DEF KeyTypes
    <3> QED
      BY <2>2, <3>1, <3>2 DEF LoopInv
  <2>7. ASSUME NEW j \in keyPressed', input_actions[j].button # 0
        PROVE  keyboard_tap_latches'[j] + keyGiven'[j] + (IF j \in taps' THEN 1 ELSE 0) >= TapPolls
    <3>0. /\ j \in keyPressed /\ j \in Used
          /\ keyboard_tap_latches[j] + keyGiven[j] + (IF j \in taps THEN 1 ELSE 0) >= TapPolls
      BY <2>1, <2>7 DEF KeyTypes, KeyTapIsHeld
    <3>1. CASE j = key
      BY <2>1, <2>5, <3>0, <3>1, GetNumbers DEF KeyTypes
    <3>2. CASE j # key
      <4>1. /\ keyboard_tap_latches'[j] = keyboard_tap_latches[j] /\ keyGiven'[j] = keyGiven[j]
            /\ j \in taps' <=> j \in taps
        BY <2>1, <3>0, <3>2 DEF KeyTypes
      <4> QED
        BY <3>0, <4>1
    <3> QED
      BY <3>1, <3>2
  <2> QED
    BY <2>4, <2>6, <2>7 DEF KeyTapIsHeld
<1> QED
  BY <1>1, <1>2, <1>3 DEF KeyStep

\* The end of a poll gives what it took, and logs it if it is new.
LEMMA GivePreserves ==
  ASSUME TypeOK, KeyTypes, LogTypes, LoopInv, KeyTapIsHeld, LogIsCurrent, Give
  PROVE  KeyTypes' /\ LogTypes' /\ LoopInv' /\ KeyTapIsHeld' /\ LogIsCurrent'
<1>1. PICK held \in SUBSET Buttons, stick \in Sticks :
        LET x == ClampTo(out.x + stick[1], -100, 100)
            y == ClampTo(out.y + stick[2], -100, 100)
            now == [buttons |-> Merged(held), direction |-> Direction(x, y)]
        IN
        /\ keyGiven' = [k \in Used |->
             IF /\ k \in taps /\ input_actions[k].button \in Merged(held)
                /\ keyGiven[k] < TapPolls
             THEN keyGiven[k] + 1 ELSE keyGiven[k]]
        /\ line' = IF Merged(held) # previous.buttons \/ DirectionChanged(now.direction)
                   THEN now ELSE line
        /\ recent' = (recent \/ DirectionChanged(now.direction))
        /\ previous' = now
  BY DEF Give
<1> DEFINE x == ClampTo(out.x + stick[1], -100, 100)
           y == ClampTo(out.y + stick[2], -100, 100)
           direction == Direction(x, y)
<1>2. /\ at' = "idle" /\ out' = NoInput /\ taps' = {}
      /\ UNCHANGED <<keyboard_tap_latches, keyPressed, key, remaining>>
  BY DEF Give
<1>3. out.buttons \subseteq Merged(held) /\ Merged(held) \subseteq 1..14
  BY GetNumbers DEF Merged, KeyTypes, IsInput, TypeOK
<1>4. direction \in 0..5
  BY DEF Direction
<1> HIDE DEF direction
<1>5. previous' = [buttons |-> Merged(held), direction |-> direction]
  BY <1>1 DEF direction
<1>6. /\ line' = IF Merged(held) # previous.buttons \/ DirectionChanged(direction)
                 THEN previous' ELSE line
      /\ recent' = (recent \/ DirectionChanged(direction))
  BY <1>1 DEF direction
<1>7. keyGiven' \in [Used -> 0..TapPolls]
  BY <1>1, GetNumbers DEF KeyTypes
<1>8. KeyTypes'
  BY <1>2, <1>7 DEF KeyTypes, IsInput, NoInput
<1>9. LogTypes' /\ LogIsCurrent'
  <2>1. previous'.buttons = Merged(held) /\ previous'.direction = direction
    BY <1>5
  <2>2. line' = previous' \/ (line' = line /\ Merged(held) = previous.buttons
                                /\ ~DirectionChanged(direction))
    BY <1>6
  <2>3. recent' \in BOOLEAN
    BY <1>6, Zenon
  <2>4. LogTypes'
    BY <1>3, <1>4, <2>1, <2>2, <2>3 DEF LogTypes
  <2>5. LogIsCurrent'
    BY <2>1, <2>2 DEF LogIsCurrent, DirectionChanged
  <2> QED
    BY <2>4, <2>5
<1>10. LoopInv'
  BY <1>2 DEF LoopInv
<1>11. ASSUME NEW j \in keyPressed', input_actions[j].button # 0
       PROVE  keyboard_tap_latches'[j] + keyGiven'[j] + (IF j \in taps' THEN 1 ELSE 0) >= TapPolls
  <2>1. /\ j \in keyPressed /\ j \in Used
        /\ keyboard_tap_latches[j] + keyGiven[j] + (IF j \in taps THEN 1 ELSE 0) >= TapPolls
    BY <1>2, <1>11 DEF KeyTypes, KeyTapIsHeld
  <2>2. j \in taps => input_actions[j].button \in Merged(held)
    BY <1>3, <1>11 DEF LoopInv
  <2>3. keyGiven'[j] = IF j \in taps /\ keyGiven[j] < TapPolls THEN keyGiven[j] + 1 ELSE keyGiven[j]
    BY <1>1, <2>1, <2>2
  <2>4. keyboard_tap_latches[j] \in 0..TapPolls /\ keyGiven[j] \in 0..TapPolls
    BY <2>1 DEF KeyTypes
  <2> QED
    BY <1>2, <2>1, <2>3, <2>4, GetNumbers
<1> QED
  BY <1>8, <1>9, <1>10, <1>11 DEF KeyTapIsHeld

\* The other steps read the keys' state at most.
LEMMA OtherStepsPreserve ==
  ASSUME KeyTypes, LogTypes, LoopInv, KeyTapIsHeld, LogIsCurrent,
         TouchEvent \/ Begin \/ ReadPad \/ ReadTouch \/ Elapse \/ UNCHANGED allVars
  PROVE  KeyTypes' /\ LogTypes' /\ LoopInv' /\ KeyTapIsHeld' /\ LogIsCurrent'
<1>1. CASE TouchEvent \/ ReadTouch \/ UNCHANGED allVars
  <2>1. UNCHANGED <<keyVars, getVars, logVars>>
    BY <1>1 DEF TouchEvent, ReadTouch, allVars
  <2> QED
    BY <2>1 DEF keyVars, getVars, logVars, KeyTypes, IsInput, LogTypes, LoopInv, KeyTapIsHeld,
         LogIsCurrent
<1>2. CASE Begin
  BY <1>2, FirstIsUsed DEF Begin, keyVars, logVars, KeyTypes, IsInput, NoInput, LogTypes, LoopInv,
       KeyTapIsHeld, LogIsCurrent
<1>3. CASE ReadPad
  <2>1. PICK strengths : /\ \A k \in Used : strengths[k] \in gamepad_binding_strengths(k) \cup {0}
                         /\ out' = Applied(strengths)
    BY <1>3 DEF ReadPad
  <2>2. IsInput(out)' /\ out.buttons \subseteq out'.buttons
    BY <2>1, PadAdds DEF KeyTypes, IsInput
  <2>3. at' = "touch" /\ UNCHANGED <<keyVars, key, remaining, taps, logVars>>
    BY <1>3 DEF ReadPad
  <2> QED
    BY <2>2, <2>3 DEF keyVars, logVars, KeyTypes, LogTypes, LoopInv, KeyTapIsHeld, LogIsCurrent
<1>4. CASE Elapse
  BY <1>4 DEF Elapse, keyVars, getVars, KeyTypes, IsInput, LogTypes, LoopInv, KeyTapIsHeld, LogIsCurrent
<1> QED
  BY <1>1, <1>2, <1>3, <1>4

\* The inductive invariant holds in every behaviour of the poll and the main thread.
THEOREM GetInvariance == InputSpec => []GetInv
<1>1. InitInput => GetInv
  <2> SUFFICES ASSUME InitInput PROVE GetInv
    OBVIOUS
  <2>1. LatchInv
    BY InitLatch DEF InitInput
  <2>2. KeyTypes /\ LoopInv /\ KeyTapIsHeld
    BY FirstIsUsed, GetNumbers DEF InitInput, KeyTypes, IsInput, NoInput, LoopInv, KeyTapIsHeld
  <2>3. LogTypes /\ LogIsCurrent
    BY DEF InitInput, LogTypes, LogIsCurrent
  <2> QED
    BY <2>1, <2>2, <2>3, TypesSplit DEF GetInv, LatchInv
<1>2. GetInv /\ [NextInput]_allVars => GetInv'
  <2> SUFFICES ASSUME GetInv, [NextInput]_allVars PROVE GetInv'
    OBVIOUS
  <2>1. LatchInv' /\ TypeOK'
    BY LatchStepPreserves DEF GetInv, LatchInv
  <2>2. TypeOK /\ KeyTypes /\ LogTypes /\ LoopInv /\ KeyTapIsHeld /\ LogIsCurrent
    BY TypesSplit DEF GetInv
  <2>3. KeyTypes' /\ LogTypes' /\ LoopInv' /\ KeyTapIsHeld' /\ LogIsCurrent'
    <3>1. CASE \E k \in Tapped : KeyDown(k)
      <4>1. LogTypes' /\ LogIsCurrent'
        BY <2>2, <3>1 DEF KeyDown, logVars, LogTypes, LogIsCurrent
      <4> QED
        BY <2>2, <3>1, <4>1, KeyDownPreserves
    <3>2. CASE KeyStep
      <4>1. UNCHANGED logVars
        BY <3>2 DEF KeyStep, KeyLoad, KeyState, KeySwaps, TakeTap, KeyFails
      <4>2. LogTypes' /\ LogIsCurrent'
        BY <2>2, <4>1 DEF logVars, LogTypes, LogIsCurrent
      <4> QED
        BY <2>2, <3>2, <4>2, KeyStepPreserves
    <3>3. CASE Give
      BY <2>2, <3>3, GivePreserves
    <3>4. CASE TouchEvent \/ Begin \/ ReadPad \/ ReadTouch \/ Elapse \/ UNCHANGED allVars
      BY <2>2, <3>4, OtherStepsPreserve
    <3> QED
      BY <3>1, <3>2, <3>3, <3>4 DEF NextInput, GetStep
  <2>4. TypeOKInput'
    BY <2>1, <2>3 DEF TypeOKInput, KeyTypes, LogTypes, IsInput
  <2> QED
    BY <2>1, <2>3, <2>4 DEF GetInv
<1> QED
  BY <1>1, <1>2, PTL DEF InputSpec

\* Every count of a key or a button stays between zero and its hold (TypeOKInput).
THEOREM GetInputTypeCorrect == InputSpec => []TypeOKInput
BY GetInvariance, PTL DEF GetInv

\* No tap of a key is lost to a press or a poll that comes between a poll's load of
\* its latch and its exchange (KeyTapIsHeld).
THEOREM KeyTapsAreHeld == InputSpec => []KeyTapIsHeld
BY GetInvariance, PTL DEF GetInv

\* A release is never missing from the log, although its lines are rate-limited
\* (LogIsCurrent).
THEOREM LogStaysCurrent == InputSpec => []LogIsCurrent
BY GetInvariance, PTL DEF GetInv

\* What is proved of the latch holds of it under get_input: no touch tap is lost
\* (TapIsHeld), and what was cleared stays silent (ClearedStaysSilent).
THEOREM TouchTapsAreHeld == InputSpec => [](TapIsHeld /\ ClearedStaysSilent)
<1>1. GetInv => TapIsHeld /\ ClearedStaysSilent
  BY DEF GetInv, LatchInv
<1> QED
  BY <1>1, GetInvariance, PTL
=============================================================================
