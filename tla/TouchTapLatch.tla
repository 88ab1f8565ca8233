---------------------------- MODULE TouchTapLatch ----------------------------
(***************************************************************************)
(* PaperPadTouchTapLatch (apple/app/touch_tap_latch.h): a countdown per     *)
(* button, set by a touch on the main thread and taken down by one with     *)
(* every input poll of the game, so that a tap shorter than the time        *)
(* between two polls is still seen.  The two threads share nothing but the  *)
(* atomic counters: every load, store and compare-exchange is a step.       *)
(***************************************************************************)
EXTENDS Integers

CONSTANTS
  Bits,       \* number of counters; bit b of a button mask is counter b
  HoldPolls   \* kTapHoldPolls, the polls a tap is held for

ASSUME BitsAssumption      == Bits \in Nat \ {0}
ASSUME HoldPollsAssumption == HoldPolls \in Nat \ {0}

Buttons == 1..Bits

VARIABLES
  counters,   \* counters_
  main,       \* where the main thread is: idle, extend (before its load), swap, clear
  mainBit,    \* the bit it is at
  mainValue,  \* extend's current
  poll,       \* where the poll is: idle, load, swap
  pollBit,    \* the bit it is at
  pollValue,  \* consume's current
  buttons,    \* the mask consume builds
  pressed,    \* history: the bits extended since they were last cleared
  given       \* history: the polls, counted up to HoldPolls, that reported a bit
              \* since its last extend began

mainVars == <<main, mainBit, mainValue>>
pollVars == <<poll, pollBit, pollValue, buttons>>
vars     == <<counters, mainVars, pollVars, pressed, given>>

-----------------------------------------------------------------------------
(* extend.  Every call passes the mask of one button, which has one bit; the  *)
(* loop skips the others.                                                     *)

Extend(b) ==
  /\ main = "idle"
  /\ main' = "extend"
  /\ mainBit' = b
  /\ UNCHANGED <<counters, mainValue, pollVars, pressed, given>>

ExtendLoad ==
  /\ main = "extend"
  /\ mainValue' = counters[mainBit]
  /\ given' = [given EXCEPT ![mainBit] = 0]
  /\ main' = "swap"
  /\ UNCHANGED <<counters, mainBit, pollVars, pressed>>

ExtendDone ==
  /\ main' = "idle"
  /\ mainBit' = 1
  /\ mainValue' = 0
  /\ pressed' = pressed \cup {mainBit}
  /\ UNCHANGED <<pollVars, given>>

\* The counter was high enough already.
ExtendKeeps ==
  /\ main = "swap"
  /\ mainValue >= HoldPolls
  /\ ExtendDone
  /\ UNCHANGED counters

\* The compare-exchange succeeds.
ExtendSwaps ==
  /\ main = "swap"
  /\ mainValue < HoldPolls
  /\ counters[mainBit] = mainValue
  /\ counters' = [counters EXCEPT ![mainBit] = HoldPolls]
  /\ ExtendDone

\* Mutant of ExtendFails: a failed compare-exchange ends the loop.
ExtendGivesUp ==
  /\ main = "swap"
  /\ mainValue < HoldPolls
  /\ ExtendDone
  /\ UNCHANGED counters

\* It fails, because a poll was faster or spuriously (weak): current is reloaded.
ExtendFails ==
  /\ main = "swap"
  /\ mainValue < HoldPolls
  /\ mainValue' = counters[mainBit]
  /\ UNCHANGED <<counters, main, mainBit, pollVars, pressed, given>>

-----------------------------------------------------------------------------
(* clearAll *)

ClearAll ==
  /\ main = "idle"
  /\ main' = "clear"
  /\ mainBit' = 1
  /\ UNCHANGED <<counters, mainValue, pollVars, pressed, given>>

ClearBit ==
  /\ main = "clear"
  /\ counters' = [counters EXCEPT ![mainBit] = 0]
  /\ pressed' = pressed \ {mainBit}
  /\ IF mainBit < Bits
     THEN mainBit' = mainBit + 1 /\ UNCHANGED main
     ELSE mainBit' = 1 /\ main' = "idle"
  /\ UNCHANGED <<mainValue, pollVars, given>>

-----------------------------------------------------------------------------
(* consume *)

Consume ==
  /\ poll = "idle"
  /\ poll' = "load"
  /\ pollBit' = 1
  /\ buttons' = {}
  /\ UNCHANGED <<counters, mainVars, pollValue, pressed, given>>

ConsumeLoad ==
  /\ poll = "load"
  /\ pollValue' = counters[pollBit]
  /\ poll' = "swap"
  /\ UNCHANGED <<counters, mainVars, pollBit, buttons, pressed, given>>

NextBit ==
  /\ pollValue' = 0
  /\ IF pollBit < Bits
     THEN pollBit' = pollBit + 1 /\ poll' = "load"
     ELSE pollBit' = 1 /\ poll' = "idle"

ConsumeNothing ==
  /\ poll = "swap"
  /\ pollValue = 0
  /\ NextBit
  /\ UNCHANGED <<counters, mainVars, buttons, pressed, given>>

ReportBit ==
  /\ buttons' = buttons \cup {pollBit}
  /\ given' = [given EXCEPT ![pollBit] = IF @ < HoldPolls THEN @ + 1 ELSE @]
  /\ NextBit
  /\ UNCHANGED <<mainVars, pressed>>

\* Mutant of ConsumeSwaps: a plain store of current - 1.
ConsumeStores ==
  /\ poll = "swap"
  /\ pollValue # 0
  /\ counters' = [counters EXCEPT ![pollBit] = pollValue - 1]
  /\ ReportBit

\* Mutant of ConsumeSwaps: the bit is reported and the counter left as it is.
ConsumeOnlyReads ==
  /\ poll = "swap"
  /\ pollValue # 0
  /\ ReportBit
  /\ UNCHANGED counters

\* The compare-exchange succeeds: the bit is reported.
ConsumeSwaps ==
  /\ poll = "swap"
  /\ pollValue # 0
  /\ counters[pollBit] = pollValue
  /\ counters' = [counters EXCEPT ![pollBit] = pollValue - 1]
  /\ ReportBit

\* It fails, because the main thread was faster or spuriously: current is reloaded.
ConsumeFails ==
  /\ poll = "swap"
  /\ pollValue # 0
  /\ pollValue' = counters[pollBit]
  /\ UNCHANGED <<counters, mainVars, poll, pollBit, buttons, pressed, given>>

-----------------------------------------------------------------------------
Init ==
  /\ counters = [b \in Buttons |-> 0]
  /\ main = "idle" /\ mainBit = 1 /\ mainValue = 0
  /\ poll = "idle" /\ pollBit = 1 /\ pollValue = 0
  /\ buttons = {}
  /\ pressed = {}
  /\ given = [b \in Buttons |-> 0]

MainStep == ExtendLoad \/ ExtendKeeps \/ ExtendSwaps \/ ExtendFails \/ ClearBit
PollStep == ConsumeLoad \/ ConsumeNothing \/ ConsumeSwaps \/ ConsumeFails

Next ==
  \/ \E b \in Buttons : Extend(b)
  \/ ClearAll
  \/ Consume
  \/ MainStep
  \/ PollStep

Spec == Init /\ [][Next]_vars

\* The game polls for as long as it runs, and a weak compare-exchange that is
\* not interfered with does not fail for ever.
Fairness ==
  /\ WF_vars(MainStep) /\ SF_vars(ExtendSwaps)
  /\ WF_vars(Consume) /\ WF_vars(PollStep) /\ SF_vars(ConsumeSwaps)

FairSpec == Spec /\ Fairness

-----------------------------------------------------------------------------
(* Properties *)

TypeOK ==
  /\ counters \in [Buttons -> 0..HoldPolls]
  /\ main \in {"idle", "extend", "swap", "clear"}
  /\ mainBit \in Buttons
  /\ mainValue \in 0..HoldPolls
  /\ poll \in {"idle", "load", "swap"}
  /\ pollBit \in Buttons
  /\ pollValue \in 0..HoldPolls
  /\ buttons \subseteq Buttons
  /\ pressed \subseteq Buttons
  /\ given \in [Buttons -> 0..HoldPolls]

Extending(b) == main = "swap" /\ mainBit = b

\* A tap is not lost, whatever polls run while it is latched: of HoldPolls polls
\* after it, those that have not reported it yet still will.
TapIsHeld ==
  \A b \in pressed : ~Extending(b) => counters[b] + given[b] >= HoldPolls

\* A poll that was in the middle of its countdown does not bring back a button
\* that has been cleared (a menu opened, a controller was connected).
ClearedStaysSilent == \A b \in Buttons \ pressed : counters[b] = 0

\* A tap does not become a long press: once no touch follows, every button is
\* let go, also when touches and polls have failed each other's exchanges.
TapEnds == \A b \in Buttons : <>[](main = "idle") => <>[](counters[b] = 0)
=============================================================================
