------------------------------- MODULE Settings -------------------------------
(***************************************************************************)
(* How a choice in the settings sheet reaches the store, the overlay and    *)
(* the engine, and how it comes back after the app was killed.             *)
(*                                                                         *)
(* The sheet's handlers run on the main thread.  In the PaperBoat build     *)
(* they save first and then store to the atomics of bridge.mm one by one,   *)
(* settingsChanged last; PaperPadBoat_Frame reads those atomics, one load   *)
(* at a time, and bridge.mm does not decide on which thread it is called.   *)
(* In the Original build they apply first and save all controls of the      *)
(* sheet after it.  The values are stored under keys that may be missing,   *)
(* and by a version 1 of the app whose resolution 1 meant 2x.               *)
(*                                                                         *)
(* Volume is 0 or 1.  The keys touchControls and touchOpacity are one value *)
(* here, since they are always read and applied together.                   *)
(***************************************************************************)
EXTENDS Integers

CONSTANTS
  Screens,    \* the sizes <<width, height>> the drawable can have, in pixels
  MaxChanges, \* bound on choices, resizes and kills together
  Closed      \* no sheet is presented

Settled == [volume : 0..1, resolution : 0..4, aspect : 0..1, touch : 0..1]

ASSUME SettingsAssumption ==
  /\ Screens \subseteq Nat \X Nat
  /\ MaxChanges \in Nat
  /\ Closed \notin Settled

Missing == -1

Values == [volume |-> 0..1, resolution |-> 0..4, aspect |-> 0..1, touch |-> 0..1]
Keys   == DOMAIN Values

\* The options of ultramodern's GraphicsConfig that the sheet can ask for.
Options == {"Auto", "Original", "Original2x", "Manual"}

VARIABLES
  boat,      \* which build this is
  saved,     \* the dictionary in NSUserDefaults
  sheet,     \* what the controls of the open sheet show, or Closed
  main,      \* what the main thread's handler does next
  atoms,     \* the atomics: volume, and PaperBoat's resolution, aspect and settingsChanged
  config,    \* Original: the runtime's GraphicsConfig
  overlay,   \* the overlay's touch setting, or Missing before it is attached
  frame,     \* PaperPadBoat_Frame: the next step, the drawable it read and its chosenScale
  previous,  \* its previousScale
  shown,     \* what the engine was told last
  screen,    \* the drawable's size
  running,   \* the game has been started
  chosen,    \* history: the player's last choice under each key
  changes    \* how many choices, resizes and kills there have been

store == <<saved, sheet, main, overlay, chosen>>
game  == <<atoms, config, frame, previous, shown>>
vars  == <<boat, store, game, screen, running, changes>>

-----------------------------------------------------------------------------
(* The dictionary. *)

Value(stored, default) == IF stored = Missing THEN default ELSE stored

\* Version 1 had only Auto (0) and 2x (1).
resolutionModeFromSettings(s) ==
  IF s.schema < 2 /\ s.resolution = 1 THEN 2 ELSE Value(s.resolution, 0)

\* What the sheet, the launch and the overlay make of the dictionary.
Effective(s) == [volume     |-> Value(s.volume, 1),
                 resolution |-> resolutionModeFromSettings(s),
                 aspect     |-> Value(s.aspect, 0),
                 touch      |-> Value(s.touch, 1)]

\* What a handler writes, under this version's schema.
stamped(s, resolution) == [volume |-> s.volume, resolution |-> resolution, aspect |-> s.aspect,
                           touch |-> s.touch, schema |-> 4]

\* Mutant of saveValue: the dictionary is stamped without converting its resolution.
saveValueUnconverted(s, key, value) == [stamped(s, s.resolution) EXCEPT ![key] = value]

saveValue(s, key, value) == [stamped(s, resolutionModeFromSettings(s)) EXCEPT ![key] = value]

persisted(s) == stamped(s, s.resolution)

-----------------------------------------------------------------------------
(* The engine. *)

Smaller(a, b) == IF a < b THEN a ELSE b

automatic_scale(size, fill) ==
  IF size[1] <= 0 \/ size[2] <= 0 THEN 2
  ELSE LET fit == IF fill THEN size[2] \div 240 ELSE Smaller(size[1] \div 320, size[2] \div 240)
       IN  IF fit < 1 THEN 1 ELSE Smaller(fit, 4)

GraphicsConfig(resolution, aspect) ==
  [option     |-> CASE resolution = 0 -> "Auto"
                    [] resolution = 1 -> "Original"
                    [] resolution = 2 -> "Original2x"
                    [] resolution \in {3, 4} -> "Manual",
   multiplier |-> IF resolution > 0 THEN resolution ELSE 2,
   expand     |-> aspect = 1]

\* apply_user_config: RT64 ignores the multiplier for "Original" and for the
\* integer scale of the window, which is 0 here because RT64 chooses it.
UserScale(c) ==
  CASE c.option = "Auto"       -> 0
    [] c.option = "Original"   -> 1
    [] c.option = "Original2x" -> 2
    [] c.option = "Manual"     -> c.multiplier

-----------------------------------------------------------------------------
(* The life of the process. *)

\* A store of version 1: resolution 0 or 1, and no touch settings.
Stores == {[volume |-> Missing, resolution |-> Missing, aspect |-> Missing,
            touch |-> Missing, schema |-> Missing]}
          \cup {[volume |-> 0, resolution |-> r, aspect |-> 1,
                 touch |-> Missing, schema |-> Missing] : r \in 0..1}

\* The static initial values of a new process.
NewAtoms == [volume |-> 1, resolution |-> 0, aspect |-> 0, changed |-> TRUE]
NewFrame == [step |-> "idle", size |-> <<0, 0>>, scale |-> 0]

Init ==
  /\ boat \in BOOLEAN
  /\ saved \in Stores
  /\ sheet = Closed
  /\ main = "idle"
  /\ atoms = NewAtoms /\ config = GraphicsConfig(0, 0)
  /\ frame = NewFrame /\ previous = 0
  /\ overlay = Missing
  /\ shown = [volume |-> 1, aspectX |-> 0, aspectY |-> 0, scale |-> 0]
  /\ screen \in Screens
  /\ running = FALSE
  /\ chosen = Effective(saved)
  /\ changes = 0

\* SDL_main applies the dictionary before the game starts.  Without one the
\* defaults stay, which are the values of an empty dictionary.
Launch ==
  /\ ~running
  /\ running' = TRUE
  /\ LET s == Effective(saved)
     IN  /\ atoms' = [volume     |-> s.volume,
                      resolution |-> IF boat THEN s.resolution ELSE atoms.resolution,
                      aspect     |-> IF boat THEN s.aspect ELSE atoms.aspect,
                      changed    |-> TRUE]
         /\ config' = IF boat THEN config ELSE GraphicsConfig(s.resolution, s.aspect)
  /\ UNCHANGED <<boat, store, frame, previous, shown, screen, changes>>

\* Mutant of AttachOverlay: a new overlay shows its controls until told otherwise.
AttachVisible ==
  /\ running /\ main = "idle" /\ overlay = Missing
  /\ overlay' = 1
  /\ UNCHANGED <<boat, saved, sheet, main, chosen, game, screen, running, changes>>

\* paperpad_touch_attach, when its block runs
AttachOverlay ==
  /\ running /\ main = "idle" /\ overlay = Missing
  /\ overlay' = Value(saved.touch, 1)
  /\ UNCHANGED <<boat, saved, sheet, main, chosen, game, screen, running, changes>>

\* iOS kills the process; a choice whose handler was not done may be lost.
\* What the engine itself keeps over a launch is left as it was.
Kill ==
  /\ running /\ changes < MaxChanges
  /\ changes' = changes + 1
  /\ running' = FALSE
  /\ sheet' = Closed /\ main' = "idle" /\ overlay' = Missing
  /\ chosen' = IF main = "idle" THEN chosen ELSE Effective(saved)
  /\ atoms' = NewAtoms /\ config' = GraphicsConfig(0, 0)
  /\ frame' = NewFrame /\ previous' = 0
  /\ UNCHANGED <<boat, saved, shown, screen>>

Resize(size) ==
  /\ changes < MaxChanges
  /\ size # screen
  /\ screen' = size
  /\ changes' = changes + 1
  /\ UNCHANGED <<boat, store, game, running>>

-----------------------------------------------------------------------------
(* The sheet.  It is reached through the overlay's menu button. *)

\* viewWillAppear and refreshFromDefaults; PaperBoat's cellForRowAtIndexPath
OpenSheet ==
  /\ main = "idle" /\ overlay # Missing /\ sheet = Closed
  /\ sheet' = Effective(saved)
  /\ UNCHANGED <<boat, saved, main, overlay, chosen, game, screen, running, changes>>

CloseSheet ==
  /\ main = "idle" /\ sheet # Closed
  /\ sheet' = Closed
  /\ UNCHANGED <<boat, saved, main, overlay, chosen, game, screen, running, changes>>

\* A control's handler begins.  PaperBoat saves the value under its key first;
\* the touch setting is applied at once, for overlay and handler share a thread.
Choose(key, value) ==
  /\ main = "idle" /\ sheet # Closed /\ changes < MaxChanges
  /\ value # sheet[key]
  /\ changes' = changes + 1
  /\ sheet'   = [sheet EXCEPT ![key] = value]
  /\ chosen'  = [chosen EXCEPT ![key] = value]
  /\ saved'   = IF boat THEN saveValue(saved, key, value) ELSE saved
  /\ overlay' = IF key = "touch" THEN value ELSE overlay
  /\ main'    = CASE key = "volume" -> "volume"
                  [] key = "touch"  -> IF boat THEN "idle" ELSE "persist"
                  [] OTHER          -> IF boat THEN "resolution" ELSE "graphics"
  /\ UNCHANGED <<boat, game, screen, running>>

HandlerStep(here, next) == main = here /\ main' = next

StoreVolume ==
  /\ HandlerStep("volume", IF boat THEN "changed" ELSE "persist")
  /\ atoms' = [atoms EXCEPT !.volume = sheet.volume]
  /\ UNCHANGED <<saved, config>>

StoreResolution ==
  /\ HandlerStep("resolution", "aspect")
  /\ atoms' = [atoms EXCEPT !.resolution = resolutionModeFromSettings(saved)]
  /\ UNCHANGED <<saved, config>>

StoreAspect ==
  /\ HandlerStep("aspect", "changed")
  /\ atoms' = [atoms EXCEPT !.aspect = Value(saved.aspect, 0)]
  /\ UNCHANGED <<saved, config>>

StoreChanged ==
  /\ HandlerStep("changed", "idle")
  /\ atoms' = [atoms EXCEPT !.changed = TRUE]
  /\ UNCHANGED <<saved, config>>

SetGraphicsConfig ==
  /\ HandlerStep("graphics", "persist")
  /\ config' = GraphicsConfig(sheet.resolution, sheet.aspect)
  /\ UNCHANGED <<saved, atoms>>

Persist ==
  /\ HandlerStep("persist", "idle")
  /\ saved' = persisted(sheet)
  /\ UNCHANGED <<atoms, config>>

Handler ==
  /\ \/ StoreVolume \/ StoreResolution \/ StoreAspect \/ StoreChanged
     \/ SetGraphicsConfig \/ Persist
  /\ UNCHANGED <<boat, sheet, overlay, chosen, frame, previous, shown, screen, running, changes>>

-----------------------------------------------------------------------------
(* The engine's side. *)

At(step) == running /\ boat /\ frame.step = step

\* The first of the two loads of resolution decides which way the scale is found.
ReadMode ==
  /\ At("idle")
  /\ frame' = [frame EXCEPT !.step = IF atoms.resolution = 0 THEN "auto" ELSE "fixed",
                            !.size = screen]
  /\ UNCHANGED <<atoms, previous, shown>>

AutomaticScale ==
  /\ At("auto")
  /\ frame' = [frame EXCEPT !.step = "compare",
                            !.scale = automatic_scale(frame.size, atoms.aspect # 0)]
  /\ UNCHANGED <<atoms, previous, shown>>

FixedScale ==
  /\ At("fixed")
  /\ frame' = [frame EXCEPT !.step = "compare", !.scale = atoms.resolution]
  /\ UNCHANGED <<atoms, previous, shown>>

CompareScale ==
  /\ At("compare")
  /\ frame' = [frame EXCEPT !.step = "exchange"]
  /\ previous' = frame.scale
  /\ atoms' = [atoms EXCEPT !.changed = @ \/ frame.scale # previous]
  /\ UNCHANGED shown

ExchangeChanged ==
  /\ At("exchange")
  /\ frame' = [frame EXCEPT !.step = IF atoms.changed THEN "volume" ELSE "idle"]
  /\ atoms' = [atoms EXCEPT !.changed = FALSE]
  /\ UNCHANGED <<previous, shown>>

ReadVolume ==
  /\ At("volume")
  /\ frame' = [frame EXCEPT !.step = "aspectX"]
  /\ shown' = [shown EXCEPT !.volume = atoms.volume]
  /\ UNCHANGED <<atoms, previous>>

ReadAspectX ==
  /\ At("aspectX")
  /\ frame' = [frame EXCEPT !.step = "aspectY"]
  /\ shown' = [shown EXCEPT !.aspectX = atoms.aspect]
  /\ UNCHANGED <<atoms, previous>>

\* Mutant of ReadAspectY: settingsChanged is cleared when the values are read,
\* and not before.
ReadAspectYAndClear ==
  /\ At("aspectY")
  /\ frame' = [frame EXCEPT !.step = "idle"]
  /\ shown' = [shown EXCEPT !.aspectY = atoms.aspect, !.scale = frame.scale]
  /\ atoms' = [atoms EXCEPT !.changed = FALSE]
  /\ UNCHANGED previous

ReadAspectY ==
  /\ At("aspectY")
  /\ frame' = [frame EXCEPT !.step = "idle"]
  /\ shown' = [shown EXCEPT !.aspectY = atoms.aspect, !.scale = frame.scale]
  /\ UNCHANGED <<atoms, previous>>

\* Original: the runtime hands a new config to update_config, and
\* queue_samples loads the volume for every buffer.
UpdateConfig ==
  /\ running /\ ~boat
  /\ shown' = [volume |-> atoms.volume, aspectX |-> IF config.expand THEN 1 ELSE 0,
               aspectY |-> IF config.expand THEN 1 ELSE 0, scale |-> UserScale(config)]
  /\ UNCHANGED <<atoms, frame, previous>>

Frame ==
  /\ \/ ReadMode \/ AutomaticScale \/ FixedScale \/ CompareScale \/ ExchangeChanged
     \/ ReadVolume \/ ReadAspectX \/ ReadAspectY \/ UpdateConfig
  /\ UNCHANGED <<boat, store, config, screen, running, changes>>

-----------------------------------------------------------------------------
Next ==
  \/ Launch \/ AttachOverlay \/ Kill
  \/ \E size \in Screens : Resize(size)
  \/ OpenSheet \/ CloseSheet
  \/ \E key \in Keys : \E value \in Values[key] : Choose(key, value)
  \/ Handler
  \/ Frame

\* The app is launched again, a handler that has begun ends, and frames go on.
Spec == Init /\ [][Next]_vars /\ WF_vars(Launch) /\ WF_vars(Handler) /\ WF_vars(Frame)

-----------------------------------------------------------------------------
Dictionaries == [volume : -1..1, resolution : -1..4, aspect : -1..1, touch : -1..1,
                 schema : {Missing, 4}]
Atomics      == [volume : 0..1, resolution : 0..4, aspect : 0..1, changed : BOOLEAN]
Configs      == [option : Options, multiplier : 1..4, expand : BOOLEAN]
FrameSteps   == {"idle", "auto", "fixed", "compare", "exchange", "volume", "aspectX", "aspectY"}
Frames       == [step : FrameSteps, size : Screens \cup {<<0, 0>>}, scale : 0..4]
Images       == [volume : 0..1, aspectX : 0..1, aspectY : 0..1, scale : 0..4]
HandlerSteps == {"idle", "volume", "resolution", "aspect", "changed", "graphics", "persist"}

TypeOK ==
  /\ boat \in BOOLEAN /\ running \in BOOLEAN
  /\ saved \in Dictionaries
  /\ chosen \in Settled
  /\ sheet = Closed \/ sheet \in Settled
  /\ main \in HandlerSteps
  /\ atoms \in Atomics
  /\ config \in Configs
  /\ overlay \in -1..1
  /\ frame \in Frames
  /\ previous \in 0..4
  /\ shown \in Images
  /\ screen \in Screens
  /\ changes \in 0..MaxChanges

\* Changing one setting keeps every other one, also when the dictionary is
\* another version's, when it has keys missing, and when the app was killed:
\* between two handlers the dictionary means exactly what the player chose.
ChoicesSurvive == main = "idle" => Effective(saved) = chosen

\* The overlay has the player's touch setting from the moment it is attached,
\* whichever came first, its attachment or the choice, and after each launch.
OverlayShowsSettings == overlay # Missing => overlay = chosen.touch

\* What the sheet promises for Auto: the largest whole-number scale up to 4x
\* that fits the screen, and 2x while the screen's size is unknown.
LargestFitting(size, fill) ==
  IF 0 \in {size[1], size[2]} THEN 2
  ELSE CHOOSE s \in 1..4 :
         /\ s = 1 \/ (s * 240 <= size[2] /\ (fill \/ s * 320 <= size[1]))
         /\ \A t \in s + 1..4 : ~ (t * 240 <= size[2] /\ (fill \/ t * 320 <= size[1]))

WantedScale ==
  IF chosen.resolution = 0 /\ boat
    THEN LargestFitting(screen, chosen.aspect = 1)
    ELSE chosen.resolution

\* When the player and the screen come to rest, so does the engine, and with
\* the player's volume, aspect and scale: no change is lost between a handler's
\* stores and a frame that is reading them.
EngineFollows ==
  <>[](running => shown = [volume |-> chosen.volume, aspectX |-> chosen.aspect,
                           aspectY |-> chosen.aspect, scale |-> WantedScale])
=============================================================================
