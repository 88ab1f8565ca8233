---------------------------- MODULE SettingsProofs ----------------------------
(***************************************************************************)
(* The settings are typed, survive, and reach the overlay and the engine,   *)
(* for every set of screens and any number of changes.                      *)
(***************************************************************************)
EXTENDS Settings, TLAPS

\* An open sheet shows the player's choices, and a handler runs under one.
SheetIsCurrent == /\ sheet # Closed => sheet = chosen
                  /\ main # "idle" => sheet # Closed

\* PaperBoat saves first, so that its dictionary is current at every step; the
\* steps of the two builds' handlers are never mixed.
SavedFirst == /\ boat => Effective(saved) = chosen
              /\ main \in {"resolution", "aspect", "changed"} => boat
              /\ main \in {"graphics", "persist"} => ~boat

IInv == TypeOK /\ ChoicesSurvive /\ OverlayShowsSettings /\ SheetIsCurrent /\ SavedFirst

-----------------------------------------------------------------------------
(* The operators. *)

\* A dictionary is always read as one choice for every key.
LEMMA EffectiveIsSettled ==
  ASSUME NEW s \in Dictionaries
  PROVE  Effective(s) \in Settled
  BY SMT DEF Dictionaries, Settled, Effective, Value, resolutionModeFromSettings, Missing

\* saveValue changes what is read under its key and under no other one, also
\* for a dictionary that has to be converted.
LEMMA SaveChangesOneKey ==
  ASSUME NEW s \in Dictionaries, NEW key \in Keys, NEW value \in Values[key]
  PROVE  /\ saveValue(s, key, value) \in Dictionaries
         /\ Effective(saveValue(s, key, value)) = [Effective(s) EXCEPT ![key] = value]
<1> DEFINE converted == stamped(s, resolutionModeFromSettings(s))
<1>a. /\ converted \in Dictionaries /\ converted.schema = 4
      /\ Effective(converted) = Effective(s)
  BY SMT DEF Dictionaries, stamped, Effective, Value, resolutionModeFromSettings, Missing
<1>b. saveValue(s, key, value) = [converted EXCEPT ![key] = value]
  BY DEF saveValue
<1> HIDE DEF converted
<1>1. CASE key = "volume"
  <2>1. value \in 0..1 BY <1>1 DEF Values
  <2>2. saveValue(s, key, value) = [converted EXCEPT !.volume = value] BY <1>1, <1>b
  <2>3. [Effective(s) EXCEPT ![key] = value] = [Effective(converted) EXCEPT !.volume = value] BY <1>1, <1>a
  <2> QED BY <2>1, <2>2, <2>3, <1>a, SMT DEF Dictionaries, Effective, Value, resolutionModeFromSettings, Missing
<1>2. CASE key = "resolution"
  <2>1. value \in 0..4 BY <1>2 DEF Values
  <2>2. saveValue(s, key, value) = [converted EXCEPT !.resolution = value] BY <1>2, <1>b
  <2>3. [Effective(s) EXCEPT ![key] = value] = [Effective(converted) EXCEPT !.resolution = value] BY <1>2, <1>a
  <2> QED BY <2>1, <2>2, <2>3, <1>a, SMT DEF Dictionaries, Effective, Value, resolutionModeFromSettings, Missing
<1>3. CASE key = "aspect"
  <2>1. value \in 0..1 BY <1>3 DEF Values
  <2>2. saveValue(s, key, value) = [converted EXCEPT !.aspect = value] BY <1>3, <1>b
  <2>3. [Effective(s) EXCEPT ![key] = value] = [Effective(converted) EXCEPT !.aspect = value] BY <1>3, <1>a
  <2> QED BY <2>1, <2>2, <2>3, <1>a, SMT DEF Dictionaries, Effective, Value, resolutionModeFromSettings, Missing
<1>4. CASE key = "touch"
  <2>1. value \in 0..1 BY <1>4 DEF Values
  <2>2. saveValue(s, key, value) = [converted EXCEPT !.touch = value] BY <1>4, <1>b
  <2>3. [Effective(s) EXCEPT ![key] = value] = [Effective(converted) EXCEPT !.touch = value] BY <1>4, <1>a
  <2> QED BY <2>1, <2>2, <2>3, <1>a, SMT DEF Dictionaries, Effective, Value, resolutionModeFromSettings, Missing
<1> QED BY <1>1, <1>2, <1>3, <1>4 DEF Keys, Values

\* persist writes a dictionary that is read as what the sheet shows.
LEMMA PersistKeepsSheet ==
  ASSUME NEW s \in Settled
  PROVE  persisted(s) \in Dictionaries /\ Effective(persisted(s)) = s
  BY SMT DEF Settled, Dictionaries, persisted, stamped, Effective, Value, resolutionModeFromSettings, Missing

\* A choice leaves a choice for every key.
LEMMA ChoiceIsSettled ==
  ASSUME NEW s \in Settled, NEW key \in Keys, NEW value \in Values[key]
  PROVE  [s EXCEPT ![key] = value] \in Settled
  BY SMT DEF Settled, Keys, Values

\* Whatever the drawable's size, the automatic scale is one of the sheet's.
LEMMA AutomaticScaleIsAScale ==
  ASSUME NEW size \in Nat \X Nat, NEW fill \in BOOLEAN
  PROVE  automatic_scale(size, fill) \in 1..4
<1>1. size[1] \div 320 \in Int /\ size[1] \div 240 \in Int /\ size[2] \div 240 \in Int
  BY SMT
<1> QED BY <1>1, SMT DEF automatic_scale, Smaller

\* The engine's config is one that update_config can be given.
LEMMA ConfigIsTyped ==
  ASSUME NEW resolution \in 0..4, NEW aspect \in 0..1
  PROVE  GraphicsConfig(resolution, aspect) \in Configs
  BY SMT DEF GraphicsConfig, Configs, Options

\* What a process starts with.
LEMMA NewProcessIsTyped ==
  NewAtoms \in Atomics /\ GraphicsConfig(0, 0) \in Configs /\ NewFrame \in Frames
<1>1. GraphicsConfig(0, 0) \in Configs
  BY ConfigIsTyped
<1> QED BY <1>1, SMT DEF NewAtoms, Atomics, NewFrame, Frames, FrameSteps

\* The scales that a config can ask for.
LEMMA ScaleIsTyped ==
  ASSUME NEW c \in Configs
  PROVE  UserScale(c) \in 0..4
  BY SMT DEF UserScale, Configs, Options

-----------------------------------------------------------------------------
(* The invariant. *)

\* The invariant holds at the start.
LEMMA InitEstablishesIInv == Init => IInv
<1> SUFFICES ASSUME Init PROVE IInv
  OBVIOUS
<1> USE SettingsAssumption
<1>1. saved \in Dictionaries
  BY SMT DEF Init, Stores, Dictionaries, Missing
<1>2. chosen \in Settled /\ Effective(saved) = chosen
  BY <1>1, EffectiveIsSettled DEF Init
<1>3. NewAtoms \in Atomics /\ GraphicsConfig(0, 0) \in Configs /\ NewFrame \in Frames
  BY NewProcessIsTyped
<1>4. shown \in Images /\ overlay \in -1..1 /\ changes \in 0..MaxChanges /\ previous \in 0..4
  BY SMT DEF Init, Images, Missing
<1>5. TypeOK
  BY <1>1, <1>2, <1>3, <1>4 DEF Init, TypeOK, HandlerSteps
<1> QED BY <1>2, <1>5 DEF IInv, Init, ChoicesSurvive, OverlayShowsSettings, SheetIsCurrent, SavedFirst

\* The process starts, grows its overlay, and dies.
LEMMA LifeKeepsIInv ==
  ASSUME IInv, Launch \/ AttachOverlay \/ Kill \/ \E size \in Screens : Resize(size)
  PROVE  IInv'
<1> USE SettingsAssumption
<1>0. saved \in Dictionaries /\ Effective(saved) \in Settled
  BY EffectiveIsSettled DEF IInv, TypeOK, Dictionaries
<1>1. CASE Launch
  <2>1. GraphicsConfig(Effective(saved).resolution, Effective(saved).aspect)
          \in Configs
    BY <1>0, ConfigIsTyped DEF Settled
  <2>2. atoms' \in Atomics
    BY <1>1, <1>0 DEF Launch, IInv, TypeOK, Atomics, Settled
  <2>3. config' \in Configs
    BY <1>1, <2>1 DEF Launch, IInv, TypeOK
  <2>4. TypeOK'
    BY <1>1, <2>2, <2>3 DEF Launch, IInv, TypeOK, store
  <2> QED BY <1>1, <2>4 DEF Launch, IInv, store, ChoicesSurvive, OverlayShowsSettings, SheetIsCurrent, SavedFirst
<1>2. CASE AttachOverlay
  <2>1. overlay' = chosen.touch /\ chosen.touch \in 0..1
    BY <1>2, <1>0 DEF AttachOverlay, IInv, ChoicesSurvive, Effective, Settled
  <2>2. TypeOK'
    BY <1>2, <2>1, SMT DEF AttachOverlay, IInv, TypeOK, game
  <2> QED BY <1>2, <2>1, <2>2 DEF AttachOverlay, IInv, game, ChoicesSurvive, OverlayShowsSettings, SheetIsCurrent, SavedFirst
<1>3. CASE Kill
  <2>1. chosen' \in Settled /\ Effective(saved') = chosen'
    BY <1>3, <1>0 DEF Kill, IInv, TypeOK, ChoicesSurvive
  <2>2. changes' \in 0..MaxChanges /\ previous' \in 0..4 /\ overlay' \in -1..1
    BY <1>3, SMT DEF Kill, IInv, TypeOK, Missing
  <2>3. TypeOK'
    BY <1>3, <2>1, <2>2, NewProcessIsTyped DEF Kill, IInv, TypeOK, HandlerSteps
  <2> QED BY <1>3, <2>1, <2>3 DEF Kill, IInv, ChoicesSurvive, OverlayShowsSettings, SheetIsCurrent, SavedFirst
<1>4. CASE \E size \in Screens : Resize(size)
  <2>1. TypeOK'
    BY <1>4, SMT DEF Resize, IInv, TypeOK, store, game
  <2> QED BY <1>4, <2>1 DEF Resize, IInv, store, game, ChoicesSurvive, OverlayShowsSettings, SheetIsCurrent, SavedFirst
<1> QED BY <1>1, <1>2, <1>3, <1>4

\* The sheet comes and goes, and a choice is made in it.
LEMMA SheetKeepsIInv ==
  ASSUME IInv, OpenSheet \/ CloseSheet \/ \E key \in Keys : \E value \in Values[key] : Choose(key, value)
  PROVE  IInv'
<1> USE SettingsAssumption
<1>0. saved \in Dictionaries /\ Effective(saved) \in Settled
  BY EffectiveIsSettled DEF IInv, TypeOK, Dictionaries
<1>1. CASE OpenSheet
  <2>1. sheet' = chosen' /\ sheet' \in Settled
    BY <1>1, <1>0 DEF OpenSheet, IInv, ChoicesSurvive
  <2>2. TypeOK'
    BY <1>1, <2>1 DEF OpenSheet, IInv, TypeOK, game
  <2> QED BY <1>1, <2>1, <2>2 DEF OpenSheet, IInv, game, ChoicesSurvive, OverlayShowsSettings, SheetIsCurrent, SavedFirst
<1>2. CASE CloseSheet
  <2>1. TypeOK'
    BY <1>2 DEF CloseSheet, IInv, TypeOK, game
  <2> QED BY <1>2, <2>1 DEF CloseSheet, IInv, game, ChoicesSurvive, OverlayShowsSettings, SheetIsCurrent, SavedFirst
<1>3. ASSUME NEW key \in Keys, NEW value \in Values[key], Choose(key, value)
      PROVE  IInv'
  <2>1. sheet = chosen /\ chosen \in Settled
    BY <1>3 DEF Choose, IInv, SheetIsCurrent, TypeOK
  <2>2. sheet' = chosen' /\ chosen' \in Settled
    BY <1>3, <2>1, ChoiceIsSettled DEF Choose
  <2>3. saved' \in Dictionaries /\ (boat => Effective(saved') = chosen')
    <3>1. CASE boat
      BY <1>3, <1>0, <3>1, SaveChangesOneKey DEF Choose, IInv, SavedFirst
    <3>2. CASE ~boat
      BY <1>3, <1>0, <3>2 DEF Choose
    <3> QED BY <3>1, <3>2
  <2>4. overlay' = chosen'.touch \/ (overlay' = overlay /\ chosen'.touch = chosen.touch)
    <3>1. CASE key = "touch"
      BY <1>3, <3>1, <2>1 DEF Choose, Settled
    <3>2. CASE key # "touch"
      BY <1>3, <3>2, <2>1 DEF Choose, Settled
    <3> QED BY <3>1, <3>2
  <2>5. overlay' \in -1..1
    BY <1>3, <2>2, <2>4, SMT DEF IInv, TypeOK, Settled
  <2>6. TypeOK'
    <3>1. changes' \in 0..MaxChanges
      BY <1>3, SMT DEF Choose, IInv, TypeOK
    <3>2. main' \in HandlerSteps
      BY <1>3 DEF Choose, HandlerSteps
    <3> QED BY <1>3, <2>2, <2>3, <2>5, <3>1, <3>2 DEF Choose, IInv, TypeOK, game
  <2>7. OverlayShowsSettings'
    BY <2>4 DEF IInv, OverlayShowsSettings
  <2>8. SheetIsCurrent' /\ SavedFirst' /\ ChoicesSurvive'
    <3>1. sheet' # Closed
      BY <2>2
    <3>2. boat' = boat /\ main' \in {"idle", "volume", "persist", "resolution", "graphics"}
          /\ (main' \in {"idle", "resolution"} => boat) /\ (main' \in {"graphics", "persist"} => ~boat)
      BY <1>3 DEF Choose
    <3> QED BY <2>2, <2>3, <3>1, <3>2 DEF SheetIsCurrent, SavedFirst, ChoicesSurvive
  <2> QED BY <2>6, <2>7, <2>8 DEF IInv
<1> QED BY <1>1, <1>2, <1>3

\* The handler goes on.  Only Persist touches the dictionary, and it writes
\* what the sheet shows, which is what the player chose.
LEMMA HandlerKeepsIInv ==
  ASSUME IInv, Handler
  PROVE  IInv'
<1> USE SettingsAssumption
<1>0. /\ main # "idle" /\ sheet = chosen /\ sheet \in Settled
      /\ saved \in Dictionaries /\ Effective(saved) \in Settled
  BY EffectiveIsSettled DEF Handler, StoreVolume, StoreResolution, StoreAspect, StoreChanged, SetGraphicsConfig, Persist,
     HandlerStep, IInv, TypeOK, SheetIsCurrent, Dictionaries
<1>1. CASE Persist
  <2>1. saved' \in Dictionaries /\ Effective(saved') = chosen' /\ ~boat
    BY <1>0, <1>1, PersistKeepsSheet DEF Handler, Persist, HandlerStep, IInv, SavedFirst
  <2>2. TypeOK'
    BY <1>1, <2>1 DEF Handler, Persist, HandlerStep, HandlerSteps, IInv, TypeOK
  <2> QED BY <1>0, <1>1, <2>1, <2>2 DEF Handler, Persist, HandlerStep, IInv, ChoicesSurvive, OverlayShowsSettings, SheetIsCurrent, SavedFirst
<1>2. CASE ~Persist
  <2>0. resolutionModeFromSettings(saved) \in 0..4 /\ Value(saved.aspect, 0) \in 0..1
    BY <1>0 DEF Effective, Settled
  <2>1. atoms' \in Atomics
    <3> USE DEF IInv, TypeOK, Atomics
    <3>1. CASE StoreVolume
      BY <3>1, <1>0 DEF StoreVolume, Settled
    <3>2. CASE StoreResolution
      BY <3>2, <2>0 DEF StoreResolution
    <3>3. CASE StoreAspect
      BY <3>3, <2>0 DEF StoreAspect
    <3>4. CASE StoreChanged
      BY <3>4 DEF StoreChanged
    <3>5. CASE SetGraphicsConfig
      BY <3>5 DEF SetGraphicsConfig
    <3> QED BY <1>2, <3>1, <3>2, <3>3, <3>4, <3>5 DEF Handler
  <2>2. config' \in Configs
    BY <1>0, <1>2, ConfigIsTyped DEF Handler, StoreVolume, StoreResolution, StoreAspect, StoreChanged, SetGraphicsConfig,
       IInv, TypeOK, Settled
  <2>3. /\ saved' = saved
        /\ main' \in {"idle", "changed", "persist", "aspect"}
        /\ main' \in {"idle", "changed", "aspect"} => boat
        /\ main' = "persist" => ~boat
    BY <1>2 DEF Handler, StoreVolume, StoreResolution, StoreAspect, StoreChanged, SetGraphicsConfig, HandlerStep, IInv, SavedFirst
  <2>4. TypeOK'
    BY <2>1, <2>2, <2>3 DEF Handler, HandlerSteps, IInv, TypeOK
  <2> QED BY <1>0, <2>3, <2>4 DEF Handler, IInv, ChoicesSurvive, OverlayShowsSettings, SheetIsCurrent, SavedFirst
<1> QED BY <1>1, <1>2

\* A frame reads what it finds: nothing of the invariant but its types depends on it.
LEMMA FrameKeepsIInv ==
  ASSUME IInv, Frame
  PROVE  IInv'
<1> USE SettingsAssumption
<1>1. frame' \in Frames /\ atoms' \in Atomics /\ previous' \in 0..4 /\ shown' \in Images
  <2> USE DEF At, IInv, TypeOK
  <2>1. CASE ReadMode
    BY <2>1 DEF ReadMode, Frames, FrameSteps
  <2>2. CASE AutomaticScale
    <3>1. frame.size \in Nat \X Nat
      BY DEF Frames
    <3>2. automatic_scale(frame.size, atoms.aspect # 0) \in 0..4
      <4>1. automatic_scale(frame.size, atoms.aspect # 0) \in 1..4
        BY <3>1, AutomaticScaleIsAScale
      <4> QED BY <4>1
    <3> QED BY <2>2, <3>2 DEF AutomaticScale, Frames, FrameSteps
  <2>3. CASE FixedScale
    BY <2>3 DEF FixedScale, Frames, FrameSteps, Atomics
  <2>4. CASE CompareScale
    BY <2>4 DEF CompareScale, Frames, FrameSteps, Atomics
  <2>5. CASE ExchangeChanged
    BY <2>5 DEF ExchangeChanged, Frames, FrameSteps, Atomics
  <2>6. CASE ReadVolume
    BY <2>6 DEF ReadVolume, Frames, FrameSteps, Atomics, Images
  <2>7. CASE ReadAspectX
    BY <2>7 DEF ReadAspectX, Frames, FrameSteps, Atomics, Images
  <2>8. CASE ReadAspectY
    BY <2>8 DEF ReadAspectY, Frames, FrameSteps, Atomics, Images
  <2>9. CASE UpdateConfig
    BY <2>9, ScaleIsTyped DEF UpdateConfig, Atomics, Images
  <2> QED BY <2>1, <2>2, <2>3, <2>4, <2>5, <2>6, <2>7, <2>8, <2>9 DEF Frame
<1>2. TypeOK'
  BY <1>1 DEF Frame, IInv, TypeOK, store
<1> QED BY <1>2 DEF Frame, IInv, store, ChoicesSurvive, OverlayShowsSettings, SheetIsCurrent, SavedFirst

\* The three invariants of the settings, with what their induction needs.
THEOREM InvariantHolds == Spec => []IInv
<1>1. IInv /\ [Next]_vars => IInv'
  <2> SUFFICES ASSUME IInv, [Next]_vars PROVE IInv'
    OBVIOUS
  <2>1. CASE UNCHANGED vars
    BY <2>1 DEF vars, store, game, IInv, TypeOK, ChoicesSurvive, OverlayShowsSettings, SheetIsCurrent, SavedFirst
  <2> QED BY <2>1, LifeKeepsIInv, SheetKeepsIInv, HandlerKeepsIInv, FrameKeepsIInv DEF Next
<1> QED BY <1>1, InitEstablishesIInv, PTL DEF Spec

\* Changing one setting never changes another, in either build, from any
\* version's dictionary, and whenever the app is killed.
THEOREM ChoicesAlwaysSurvive == Spec => []ChoicesSurvive
<1>1. IInv => ChoicesSurvive
  BY DEF IInv
<1> QED BY <1>1, InvariantHolds, PTL

\* The overlay never shows another touch setting than the player's last one.
THEOREM OverlayAlwaysShowsSettings == Spec => []OverlayShowsSettings
<1>1. IInv => OverlayShowsSettings
  BY DEF IInv
<1> QED BY <1>1, InvariantHolds, PTL

-----------------------------------------------------------------------------
(* What reaches the engine. *)

\* Before a launch nothing of the game is there that could act on the settings.
NothingBeforeLaunch ==
  ~running => main = "idle" /\ sheet = Closed /\ overlay = Missing /\ frame.step = "idle"

\* What the engine reads is what was chosen, unless the handler has still to store it.
AtomsAreChosen ==
  running =>
    /\ main # "volume" => atoms.volume = chosen.volume
    /\ boat /\ main \notin {"resolution", "aspect"} => atoms.aspect = chosen.aspect
    /\ boat /\ main # "resolution" => atoms.resolution = chosen.resolution
    /\ ~boat /\ main # "graphics" => config = GraphicsConfig(chosen.resolution, chosen.aspect)

\* The steps in which a frame of PaperBoat hands the settings to the engine.
Reading == {"volume", "aspectX", "aspectY"}

\* Where the engine lags behind, somebody owes it the news: settingsChanged is set,
\* a handler is about to set it, or a frame is about to read the value.
ChangeIsOwed ==
  running /\ boat =>
    /\ shown.volume # chosen.volume =>
         atoms.changed \/ frame.step = "volume" \/ main \in {"volume", "changed"}
    /\ shown.aspectX # chosen.aspect =>
         \/ atoms.changed \/ frame.step \in {"volume", "aspectX"}
         \/ main \in {"resolution", "aspect", "changed"}
    /\ shown.aspectY # chosen.aspect =>
         \/ atoms.changed \/ frame.step \in Reading
         \/ main \in {"resolution", "aspect", "changed"}
    /\ shown.scale # previous => atoms.changed \/ frame.step \in Reading
    /\ frame.step \in {"exchange"} \cup Reading => frame.scale = previous

EngineInv == NothingBeforeLaunch /\ AtomsAreChosen /\ ChangeIsOwed

\* Once no handler runs, what the engine was told is what the player chose, and the
\* scale is the one found last, unless it is about to look: a change that arrives
\* while a frame is reading the last one is not lost with its settingsChanged. In the
\* Original build, what the runtime takes its values from is what was chosen.
NoChoiceIsLost ==
  running /\ main = "idle" =>
    IF boat
    THEN ~atoms.changed /\ frame.step \notin Reading =>
           shown = [volume |-> chosen.volume, aspectX |-> chosen.aspect,
                    aspectY |-> chosen.aspect, scale |-> previous]
    ELSE /\ atoms.volume = chosen.volume
         /\ config = GraphicsConfig(chosen.resolution, chosen.aspect)

\* The process starts with what its dictionary means, and ends with nothing.
LEMMA LifeKeepsEngine ==
  ASSUME IInv, EngineInv, Launch \/ AttachOverlay \/ Kill \/ \E size \in Screens : Resize(size)
  PROVE  EngineInv'
<1>1. CASE Launch
  <2>1. /\ main = "idle" /\ Effective(saved) = chosen /\ frame.step = "idle" /\ atoms \in Atomics
    BY <1>1 DEF Launch, IInv, TypeOK, ChoicesSurvive, EngineInv, NothingBeforeLaunch
  <2>2. running' /\ main' = main /\ chosen' = chosen /\ frame' = frame /\ boat' = boat
    BY <1>1 DEF Launch, store
  <2>3. /\ atoms'.volume = chosen.volume /\ atoms'.changed
        /\ boat => atoms'.resolution = chosen.resolution /\ atoms'.aspect = chosen.aspect
        /\ ~boat => config' = GraphicsConfig(chosen.resolution, chosen.aspect)
    BY <1>1, <2>1 DEF Launch
  <2> QED
    BY <2>1, <2>2, <2>3 DEF EngineInv, NothingBeforeLaunch, AtomsAreChosen, ChangeIsOwed, Reading
<1>2. CASE Kill
  BY <1>2 DEF Kill, NewFrame, EngineInv, NothingBeforeLaunch, AtomsAreChosen, ChangeIsOwed
<1>3. CASE AttachOverlay \/ \E size \in Screens : Resize(size)
  <2>1. /\ UNCHANGED <<boat, main, sheet, chosen, running>> /\ UNCHANGED game
        /\ running \/ overlay' = overlay
    BY <1>3 DEF AttachOverlay, Resize, store
  <2> QED
    BY <2>1 DEF game, EngineInv, NothingBeforeLaunch, AtomsAreChosen, ChangeIsOwed
<1> QED
  BY <1>1, <1>2, <1>3

\* A choice is made, and its handler has it to store.
LEMMA SheetKeepsEngine ==
  ASSUME IInv, EngineInv,
         OpenSheet \/ CloseSheet \/ \E key \in Keys : \E value \in Values[key] : Choose(key, value)
  PROVE  EngineInv'
<1>1. CASE OpenSheet \/ CloseSheet
  <2>1. UNCHANGED <<boat, main, overlay, chosen, running>> /\ UNCHANGED game /\ running
    BY <1>1 DEF OpenSheet, CloseSheet, EngineInv, NothingBeforeLaunch
  <2> QED
    BY <2>1 DEF game, EngineInv, NothingBeforeLaunch, AtomsAreChosen, ChangeIsOwed
<1>2. ASSUME NEW key \in Keys, NEW value \in Values[key], Choose(key, value)
      PROVE  EngineInv'
  <2>1. /\ UNCHANGED <<boat, running>> /\ UNCHANGED game /\ running /\ main = "idle"
        /\ chosen \in Settled /\ chosen' = [chosen EXCEPT ![key] = value]
    BY <1>2 DEF Choose, IInv, TypeOK, EngineInv, NothingBeforeLaunch
  <2>2. key \in {"volume", "resolution", "aspect", "touch"}
    BY DEF Keys, Values
  <2>3. /\ key # "volume" => chosen'.volume = chosen.volume
        /\ key # "resolution" => chosen'.resolution = chosen.resolution
        /\ key # "aspect" => chosen'.aspect = chosen.aspect
    BY <2>1, <2>2 DEF Settled
  <2>4. /\ key = "volume" => main' = "volume"
        /\ key \in {"resolution", "aspect"} => main' = IF boat THEN "resolution" ELSE "graphics"
        /\ key = "touch" => main' = IF boat THEN "idle" ELSE "persist"
    BY <1>2 DEF Choose
  <2>5. NothingBeforeLaunch'
    BY <2>1 DEF NothingBeforeLaunch
  <2>6. AtomsAreChosen'
    BY <2>1, <2>2, <2>3, <2>4 DEF game, EngineInv, AtomsAreChosen
  <2>7. ChangeIsOwed'
    BY <2>1, <2>2, <2>3, <2>4 DEF game, EngineInv, ChangeIsOwed
  <2> QED
    BY <2>5, <2>6, <2>7 DEF EngineInv
<1> QED
  BY <1>1, <1>2

\* The handler stores what was chosen, and settingsChanged after it.
LEMMA HandlerKeepsEngine ==
  ASSUME IInv, EngineInv, Handler
  PROVE  EngineInv'
<1>1. /\ main # "idle" /\ sheet = chosen /\ chosen \in Settled /\ atoms \in Atomics /\ running
      /\ boat => Effective(saved) = chosen
      /\ main \in {"resolution", "aspect", "changed"} => boat
      /\ main \in {"graphics", "persist"} => ~boat
  BY DEF Handler, StoreVolume, StoreResolution, StoreAspect, StoreChanged, SetGraphicsConfig, Persist,
     HandlerStep, IInv, TypeOK, SheetIsCurrent, SavedFirst, EngineInv, NothingBeforeLaunch
<1>2. UNCHANGED <<boat, sheet, overlay, chosen, frame, previous, shown, running>>
  BY DEF Handler
<1>3. NothingBeforeLaunch'
  BY <1>1, <1>2 DEF NothingBeforeLaunch
<1>4. AtomsAreChosen' /\ ChangeIsOwed'
  <2> USE DEF EngineInv, AtomsAreChosen, ChangeIsOwed, HandlerStep
  <2>1. CASE StoreVolume
    <3>1. /\ atoms'.volume = chosen.volume /\ atoms'.aspect = atoms.aspect
          /\ atoms'.resolution = atoms.resolution /\ atoms'.changed = atoms.changed
      BY <1>1, <2>1 DEF StoreVolume, Atomics
    <3> QED
      BY <1>1, <1>2, <2>1, <3>1 DEF StoreVolume
  <2>2. CASE StoreResolution
    <3>1. /\ atoms'.volume = atoms.volume /\ atoms'.aspect = atoms.aspect
          /\ atoms'.resolution = chosen.resolution /\ atoms'.changed = atoms.changed
      BY <1>1, <2>2 DEF StoreResolution, Atomics, Effective
    <3> QED
      BY <1>1, <1>2, <2>2, <3>1 DEF StoreResolution
  <2>3. CASE StoreAspect
    <3>1. /\ atoms'.volume = atoms.volume /\ atoms'.aspect = chosen.aspect
          /\ atoms'.resolution = atoms.resolution /\ atoms'.changed = atoms.changed
      BY <1>1, <2>3 DEF StoreAspect, Atomics, Effective
    <3> QED
      BY <1>1, <1>2, <2>3, <3>1 DEF StoreAspect
  <2>4. CASE StoreChanged
    <3>1. /\ atoms'.volume = atoms.volume /\ atoms'.aspect = atoms.aspect
          /\ atoms'.resolution = atoms.resolution /\ atoms'.changed
      BY <1>1, <2>4 DEF StoreChanged, Atomics
    <3> QED
      BY <1>1, <1>2, <2>4, <3>1 DEF StoreChanged
  <2>5. CASE SetGraphicsConfig \/ Persist
    BY <1>1, <1>2, <2>5 DEF SetGraphicsConfig, Persist
  <2> QED
    BY <2>1, <2>2, <2>3, <2>4, <2>5 DEF Handler
<1> QED
  BY <1>3, <1>4 DEF EngineInv

\* A frame clears settingsChanged before it reads what was stored before it.
LEMMA FrameKeepsEngine ==
  ASSUME IInv, EngineInv, Frame
  PROVE  EngineInv'
<1>1. /\ atoms \in Atomics /\ frame \in Frames /\ shown \in Images /\ running
  BY DEF IInv, TypeOK, Frame, ReadMode, AutomaticScale, FixedScale, CompareScale, ExchangeChanged,
         ReadVolume, ReadAspectX, ReadAspectY, UpdateConfig, At
<1>2. UNCHANGED <<boat, main, chosen, config, running>>
  BY DEF Frame, store
<1>3. NothingBeforeLaunch'
  BY <1>1, <1>2 DEF NothingBeforeLaunch
<1>4. /\ atoms'.volume = atoms.volume /\ atoms'.aspect = atoms.aspect
      /\ atoms'.resolution = atoms.resolution
  BY <1>1 DEF Frame, ReadMode, AutomaticScale, FixedScale, CompareScale, ExchangeChanged,
              ReadVolume, ReadAspectX, ReadAspectY, UpdateConfig, Atomics
<1>5. AtomsAreChosen'
  BY <1>2, <1>4 DEF EngineInv, AtomsAreChosen
<1>6. ChangeIsOwed'
  <2> USE DEF EngineInv, ChangeIsOwed, AtomsAreChosen, Reading, At
  <2>1. CASE ReadMode \/ AutomaticScale \/ FixedScale
    <3>1. /\ UNCHANGED <<atoms, previous, shown>>
          /\ frame.step \notin {"exchange"} \cup Reading
          /\ frame'.step \notin {"exchange"} \cup Reading
      BY <1>1, <2>1 DEF ReadMode, AutomaticScale, FixedScale, Frames
    <3> QED
      BY <1>1, <1>2, <3>1
  <2>2. CASE CompareScale
    <3>1. /\ frame.step = "compare" /\ frame'.step = "exchange" /\ frame'.scale = frame.scale
          /\ previous' = frame.scale /\ shown' = shown
          /\ atoms'.changed <=> (atoms.changed \/ frame.scale # previous)
      BY <1>1, <2>2 DEF CompareScale, Frames, Atomics
    <3> QED
      BY <1>1, <1>2, <3>1
  <2>3. CASE ExchangeChanged
    <3>1. /\ frame.step = "exchange" /\ frame'.scale = frame.scale
          /\ frame'.step = IF atoms.changed THEN "volume" ELSE "idle"
          /\ previous' = previous /\ shown' = shown
      BY <1>1, <2>3 DEF ExchangeChanged, Frames
    <3> QED
      BY <1>1, <1>2, <3>1
  <2>4. CASE ReadVolume
    <3>1. /\ frame.step = "volume" /\ frame'.step = "aspectX" /\ frame'.scale = frame.scale
          /\ shown'.volume = atoms.volume /\ shown'.aspectX = shown.aspectX
          /\ shown'.aspectY = shown.aspectY /\ shown'.scale = shown.scale
          /\ previous' = previous /\ atoms' = atoms
      BY <1>1, <2>4 DEF ReadVolume, Frames, Images
    <3> QED
      BY <1>1, <1>2, <3>1
  <2>5. CASE ReadAspectX
    <3>1. /\ frame.step = "aspectX" /\ frame'.step = "aspectY" /\ frame'.scale = frame.scale
          /\ shown'.volume = shown.volume /\ shown'.aspectX = atoms.aspect
          /\ shown'.aspectY = shown.aspectY /\ shown'.scale = shown.scale
          /\ previous' = previous /\ atoms' = atoms
      BY <1>1, <2>5 DEF ReadAspectX, Frames, Images
    <3> QED
      BY <1>1, <1>2, <3>1
  <2>6. CASE ReadAspectY
    <3>1. /\ frame.step = "aspectY" /\ frame'.step = "idle" /\ frame'.scale = frame.scale
          /\ shown'.volume = shown.volume /\ shown'.aspectX = shown.aspectX
          /\ shown'.aspectY = atoms.aspect /\ shown'.scale = frame.scale
          /\ previous' = previous /\ atoms' = atoms
      BY <1>1, <2>6 DEF ReadAspectY, Frames, Images
    <3> QED
      BY <1>1, <1>2, <3>1
  <2>7. CASE UpdateConfig
    BY <1>2, <2>7 DEF UpdateConfig
  <2> QED
    BY <2>1, <2>2, <2>3, <2>4, <2>5, <2>6, <2>7 DEF Frame
<1> QED
  BY <1>3, <1>5, <1>6 DEF EngineInv

\* No change is lost on its way to the engine, in either build, for every set of
\* screens and any number of changes, launches and kills: what EngineFollows rests on,
\* without the fairness that brings it about (PaperPadBoat_Frame, settingsChanged).
THEOREM ChoicesReachTheEngine == Spec => []NoChoiceIsLost
<1>1. Init => EngineInv
  BY DEF Init, EngineInv, NothingBeforeLaunch, AtomsAreChosen, ChangeIsOwed, NewFrame
<1>2. IInv /\ EngineInv /\ [Next]_vars => EngineInv'
  <2> SUFFICES ASSUME IInv, EngineInv, [Next]_vars PROVE EngineInv'
    OBVIOUS
  <2>1. CASE UNCHANGED vars
    BY <2>1 DEF vars, store, game, EngineInv, NothingBeforeLaunch, AtomsAreChosen, ChangeIsOwed
  <2> QED
    BY <2>1, LifeKeepsEngine, SheetKeepsEngine, HandlerKeepsEngine, FrameKeepsEngine DEF Next
<1>3. IInv /\ EngineInv => NoChoiceIsLost
  <2> SUFFICES ASSUME IInv, EngineInv, running, main = "idle" PROVE NoChoiceIsLost
    BY DEF NoChoiceIsLost
  <2>1. shown = [volume |-> shown.volume, aspectX |-> shown.aspectX,
                 aspectY |-> shown.aspectY, scale |-> shown.scale]
    BY DEF IInv, TypeOK, Images
  <2>2. CASE boat
    <3>1. ASSUME ~atoms.changed, frame.step \notin Reading
          PROVE  /\ shown.volume = chosen.volume /\ shown.aspectX = chosen.aspect
                 /\ shown.aspectY = chosen.aspect /\ shown.scale = previous
      BY <2>2, <3>1 DEF EngineInv, ChangeIsOwed, Reading
    <3> QED
      BY <2>1, <2>2, <3>1 DEF NoChoiceIsLost
  <2>3. CASE ~boat
    BY <2>3 DEF EngineInv, AtomsAreChosen, NoChoiceIsLost
  <2> QED
    BY <2>2, <2>3
<1> QED
  BY <1>1, <1>2, <1>3, InvariantHolds, PTL DEF Spec
=============================================================================
