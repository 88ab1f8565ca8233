# PaperPad: models, checks and proofs

PaperPad runs Paper Mario on iPadOS and macOS. Two builds share this repository:

* **Original**, a static recompilation: `src/paperpad_main.cpp` starts the N64 runtime, drives SDL and RT64, and the UIKit
  shell in `apple/app/` adds the touch overlay, the settings, the ROM setup and the diagnostics;
* **PaperBoat** (`PAPERPAD_APP`, the current one): the same shell around another engine, glued by `apple/paperboat/bridge.mm`.

The engines themselves are submodules and not part of the repository. What is modelled here is PaperPad's own control
logic: the parts where several actors, or a crash, meet the same state. This file lists the parts, says which module stands
for which, what TLC checks on small instances, what TLAPS proves for all of them, and what is left.

## 1. The system

| Component | State | Operations | Talks to |
|---|---|---|---|
| Slot table (`src/controller_slots.*`) | four slots: handle, instance id | `reconcile`, `release_instance`, `close_all`, `player_handle` | a `ControllerBackend` (SDL) |
| Controller driver, Original (`paperpad_main.cpp`) | `controller_mutex`, reported state | SDL device events, the check once a second, `get_input`, shutdown | slot table, overlay (through the main dispatch queue) |
| Input poll, Original (`get_input`) | keyboard tap latches, what was logged last | key events, the poll's merge of keys, controller and touch | slot table, tap latch, overlay |
| Bridge, PaperBoat (`bridge.mm`) | `active`, `modal`, `nativeModal`, key taps, settings | `Frame`, `ReadController`, `ReportSaveError`, `eventWatch`, `prepareAssets` | slot table, overlay, engine |
| Touch overlay (`ios_main.mm`) | touch roles, four flags, the shared atomics | touch callbacks, hide/clear/edit calls, `paperpad_touch_snapshot` | tap latch; polled by the game thread |
| Tap latch (`touch_tap_latch.h`) | sixteen atomic counters | `extend`, `clear`, `clearAll`, `consume` | main thread and game thread |
| Menu and sheets (`ios_main.mm`, `rom_setup.mm`, `diagnostics.mm`) | UIKit's presentation stack | menu actions, dismissals, alerts | overlay, bridge |
| ROM setup (`rom_setup.mm`, `ensure_rom_installed`, `prepareAssets`) | `baserom.z64`, `rom.cfg`, the engine's copy or archive | import, replace, remove, validate, extract | file system |
| Diagnostics (`diagnostics.mm`) | two log files, two marker files | start (rotation), the log thread, finish, report, share | file system |
| Save merge (`scripts/merge-paper-mario-save-slot.py`) | save images | one run per merge | file system |
| Settings, layout (`ios_main.mm`) | two dictionaries in `NSUserDefaults` | load, save, the settings sheet | overlay, bridge, renderer |
| Audio, Original (`paperpad_main.cpp`) | device, stream, rate, telemetry | `set_frequency`, `queue_samples`, `get_frames_remaining` | game thread, SDL's audio thread |
| Render context, Original (`paper_rt64_context.cpp`) | user config, framebuffers (RT64's), three atomics | `send_dl`, `update_config`, `update_screen`, `enable_instant_present` | the runtime's action queue, RT64, the settings sheet |
| Tracing, hooks, paths, watchdogs | little | straight-line calls | engine, Foundation |
| Scripts, patches | none at run time | build, package, verify | git, CMake |

Who runs where matters most. UIKit's callbacks, SDL's events and the main dispatch queue share the main thread, so they are
atomic against each other but come in any order. The game's input poll is another thread: with the slot table it shares a
mutex, with the overlay relaxed atomics only. Log writing is a thread of its own, and iOS may kill the process at any point.

What makes each part correct:

* slot table: a player keeps the controller it was given until that controller is gone; nobody has two slots; every handle
  opened is closed once; every attached controller is served in the end;
* driver: the poll never uses a closed handle; the overlay hides its controls if and only if a controller has a slot;
* tap latch and poll: a tap of a key or a finger lasts the promised number of polls, and ends; what was cleared stays silent; the log tells what the game was given;
* overlay: hidden controls are neutral; what the poll sees is what the fingers hold; a flick is replayed once; input ends when the fingers are gone;
* suspension: what is on the screen keeps the game's input neutral, and controls and input come back after it; no key pressed in a menu is played;
* layout editor: an edit that was finished survives the app; UNDO throws no move, size or look away; a linked group moves as one and stays on the screen;
* settings: changing one setting keeps the others, over versions and kills; overlay and engine end up with the player's choice;
* audio: sound is lost only where an error is counted or the rate changes; what is buffered, and so the delay, is bounded; an underrun that comes before a callback looks at the queue, or soon after, is counted; what failed is made up for;
* render context: no half-built frame is shown, no framebuffer outlives its scale, and the sheet's numbers end up as what the renderer does;
* ROM library: the game starts from verified and whole data only, and after a removal that found its files not at all until a ROM is imported;
* save merge: the merged image keeps every other file, has the new one as the current one, and no existing file is overwritten;
* diagnostics: the logs on offer are those of the last sessions, bounded, and the unclean label is on the right one.

`PROJECT.json` lists, under `hazards`, the lines where each of these could go wrong and the properties that would catch it.

## 2. The modules

A module `MCx` only gives `x` its instance for TLC. The theorems are in eight modules: `ControllerInputProofs` (slot table and driver), `GetInputProofs` (tap latch and poll),
`OverlayProofs` (touch overlay, suspension, PaperBoat's keys), `FileProofs` (save merge, ROM library, diagnostics log), `LayoutEditorProofs`, `SettingsProofs`, `AudioQueueProofs` and `RenderContextProofs`. Operators commented "Mutant of ..." are not
part of any specification: they are plausible bugs of the code, used to see that a property notices them.

### `PlayerSlots`, `ControllerSlots`, `ControllerInput`

`ControllerSlots` is `controller_slots.cpp` with the backend it drives. `reconcile` is not atomic: `ControllerBackend` makes no
promise that devices stand still between calls, so `BeginReconcile` (enumerate), `CheckSlot` (a round of the release loop),
`SkipAssigned`, `OpenSucceeds`/`OpenFails` (the open), `AssignOpened`/`RejectOpened` (what is made of the handle) and
`EndReconcile` are steps of their own, and `Attach` and `Detach` change the device list in between. A device index may
therefore name another controller when it is opened, which is what the comparison after the open is for. A handle is modelled
as the id of its device, because `SDL_GameControllerOpen` returns one object per device and counts references: `refs`.
`release_instance` and `close_all` make no decision after a backend call and are one step each.

`PlayerSlots` is the promise made to the game, without handles, snapshots or indexes: a slot is taken from its owner only once
the owner is detached (or at shutdown), it is given to an attached controller that has none, and the lowest free slot goes first.
`ControllerSlots` implements it under `owner <- handle`, `attached <- the device list`.

`ControllerInput` extends `ControllerSlots` with what `paperpad_main.cpp` adds: `controller_mutex` and who holds it, removal
events that arrive late or never, the report of the aggregate state, the main dispatch queue with the overlay's creation and
the reported states in it, and `get_input`'s use of player 1's handle. The main thread's run loop executes queued blocks only
between two calls of `update_gfx`. The table is checked under this driver, with the devices coming and going between any two backend calls.

### `TouchTapLatch`, `GetInput`

`TouchTapLatch` is the latch with one step per load, per exchange and per store; a weak exchange may fail without a reason. `pressed` and `given` are history: the
bits that were pressed since they were cleared, and how many polls have reported each since its last extend began. `Bits` counters, held for `HoldPolls` polls.

`GetInput` extends it with the poll it serves. `Begin` starts `get_input`; `KeyLoad`, `KeySwaps`, `KeyFails` are the retry loop on a key's latch, `KeyState` what the keyboard says of a key without a tap; `ReadPad` applies
the bindings of player 1's controller, dead zones included (`gamepad_binding_strengths`, `normalize_axis`), `ReadTouch` is the overlay's snapshot, whose taps are the latch's `Consume` steps, and `Give` merges all of it, clamps the stick,
decides on the log line and returns. `KeyDown` and the latch's `Extend` and `ClearAll` are the main thread. `input_actions` is the table of the code, of which a run uses some keys (`Used`, `Tapped`). `keyGiven` and `taps` are history: how many polls gave a pressed key's button.
`recent` says that the last line is less than 100 ms old, and `line` is what it said.

### `TouchOverlay`

A UIKit callback is one step on the overlay's own state (`role`, `tilt`, the flags), and leaves in `stores` the atomics it still
has to store to: they come out one by one in any order, since they are relaxed, and the poll's loads happen in between. The next
callback starts when they are out. `Boat` selects the build: a floating stick with a single owner, or a fixed one; the runs are those of
the floating one. Positions are abstracted to "which control is under the finger" and "which deflection beyond the dead zone". `x` and `y` are one value.
History: `replays`, `leaked` (the editor was left with a finger on a control).

### `LayoutEditor`

The editor and what it leaves in `NSUserDefaults`. `layout` is `_controls` with the two link flags, `undo` is `_undoControls` with `_hasUndo`.
A finger takes a control (`TouchBegan`), moves it or its linked group (`TouchMoved`) and lets go, which saves; the toolbar's buttons and the menu's reset come between
the finger's callbacks, since a second finger can tap them. Geometry is one axis of a grid, radius and size are one number, opacity and visibility one value (`look`).

### `Settings`

A choice on its way to the dictionary, the overlay and the engine. `main` is what the handler does next: PaperBoat saves (`Choose`), then stores volume or resolution and aspect,
then `settingsChanged`; the Original build applies first and saves all controls of its sheet at the end (`Persist`). `ReadMode` ... `ReadAspectY` are `PaperPadBoat_Frame`, one step per
load of an atomic; `UpdateConfig` is the Original build's renderer, with the mapping from mode to option (`GraphicsConfig`) and from option to scale (`UserScale`).
`chosen` is a history variable. `Kill` ends the process anywhere; what it forgives is the choice whose handler had not ended.
The sources do not say on which thread PaperBoat's engine calls the frame hook (`bridge.mm` asks with `NSThread.isMainThread`), so the model lets its loads and the handlers' stores interleave.

### `InputSuspension`, `BoatInput`

The PaperBoat build's flag `modal` and those who write it, callback by callback on the main thread: the native menu (through `visibilityChanged`), the menu actions, which are
performed 0.4 s after they were chosen (`Choose`, then `PerformSheet`, `PerformShare`, `PerformRom`, `PerformOnControls`), the ways out of the sheets, and the save alert, which saves and restores the flag. `Frame` refreshes `nativeModal`.
UIKit itself is modelled from its use: the topmost sheet is dismissed first, and the menu can be opened only when no sheet covers its button (a touch at the button's place opens it while it is hidden, too: `handleToolbarPoint`, `ios_main.mm:757`).

Three callbacks come at a time of their own, and the model lets anything happen before them. A menu action does not wait for the menu to have gone: its sheet may come while the closing animation runs, or while the menu is open again.
The share sheet is presented by a queued block (`PresentShare`), 0.35 s after the problem report if it was chosen there (`ShareFromReport`); that block sets no flag and relies on the one that the menu action or the report has left. The answer to "Report on GitHub" (`ReportOnGitHub`, `GitHubAnswered`) is what resumes the input, whenever it comes and whatever is on the screen by then.
`late` is history: since the menu was opened last, one of these came when the flag it relies on, or writes, was no longer its own.

`BoatInput` adds the taps of a key: `KeyDown` is `eventWatch`, the other steps are `PaperPadBoat_ReadController`, load by load (`LoadActive`, `LoadModal`, `LoadNativeModal`, then `ClearTaps`, or `LoadTap` and the single compare-exchange, `CountTap`).
`eventWatch` runs on the main thread, where SDL delivers its events between UIKit's callbacks, so it is one step; the poll interleaves with everything. A tap pressed just before an alert or a sheet can still be played by a poll that has looked at the flags already; `inMenu` tells such a tap from one pressed in the menu (before any callback came too late).

### `RomLibrary`

The player's ROM and what the builds make of it, one action per file operation, each of which can fail (`StorageFails`) or be the last one before the app is killed (`Stop`).
`boat` is the build. `Import` picks a file that is supported or fails one of the checks; `RemoveRom`, `RemoveConfig`, `RemoveArchive` are `removeROM` in its order, `RemoveNothing` (no application support directory) and `RemoveRomFails` its early ends.
`asked` remembers that the player was told of a removal, `reached` that one of which the player was told since the last import had found the directory.
A launch verifies the ROM and then either stores the runtime's copy (`LoadCopy`, `WriteCopy`, `LoadNewCopy`) or uses, keeps aside and extracts the archive (`UseArchive` ... `RemoveWorkspace`).
Files can go bad while the app is off (`Spoil`). The macOS file picker is not modelled.

### `SaveMerge`

The merge script. A sector is a record of words modulo `Modulus` (2^32 in the program): magic, two checksum words, file, counter and one word
for the rest of the data, over which the checksum is a sum. `Verdict` is the script's own chain of tests and errors for a triple of
paths and a file; a run that gets through computes `Merge`, and its output appears first as `Partial` and then whole.

### `DiagnosticsSession`

`paperpad_start_diagnostics_log` with one step per file operation, the log thread's bounded writes, the finish, and a `Crash` that can happen
between any two. A log file is represented by the number of the launch that wrote it. Whether the storage works or may fail is chosen once per behaviour (`storageFails`).

### `AudioQueue`

The path of a block of sound. Sound is counted in ticks of 2.5 ms, each of which carries a label in the order the game rendered it, so that a cut, a repetition or a swap shows as a gap. `Render` is the game, which renders a long block when `get_frames_remaining` says that it is behind and a short one otherwise;
`Put`, `Drain`, `QueueAudio` and their failing twins are `queue_samples`, SDL call by SDL call, with its early returns; `Report` is `report_audio_telemetry`, whose window ends at any time after the first call. `Tick` is the device, which plays on between those calls. `SetFrequency` replaces the stream and drops what was in it.
The resampler's look-ahead is `Held`. `dry` and `dryCallbacks` remember that the device ran out of sound between two full callbacks, or within 5 ms (`FiveMs`) of the second's look at its queue.

### `RenderContext`

The runtime's action queue with the three things it carries (tasks, screen updates, config changes), the graphics thread that takes them one at a time (`SendDl`, `Complete`, `UpdateScreen` and its stores, `UpdateConfig`), the game that submits two tasks a frame, and the settings sheet that asks for configs and reads the three atomics back one by one.
`apply_user_config` and `to_rt64` are the code's mappings; what RT64 makes of a setting (`RenderScale`), and that it discards framebuffers (`Discard`), are modelled from their use. A framebuffer is the set of tasks drawn into it and the scale it was drawn at.

## 3. The runs

| Run | Bounds | What it shows |
|---|---|---|
| `ControllerInput` | 2 slots, 3 game controllers, each connected once, with fairness | `SlotIdentity`, `HandlesBalanced`, `PollUsesOpenHandle`, `OverlayFollowsSlots`; refinement of `PlayerSlots` (`SlotsKeepPromise`); `EveryoneServed` |
| `GetInput` | 1 counter held for 3 polls, 2 keys and bindings, key taps of 2 polls, with fairness | `TapIsHeld`, `ClearedStaysSilent`, `TapEnds`, `KeyTapIsHeld`, `LogIsCurrent` |
| `TouchOverlay` | PaperBoat, 2 fingers, 1 button, 1 deflection, taps of 1 poll, with fairness | `SuppressedIsNeutral`, `SharedMatchesHeld`, `FlickReplayedOnce`, `InputEnds` |
| `LayoutEditor` | 3 controls, 2 of them linkable, 5 positions and a reach beyond, 2 sizes | `LayoutSurvives`, `UndoKeepsControls`, `LinkedGroupKeepsShape`, `LinkedGroupStaysOnScreen` |
| `Settings` | both builds, 4 screens, 3 changes (choices, resizes, kills), with fairness | `ChoicesSurvive`, `OverlayShowsSettings`, `EngineFollows` |
| `BoatInput` | one key, taps of 2 polls (4 in the code), one answer to openURL awaited, one share sheet queued and one menu action waiting at a time | `PresentedIsSuspended`, `ControlsComeBack`, `MenuPressIsSilent`, `BoatTapIsHeld` |
| `AudioQueue` | 2 rates, blocks of 2 and 4 ticks, 2 failing calls, 2 rate changes, calls of up to 7.5 ms, with fairness | `SoundIsContinuous`, `BufferIsBounded`, `PromptUnderrunsAreCounted`, `StreamDrains` |
| `RenderContext` | 4 modes, 1 of them saved, 2 changes, with fairness | `PresentedIsWhole`, `FramebuffersMatchConfig`, `LabelSettles` |
| `RomLibrary` | both builds, archives go bad twice | `StoredFilesAreWhole`, `RemovalAsksAgain`, `StartsFromVerifiedData` |
| `SaveMerge` | 3 sectors, 2 files, words modulo 8, 4 paths | `MergeIsSafe`, `FilesKept` |
| `DiagnosticsSession` | 4 launches, a log of at most 5 | `LabelMatchesLog`, `LogsAreRecent`, with storage that works and that fails |
| `RomRemoval` | as `RomLibrary`, storage that works | violates `RemovedRomIsGone` |

The type invariants that some modules define are used by the proofs.

Why these bounds are enough: two slots and three controllers make the table overflow and let a freed slot be taken by another
controller while a third waits, and the device under the preferred index changes as others come and go. The latch's counters do not influence each other, and each poll handles one key after the other, so one counter and two keys (a button and the stick) show every race; the proofs cover any number of counters.
Four ticks of a long block outlast the two between blocks, so the queue runs over and dry; two failures are one that is made up for and one that comes again meanwhile; a call of three ticks outlasts the 5 ms below which a callback counts. A tap of two polls can be taken down once, replaced, or dropped half way, as one of four. The four modes are Auto, two multipliers that share a resolution option, and Fill Screen; two changes let one overtake the other in the queue. Two fingers can fight over the stick, or
hold a control while the other one taps DONE. Two linkable controls on a screen that just holds both at their largest can be too far apart, too large and pushed to the edge; a third
one is selected while they change. Three changes are a choice, another one that overtakes it, and a kill or a resize between their stores and loads; the four screens are unknown, too small, narrow and larger than 4x. Two archives that go bad are one more than the one that is put aside.
Two launches are needed to mislabel a log and a third to see it kept, four leave room for
a crash during each. Three sectors for two files leave exactly one spare sector, the tightest case, and words modulo 8 make the
counter and the checksum wrap. The state spaces are the whole reachable ones under these constants: no other constraint is used. Ids
are used once each (SDL never reuses one), which bounds how often controllers come back. Deadlock is checked, except in `DiagnosticsSession`, where
the bound on launches ends every behaviour.

One run ends in a violation on purpose. It contradicts a sentence of the repository:

* `RomRemoval`: the Original build's removal looks for `papermario.us.1.0.z64` (`rom_setup.mm:317`), while the runtime's copy is called `pm.n64.us.z64`; it stays although the player is told that the private copy was removed.

Behaviours the models have, which are not stated as properties of their own:

* DONE in the layout editor ends the edit mode without clearing the roles of the fingers that drag controls; the next touch
  publishes them, even while a controller is connected (`ios_main.mm:769` and `:1008`; `docs/ARCHITECTURE.md:69` says otherwise). `SuppressedIsNeutral` and `SharedMatchesHeld` leave out exactly this episode (`leaked`);
* a save alert that comes up while input is suspended restores the suspension after what caused it has gone (`bridge.mm:239`): input stays suspended, with nothing on the screen, until the next menu or sheet goes. `ControlsComeBack` allows exactly this (`modal => previously`);
* a menu action's sheet that comes before the menu has gone loses its suspension when the menu goes (`ios_main.mm:163`, whose comment says that the menu "keeps physical and touch input neutral until dismissal"); the share sheet that follows a problem report is presented without suspension if an alert's OK or a menu has reset the flag in the 0.35 s before (`diagnostics.mm:382`; `docs/STATUS.md:53` says that share presentation suppresses gameplay input);
  and GitHub's answer resumes the input under a menu or a sheet that was opened before it came (`diagnostics.mm:395`). `PresentedIsSuspended` and `MenuPressIsSilent` leave these episodes out (`late`), until the menu is opened again;
* a flick stored between a poll's load and its exchange is consumed with the older one (`ios_main.mm:1121`);
* a linked group wider than the screen is pushed off its right edge (`ios_main.mm:872`), further with every relinking, which is why `LayoutEditor` has the bound `Reach` and `LinkedGroupStaysOnScreen` speaks of groups for which there is room;
* `resolution` is loaded twice in a frame (`bridge.mm:96`), so one frame may ask for a height of 0; `EngineFollows` shows that it is put right;
* what the log compares the stick with is updated although the 100 ms limit suppressed the line (`paperpad_main.cpp:1169`), so a direction that changed within 100 ms is never logged while the stick stays there; `LogIsCurrent` shows that buttons and releases are;
* PaperBoat's exchange of a key's tap that loses is not retried (`bridge.mm:140`), so a tap may last a poll longer;
* changing the rate drops up to what the stream holds (`paperpad_main.cpp:817`), and a failed `SDL_QueueAudio` the converted block; both are in the bound of `SoundIsContinuous`;
* a launch killed between its marker and its log leaves a marker that nobody labels (`diagnostics.mm:243`);
* LINK leaves UNDO on offer (`ios_main.mm:792`), and UNDO swaps the link flags back with the controls (`:777`): a link that was made, and stored, after a reset is taken back by it. `UndoKeepsControls` speaks of moves, sizes and looks only;
* `removeROM` without an application support directory removes nothing and shows the same message as after a removal (`rom_setup.mm:314` and `:333`), "PaperPad will ask for a ROM the next time it launches", and the next launch may start the game. `RemovalAsksAgain` speaks of the removals that found the directory (`reached`);
* a callback of `queue_samples` that finds 5 ms or more on the device and takes longer to convert its block than that sound lasts misses the underrun (`paperpad_main.cpp:914` and `:997`): it shows in no counter. `PromptUnderrunsAreCounted` leaves this case out;
* extraction workspaces of killed launches are never removed (`debris`).

### Fairness

* Driver (`MainFairness`): a call of `reconcile` runs to its end and is reported, `get_input` gives the mutex back (weak fairness); `update_gfx` starts a reconcile every second, which needs strong fairness because polls keep taking the mutex in between;
  the main thread's run loop keeps draining its queue; and a controller that stays attached can be opened in the end (strong fairness of `OpenSucceeds`). Without the last one a device that always fails to open is never served; the code retries once a second and promises no more.
* Poll and overlay: a started callback finishes its stores, and the game keeps polling. An exchange that keeps being retried succeeds in the end (strong fairness of `ExtendSwaps`, `ConsumeSwaps` and `KeySwaps`): a weak exchange may fail without a reason, but not for ever. Presses are not fair.
* Audio: the device plays, the game renders a block for every video interrupt, and `queue_samples` returns. Render context: the game draws, the graphics thread takes its actions, and the open sheet's timer runs.
* Settings: the app is launched again, a handler that began ends, and frames go on. What the player, the screen and iOS do is not fair; their changes are bounded.

## 4. The proofs

Every invariant named here is inductive and holds for every value of the constants that satisfies the named assumptions, which TLC evaluates in every run. None of the properties is inductive alone; what is added is said with each.

### Slot table and driver: `ControllerInputProofs`

For any number of slots, ids and controllers, `TypeOK`, `SlotIdentity`, `OneSlotPerController` and `HandlesBalanced` are invariants. `IInv` is their conjunction with `OpenPending`: while an opened handle is being decided on, a slot is free and
the item it was opened for has none; at all other times no handle is open. Without it, an opened handle could be given a slot although its controller has one, and its reference would be counted twice. `Refinement` proves
`Spec => Promise!Spec`: every step of the detailed table is a step of `PlayerSlots` or a stutter. Its invariant `RInv` adds that the device list has no duplicates, that all
owners are known ids, and that during the release loop every owner that is still attached is in the enumerated list (`OwnersListed`), so that the loop takes slots from departed controllers only.

Every step of the driver is one of the table's or leaves it alone (`DriverRefinesSlots`), so all of this holds of the composed system, including the promise (`DriverKeepsPromise`), and the poll never uses a closed handle (`PollIsSafe`): `Exclusion` says that the mutex is the main thread's during a reconcile and that the poll's handle is player 1's while it has the mutex,
and a handle in a slot is open because its reference is counted (`HandlesBalanced`).

Two theorems are what the liveness properties rest on, without fairness. `OverlayIsAlwaysTold`: an overlay to which no block is on its way shows what the table holds. `ReportIsCurrent` says that the last report is of the table as it is, except while the main thread is between a change and its report; `LastBlockIsCurrent` that the last block of the queue carries
that report, or makes the overlay, which reads it. `NoStaleOwnerSurvives`: when a reconcile ends, also when it breaks off because no slot is free, every slot is empty or plays a controller of its snapshot (`SnapshotInv`: the slots behind the release loop do, and the assign loop adds only items of the snapshot). That the item it visits is in the snapshot needs
the sort to have a first element for any preferred index (`FirstIsAnItem`).

### Tap latch and poll: `GetInputProofs`

`LatchInv` gives `TypeOK` (the counters never wrap), `TapIsHeld` and `ClearedStaysSilent` for any number of buttons and polls. The strengthening, `ExtendAccounts`, says what the
extend in progress owes to the bits it has not reached yet.

`GetInv` is `LatchInv` with the poll around it: `TypeOKInput`, `KeyTapIsHeld` and `LogIsCurrent`, for any keys, bindings and taps. The loop over the keys needs `LoopInv`: it takes each latch down at most once, what it has taken down is behind the key it has reached, and the buttons of those keys are in what
the poll is about to give. A key that is pressed again just after its latch was taken down would otherwise be counted twice or not at all. That the loop starts at the least used key and only goes up rests on a set of natural numbers having a least element, which the library's well-founded induction gives. To the latch, a step of the poll is one of its own or none, so the latch's promises hold under it (`TouchTapsAreHeld`).

### Overlay, suspension and PaperBoat's keys: `OverlayProofs`

`OverlayInv` gives `SuppressedIsNeutral`, `SharedMatchesHeld` and `FlickReplayedOnce` for any fingers, buttons and taps, with either stick (`Boat`). A callback stores its atomics one by one, so the invariant speaks of those that are not about to be stored (`stores`): they show what the fingers hold (`HeldInv`), are neutral in the edit mode,
where fingers hold controls to drag them (`EditInv`), and hold no tap and no flick after what suppressed the controls (`SilentInv`). The assumption `ButtonsAssumption` keeps the names "stick" and "none" apart from the buttons' keys.

`PressedIsAlwaysTouched` bounds the exception that those properties make (`leaked`): every pressed button has a finger on it, and without a finger the stick is neutral, also after DONE under fingers that drag controls. Its invariant `PressedInv` needs `EditInv`: a finger that is lifted in the edit mode stores nothing, so nothing may be pressed there. It is what `InputEnds` rests on.

`SuspensionInv` gives `PresentedIsSuspended` and `ControlsComeBack`, for stacks of sheets of any height. `AlertInv` says that the save alert is up once while `showing`, and not otherwise. `SuspendInv`, which holds until a callback comes too late, says that `modal` is set while the menu or a hiding sheet is up, and that an alert above it remembers the suspension, so that its OK restores it;
it also keeps the hiding sheets from piling up, since the one below would lose its suspension with the one above. `ResumeInv`, which holds always, says that hidden controls, and a suspension that no alert has restored, have something on the screen or on its way that ends them: the menu, the queued share sheet, GitHub's answer, or a hiding sheet.
The proof shows that `modal` alone suspends the input: `nativeModal`, which lags a frame, is never needed. `KeyInv` gives `MenuPressIsSilent` and `BoatTapIsHeld`: a latched tap was pressed with the input resumed, and its latch is never less than what is owed, which is why a poll's exchange that loses can be left alone.

### Files: `FileProofs`

The save merge: first a fact about the script's operators, for every live and donor image, file, modulus and number of sectors (`AssertionsHold`): whenever the donor has the file and the counter fits, there is a sector to write to,
the rewritten checksum validates, the new copy wins, and the other files keep their copies. The checksum validates because a word and its complement always add up to the same amount, so replacing `(0, 2^32 - 1)` by `(crc, ~crc)` does not change the
sum; a sector can be found because there are no more files than sectors, by counting. From it follow `MergeIsSafe`, `TypeOK` (`MergeInv`, with `Writing` about the output being written) and `FilesKept`.

The ROM library: `LibraryInv` gives `StoredFilesAreWhole`, `RemovalAsksAgain` and `StartsFromVerifiedData` in both builds, with storage that works or fails. `RemovalInv` follows a removal that found the directory through its files: the ROM goes first, and is gone at every point at which the player may have been told so or the app be killed. `PreparationInv` keeps what a launch
has verified: the ROM stays good until the game starts, since nothing but a removal or an import changes it and neither runs meanwhile, and the workspace is cleaned only beside a good archive.

The diagnostics log: `LogInv` gives `LabelMatchesLog` and `LogsAreRecent` for any number of launches and any cap. `LatestInv` relates the latest log to its marker: beside the log of a launch that did not end there is one, and with storage that fails a marker still means that some launch since then did not end. `LocalsInv` says that what a launch
noted of the two before it moves them is still so when it does, and `PreviousInv` that the label it then writes, or is about to write, is that of the previous log.

### Layout editor: `LayoutEditorProofs`

`IInv` gives `LayoutSurvives` and `UndoKeepsControls` for any controls and any geometry: it adds that layout, undo and store have the shape of a layout, and that a finger drives a control only while it is down. The drag that may be lost is then the only difference between layout and store.

`GeometryInv` adds `EditorTypes` and `StoredShape` (what is stored has the shape of the linked groups on the screen, since the drag in progress moves them as one) and gives the two action properties, `LinkedGroupKeepsShape` and `LinkedGroupStaysOnScreen`. What a group's move may add is bounded by a maximum and a minimum over its members (`minimumDelta`, `maximumDelta`);
they exist because positions and sizes are bounded, not because groups are finite, so no induction over sets is needed (`MaxOfBounded`, `MinOfBounded`). `GroupMoves` then says that all members move by the same amount, and stay on the screen whenever the lower bound does not exceed the upper one.

### Settings: `SettingsProofs`

`ChoicesSurvive` and `OverlayShowsSettings` for both builds, any screens and any number of changes, from lemmas about the dictionary: saving a value changes what is read under its key and under no other one, also when the dictionary
has to be converted, and what the sheet shows is what its dictionary is read as. The invariant adds `SheetIsCurrent` (an open sheet shows the choices, and a handler runs under one) and `SavedFirst` (PaperBoat's dictionary is current at every step, and the two builds' handlers are not mixed).

`ChoicesReachTheEngine` is the safe half of `EngineFollows`: where the engine lags behind a choice, `settingsChanged` is set, a handler is about to set it, or a frame has taken it down and is about to read the value (`ChangeIsOwed`). It holds because a handler stores its value before the flag (`AtomsAreChosen`) and a frame takes the flag down before it reads.

### Render context: `RenderContextProofs`

Type correctness, `PresentedIsWhole` and `FramebuffersMatchConfig` for any modes, sizes and number of changes. The first needs to know where the game's tasks are: `FrameInv` relates the game's position to the tasks of its frame that are still in the queue, in their order, and to what is drawn of it, `ShownInv` says that what the VI
shows is whole or has been discarded. The second, `ScaleInv`, is that a framebuffer's scale is that of the applied config or unset; it holds through `UpdateConfig` because two configs with different scales differ in one of the fields that `discard_fbs` compares (`ConfigsDiffer`).

The safe halves of `LabelSettles`: `NoConfigIsLost` (once the queue holds no notice the renderer has the config asked for last, because a config that the graphics thread has not dealt with has its notice in the queue, `NoticeOwed`) and `ConfirmedNumbersBelongTogether` (between two updates the three atomics are of one scale, because nothing is drawn between their stores, `Confirmed`), so the sheet can mix two scales only if an update stores while it loads.

### Audio: `AudioQueueProofs`

`PromptUnderrunsAreCounted` for any rates, block sizes, number of failing calls, and calls that take as long as they like. `UnderrunInv` adds `DryIsEmpty` (once dry, the queue stays empty until `queue_samples` adds to it) and `CallKnowsQueue` (a queue read by the call and found empty within 5 ms held less than 5 ms at the read, since the device plays no faster than time passes), from which the callback's count is due (`CountIsAhead`).

`SoundIsContinuous` for the same. The argument is about sequences: joining two keeps the gaps of both and makes at most one where they meet (`GapsOfConcat`, by counting), so dropping a piece from the middle, as a failing call or a new stream does, makes at most one gap, and a block put at the end makes none (`BlockMakesNoGap`). Each step of the path is one of these, and
errors are conserved by the report that ends a window (`ReportKeepsErrors`). The invariant `SoundInv` adds `PathIsEmpty`: before the device opens nothing is anywhere, and a converted block exists only between the drain and the device.

`BufferIsBounded` for any rates, sizes and number of failing calls that satisfy `RegulationAssumption`: a game that is ahead renders no more than is played until its next block (`Short <= VI`), the target is at least such a block, a long block is at most two short ones, and the game's rate is at least half the device's.
The code takes these numbers from the game at run time; `docs/TESTING.md:109` records 32 and 48 kHz and a target of 2.5 VI. They are needed: TLC finds the bound exceeded with short blocks longer than a VI, with a target below a short block, or with a long block of more than two, and the rates make one tick cover the rounding of `get_frames_remaining` (`BehindIsNearTarget`).
The bound alone is not inductive. `BufferIsRegulated` counts, beside what is queued and on its way, the ticks since the last block: the next short block fits because as many have been played, or because there is room for it anyway; and what a failed drain left in the stream is covered by the room its failure adds to the bound (`BoundGrows`).

### Only model-checked

* Liveness (`EveryoneServed`, `OverlayFollowsSlots`, `TapEnds`, `InputEnds`, `EngineFollows`, `StreamDrains`, `LabelSettles`): fairness and ENABLED are beyond the prover. What they rest on without fairness is proved for all but `TapEnds` and `StreamDrains` (above), whose safe halves would only restate the countdown and the drain; of `EveryoneServed` it is that stale owners go, not that those who wait get their slots.

## 5. What is not modelled

Drawing, and geometry beyond one axis of the layout; bindings other than the default ones (nothing in the app writes `input_settings`); the Original build's action sheet menu; the text of reports and log lines;
opening the audio device and closing it at shutdown; RT64's own set-up and its error codes; tracing and game hooks, which read guest memory for the log or replace single functions of a game that is not in the repository; the watchdogs, which compare two atomics and write a log line nobody reads (it may name a frame that has just run, because the frame's number is stored before its time);
paths, build and packaging scripts, and patches to sources outside the repository. Two deliberate simplifications: enumerating the devices is one step although it makes several SDL calls, and a callback handles one touch although UIKit may deliver several.
In the simulator `PaperPad_SetPhysicalControllerConnected` always reports no controller; the models describe the device build.

## 6. Plan

Done, in the order of importance: the slot table with its promise and driver, the tap latch with the poll of the Original build and the overlay, input suspension with PaperBoat's keys, the save merge, the diagnostics log, the ROM library, the layout editor, the settings, the audio path, the render context; and proofs of every safety property of the runs, and of what most of the liveness properties rest on.

Next, to model:

1. the Original build's menu (`presentUtilityMenu` and its delayed actions) beside `InputSuspension`, and a run of `TouchOverlay` with `Boat = FALSE`;
2. `PaperPadBoat_ReadController` with the slot table and the overlay, as `GetInput` is for the other build.

Next, to prove:

1. `TouchOverlay` and `GetInput` composed: that a suppressed overlay gives the merged poll no touch input;
2. that after a reconcile every controller of the snapshot has a slot, or its open was refused, or no slot was free, which needs the refused ones remembered.
