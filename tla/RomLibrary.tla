----------------------------- MODULE RomLibrary -----------------------------
(***************************************************************************)
(* The game data of PaperPad and its life: the import, replacement and     *)
(* removal of the player's ROM in apple/app/rom_setup.mm, and what a launch *)
(* makes of it.  The PaperBoat build extracts an archive from the ROM      *)
(* (prepareAssets in apple/paperboat/bridge.mm), the Original build has the *)
(* runtime store a copy (ensure_rom_installed in src/paperpad_main.cpp).   *)
(* Every file operation is a step, may fail if StorageFails, and the app   *)
(* can be killed between any two.  A stored file can also go bad on disk,  *)
(* which is what the checks at launch are for.                             *)
(***************************************************************************)
EXTENDS Naturals

CONSTANTS
  StorageFails,  \* TRUE if file operations may fail
  Spoils         \* bound: archives that go bad

ASSUME StorageAssumption == StorageFails \in BOOLEAN
ASSUME SpoilsAssumption  == Spoils \in Nat

\* What the player can pick in the document picker.
Picks == {"supported", "unreadable", "wrong size", "unknown order", "other revision"}

VARIABLES
  boat,      \* the build: TRUE with PAPERPAD_APP, the PaperBoat engine
  rom,       \* baserom.z64: none, good, bad
  config,    \* rom.cfg exists
  copy,      \* pm.n64.us.z64, the copy the Original build's runtime stores
  archive,   \* pm64.o2r, what PaperBoat extracts: none, good, bad
  kept,      \* number of invalid archives put aside
  staging,   \* the extraction workspace of this launch: none, partial, whole, rest
  debris,    \* a workspace of an earlier launch is still there
  phase,     \* where the launch stands
  task,      \* what the import or the removal in progress does next, or "none"
  told,      \* what the player was told last
  spoilt,    \* history: the ROM or archive in place went bad on disk
  asked,     \* history: no, told (the ROM was removed), relaunched (since then)
  reached    \* history: a removal told of since the last import found the directory

storedFiles    == <<rom, config, copy, archive, kept>>
work     == <<staging, debris>>
progress == <<phase, task>>
removal  == <<asked, reached>>
history  == <<spoilt, removal>>
libraryVars     == <<boat, storedFiles, work, progress, told, history>>

Fails == StorageFails

-----------------------------------------------------------------------------
(* installROMFromURL, called by the setup screen and by the ROM manager *)

\* Mutant of Import: the ROM is written in place before it is verified.
ImportInPlace(pick) ==
  /\ phase \in {"setup", "running"} /\ task = "none"
  /\ rom' = IF pick = "supported" THEN "good" ELSE "bad"
  /\ IF pick = "supported" THEN task' = "config" /\ asked' = "no" /\ reached' = FALSE /\ UNCHANGED told
     ELSE told' = "not imported" /\ UNCHANGED <<task, removal>>
  /\ UNCHANGED <<boat, config, copy, archive, kept, work, phase, spoilt>>

\* The pick is read, normalized and verified before anything is written, and
\* written atomically.
Import(pick) ==
  /\ phase \in {"setup", "running"} /\ task = "none"
  /\ \/ /\ pick = "supported"
        /\ rom' = "good"
        /\ spoilt' = spoilt \ {"rom"}
        /\ task' = "config"
        /\ asked' = "no"
        /\ reached' = FALSE
        /\ UNCHANGED told
     \/ /\ pick # "supported" \/ Fails
        /\ told' = "not imported"
        /\ UNCHANGED <<rom, spoilt, task, removal>>
  /\ UNCHANGED <<boat, config, copy, archive, kept, work, phase>>

\* rom.cfg, whose failure is reported as a failure to import.
StoreConfig ==
  /\ task = "config"
  /\ task' = "none"
  /\ \/ /\ config' = TRUE
        /\ told' = "imported"
        /\ phase' = IF phase = "setup" THEN "prepare" ELSE phase
     \/ /\ Fails
        /\ told' = "not imported"
        /\ UNCHANGED <<config, phase>>
  /\ UNCHANGED <<boat, rom, copy, archive, kept, work, history>>

-----------------------------------------------------------------------------
(* removeROM *)

\* Mutant of RemoveRom: the ROM is left for last.
RemoveRomLater ==
  /\ phase = "running" /\ task = "none"
  /\ task' = "remove config"
  /\ UNCHANGED <<boat, storedFiles, work, phase, told, history>>

RemoveRom ==
  /\ phase = "running" /\ task = "none"
  /\ rom' = "none"
  /\ spoilt' = spoilt \ {"rom"}
  /\ task' = "remove config"
  /\ UNCHANGED <<boat, config, copy, archive, kept, work, phase, told, removal>>

\* Without the directory (applicationSupportRoot fails) nothing is removed, and the
\* message is the same.
RemoveNothing ==
  /\ phase = "running" /\ task = "none"
  /\ Fails
  /\ told' = "removed"
  /\ asked' = "told"
  /\ UNCHANGED <<boat, storedFiles, work, progress, spoilt, reached>>

RemoveRomFails ==
  /\ phase = "running" /\ task = "none"
  /\ Fails /\ rom # "none"
  /\ told' = "not removed"
  /\ UNCHANGED <<boat, storedFiles, work, progress, history>>

\* Errors are ignored here.  The runtime's copy is looked for as
\* papermario.us.1.0.z64, a file no build writes.
RemoveConfig ==
  /\ task = "remove config"
  /\ config' = FALSE \/ (Fails /\ UNCHANGED config)
  /\ IF boat
     THEN task' = "remove archive" /\ UNCHANGED <<told, removal>>
     ELSE task' = "none" /\ told' = "removed" /\ asked' = "told" /\ reached' = TRUE
  /\ UNCHANGED <<boat, rom, copy, archive, kept, work, phase, spoilt>>

RemoveArchive ==
  /\ task = "remove archive"
  /\ task' = "none"
  /\ \/ /\ archive' = "none"
        /\ spoilt' = spoilt \ {"archive"}
        /\ told' = "removed"
        /\ asked' = "told"
        /\ reached' = TRUE
     \/ /\ Fails /\ archive # "none"
        /\ told' = "not removed"
        /\ UNCHANGED <<archive, spoilt, removal>>
  /\ UNCHANGED <<boat, rom, config, copy, kept, work, phase>>

-----------------------------------------------------------------------------
(* A launch: paperpad_prepare_rom_setup, then the build's own preparation *)

\* Mutant of Launch: a ROM that exists is not validated.
LaunchUnverified ==
  /\ phase = "off"
  /\ phase' = IF rom # "none" THEN "prepare" ELSE "setup"
  /\ asked' = IF asked = "told" THEN "relaunched" ELSE asked
  /\ UNCHANGED <<boat, storedFiles, work, task, told, spoilt, reached>>

\* validateInstalledROM decides whether the setup screen is shown.
Launch ==
  /\ phase = "off"
  /\ phase' = IF rom = "good" THEN "prepare" ELSE "setup"
  /\ asked' = IF asked = "told" THEN "relaunched" ELSE asked
  /\ UNCHANGED <<boat, storedFiles, work, task, told, spoilt, reached>>

Goto(next) == phase' = next /\ UNCHANGED <<boat, task, told, history>>

\* The Original build: the stored copy is good ...
LoadCopy ==
  /\ phase = "prepare" /\ ~boat
  /\ copy = "good"
  /\ Goto("running")
  /\ UNCHANGED <<storedFiles, work>>

\* ... or is written anew from baserom.z64, by the runtime ...
WriteCopy ==
  /\ phase = "prepare" /\ ~boat
  /\ copy # "good"
  /\ copy' = "bad"
  /\ Goto("copy")
  /\ UNCHANGED <<rom, config, archive, kept, work>>

\* ... and loaded; the program exits if that fails.
LoadNewCopy ==
  /\ phase = "copy"
  /\ \/ copy' = "good" /\ Goto("running")
     \/ Fails /\ Goto("off") /\ UNCHANGED copy
  /\ UNCHANGED <<rom, config, archive, kept, work>>

-----------------------------------------------------------------------------
(* prepareAssets *)

UseArchive ==
  /\ phase = "prepare" /\ boat
  /\ archive = "good"
  /\ Goto("running")
  /\ UNCHANGED <<storedFiles, work>>

\* Renaming it may throw outside the worker's try, which ends the program.
KeepInvalidArchive ==
  /\ phase = "prepare" /\ boat
  /\ archive = "bad"
  /\ \/ archive' = "none" /\ kept' = kept + 1 /\ spoilt' = spoilt \ {"archive"} /\ phase' = "workspace"
     \/ Fails /\ phase' = "off" /\ UNCHANGED <<archive, kept, spoilt>>
  /\ UNCHANGED <<boat, rom, config, copy, work, task, told, removal>>

MakeWorkspace ==
  /\ (phase = "prepare" /\ boat /\ archive = "none") \/ phase = "workspace"
  /\ \/ staging' = "partial" /\ Goto("extract")
     \/ Fails /\ staging' = "none" /\ Goto("failed")
  /\ UNCHANGED <<storedFiles, debris>>

\* The extractor makes the archive in the workspace, stops, or makes half of one.
Extract ==
  /\ phase = "extract"
  /\ \/ staging' = "whole" /\ Goto("commit")
     \/ Fails /\ UNCHANGED staging /\ (Goto("failed") \/ Goto("commit"))
  /\ UNCHANGED <<storedFiles, debris>>

\* validArchive, and the rename into place.
Commit ==
  /\ phase = "commit"
  /\ \/ /\ staging = "whole"
        /\ archive' = "good"
        /\ staging' = "rest"
        /\ Goto("clean")
     \/ /\ staging = "partial" \/ Fails
        /\ Goto("failed")
        /\ UNCHANGED <<archive, staging>>
  /\ UNCHANGED <<rom, config, copy, kept, debris>>

\* remove_all of the workspace; an error is an error of the setup, archive or not.
RemoveWorkspace ==
  /\ phase = "clean"
  /\ \/ staging' = "none" /\ Goto("running")
     \/ Fails /\ Goto("failed") /\ UNCHANGED staging
  /\ UNCHANGED <<storedFiles, debris>>

-----------------------------------------------------------------------------
(* The end of a launch *)

\* "Game Setup Failed" is closed, the game exits, or the app is killed.
Stop ==
  /\ phase # "off"
  /\ phase' = "off"
  /\ task' = "none"
  /\ staging' = "none"
  /\ debris' = (debris \/ staging # "none")
  /\ UNCHANGED <<boat, storedFiles, told, history>>

\* A stored file goes bad while the app is not running.
Spoil ==
  /\ phase = "off"
  /\ \/ rom = "good" /\ rom' = "bad" /\ spoilt' = spoilt \cup {"rom"} /\ UNCHANGED <<copy, archive>>
     \/ copy = "good" /\ copy' = "bad" /\ UNCHANGED <<rom, archive, spoilt>>
     \/ /\ archive = "good" /\ kept < Spoils
        /\ archive' = "bad" /\ spoilt' = spoilt \cup {"archive"} /\ UNCHANGED <<rom, copy>>
  /\ UNCHANGED <<boat, config, kept, work, progress, told, removal>>

-----------------------------------------------------------------------------
InitLibrary ==
  /\ boat \in BOOLEAN
  /\ rom = "none" /\ config = FALSE /\ copy = "none" /\ archive = "none" /\ kept = 0
  /\ staging = "none" /\ debris = FALSE
  /\ phase = "off" /\ task = "none"
  /\ told = "nothing"
  /\ spoilt = {} /\ asked = "no" /\ reached = FALSE

NextLibrary ==
  \/ \E pick \in Picks : Import(pick)
  \/ StoreConfig
  \/ RemoveRom \/ RemoveNothing \/ RemoveRomFails \/ RemoveConfig \/ RemoveArchive
  \/ Launch
  \/ LoadCopy \/ WriteCopy \/ LoadNewCopy
  \/ UseArchive \/ KeepInvalidArchive \/ MakeWorkspace \/ Extract \/ Commit \/ RemoveWorkspace
  \/ Stop
  \/ Spoil

LibrarySpec == InitLibrary /\ [][NextLibrary]_libraryVars

-----------------------------------------------------------------------------
(* Properties *)

Contents == {"none", "good", "bad"}

\* Whatever was interrupted, failed or went bad before, the game starts only from
\* a verified ROM and from an archive or a copy that is whole.
StartsFromVerifiedData ==
  [][phase # "running" /\ phase' = "running" =>
       rom = "good" /\ IF boat THEN archive' = "good" ELSE copy' = "good"]_libraryVars

\* The program itself never leaves half a ROM or half an archive under the name of
\* a whole one, wherever it is killed.
StoredFilesAreWhole ==
  /\ rom = "bad" => "rom" \in spoilt
  /\ archive = "bad" => "archive" \in spoilt

\* Once a removal that found the application support directory was reported to the
\* player, whatever failed, was interrupted or was reported after it, a later launch
\* asks for a ROM and goes no further until a supported one was imported.  A removal
\* that found no directory is reported in the same words, and the next launch may
\* start the game: it is no part of this promise.
RemovalAsksAgain ==
  asked = "relaunched" /\ reached => phase \in {"off", "setup"}

\* "The private ROM copy was removed."
RemovedRomIsGone == asked # "no" => rom = "none" /\ copy = "none"
=============================================================================
