-------------------------- MODULE DiagnosticsSession --------------------------
(***************************************************************************)
(* The private session log of apple/app/diagnostics.mm.  Every launch turns *)
(* the latest log into the previous one, labels it as possibly unclean when *)
(* the marker of an active session was left behind, and starts a log of its *)
(* own; a normal process exit removes the marker.  Logs and markers are     *)
(* files: they are changed one at a time, and the app can be killed between *)
(* any two of the changes, in the rotation as in the session.               *)
(***************************************************************************)
EXTENDS Integers

CONSTANTS
  Launches,  \* bound: launches of the app
  Cap,       \* kMaximumStoredLogBytes
  Chunk,     \* sizeof(buffer), the most the log thread writes at once
  Notice     \* length of the line that replaces earlier text

ASSUME SizesAssumption ==
  {Launches, Cap, Chunk, Notice} \subseteq Nat /\ Chunk > 0 /\ Notice + Chunk <= Cap

None == 0

VARIABLES
  storageFails, \* files may not be created or moved, in this behaviour
  directory,   \* the Logs directory exists
  latest,      \* the launch whose log is paperpad-latest.log, None without the file
  previous,    \* the launch whose log is paperpad-previous.log
  active,      \* the marker paperpad-session-active exists
  unclean,     \* the marker paperpad-previous-unclean exists
  step,        \* what paperpad_start_diagnostics_log does next, running, or off
  launch,      \* number of this launch
  hadLatest, mayBeUnclean,   \* its locals
  stored,      \* storedBytes of the log thread
  ended,       \* history: launches that reached a normal process exit
  logged       \* history: launches that opened a log

logFiles   == <<directory, latest, previous, active, unclean>>
locals  == <<hadLatest, mayBeUnclean, storageFails>>
logHistory == <<ended, logged>>
logVars    == <<logFiles, step, launch, locals, stored, logHistory>>

-----------------------------------------------------------------------------
(* paperpad_start_diagnostics_log *)

StartLog ==
  /\ step = "off"
  /\ launch < Launches
  /\ launch' = launch + 1
  /\ directory' = TRUE
  /\ hadLatest' = (latest # None)
  /\ mayBeUnclean' = (hadLatest' /\ active)
  /\ step' = "remove"
  /\ UNCHANGED <<storageFails, latest, previous, active, unclean, stored, logHistory>>

\* The directory cannot be created: the session runs without a log.
StartUnlogged ==
  /\ step = "off"
  /\ launch < Launches
  /\ storageFails /\ ~directory
  /\ launch' = launch + 1
  /\ step' = "running"
  /\ UNCHANGED <<logFiles, locals, stored, logHistory>>

\* Mutant of RemovePrevious: the log before the previous one stays.
KeepPrevious ==
  /\ step = "remove"
  /\ step' = "rotate"
  /\ UNCHANGED <<logFiles, launch, locals, stored, logHistory>>

RemovePrevious ==
  /\ step = "remove"
  /\ previous' = None
  /\ step' = "rotate"
  /\ UNCHANGED <<directory, latest, active, unclean, launch, locals, stored, logHistory>>

\* moveItemAtURL does not replace a file.
Rotate ==
  /\ step = "rotate"
  /\ \/ /\ hadLatest /\ previous = None
        /\ previous' = latest
        /\ latest' = None
     \/ /\ ~hadLatest \/ previous # None \/ storageFails
        /\ UNCHANGED <<latest, previous>>
  /\ step' = "unmark"
  /\ UNCHANGED <<directory, active, unclean, launch, locals, stored, logHistory>>

RemoveUnclean ==
  /\ step = "unmark"
  /\ unclean' = FALSE
  /\ step' = "label"
  /\ UNCHANGED <<directory, latest, previous, active, launch, locals, stored, logHistory>>

\* createPrivateMarker does not report a failure.
LabelUnclean ==
  /\ step = "label"
  /\ unclean' \in (IF storageFails THEN {mayBeUnclean, FALSE} ELSE {mayBeUnclean})
  /\ step' = "deactivate"
  /\ UNCHANGED <<directory, latest, previous, active, launch, locals, stored, logHistory>>

RemoveActive ==
  /\ step = "deactivate"
  /\ active' = FALSE
  /\ step' = "activate"
  /\ UNCHANGED <<directory, latest, previous, unclean, launch, locals, stored, logHistory>>

CreateActive ==
  /\ step = "activate"
  /\ active' \in (IF storageFails THEN BOOLEAN ELSE {TRUE})
  /\ step' = "open"
  /\ UNCHANGED <<directory, latest, previous, unclean, launch, locals, stored, logHistory>>

\* The latest log is truncated if it is still there, which takes no storage.
OpenLatest ==
  /\ step = "open"
  /\ latest' \in (IF storageFails /\ latest = None THEN {launch, None} ELSE {launch})
  /\ logged' = (logged \cup {latest'}) \ {None}
  /\ stored' = 0
  /\ step' = "running"
  /\ UNCHANGED <<directory, previous, active, unclean, launch, locals, ended>>

-----------------------------------------------------------------------------
(* The session *)

\* The log thread stores what it has read, in place of the earlier text if it would be too much.
WriteLog(count) ==
  /\ step = "running"
  /\ latest # None
  /\ stored' = (IF stored + count > Cap THEN Notice ELSE stored) + count
  /\ UNCHANGED <<logFiles, step, launch, locals, logHistory>>

\* Mutant of FinishSession: the marker is left.
FinishMarked ==
  /\ step = "running"
  /\ ended' = ended \cup {launch}
  /\ step' = "off"
  /\ UNCHANGED <<logFiles, launch, locals, stored, logged>>

\* paperpad_finish_diagnostics_log
FinishSession ==
  /\ step = "running"
  /\ active' = FALSE
  /\ ended' = ended \cup {launch}
  /\ step' = "off"
  /\ UNCHANGED <<directory, latest, previous, unclean, launch, locals, stored, logged>>

\* A crash, or iOS ends the app.
Crash ==
  /\ step # "off"
  /\ step' = "off"
  /\ UNCHANGED <<logFiles, launch, locals, stored, logHistory>>

-----------------------------------------------------------------------------
InitLog ==
  /\ storageFails \in BOOLEAN
  /\ directory = FALSE /\ latest = None /\ previous = None
  /\ active = FALSE /\ unclean = FALSE
  /\ step = "off" /\ launch = 0
  /\ hadLatest = FALSE /\ mayBeUnclean = FALSE
  /\ stored = 0
  /\ ended = {} /\ logged = {}

NextLog ==
  \/ StartLog \/ StartUnlogged
  \/ RemovePrevious \/ Rotate \/ RemoveUnclean \/ LabelUnclean
  \/ RemoveActive \/ CreateActive \/ OpenLatest
  \/ \E count \in 1..Chunk : WriteLog(count)
  \/ FinishSession \/ Crash

LogSpec == InitLog /\ [][NextLog]_logVars

-----------------------------------------------------------------------------
(* Properties *)

\* The previous log of a report is labelled exactly when its session did not end
\* normally.  When storage fails a label can be missing; and one that is there still
\* means that some launch since then was ended abnormally.
LabelMatchesLog ==
  step = "running" /\ previous # None =>
    /\ ~storageFails => (unclean <=> previous \notin ended)
    /\ unclean => \E k \in previous..(launch - 1) : k \notin ended

\* The two logs of a report are this launch's own and the last one stored before it,
\* however many launches died in the middle of a rotation, and the log stays within
\* its cap.
LogsAreRecent ==
  step = "running" =>
    /\ stored <= Cap
    /\ latest \in {None, launch}
    /\ previous # None =>
         previous < launch /\ \A k \in logged \ {launch} : k <= previous
=============================================================================
