--------------------------- MODULE ControllerInput ---------------------------
(***************************************************************************)
(* How src/paperpad_main.cpp drives the slot table of ControllerSlots.     *)
(* Three parties share it: the main thread, which handles SDL's device     *)
(* events and the once-a-second check (update_gfx) under controller_mutex  *)
(* and reports the aggregate state to UIKit; the game's input poll         *)
(* (get_input), which uses player 1's handle under the same mutex; and the *)
(* main dispatch queue, on which UIKit's overlay is attached and told.     *)
(***************************************************************************)
EXTENDS ControllerSlots

VARIABLES
  removals,  \* SDL_CONTROLLERDEVICEREMOVED events not yet handled
  lock,      \* owner of controller_mutex: free, main or poll
  main,      \* where the main thread is: loop, reconcile, report
  reported,  \* reported_physical_controller_state, "unset" before the first report
  connected, \* g_physical_controller_connected, stored by every report
  queue,     \* blocks dispatched to the main queue: "attach", or a reported state
  overlay,   \* the overlay's _physicalControllerConnected, "unset" until it exists
  polled     \* the handle get_input is using while it holds the mutex

uiVars    == <<reported, connected, queue, overlay>>
inputVars == <<removals, lock, main, uiVars, polled>>
allVars   == <<vars, inputVars>>

-----------------------------------------------------------------------------
(* SDL *)

Plug(i) == Attach(i) /\ UNCHANGED inputVars

\* The event for a removed controller is queued, or missed (while suspended).
Unplug(k) ==
  /\ Detach(k)
  /\ \/ removals' = removals \cup {device[k]}
     \/ UNCHANGED removals
  /\ UNCHANGED <<lock, main, uiVars, polled>>

-----------------------------------------------------------------------------
(* The main thread *)

\* Mutant of HandleRemoval: release_instance without the mutex.
HandleRemovalUnlocked(i) ==
  /\ main = "loop"
  /\ i \in removals
  /\ ReleaseInstance(i)
  /\ removals' = removals \ {i}
  /\ main' = "reconcile"
  /\ UNCHANGED <<lock, uiVars, polled>>

\* The removal event: release_instance in one critical section, and the
\* reconcile_controllers that follows it in another.
HandleRemoval(i) ==
  /\ main = "loop"
  /\ i \in removals
  /\ lock = "free"
  /\ ReleaseInstance(i)
  /\ removals' = removals \ {i}
  /\ main' = "reconcile"
  /\ UNCHANGED <<lock, uiVars, polled>>

\* reconcile_controllers, for an event or for the active check.
LockAndReconcile ==
  /\ main \in {"loop", "reconcile"}
  /\ lock = "free"
  /\ BeginReconcile
  /\ lock' = "main"
  /\ main' = "reconcile"
  /\ UNCHANGED <<removals, uiVars, polled>>

Reconciling ==
  /\ lock = "main"
  /\ CheckSlot \/ SkipAssigned \/ OpenSucceeds \/ OpenFails \/ AssignOpened \/ RejectOpened
  /\ UNCHANGED inputVars

ReconcileAndUnlock ==
  /\ lock = "main"
  /\ EndReconcile
  /\ lock' = "free"
  /\ main' = "report"
  /\ UNCHANGED <<removals, uiVars, polled>>

\* connected_count() != 0.  Only the main thread writes slots, so the count it
\* took under the mutex is still the count when it reports it.
Aggregate ==
  IF \E s \in Players : slots[s].handle # None THEN "connected" ELSE "disconnected"

\* PaperPad_SetPhysicalControllerConnected
Notify(state) ==
  /\ connected' = state
  /\ queue' = Append(queue, state)

Report ==
  /\ main = "report"
  /\ main' = "loop"
  /\ IF reported # Aggregate
     THEN reported' = Aggregate /\ Notify(Aggregate)
     ELSE UNCHANGED <<reported, connected, queue>>
  /\ UNCHANGED <<vars, removals, lock, overlay, polled>>

\* create_window: paperpad_touch_attach, after the startup reconcile.
CreateWindow ==
  /\ main = "loop"
  /\ reported # "unset"
  /\ overlay = "unset"
  /\ \A n \in 1..Len(queue) : queue[n] # "attach"
  /\ queue' = Append(queue, "attach")
  /\ UNCHANGED <<vars, removals, lock, main, reported, connected, overlay, polled>>

\* recomp::start has returned.
ShutDown ==
  /\ main = "loop"
  /\ reported # "unset"
  /\ lock = "free"
  /\ CloseAll
  /\ Notify("disconnected")
  /\ UNCHANGED <<removals, lock, main, reported, overlay, polled>>

\* Mutant of RunBlock: the new overlay does not read g_physical_controller_connected.
RunBlockAttachBlind ==
  /\ main = "loop"
  /\ queue # <<>>
  /\ queue' = Tail(queue)
  /\ overlay' = CASE Head(queue) = "attach" -> "disconnected"
                  [] Head(queue) # "attach" /\ overlay # "unset" -> Head(queue)
                  [] OTHER -> overlay
  /\ UNCHANGED <<vars, removals, lock, main, reported, connected, polled>>

\* The main run loop takes the next block: attach makes the overlay and reads the
\* atomic; a state block is a message to an overlay that may not exist yet.
RunBlock ==
  /\ main = "loop"
  /\ queue # <<>>
  /\ queue' = Tail(queue)
  /\ overlay' = CASE Head(queue) = "attach" -> connected
                  [] Head(queue) # "attach" /\ overlay # "unset" -> Head(queue)
                  [] OTHER -> overlay
  /\ UNCHANGED <<vars, removals, lock, main, reported, connected, polled>>

-----------------------------------------------------------------------------
(* get_input, on the game's input thread *)

PollBegin ==
  /\ lock = "free"
  /\ phase # "stopped"
  /\ lock' = "poll"
  /\ polled' = slots[1].handle
  /\ UNCHANGED <<vars, removals, main, uiVars>>

PollEnd ==
  /\ lock = "poll"
  /\ lock' = "free"
  /\ polled' = None
  /\ UNCHANGED <<vars, removals, main, uiVars>>

-----------------------------------------------------------------------------
InitInput ==
  /\ Init
  /\ removals = {}
  /\ lock = "free"
  /\ main = "loop"
  /\ reported = "unset"
  /\ connected = "disconnected"
  /\ queue = <<>>
  /\ overlay = "unset"
  /\ polled = None

NextInput ==
  \/ \E i \in Ids : Plug(i)
  \/ \E k \in 1..Len(device) : Unplug(k)
  \/ \E i \in Ids : HandleRemoval(i)
  \/ LockAndReconcile
  \/ Reconciling
  \/ ReconcileAndUnlock
  \/ Report
  \/ CreateWindow
  \/ ShutDown
  \/ RunBlock
  \/ PollBegin
  \/ PollEnd
  \/ Stopped /\ UNCHANGED inputVars

\* The main thread keeps calling update_gfx, the run loop drains its queue and get_input returns.
\* Its polls leave the mutex free for moments only, hence SF for taking it.
MainFairness ==
  /\ SF_allVars(LockAndReconcile)
  /\ WF_allVars(Reconciling \/ ReconcileAndUnlock \/ Report)
  /\ SF_allVars(Reconciling /\ OpenSucceeds)
  /\ SF_allVars(CreateWindow \/ RunBlock)
  /\ WF_allVars(PollEnd)

InputSpec     == InitInput /\ [][NextInput]_allVars
FairInputSpec == InputSpec /\ MainFairness

-----------------------------------------------------------------------------
(* Properties *)

\* get_input never passes SDL a controller whose last reference has been closed.
PollUsesOpenHandle == lock = "poll" /\ polled # None => refs[polled] > 0

\* Whatever order reports, blocks and the overlay's creation come in, in the end the
\* overlay hides its controls if and only if a controller has a slot.
OverlayFollowsSlots ==
  <>[](phase = "stopped" \/ (overlay = Aggregate))
=============================================================================
