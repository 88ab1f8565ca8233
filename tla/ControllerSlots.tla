--------------------------- MODULE ControllerSlots ---------------------------
(***************************************************************************)
(* The player slot table of src/controller_slots.cpp and the backend it    *)
(* drives (SDL's game controllers, modelled from the adapter in            *)
(* src/paperpad_main.cpp).  reconcile makes one backend call after another *)
(* and ControllerBackend does not promise that the device list stands still *)
(* between them, so every call is a step of its own and devices come and go *)
(* in between: a device index of the snapshot may name another controller, *)
(* or none, by the time it is opened.                                      *)
(***************************************************************************)
EXTENDS Integers, Sequences

CONSTANTS
  MaxPlayers,   \* ControllerSlots::max_players
  Ids,          \* joystick instance ids; SDL gives each connection a new one
  Gamepads,     \* the ids of joysticks that SDL_IsGameController accepts
  Preferred,    \* the device index of the preferred controller setting
  None          \* nullptr handle, instance id -1

ASSUME MaxPlayersAssumption == MaxPlayers \in Nat \ {0}
ASSUME GamepadsAssumption   == Gamepads \subseteq Ids
ASSUME PreferredAssumption  == Preferred \in Int
ASSUME NoneAssumption       == None \notin Ids

VARIABLES
  device,   \* SDL's device list: device[k] is the joystick at device index k
  seen,     \* ids SDL has handed out
  refs,     \* refs[h]: SDL_GameController references the program holds on h
  slots,    \* slots_: handle and instance id of each player
  phase,    \* where reconcile stands: idle, release, assign, opened, stopped
  cursor,   \* slot_index of the release loop
  listed,   \* the snapshot that reconcile enumerated
  todo,     \* the part of it the assign loop has not visited
  opened    \* the handle backend.open just returned

deviceVars == <<device, seen>>
loopVars   == <<cursor, listed, todo, opened>>
vars       == <<device, seen, refs, slots, phase, cursor, listed, todo, opened>>

Players == 1..MaxPlayers
Empty   == [handle |-> None, id |-> None]
Items   == [device_index : Nat \ {0}, instance_id : Ids]

Attached == {device[k] : k \in 1..Len(device)}

-----------------------------------------------------------------------------
(* The backend.  SDL_GameControllerOpen returns the one SDL_GameController of *)
(* a device and counts references, so a handle is the id of its device.       *)

\* SDL_GameControllerGetAttached
Connected(h) == h \in Attached

\* Mutant of Enumerate: the last device index is left out.
EnumerateAllButLast ==
  {[device_index |-> k, instance_id |-> device[k]] :
      k \in {j \in 1..(Len(device) - 1) : device[j] \in Gamepads}}

\* enumerate: the game controllers on the list
Enumerate ==
  {[device_index |-> k, instance_id |-> device[k]] :
      k \in {j \in 1..Len(device) : device[j] \in Gamepads}}

\* enumerate's stable_sort: the preferred device first, then by device index
Before(a, b) ==
  \/ a.device_index = Preferred
  \/ b.device_index # Preferred /\ a.device_index <= b.device_index

First(items) == CHOOSE a \in items : \A b \in items : Before(a, b)

\* What SDL_GameControllerOpen can return for a device index: the controller that
\* has that index now, or nullptr.
CanOpen(k) == IF k \in 1..Len(device) /\ device[k] \in Gamepads
              THEN {device[k]} ELSE {}

\* A device is plugged in; it goes to the end of the list under a fresh id.
Attach(i) ==
  /\ i \notin seen
  /\ device' = Append(device, i)
  /\ seen' = seen \cup {i}
  /\ UNCHANGED <<refs, slots, phase, loopVars>>

\* The device at index k is removed; those behind it move up.
Detach(k) ==
  /\ device' = [j \in 1..(Len(device) - 1) |-> IF j < k THEN device[j] ELSE device[j + 1]]
  /\ UNCHANGED <<seen, refs, slots, phase, loopVars>>

-----------------------------------------------------------------------------
(* reconcile *)

BeginReconcile ==
  /\ phase = "idle"
  /\ listed' = Enumerate
  /\ phase' = "release"
  /\ UNCHANGED <<deviceVars, refs, slots, cursor, todo, opened>>

\* Mutant of Valid: a handle is valid as long as it is the one that was assigned.
ValidByIdentity(s) == slots[s].handle = slots[s].id

\* The slot's handle is connected, still the controller it was assigned for, and listed.
Valid(s) ==
  /\ Connected(slots[s].handle)
  /\ slots[s].handle = slots[s].id
  /\ \E item \in listed : item.instance_id = slots[s].id

Close(h) == refs' = [refs EXCEPT ![h] = @ - 1]

\* One round of the release loop.
CheckSlot ==
  /\ phase = "release"
  /\ \/ /\ slots[cursor].handle = None
        /\ slots' = [slots EXCEPT ![cursor].id = None]
        /\ UNCHANGED refs
     \/ /\ slots[cursor].handle # None
        /\ Valid(cursor)
        /\ UNCHANGED <<slots, refs>>
     \/ /\ slots[cursor].handle # None
        /\ ~Valid(cursor)
        /\ Close(slots[cursor].handle)
        /\ slots' = [slots EXCEPT ![cursor] = Empty]
  /\ IF cursor < MaxPlayers
     THEN phase' = phase /\ cursor' = cursor + 1 /\ UNCHANGED todo
     ELSE phase' = "assign" /\ todo' = listed /\ UNCHANGED cursor
  /\ UNCHANGED <<deviceVars, listed, opened>>

\* Mutant of AlreadyAssigned: the already_assigned test is missing.
NeverAssigned(i) == FALSE

AlreadyAssigned(i) == \E s \in Players : slots[s].handle # None /\ slots[s].id = i
Free               == {s \in Players : slots[s].handle = None}
FirstFree          == CHOOSE s \in Free : \A t \in Free : s <= t
Item               == First(todo)

\* continue: the controller has a slot.
SkipAssigned ==
  /\ phase = "assign"
  /\ todo # {}
  /\ AlreadyAssigned(Item.instance_id)
  /\ todo' = todo \ {Item}
  /\ UNCHANGED <<deviceVars, refs, slots, phase, cursor, listed, opened>>

\* The loop ends, or breaks because no slot is free.
EndReconcile ==
  /\ phase = "assign"
  /\ \/ todo = {}
     \/ todo # {} /\ ~AlreadyAssigned(Item.instance_id) /\ Free = {}
  /\ phase' = "idle"
  /\ cursor' = 1
  /\ listed' = {}
  /\ todo' = {}
  /\ UNCHANGED <<deviceVars, refs, slots, opened>>

\* backend.open(item.device_index) with a slot free.
OpenItem ==
  /\ phase = "assign"
  /\ todo # {}
  /\ ~AlreadyAssigned(Item.instance_id)
  /\ Free # {}
  /\ phase' = "opened"
  /\ UNCHANGED <<deviceVars, slots, cursor, listed, todo>>

OpenSucceeds ==
  /\ OpenItem
  /\ \E h \in CanOpen(Item.device_index) :
       opened' = h /\ refs' = [refs EXCEPT ![h] = @ + 1]

OpenFails == OpenItem /\ opened' = None /\ UNCHANGED refs

\* Mutant of IsTheItem: the instance id is not compared after the open.
IsAnyController == opened # None /\ Connected(opened)

\* The opened handle is the enumerated controller, and connected: it gets the slot.
IsTheItem == opened # None /\ Connected(opened) /\ opened = Item.instance_id

AssignOpened ==
  /\ phase = "opened"
  /\ IsTheItem
  /\ slots' = [slots EXCEPT ![FirstFree] = [handle |-> opened, id |-> Item.instance_id]]
  /\ todo' = todo \ {Item}
  /\ opened' = None
  /\ phase' = "assign"
  /\ UNCHANGED <<deviceVars, refs, cursor, listed>>

\* Mutant of RejectOpened: the rejected handle is not closed.
RejectWithoutClose ==
  /\ phase = "opened"
  /\ ~IsTheItem
  /\ todo' = todo \ {Item}
  /\ opened' = None
  /\ phase' = "assign"
  /\ UNCHANGED <<deviceVars, refs, slots, cursor, listed>>

\* OpenFailed: a handle that was returned is closed again.
RejectOpened ==
  /\ phase = "opened"
  /\ ~IsTheItem
  /\ IF opened # None THEN Close(opened) ELSE UNCHANGED refs
  /\ todo' = todo \ {Item}
  /\ opened' = None
  /\ phase' = "assign"
  /\ UNCHANGED <<deviceVars, slots, cursor, listed>>

ReconcileStep ==
  CheckSlot \/ SkipAssigned \/ EndReconcile \/ OpenSucceeds \/ OpenFails
    \/ AssignOpened \/ RejectOpened

-----------------------------------------------------------------------------
(* release_instance, for the removal event of an id, and close_all *)

Holding(ss) == {s \in Players : slots[s].handle # None /\ slots[s].id \in ss}

\* close() on the handles of the slots ss, which are emptied.
CloseSlots(ss) ==
  /\ refs' = [h \in Ids |-> IF \E s \in ss : slots[s].handle = h THEN refs[h] - 1 ELSE refs[h]]
  /\ slots' = [s \in Players |-> IF s \in ss THEN Empty ELSE slots[s]]

\* SDL posts the event when the device is gone.
ReleaseInstance(i) ==
  /\ phase = "idle"
  /\ i \in seen \ Attached
  /\ CloseSlots(Holding({i}))
  /\ UNCHANGED <<deviceVars, phase, loopVars>>

CloseAll ==
  /\ phase = "idle"
  /\ CloseSlots(Players \ Free)
  /\ phase' = "stopped"
  /\ UNCHANGED <<deviceVars, loopVars>>

Stopped == phase = "stopped" /\ UNCHANGED vars

-----------------------------------------------------------------------------
Init ==
  /\ device = <<>>
  /\ seen = {}
  /\ refs = [h \in Ids |-> 0]
  /\ slots = [s \in Players |-> Empty]
  /\ phase = "idle"
  /\ cursor = 1
  /\ listed = {}
  /\ todo = {}
  /\ opened = None

Devices == (\E i \in Ids : Attach(i)) \/ (\E k \in 1..Len(device) : Detach(k))

Next ==
  \/ Devices
  \/ BeginReconcile
  \/ ReconcileStep
  \/ \E i \in Ids : ReleaseInstance(i)
  \/ CloseAll
  \/ Stopped

Spec == Init /\ [][Next]_vars

-----------------------------------------------------------------------------
(* Properties *)

TypeOK ==
  /\ device \in Seq(Ids)
  /\ seen \subseteq Ids
  /\ refs \in [Ids -> Nat]
  /\ slots \in [Players -> [handle : Ids \cup {None}, id : Ids \cup {None}]]
  /\ phase \in {"idle", "release", "assign", "opened", "stopped"}
  /\ cursor \in Players
  /\ listed \subseteq Items
  /\ todo \subseteq Items
  /\ opened \in Ids \cup {None}

\* A slot plays the controller it was assigned for, although its device index
\* may have come to name another one between enumerate and open.
SlotIdentity == \A s \in Players : slots[s].handle = slots[s].id

\* One controller never plays as two players.
OneSlotPerController ==
  \A s, t \in Players : slots[s].handle = slots[t].handle /\ slots[s].handle # None => s = t

\* The references held on a controller: one if a slot has it, one while reconcile
\* decides about a handle it has just opened.
HeldBy(h) ==
  (IF \E s \in Players : slots[s].handle = h THEN 1 ELSE 0)
    + (IF phase = "opened" /\ opened = h THEN 1 ELSE 0)

\* No handle is leaked and none is closed twice, whatever fails in between.
HandlesBalanced == \A h \in Ids : refs[h] = HeldBy(h)

\* The table implements the promise of PlayerSlots: in particular no step takes
\* a slot from a controller that is still attached, and slots fill from player 1 up.
Promise == INSTANCE PlayerSlots WITH
  owner    <- [s \in Players |-> slots[s].handle],
  attached <- Attached,
  running  <- (phase # "stopped")

SlotsKeepPromise == Promise!Spec

\* In the end, unless the program stops, every attached game controller has a slot,
\* or every slot is owned by an attached one: a stale handle does not block a player.
Served(i) ==
  \/ i \notin Attached
  \/ AlreadyAssigned(i)
  \/ \A s \in Players : slots[s].handle \in Attached

EveryoneServed == <>[](phase = "stopped" \/ \A i \in Gamepads : Served(i))
=============================================================================
