---------------------------- MODULE PlayerSlots ----------------------------
(***************************************************************************)
(* What the controller slot table of src/controller_slots.cpp promises the *)
(* game, with no handles, snapshots or device indexes: each player slot is *)
(* owned by at most one attached controller, a controller owns at most one *)
(* slot, the lowest free slot is given out first, and a slot is taken from *)
(* its owner only once the owner has been detached, or at shutdown.        *)
(***************************************************************************)
EXTENDS Integers

CONSTANTS
  MaxPlayers, \* number of player slots (ControllerSlots::max_players)
  Ids,        \* controller instance ids
  None        \* the empty slot

VARIABLES
  owner,      \* owner[s]: the controller that plays as player s
  attached,   \* the controllers that are physically attached
  seen,       \* every controller that was ever attached; ids are not reused
  running     \* FALSE once the program has shut down

vars == <<owner, attached, seen, running>>

Players == 1..MaxPlayers

Init ==
  /\ owner = [s \in Players |-> None]
  /\ attached = {}
  /\ seen = {}
  /\ running = TRUE

Attach(i) ==
  /\ i \notin seen
  /\ attached' = attached \cup {i}
  /\ seen' = seen \cup {i}
  /\ UNCHANGED <<owner, running>>

Detach(i) ==
  /\ i \in attached
  /\ attached' = attached \ {i}
  /\ UNCHANGED <<owner, seen, running>>

\* A slot is given to an attached controller without a slot; every lower slot is taken.
Assign(s, i) ==
  /\ running
  /\ i \in attached
  /\ owner[s] = None
  /\ \A t \in Players : owner[t] # i
  /\ \A t \in 1..(s - 1) : owner[t] # None
  /\ owner' = [owner EXCEPT ![s] = i]
  /\ UNCHANGED <<attached, seen, running>>

\* A slot is only ever taken from a controller that is gone.
Release(s) ==
  /\ running
  /\ owner[s] # None
  /\ owner[s] \notin attached
  /\ owner' = [owner EXCEPT ![s] = None]
  /\ UNCHANGED <<attached, seen, running>>

Shutdown ==
  /\ running
  /\ owner' = [s \in Players |-> None]
  /\ running' = FALSE
  /\ UNCHANGED <<attached, seen>>

Next ==
  \/ \E i \in Ids : Attach(i) \/ Detach(i)
  \/ \E s \in Players, i \in Ids : Assign(s, i)
  \/ \E s \in Players : Release(s)
  \/ Shutdown

Spec == Init /\ [][Next]_vars
=============================================================================
