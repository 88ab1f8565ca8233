------------------------ MODULE ControllerInputProofs ------------------------
(***************************************************************************)
(* The slot table for any number of players and controllers and any changes *)
(* to the device list between the calls of a reconcile; then its driver,   *)
(* which is a behaviour of the table, so everything proved of the one holds *)
(* of the other.  With the mutex, the poll's handle is open; what is        *)
(* reported reaches the overlay, and no stale owner survives a reconcile.   *)
(***************************************************************************)
EXTENDS ControllerInput, TLAPS, SequenceTheorems, WellFoundedInduction

-----------------------------------------------------------------------------
(* Lemmas about the operators *)

\* find_if returns a free slot when there is one, and no lower slot is free.
LEMMA FirstFreeIsLowest ==
  ASSUME Free # {}
  PROVE  FirstFree \in Free /\ \A t \in Free : FirstFree <= t
<1>1. Free \subseteq Nat
  BY DEF Free, Players
<1>2. PICK m \in Free : \A t \in Free : <<t, m>> \notin OpToRel(<, Nat)
  BY <1>1, NatLessThanWellFounded, WFMin
<1>3. \A t \in Free : ~(t < m)
  BY <1>1, <1>2, Zenon DEF OpToRel
<1>4. \A t \in Free : m <= t
  BY <1>1, <1>3
<1>5. QED
  BY <1>2, <1>4, Zenon DEF FirstFree

-----------------------------------------------------------------------------
(* The inductive invariant.  The safety invariants hold at every step only  *)
(* because of what reconcile knows while it decides about an opened handle:  *)
(* a slot is still free, and the enumerated controller still has none.       *)

OpenPending ==
  /\ phase = "opened" => Free # {} /\ ~AlreadyAssigned(Item.instance_id)
  /\ phase # "opened" => opened = None

IInv ==
  /\ TypeOK
  /\ SlotIdentity
  /\ OneSlotPerController
  /\ HandlesBalanced
  /\ OpenPending

\* Before the first device appears nothing is open and every slot is empty.
LEMMA InitIInv == Init => IInv
<1> SUFFICES ASSUME Init PROVE IInv
  OBVIOUS
<1> USE DEF Init
<1>1. TypeOK
  BY MaxPlayersAssumption, EmptySeq DEF TypeOK, Players, Empty
<1>2. SlotIdentity /\ OneSlotPerController
  BY DEF SlotIdentity, OneSlotPerController, Empty
<1>3. HandlesBalanced
  BY NoneAssumption DEF HandlesBalanced, HeldBy, Empty
<1>4. OpenPending
  BY DEF OpenPending
<1>5. QED
  BY <1>1, <1>2, <1>3, <1>4 DEF IInv

\* Steps that touch neither slots nor references nor the assign loop's position.
LEMMA QuietStep ==
  ASSUME IInv, TypeOK', UNCHANGED <<refs, slots, opened>>,
         phase # "opened", phase' # "opened"
  PROVE  IInv'
<1>1. SlotIdentity' /\ OneSlotPerController'
  BY DEF IInv, SlotIdentity, OneSlotPerController
<1>2. HandlesBalanced'
  BY DEF IInv, HandlesBalanced, HeldBy
<1>3. OpenPending'
  BY DEF IInv, OpenPending
<1>4. QED
  BY <1>1, <1>2, <1>3 DEF IInv

\* Appending to, or removing from, the device list gives a device list.
LEMMA DeviceListType ==
  ASSUME device \in Seq(Ids),
         \/ \E i \in Ids : device' = Append(device, i)
         \/ \E k \in 1..Len(device) : Detach(k)
  PROVE  device' \in Seq(Ids)
<1>1. CASE \E i \in Ids : device' = Append(device, i)
  BY <1>1, AppendProperties
<1>2. CASE \E k \in 1..Len(device) : Detach(k)
  <2>1. PICK k \in 1..Len(device) : Detach(k)
    BY <1>2
  <2>2. Len(device) - 1 \in Nat
    BY <2>1, LenProperties
  <2>3. \A j \in 1..Len(device) : device[j] \in Ids
    BY LenProperties
  <2>4. device' \in [1..(Len(device) - 1) -> Ids]
    BY <2>1, <2>2, <2>3 DEF Detach
  <2>5. QED
    BY <2>2, <2>4
<1>3. QED
  BY <1>1, <1>2

\* Plugging and unplugging touch the device list only.
LEMMA DevicesStep == IInv /\ Devices => IInv'
<1> SUFFICES ASSUME IInv, Devices PROVE IInv'
  OBVIOUS
<1> USE DEF loopVars
<1>1. UNCHANGED <<refs, slots, phase, cursor, listed, todo, opened>>
  BY DEF Devices, Attach, Detach
<1>2. device' \in Seq(Ids)
  BY DeviceListType DEF Devices, Attach, IInv, TypeOK
<1>3. seen' \subseteq Ids
  BY DEF Devices, Attach, Detach, IInv, TypeOK
<1>4. TypeOK'
  BY <1>1, <1>2, <1>3 DEF IInv, TypeOK
<1>5. OpenPending'
  BY <1>1 DEF IInv, OpenPending, Free, AlreadyAssigned, Item, First, Before
<1>6. SlotIdentity' /\ OneSlotPerController'
  BY <1>1 DEF IInv, SlotIdentity, OneSlotPerController
<1>7. HandlesBalanced'
  BY <1>1 DEF IInv, HandlesBalanced, HeldBy
<1>8. QED
  BY <1>4, <1>5, <1>6, <1>7 DEF IInv

\* enumerate lists items and changes nothing else.
LEMMA BeginReconcileStep == IInv /\ BeginReconcile => IInv'
<1> SUFFICES ASSUME IInv, BeginReconcile PROVE IInv'
  OBVIOUS
<1> USE DEF BeginReconcile, deviceVars
<1>1. \A k \in 1..Len(device) : k \in Nat \ {0} /\ device[k] \in Ids
  BY LenProperties DEF IInv, TypeOK
<1>2. listed' \subseteq Items
  BY <1>1 DEF Enumerate, Items
<1>3. TypeOK'
  BY <1>2 DEF IInv, TypeOK
<1>4. QED
  BY <1>3, QuietStep

\* What a step that closes the handle of one slot and empties it preserves.
LEMMA CloseOneSlot ==
  ASSUME IInv, NEW p \in Players, slots[p].handle # None,
         refs' = [refs EXCEPT ![slots[p].handle] = @ - 1],
         slots' = [slots EXCEPT ![p] = Empty],
         phase # "opened", phase' # "opened", opened' = opened
  PROVE  /\ refs' \in [Ids -> Nat]
         /\ slots' \in [Players -> [handle : Ids \cup {None}, id : Ids \cup {None}]]
         /\ SlotIdentity' /\ OneSlotPerController' /\ HandlesBalanced' /\ OpenPending'
<1> DEFINE h == slots[p].handle
<1> USE DEF IInv
<1>1. h \in Ids
  BY DEF TypeOK
<1>2. refs[h] = 1
  BY <1>1 DEF HandlesBalanced, HeldBy
<1>3. refs' \in [Ids -> Nat]
  BY <1>1, <1>2 DEF TypeOK
<1>4. slots' \in [Players -> [handle : Ids \cup {None}, id : Ids \cup {None}]]
  BY DEF TypeOK, Empty
<1>5. \A s \in Players : slots'[s] = IF s = p THEN Empty ELSE slots[s]
  BY DEF TypeOK
<1>6. SlotIdentity' /\ OneSlotPerController'
  BY <1>5 DEF SlotIdentity, OneSlotPerController, Empty
<1>7. ASSUME NEW g \in Ids PROVE refs'[g] = HeldBy(g)'
  <2>1. CASE g = h
    <3>1. \A s \in Players : slots'[s].handle # g
      BY <1>5, <2>1, NoneAssumption DEF OneSlotPerController, Empty
    <3>2. refs'[g] = 0
      BY <1>1, <1>2, <2>1 DEF TypeOK
    <3>3. QED
      BY <3>1, <3>2 DEF HeldBy
  <2>2. CASE g # h
    <3>1. (\E s \in Players : slots'[s].handle = g) <=> (\E s \in Players : slots[s].handle = g)
      BY <1>5, <2>2, NoneAssumption DEF Empty
    <3>2. refs'[g] = refs[g]
      BY <1>1, <2>2 DEF TypeOK
    <3>3. QED
      BY <3>1, <3>2 DEF HeldBy, HandlesBalanced
  <2>3. QED
    BY <2>1, <2>2
<1>8. HandlesBalanced'
  BY <1>7 DEF HandlesBalanced
<1>9. OpenPending'
  BY DEF OpenPending
<1>10. QED
  BY <1>3, <1>4, <1>6, <1>8, <1>9

\* One round of the release loop keeps the slot or closes its handle and empties it.
LEMMA CheckSlotStep == IInv /\ CheckSlot => IInv'
<1> SUFFICES ASSUME IInv, CheckSlot PROVE IInv'
  OBVIOUS
<1> USE DEF CheckSlot, deviceVars
<1>1. /\ cursor' \in Players
      /\ todo' \subseteq Items
      /\ phase' \in {"release", "assign"}
  BY MaxPlayersAssumption DEF IInv, TypeOK, Players
<1>2. CASE slots[cursor].handle = None /\ slots' = [slots EXCEPT ![cursor].id = None]
           /\ UNCHANGED refs
  <2>1. slots' = slots
    BY <1>2 DEF IInv, TypeOK, SlotIdentity
  <2>2. TypeOK'
    BY <1>1, <1>2, <2>1 DEF IInv, TypeOK
  <2>3. QED
    BY <1>1, <1>2, <2>1, <2>2, QuietStep
<1>3. CASE UNCHANGED <<slots, refs>>
  <2>1. TypeOK'
    BY <1>1, <1>3 DEF IInv, TypeOK
  <2>2. QED
    BY <1>1, <1>3, <2>1, QuietStep
<1>4. CASE /\ slots[cursor].handle # None
           /\ Close(slots[cursor].handle)
           /\ slots' = [slots EXCEPT ![cursor] = Empty]
  <2>1. cursor \in Players
    BY DEF IInv, TypeOK
  <2>2. /\ refs' \in [Ids -> Nat]
        /\ slots' \in [Players -> [handle : Ids \cup {None}, id : Ids \cup {None}]]
        /\ SlotIdentity' /\ OneSlotPerController' /\ HandlesBalanced' /\ OpenPending'
    BY <1>1, <1>4, <2>1, CloseOneSlot DEF Close
  <2>3. TypeOK'
    BY <1>1, <2>2 DEF IInv, TypeOK
  <2>4. QED
    BY <2>2, <2>3 DEF IInv
<1>5. QED
  BY <1>2, <1>3, <1>4

\* The assign loop skips an item, or ends, without touching a handle.
LEMMA AssignLoopQuietStep == IInv /\ (SkipAssigned \/ EndReconcile) => IInv'
<1> SUFFICES ASSUME IInv, SkipAssigned \/ EndReconcile PROVE IInv'
  OBVIOUS
<1> USE DEF SkipAssigned, EndReconcile, deviceVars, loopVars
<1>1. TypeOK'
  BY MaxPlayersAssumption DEF IInv, TypeOK, Players
<1>2. QED
  BY <1>1, QuietStep

\* An open that returns nullptr leaves a decision pending about no handle.
LEMMA OpenFailsStep == IInv /\ OpenFails => IInv'
<1> SUFFICES ASSUME IInv, OpenFails PROVE IInv'
  OBVIOUS
<1> USE DEF OpenFails, OpenItem, deviceVars
<1>1. TypeOK'
  BY DEF IInv, TypeOK
<1>2. SlotIdentity' /\ OneSlotPerController'
  BY DEF IInv, SlotIdentity, OneSlotPerController
<1>3. HandlesBalanced'
  BY NoneAssumption DEF IInv, HandlesBalanced, HeldBy
<1>4. OpenPending'
  BY DEF OpenPending, Free, AlreadyAssigned, Item, First
<1>5. QED
  BY <1>1, <1>2, <1>3, <1>4 DEF IInv

\* A successful open is accounted for by the handle that is pending.
LEMMA OpenSucceedsStep == IInv /\ OpenSucceeds => IInv'
<1> SUFFICES ASSUME IInv, OpenSucceeds PROVE IInv'
  OBVIOUS
<1> USE DEF OpenSucceeds, OpenItem, deviceVars
<1>1. PICK h \in CanOpen(Item.device_index) :
         opened' = h /\ refs' = [refs EXCEPT ![h] = @ + 1]
  OBVIOUS
<1>2. h \in Ids
  BY <1>1, LenProperties DEF CanOpen, IInv, TypeOK
<1>3. TypeOK'
  BY <1>1, <1>2 DEF IInv, TypeOK
<1>4. SlotIdentity' /\ OneSlotPerController'
  BY DEF IInv, SlotIdentity, OneSlotPerController
<1>5. HandlesBalanced'
  BY <1>1, <1>2 DEF IInv, TypeOK, HandlesBalanced, HeldBy
<1>6. OpenPending'
  BY DEF OpenPending, Free, AlreadyAssigned, Item, First
<1>7. QED
  BY <1>3, <1>4, <1>5, <1>6 DEF IInv

\* The pending reference becomes the reference of the slot it is assigned to.
LEMMA AssignOpenedStep == IInv /\ AssignOpened => IInv'
<1> SUFFICES ASSUME IInv, AssignOpened PROVE IInv'
  OBVIOUS
<1> USE DEF AssignOpened, deviceVars
<1> DEFINE f == FirstFree
<1>1. f \in Players /\ slots[f].handle = None
  BY FirstFreeIsLowest DEF IInv, OpenPending, Free
<1>2. opened \in Ids /\ Item.instance_id = opened
  BY DEF IsTheItem, IInv, TypeOK
<1>3. \A s \in Players : slots'[s] = IF s = f THEN [handle |-> opened, id |-> opened] ELSE slots[s]
  BY <1>1, <1>2 DEF IInv, TypeOK
<1>4. \A s \in Players : slots[s].handle # opened
  BY <1>2, NoneAssumption DEF IInv, OpenPending, AlreadyAssigned, SlotIdentity
<1>5. TypeOK'
  BY <1>2 DEF IInv, TypeOK
<1>6. SlotIdentity' /\ OneSlotPerController'
  BY <1>3, <1>4 DEF IInv, SlotIdentity, OneSlotPerController
<1>7. ASSUME NEW h \in Ids PROVE refs'[h] = HeldBy(h)'
  <2>1. CASE h = opened
    <3>1. \E s \in Players : slots'[s].handle = h
      BY <1>1, <1>3, <2>1
    <3>2. refs[h] = 1
      BY <1>4, <2>1 DEF IInv, HandlesBalanced, HeldBy
    <3>3. QED
      BY <3>1, <3>2 DEF HeldBy
  <2>2. CASE h # opened
    <3>1. (\E s \in Players : slots'[s].handle = h) <=> (\E s \in Players : slots[s].handle = h)
      BY <1>1, <1>3, <2>2, NoneAssumption
    <3>2. QED
      BY <2>2, <3>1 DEF IInv, HandlesBalanced, HeldBy
  <2>3. QED
    BY <2>1, <2>2
<1>8. HandlesBalanced'
  BY <1>7 DEF HandlesBalanced
<1>9. QED
  BY <1>5, <1>6, <1>8 DEF IInv, OpenPending

\* The pending reference is given back.
LEMMA RejectOpenedStep == IInv /\ RejectOpened => IInv'
<1> SUFFICES ASSUME IInv, RejectOpened PROVE IInv'
  OBVIOUS
<1> USE DEF RejectOpened, deviceVars
<1>1. /\ refs' \in [Ids -> Nat]
      /\ \A h \in Ids : refs'[h] = refs[h] - (IF h = opened THEN 1 ELSE 0)
  <2>1. CASE opened = None
    BY <2>1, NoneAssumption DEF IInv, TypeOK
  <2>2. CASE opened # None
    <3>1. opened \in Ids /\ refs[opened] >= 1
      BY <2>2 DEF IInv, TypeOK, HandlesBalanced, HeldBy
    <3>2. QED
      BY <2>2, <3>1 DEF IInv, TypeOK, Close
  <2>3. QED
    BY <2>1, <2>2
<1>2. TypeOK'
  BY <1>1 DEF IInv, TypeOK
<1>3. SlotIdentity' /\ OneSlotPerController'
  BY DEF IInv, SlotIdentity, OneSlotPerController
<1>4. HandlesBalanced'
  BY <1>1 DEF IInv, HandlesBalanced, HeldBy
<1>5. QED
  BY <1>2, <1>3, <1>4 DEF IInv, OpenPending

\* close() on a set of slots whose handles are open.
LEMMA CloseSlotsStep ==
  ASSUME IInv, NEW ss \in SUBSET Players, \A s \in ss : slots[s].handle # None,
         CloseSlots(ss), phase # "opened", phase' # "opened",
         UNCHANGED <<device, seen, cursor, listed, todo, opened>>,
         phase' \in {"idle", "stopped"}
  PROVE  IInv'
<1> USE DEF CloseSlots
<1>1. \A s \in Players : slots'[s] = IF s \in ss THEN Empty ELSE slots[s]
  OBVIOUS
<1>2. ASSUME NEW h \in Ids PROVE refs'[h] \in Nat /\ refs'[h] = HeldBy(h)'
  <2>1. CASE \E s \in ss : slots[s].handle = h
    <3>1. refs[h] = 1
      BY <2>1 DEF IInv, HandlesBalanced, HeldBy
    <3>2. \A s \in Players : slots'[s].handle # h
      BY <1>1, <2>1, NoneAssumption DEF IInv, OneSlotPerController, Empty
    <3>3. QED
      BY <2>1, <3>1, <3>2 DEF HeldBy
  <2>2. CASE ~ \E s \in ss : slots[s].handle = h
    <3>1. (\E s \in Players : slots'[s].handle = h) <=> (\E s \in Players : slots[s].handle = h)
      BY <1>1, <2>2, NoneAssumption DEF Empty
    <3>2. QED
      BY <2>2, <3>1 DEF IInv, TypeOK, HandlesBalanced, HeldBy
  <2>3. QED
    BY <2>1, <2>2
<1>3. refs' \in [Ids -> Nat] /\ HandlesBalanced'
  BY <1>2 DEF HandlesBalanced
<1>4. TypeOK'
  BY <1>3 DEF IInv, TypeOK, Empty
<1>5. SlotIdentity' /\ OneSlotPerController'
  BY <1>1 DEF IInv, SlotIdentity, OneSlotPerController, Empty
<1>6. QED
  BY <1>3, <1>4, <1>5 DEF IInv, OpenPending

\* release_instance and close_all close the handles of a set of occupied slots.
LEMMA ReleaseOrCloseStep ==
  IInv /\ (CloseAll \/ \E i \in Ids : ReleaseInstance(i)) => IInv'
<1>1. ASSUME IInv, NEW i \in Ids, ReleaseInstance(i) PROVE IInv'
  BY <1>1, CloseSlotsStep DEF ReleaseInstance, Holding, deviceVars, loopVars
<1>2. ASSUME IInv, CloseAll PROVE IInv'
  BY <1>2, CloseSlotsStep DEF CloseAll, Free, deviceVars, loopVars
<1>3. QED
  BY <1>1, <1>2

\* Every step preserves the inductive invariant.
LEMMA NextIInv == IInv /\ [Next]_vars => IInv'
<1> SUFFICES ASSUME IInv, [Next]_vars PROVE IInv'
  OBVIOUS
<1>1. CASE UNCHANGED vars
  BY <1>1 DEF vars, IInv, TypeOK, SlotIdentity, OneSlotPerController, HandlesBalanced, HeldBy,
     OpenPending, Free, AlreadyAssigned, Item, First
<1>2. CASE Next
  BY <1>1, <1>2, DevicesStep, BeginReconcileStep, CheckSlotStep, AssignLoopQuietStep,
     OpenSucceedsStep, OpenFailsStep, AssignOpenedStep, RejectOpenedStep, ReleaseOrCloseStep
     DEF Next, ReconcileStep, Stopped
<1>3. QED
  BY <1>1, <1>2

\* The inductive invariant holds in every behaviour of the slot table.
THEOREM Invariance == Spec => []IInv
<1>1. Init => IInv
  BY InitIInv
<1>2. IInv /\ [Next]_vars => IInv'
  BY NextIInv
<1>3. QED
  BY <1>1, <1>2, PTL DEF Spec

\* Every variable keeps its type; in particular no reference count of an SDL
\* controller goes below zero (TypeOK), for any number of players and devices.
THEOREM TypeCorrect == Spec => []TypeOK
  BY Invariance, PTL DEF IInv

\* A slot always plays the controller it was assigned for, however the device
\* list changed between enumerate and open.
THEOREM SlotsKeepIdentity == Spec => []SlotIdentity
  BY Invariance, PTL DEF IInv

\* No controller ever plays as two players.
THEOREM SlotsAreExclusive == Spec => []OneSlotPerController
  BY Invariance, PTL DEF IInv

\* reconcile, release_instance and close_all neither leak a handle nor close one
\* twice, whatever open returns.
THEOREM HandlesAreBalanced == Spec => []HandlesBalanced
  BY Invariance, PTL DEF IInv

-----------------------------------------------------------------------------
(* Refinement of PlayerSlots.  What makes a release safe is the snapshot: SDL *)
(* never reuses an instance id, so an owner that reconcile did not find listed *)
(* is gone for good, and one that is still attached must have been listed.    *)

DevicesDistinct == \A j, k \in 1..Len(device) : device[j] = device[k] => j = k

OwnersKnown ==
  /\ Attached \subseteq seen
  /\ \A s \in Players : slots[s].handle # None => slots[s].handle \in seen \cap Gamepads
  /\ opened \in Gamepads \cup {None}

OwnersListed ==
  phase = "release" =>
    \A s \in Players : slots[s].handle \in Attached =>
      \E item \in listed : item.instance_id = slots[s].handle

RInv == IInv /\ DevicesDistinct /\ OwnersKnown /\ OwnersListed

\* A new device is added to those attached, and no device is listed twice.
LEMMA AttachEffect ==
  ASSUME RInv, NEW i \in Ids, Attach(i)
  PROVE  Attached' = Attached \cup {i} /\ DevicesDistinct'
<1>1. /\ Len(device') = Len(device) + 1
      /\ \A k \in 1..Len(device) : device'[k] = device[k]
      /\ device'[Len(device) + 1] = i
      /\ Len(device) \in Nat
  BY AppendProperties, LenProperties DEF Attach, RInv, IInv, TypeOK
<1>2. i \notin Attached
  BY DEF Attach, RInv, OwnersKnown
<1>3. Attached' = Attached \cup {i}
  BY <1>1 DEF Attached
<1>4. \A j, k \in 1..(Len(device) + 1) : device'[j] = device'[k] => j = k
  BY <1>1, <1>2 DEF RInv, DevicesDistinct, Attached
<1>5. QED
  BY <1>1, <1>3, <1>4 DEF DevicesDistinct

\* A removed device is no longer attached, the others still are.
LEMMA DetachEffect ==
  ASSUME RInv, NEW k \in 1..Len(device), Detach(k)
  PROVE  Attached' = Attached \ {device[k]} /\ DevicesDistinct'
<1> DEFINE n == Len(device)
<1>1. n \in Nat /\ n - 1 \in Nat
  BY LenProperties DEF RInv, IInv, TypeOK
<1>2. device' \in Seq(Ids)
  BY DeviceListType DEF RInv, IInv, TypeOK
<1>3. DOMAIN device' = 1..(n - 1) /\ DOMAIN device' = 1..Len(device') /\ Len(device') \in Nat
  BY <1>2, LenProperties DEF Detach
<1>4. Len(device') = n - 1
  BY <1>1, <1>3
<1>5. \A j \in 1..(n - 1) : device'[j] = IF j < k THEN device[j] ELSE device[j + 1]
  BY DEF Detach
<1>6. \A a, b \in 1..n : device[a] = device[b] => a = b
  BY DEF RInv, DevicesDistinct
<1>7. \A i, j \in 1..(n - 1) : device'[i] = device'[j] => i = j
  BY <1>1, <1>5, <1>6
<1>8. ASSUME NEW j \in 1..(n - 1) PROVE device'[j] \in Attached \ {device[k]}
  BY <1>1, <1>5, <1>6 DEF Attached
<1>9. ASSUME NEW j \in 1..n, j # k PROVE \E i \in 1..(n - 1) : device'[i] = device[j]
  <2>1. CASE j < k
    BY <1>1, <1>5, <2>1
  <2>2. CASE j > k
    <3>1. j - 1 \in 1..(n - 1) /\ ~(j - 1 < k) /\ (j - 1) + 1 = j
      BY <1>1, <2>2
    <3>2. QED
      BY <1>5, <3>1
  <2>3. QED
    BY <1>9, <2>1, <2>2
<1>10. Attached' = {device'[j] : j \in 1..(n - 1)}
  BY <1>4 DEF Attached
<1>11. Attached' = Attached \ {device[k]}
  <2>1. Attached' \subseteq Attached \ {device[k]}
    BY <1>8, <1>10
  <2>2. ASSUME NEW h \in Attached, h # device[k] PROVE h \in Attached'
    <3>1. PICK j \in 1..n : device[j] = h
      BY DEF Attached
    <3>2. PICK i \in 1..(n - 1) : device'[i] = device[j]
      BY <1>9, <2>2, <3>1
    <3>3. QED
      BY <1>10, <3>1, <3>2
  <2>3. QED
    BY <2>1, <2>2
<1>12. QED
  BY <1>4, <1>7, <1>11 DEF DevicesDistinct

\* What the steps that close handles do to the owners.
LEMMA CheckSlotOwners ==
  ASSUME IInv, CheckSlot
  PROVE  /\ \A s \in Players \ {cursor} : slots'[s] = slots[s]
         /\ slots'[cursor] = slots[cursor] \/ (~Valid(cursor) /\ slots'[cursor] = Empty)
         /\ \A s \in Players : slots'[s].handle \in {slots[s].handle, None}
<1>1. cursor \in Players /\ DOMAIN slots = Players
  BY DEF IInv, TypeOK
<1>2. CASE slots' = [slots EXCEPT ![cursor].id = None] /\ slots[cursor].handle = None
  <2>1. slots' = slots
    BY <1>2 DEF IInv, TypeOK, SlotIdentity
  <2>2. QED
    BY <2>1
<1>3. CASE slots' = slots
  BY <1>3
<1>4. CASE ~Valid(cursor) /\ slots' = [slots EXCEPT ![cursor] = Empty]
  BY <1>1, <1>4 DEF Empty
<1>5. QED
  BY <1>2, <1>3, <1>4 DEF CheckSlot

\* The slots closed lose their owners, the others keep theirs.
LEMMA CloseSlotsOwners ==
  ASSUME NEW ss, CloseSlots(ss)
  PROVE  \A s \in Players : slots'[s].handle = IF s \in ss THEN None ELSE slots[s].handle
BY DEF CloseSlots, Empty

\* The invariant the refinement rests on holds initially.
LEMMA InitRInv == Init => RInv
  BY InitIInv DEF Init, RInv, DevicesDistinct, OwnersKnown, OwnersListed, Attached, Empty

\* Every step preserves it.
LEMMA NextRInv == RInv /\ [Next]_vars => RInv'
<1> SUFFICES ASSUME RInv, [Next]_vars PROVE RInv'
  OBVIOUS
<1> USE DEF deviceVars, loopVars
<1>1. IInv'
  BY NextIInv DEF RInv
<1>2. CASE \E i \in Ids : Attach(i)
  <2>1. PICK i \in Ids : Attach(i)
    BY <1>2
  <2>2. Attached' = Attached \cup {i} /\ DevicesDistinct'
    BY <2>1, AttachEffect
  <2>3. OwnersKnown'
    BY <2>1, <2>2 DEF Attach, RInv, OwnersKnown
  <2>4. OwnersListed'
    BY <2>1, <2>2, NoneAssumption DEF Attach, RInv, OwnersKnown, OwnersListed
  <2>5. QED
    BY <1>1, <2>2, <2>3, <2>4 DEF RInv
<1>3. CASE \E k \in 1..Len(device) : Detach(k)
  <2>1. PICK k \in 1..Len(device) : Detach(k)
    BY <1>3
  <2>2. Attached' = Attached \ {device[k]} /\ DevicesDistinct'
    BY <2>1, DetachEffect
  <2>3. OwnersKnown' /\ OwnersListed'
    BY <2>1, <2>2 DEF Detach, RInv, OwnersKnown, OwnersListed
  <2>4. QED
    BY <1>1, <2>2, <2>3 DEF RInv
<1>4. CASE UNCHANGED deviceVars
  <2>1. DevicesDistinct' /\ Attached' = Attached /\ seen' = seen
    BY <1>4 DEF RInv, DevicesDistinct, Attached
  <2>2. CASE BeginReconcile
    <3>1. OwnersKnown'
      BY <2>1, <2>2 DEF BeginReconcile, RInv, OwnersKnown
    <3>2. ASSUME NEW s \in Players, slots[s].handle \in Attached
          PROVE  \E item \in Enumerate : item.instance_id = slots[s].handle
      <4>1. PICK k \in 1..Len(device) : device[k] = slots[s].handle
        BY <3>2 DEF Attached
      <4>2. device[k] \in Ids
        BY LenProperties DEF RInv, IInv, TypeOK
      <4>3. device[k] \in Gamepads
        BY <4>1, <4>2, NoneAssumption DEF RInv, OwnersKnown
      <4>4. [device_index |-> k, instance_id |-> device[k]] \in Enumerate
        BY <4>3 DEF Enumerate
      <4>5. QED
        BY <4>1, <4>4
    <3>3. OwnersListed'
      BY <2>1, <2>2, <3>2 DEF BeginReconcile, OwnersListed
    <3>4. QED
      BY <1>1, <2>1, <3>1, <3>3 DEF RInv
  <2>3. CASE CheckSlot
    <3>1. cursor \in Players
      BY DEF RInv, IInv, TypeOK
    <3>2. \A s \in Players : slots'[s].handle \in {slots[s].handle, None}
      BY <2>3, CheckSlotOwners DEF RInv
    <3>3. None \notin Attached
      BY NoneAssumption, LenProperties DEF RInv, IInv, TypeOK, Attached
    <3>4. OwnersKnown' /\ OwnersListed'
      BY <2>1, <2>3, <3>2, <3>3 DEF CheckSlot, RInv, OwnersKnown, OwnersListed
    <3>5. QED
      BY <1>1, <2>1, <3>4 DEF RInv
  <2>4. CASE AssignOpened
    <3>1. \A s \in Players : slots'[s].handle \in {slots[s].handle, opened}
      BY <2>4 DEF AssignOpened, RInv, IInv, TypeOK
    <3>2. opened \in seen \cap Gamepads
      BY <2>4 DEF AssignOpened, IsTheItem, Connected, RInv, OwnersKnown
    <3>3. OwnersKnown' /\ OwnersListed'
      BY <2>1, <2>4, <3>1, <3>2 DEF AssignOpened, RInv, OwnersKnown, OwnersListed
    <3>4. QED
      BY <1>1, <2>1, <3>3 DEF RInv
  <2>5. CASE SkipAssigned \/ EndReconcile \/ OpenFails \/ RejectOpened
    <3>1. OwnersKnown' /\ OwnersListed'
      BY <2>1, <2>5
         DEF SkipAssigned, EndReconcile, OpenFails, OpenItem, RejectOpened, RInv, OwnersKnown, OwnersListed
    <3>2. QED
      BY <1>1, <2>1, <3>1 DEF RInv
  <2>6. CASE OpenSucceeds
    <3>1. opened' \in Gamepads
      BY <2>6 DEF OpenSucceeds, CanOpen
    <3>2. OwnersKnown' /\ OwnersListed'
      BY <2>1, <2>6, <3>1 DEF OpenSucceeds, OpenItem, RInv, OwnersKnown, OwnersListed
    <3>3. QED
      BY <1>1, <2>1, <3>2 DEF RInv
  <2>7. CASE CloseAll \/ \E i \in Ids : ReleaseInstance(i)
    <3>1. \A s \in Players : slots'[s].handle \in {slots[s].handle, None}
      BY <2>7, CloseSlotsOwners DEF CloseAll, ReleaseInstance
    <3>2. OwnersKnown' /\ OwnersListed'
      BY <2>1, <2>7, <3>1 DEF CloseAll, ReleaseInstance, RInv, OwnersKnown, OwnersListed
    <3>3. QED
      BY <1>1, <2>1, <3>2 DEF RInv
  <2>8. CASE UNCHANGED vars
    BY <1>1, <2>1, <2>8 DEF vars, RInv, OwnersKnown, OwnersListed
  <2>9. CASE Devices
    BY <1>2, <1>3, <2>9 DEF Devices
  <2>10. QED
    BY <2>2, <2>3, <2>4, <2>5, <2>6, <2>7, <2>8, <2>9 DEF Next, ReconcileStep, Stopped
<1>5. UNCHANGED deviceVars \/ Devices
  BY DEF Next, vars, Stopped, BeginReconcile, ReconcileStep, CheckSlot, SkipAssigned, EndReconcile,
     OpenSucceeds, OpenFails, OpenItem, AssignOpened, RejectOpened, ReleaseInstance, CloseAll
<1>6. QED
  BY <1>2, <1>3, <1>4, <1>5 DEF Devices

\* A slot loses its owner only while the owner is no longer attached.
LEMMA InvalidIsDetached ==
  ASSUME RInv, phase = "release", NEW s \in Players, slots[s].handle # None, ~Valid(s)
  PROVE  slots[s].handle \notin Attached
BY DEF RInv, IInv, SlotIdentity, OwnersListed, Valid, Connected

\* Every step of the table is a step of PlayerSlots or changes nothing it sees.
LEMMA StepSimulation == RInv /\ RInv' /\ [Next]_vars => [Promise!Next]_Promise!vars
<1> SUFFICES ASSUME RInv, RInv', [Next]_vars PROVE [Promise!Next]_Promise!vars
  OBVIOUS
<1> USE DEF deviceVars, loopVars, Promise!Players, Players
<1>1. CASE \E i \in Ids : Attach(i)
  <2>1. PICK i \in Ids : Attach(i)
    BY <1>1
  <2>2. Promise!Attach(i)
    BY <2>1, AttachEffect DEF Attach, Promise!Attach
  <2>3. QED
    BY <2>2 DEF Promise!Next
<1>2. CASE \E k \in 1..Len(device) : Detach(k)
  <2>1. PICK k \in 1..Len(device) : Detach(k)
    BY <1>2
  <2>2. device[k] \in Ids /\ device[k] \in Attached
    BY <2>1, LenProperties, SMTT(20) DEF RInv, IInv, TypeOK, Attached
  <2>3. Promise!Detach(device[k])
    BY <2>1, <2>2, DetachEffect DEF Detach, Promise!Detach
  <2>4. QED
    BY <2>2, <2>3 DEF Promise!Next
<1>3. CASE CheckSlot
  <2>1. cursor \in Players /\ phase = "release"
    BY <1>3 DEF CheckSlot, RInv, IInv, TypeOK
  <2>2. Attached' = Attached /\ seen' = seen /\ phase' # "stopped" /\ phase # "stopped"
    BY <1>3 DEF CheckSlot, Attached
  <2>3. CASE slots'[cursor] = slots[cursor]
    <3>1. \A s \in Players : slots'[s] = slots[s]
      BY <1>3, <2>3, CheckSlotOwners DEF RInv
    <3>2. UNCHANGED Promise!vars
      BY <2>2, <3>1 DEF Promise!vars
    <3>3. QED
      BY <3>2
  <2>4. CASE slots'[cursor] # slots[cursor]
    <3>1. PICK p \in Players : p = cursor
      BY <2>1
    <3>2. ~Valid(p) /\ slots'[p] = Empty /\ \A s \in Players \ {p} : slots'[s] = slots[s]
      BY <1>3, <2>4, <3>1, CheckSlotOwners DEF RInv
    <3>3. slots[p].handle # None
      BY <2>4, <3>1, <3>2 DEF RInv, IInv, TypeOK, SlotIdentity, Empty
    <3>4. slots[p].handle \notin Attached
      BY <2>1, <3>2, <3>3, InvalidIsDetached
    <3>5. \A s \in Players : slots'[s].handle = IF s = p THEN None ELSE slots[s].handle
      BY <3>2 DEF Empty
    <3>6. [s \in Players |-> slots[s].handle]' = [[s \in Players |-> slots[s].handle] EXCEPT ![p] = None]
      BY <3>5
    <3>7. Promise!Release(p)
      BY <2>2, <3>1, <3>3, <3>4, <3>6 DEF Promise!Release
    <3>8. QED
      BY <3>1, <3>7 DEF Promise!Next
  <2>5. QED
    BY <2>3, <2>4
<1>4. CASE AssignOpened
  <2>1. FirstFree \in Free /\ \A t \in Free : FirstFree <= t
    BY <1>4, FirstFreeIsLowest DEF AssignOpened, RInv, IInv, OpenPending
  <2>2. PICK f \in Players : f = FirstFree /\ slots[f].handle = None
    BY <2>1 DEF Free
  <2>3. PICK i \in Ids : i = opened /\ i \in Attached /\ Item.instance_id = i
    BY <1>4 DEF AssignOpened, IsTheItem, Connected, RInv, IInv, TypeOK
  <2>4. \A t \in Players : slots[t].handle # i
    BY <1>4, <2>3, NoneAssumption
       DEF AssignOpened, RInv, IInv, OpenPending, AlreadyAssigned, SlotIdentity
  <2>5. \A t \in 1..(f - 1) : t \in Players /\ slots[t].handle # None
    BY <2>1, <2>2, MaxPlayersAssumption DEF Free
  <2>6. \A s \in Players : slots'[s].handle = IF s = f THEN i ELSE slots[s].handle
    BY <1>4, <2>2, <2>3 DEF AssignOpened, RInv, IInv, TypeOK
  <2>7. [s \in Players |-> slots[s].handle]' = [[s \in Players |-> slots[s].handle] EXCEPT ![f] = i]
    BY <2>6
  <2>8. Attached' = Attached /\ seen' = seen /\ phase' # "stopped" /\ phase # "stopped"
    BY <1>4 DEF AssignOpened, Attached
  <2>9. Promise!Assign(f, i)
    BY <2>2, <2>3, <2>4, <2>5, <2>7, <2>8 DEF Promise!Assign
  <2>10. QED
    BY <2>9 DEF Promise!Next
<1>5. CASE \E i \in Ids : ReleaseInstance(i)
  <2>1. PICK i \in Ids : ReleaseInstance(i)
    BY <1>5
  <2>2. Attached' = Attached /\ seen' = seen /\ phase' = "idle" /\ phase = "idle"
    BY <2>1 DEF ReleaseInstance, Attached
  <2>3. \A s \in Players : slots'[s].handle = IF s \in Holding({i}) THEN None ELSE slots[s].handle
    BY <2>1, CloseSlotsOwners DEF ReleaseInstance
  <2>4. CASE Holding({i}) = {}
    <3>1. \A s \in Players : slots'[s].handle = slots[s].handle
      BY <2>3, <2>4
    <3>2. UNCHANGED Promise!vars
      BY <2>2, <3>1 DEF Promise!vars
    <3>3. QED
      BY <3>2
  <2>5. CASE Holding({i}) # {}
    <3>1. PICK p \in Holding({i}) : TRUE
      BY <2>5
    <3>2. p \in Players /\ slots[p].handle = i /\ i # None
      BY <3>1, NoneAssumption DEF Holding, RInv, IInv, SlotIdentity
    <3>3. \A s \in Players : s \in Holding({i}) <=> s = p
      BY <3>1, <3>2 DEF Holding, RInv, IInv, SlotIdentity, OneSlotPerController
    <3>4. [s \in Players |-> slots[s].handle]'
            = [[s \in Players |-> slots[s].handle] EXCEPT ![p] = None]
      BY <2>3, <3>2, <3>3
    <3>5. i \notin Attached
      BY <2>1 DEF ReleaseInstance
    <3>6. Promise!Release(p)
      BY <2>2, <3>2, <3>4, <3>5 DEF Promise!Release
    <3>7. QED
      BY <3>2, <3>6 DEF Promise!Next
  <2>6. QED
    BY <2>4, <2>5
<1>6. CASE CloseAll
  <2>1. Attached' = Attached /\ seen' = seen /\ phase' = "stopped" /\ phase # "stopped"
    BY <1>6 DEF CloseAll, Attached
  <2>2. \A s \in Players : slots'[s].handle = None
    BY <1>6, CloseSlotsOwners DEF CloseAll, Free
  <2>3. Promise!Shutdown
    BY <2>1, <2>2 DEF Promise!Shutdown
  <2>4. QED
    BY <2>3 DEF Promise!Next
<1>7. CASE BeginReconcile \/ SkipAssigned \/ EndReconcile \/ OpenSucceeds \/ OpenFails
             \/ RejectOpened \/ UNCHANGED vars
  <2>1. UNCHANGED <<device, seen, slots>> /\ (phase' = "stopped" <=> phase = "stopped")
    BY <1>7 DEF BeginReconcile, SkipAssigned, EndReconcile, OpenSucceeds, OpenFails, OpenItem,
       RejectOpened, vars
  <2>2. UNCHANGED Promise!vars
    BY <2>1 DEF Promise!vars, Attached
  <2>3. QED
    BY <2>2
<1>8. QED
  BY <1>1, <1>2, <1>3, <1>4, <1>5, <1>6, <1>7 DEF Next, Devices, ReconcileStep, Stopped

\* The slot table implements PlayerSlots: reconcile, run against a device list that
\* changes under it, never takes a slot from an attached controller, never gives a
\* slot to a detached one, and fills the lowest free slot first.
THEOREM Refinement == Spec => SlotsKeepPromise
<1>1. Init => Promise!Init
  BY DEF Init, Promise!Init, Promise!Players, Players, Attached, Empty
<1>2. RInv /\ RInv' /\ [Next]_vars => [Promise!Next]_Promise!vars
  BY StepSimulation
<1>3. QED
  BY <1>1, <1>2, InitRInv, NextRInv, PTL DEF Spec, SlotsKeepPromise, Promise!Spec

-----------------------------------------------------------------------------
(* The driver *)

\* Every step of the driver is one of the table's, or leaves the table alone.
LEMMA DriverStep == [NextInput]_allVars => [Next]_vars
<1> SUFFICES ASSUME NextInput PROVE [Next]_vars
  BY DEF allVars, vars
<1>1. CASE \E i \in Ids : Plug(i)
  BY <1>1 DEF Plug, Next, Devices
<1>2. CASE \E k \in 1..Len(device) : Unplug(k)
  BY <1>2 DEF Unplug, Next, Devices
<1>3. CASE \E i \in Ids : HandleRemoval(i)
  BY <1>3 DEF HandleRemoval, Next
<1>4. CASE LockAndReconcile
  BY <1>4 DEF LockAndReconcile, Next
<1>5. CASE Reconciling
  BY <1>5 DEF Reconciling, Next, ReconcileStep
<1>6. CASE ReconcileAndUnlock
  BY <1>6 DEF ReconcileAndUnlock, Next, ReconcileStep
<1>7. CASE ShutDown
  BY <1>7 DEF ShutDown, Next
<1>8. CASE Report \/ CreateWindow \/ RunBlock \/ PollBegin \/ PollEnd \/ Stopped
  BY <1>8 DEF Report, CreateWindow, RunBlock, PollBegin, PollEnd, Stopped
<1> QED
  BY <1>1, <1>2, <1>3, <1>4, <1>5, <1>6, <1>7, <1>8 DEF NextInput

\* The driver implements the slot table that the other modules speak of: whatever
\* the main thread, the poll and the dispatch queue do, the backend is called as
\* ControllerSlots says.
THEOREM DriverRefinesSlots == InputSpec => Spec
BY DriverStep, PTL DEF InputSpec, InitInput, Spec

\* So does the promise of PlayerSlots (SlotsKeepPromise).
THEOREM DriverKeepsPromise == InputSpec => SlotsKeepPromise
BY DriverRefinesSlots, Refinement, PTL

\* The mutex is main's while a reconcile is under way, and the poll's handle is
\* player 1's for as long as the poll has the mutex.
Exclusion ==
  /\ lock = "main" <=> phase \notin {"idle", "stopped"}
  /\ lock = "poll" => polled = slots[1].handle

\* Each action keeps it, because everything that writes slots takes the mutex.
LEMMA ExclusionStep == Exclusion /\ [NextInput]_allVars => Exclusion'
<1> SUFFICES ASSUME Exclusion, [NextInput]_allVars PROVE Exclusion'
  OBVIOUS
<1> USE DEF Exclusion
<1>0. CASE UNCHANGED allVars
  BY <1>0 DEF allVars, vars, inputVars
<1>1. ASSUME NEW i \in Ids, Plug(i) PROVE Exclusion'
  BY <1>1 DEF Plug, Attach, inputVars
<1>2. ASSUME NEW k \in 1..Len(device), Unplug(k) PROVE Exclusion'
  BY <1>2 DEF Unplug, Detach
<1>3. ASSUME NEW i \in Ids, HandleRemoval(i) PROVE Exclusion'
  BY <1>3 DEF HandleRemoval, ReleaseInstance
<1>4. CASE LockAndReconcile
  BY <1>4 DEF LockAndReconcile, BeginReconcile
<1>5. CASE Reconciling
  BY <1>5 DEF Reconciling, CheckSlot, SkipAssigned, OpenSucceeds, OpenFails, OpenItem,
              AssignOpened, RejectOpened, inputVars
<1>6. CASE ReconcileAndUnlock
  BY <1>6 DEF ReconcileAndUnlock, EndReconcile
<1>7. CASE ShutDown
  BY <1>7 DEF ShutDown, CloseAll
<1>8. CASE Report \/ CreateWindow \/ RunBlock
  BY <1>8 DEF Report, CreateWindow, RunBlock, vars
<1>9. CASE PollBegin \/ PollEnd
  BY <1>9 DEF PollBegin, PollEnd, vars
<1>10. CASE Stopped /\ UNCHANGED inputVars
  BY <1>10 DEF Stopped, vars, inputVars
<1> QED
  BY <1>0, <1>1, <1>2, <1>3, <1>4, <1>5, <1>6, <1>7, <1>8, <1>9, <1>10 DEF NextInput

\* Player 1's handle, if there is one, is referenced.
LEMMA PlayerOneIsOpen ==
  ASSUME TypeOK, HandlesBalanced, slots[1].handle # None
  PROVE  refs[slots[1].handle] > 0
<1>1. 1 \in Players
  BY MaxPlayersAssumption DEF Players
<1>2. slots[1].handle \in Ids
  BY <1>1 DEF TypeOK
<1>3. refs[slots[1].handle] = HeldBy(slots[1].handle)
  BY <1>2 DEF HandlesBalanced
<1> QED
  BY <1>1, <1>3 DEF HeldBy

\* get_input never uses a controller whose last reference has been closed
\* (PollUsesOpenHandle): a reconcile, a removal and the shutdown close handles under
\* the mutex that the poll holds.
THEOREM PollIsSafe == InputSpec => []PollUsesOpenHandle
<1>1. InitInput => Exclusion
  BY DEF InitInput, Init, Exclusion
<1>2. InputSpec => []Exclusion
  BY <1>1, ExclusionStep, PTL DEF InputSpec
<1>3. TypeOK /\ HandlesBalanced /\ Exclusion => PollUsesOpenHandle
  BY PlayerOneIsOpen DEF Exclusion, PollUsesOpenHandle
<1> QED
  BY <1>2, <1>3, DriverRefinesSlots, TypeCorrect, HandlesAreBalanced, PTL

-----------------------------------------------------------------------------
(* The way to the overlay *)

\* The blocks dispatched to the main queue are an attach and reported states.
BlockTypes ==
  /\ queue \in Seq({"attach", "connected", "disconnected"})
  /\ connected \in {"connected", "disconnected"}

\* A reconcile is the main thread's, and it reports after each, before it goes on.
TurnsOfMain ==
  /\ main \in {"loop", "reconcile", "report"}
  /\ main # "loop" => phase # "stopped"
  /\ main = "report" => phase = "idle"
  /\ phase \notin {"idle", "stopped"} => main = "reconcile"

\* What PaperPad_SetPhysicalControllerConnected was told last is what the table holds.
ReportIsCurrent ==
  /\ reported = "unset" => queue = <<>> /\ overlay = "unset"
  /\ phase # "stopped" /\ reported # "unset" => connected = reported
  /\ main = "loop" /\ reported # "unset" => connected = Aggregate

\* The last block to run leaves the overlay with the state that was reported last: it
\* says so, or it makes the overlay, which reads it.
LastBlockIsCurrent ==
  /\ queue # <<>> => queue[Len(queue)] \in {"attach", connected}
  /\ overlay # "unset" /\ queue = <<>> => overlay = connected

DeliveryInv == BlockTypes /\ TurnsOfMain /\ ReportIsCurrent /\ LastBlockIsCurrent

\* An overlay to which no block is on its way shows what the table holds.
OverlayIsTold ==
  main = "loop" /\ overlay # "unset" /\ queue = <<>> => overlay = Aggregate

\* A block that is appended is the last one.
LEMMA AppendedIsLast ==
  ASSUME NEW q \in Seq({"attach", "connected", "disconnected"}),
         NEW b \in {"attach", "connected", "disconnected"}
  PROVE  /\ Append(q, b) \in Seq({"attach", "connected", "disconnected"})
         /\ Append(q, b) # <<>>
         /\ Append(q, b)[Len(Append(q, b))] = b
BY AppendProperties

\* What is left when the first block has run ends as before, or is nothing.
LEMMA RestEndsAlike ==
  ASSUME NEW q \in Seq({"attach", "connected", "disconnected"}), q # <<>>
  PROVE  /\ Tail(q) \in Seq({"attach", "connected", "disconnected"})
         /\ Tail(q) # <<>> => Tail(q)[Len(Tail(q))] = q[Len(q)]
         /\ Tail(q) = <<>> => Head(q) = q[Len(q)]
<1>1. /\ Tail(q) \in Seq({"attach", "connected", "disconnected"})
      /\ Len(Tail(q)) = Len(q) - 1 /\ Len(q) \in Nat
      /\ \A i \in 1..Len(Tail(q)) : Tail(q)[i] = q[i + 1]
  BY HeadTailProperties, LenProperties
<1>2. ASSUME Tail(q) # <<>> PROVE Tail(q)[Len(Tail(q))] = q[Len(q)]
  <2>1. Len(Tail(q)) \in 1..Len(Tail(q))
    BY <1>1, <1>2, EmptySeq
  <2> QED
    BY <1>1, <2>1
<1>3. ASSUME Tail(q) = <<>> PROVE Head(q) = q[Len(q)]
  <2>1. Len(Tail(q)) = 0
    BY <1>1, <1>3, EmptySeq
  <2>2. PICK n \in Nat : n = Len(q)
    BY <1>1
  <2>3. 0 = n - 1
    BY <1>1, <2>1, <2>2
  <2>4. n = 1
    BY <2>3
  <2>5. Head(q) = q[1]
    OBVIOUS
  <2> QED
    BY <2>2, <2>4, <2>5
<1> QED
  BY <1>1, <1>2, <1>3

\* Steps that leave the reports, the blocks and the overlay alone keep it, if the table
\* changes only under a reconcile or a removal.
LEMMA QuietDelivery ==
  ASSUME DeliveryInv, TurnsOfMain', UNCHANGED uiVars,
         (main' = "loop" /\ main = "loop" /\ slots' = slots) \/ main' # "loop",
         phase = "stopped" => phase' = "stopped"
  PROVE  DeliveryInv'
<1>1. BlockTypes' /\ LastBlockIsCurrent'
  BY DEF DeliveryInv, BlockTypes, LastBlockIsCurrent, uiVars
<1>2. ReportIsCurrent'
  BY DEF DeliveryInv, ReportIsCurrent, Aggregate, uiVars
<1> QED
  BY <1>1, <1>2 DEF DeliveryInv

\* The main thread's steps and everybody else's keep it.
LEMMA DeliveryStep == DeliveryInv /\ [NextInput]_allVars => DeliveryInv'
<1> SUFFICES ASSUME DeliveryInv, [NextInput]_allVars PROVE DeliveryInv'
  OBVIOUS
<1>0. BlockTypes /\ TurnsOfMain /\ ReportIsCurrent /\ LastBlockIsCurrent
  BY DEF DeliveryInv
<1>1. CASE \/ UNCHANGED allVars
           \/ \E i \in Ids : Plug(i)
           \/ \E k \in 1..Len(device) : Unplug(k)
           \/ PollBegin \/ PollEnd \/ (Stopped /\ UNCHANGED inputVars)
  <2>1. UNCHANGED <<slots, phase, main>> /\ UNCHANGED uiVars
    BY <1>1 DEF allVars, vars, inputVars, Plug, Attach, Unplug, Detach, PollBegin, PollEnd, Stopped
  <2>2. TurnsOfMain'
    BY <1>0, <2>1 DEF TurnsOfMain
  <2>3. (main' = "loop" /\ main = "loop" /\ slots' = slots) \/ main' # "loop"
    BY <2>1
  <2> QED
    BY <2>1, <2>2, <2>3, QuietDelivery
<1>2. CASE (\E i \in Ids : HandleRemoval(i)) \/ LockAndReconcile
  <2>1. /\ main' = "reconcile" /\ phase = "idle" /\ phase' \in {"idle", "release"}
        /\ UNCHANGED uiVars
    BY <1>2 DEF HandleRemoval, ReleaseInstance, LockAndReconcile, BeginReconcile
  <2>2. TurnsOfMain'
    BY <2>1 DEF TurnsOfMain
  <2> QED
    BY <2>1, <2>2, QuietDelivery
<1>3. CASE Reconciling \/ ReconcileAndUnlock
  <2>1. /\ phase \in {"release", "assign", "opened"} /\ UNCHANGED uiVars
        /\ \/ phase' \in {"release", "assign", "opened"} /\ main' = main
           \/ phase' = "idle" /\ main' = "report"
    BY <1>3 DEF Reconciling, ReconcileAndUnlock, CheckSlot, SkipAssigned, EndReconcile, OpenSucceeds,
                OpenFails, OpenItem, AssignOpened, RejectOpened, inputVars
  <2>2. TurnsOfMain' /\ main' # "loop"
    BY <1>0, <2>1 DEF TurnsOfMain
  <2> QED
    BY <2>1, <2>2, QuietDelivery
<1>4. CASE Report
  <2>1. /\ main = "report" /\ main' = "loop" /\ phase' = phase /\ phase = "idle"
        /\ slots' = slots /\ overlay' = overlay
    BY <1>0, <1>4 DEF Report, TurnsOfMain, vars
  <2>2. TurnsOfMain' /\ Aggregate' = Aggregate /\ Aggregate \in {"connected", "disconnected"}
    BY <2>1 DEF TurnsOfMain, Aggregate
  <2>3. CASE reported # Aggregate
    <3>1. reported' = Aggregate /\ connected' = Aggregate /\ queue' = Append(queue, Aggregate)
      BY <1>4, <2>3 DEF Report, Notify
    <3>2. /\ queue' \in Seq({"attach", "connected", "disconnected"}) /\ queue' # <<>>
          /\ queue'[Len(queue')] = Aggregate
      BY <1>0, <2>2, <3>1, AppendedIsLast DEF BlockTypes
    <3>3. BlockTypes' /\ LastBlockIsCurrent'
      BY <2>2, <3>1, <3>2 DEF BlockTypes, LastBlockIsCurrent
    <3>4. ReportIsCurrent'
      BY <2>2, <3>1 DEF ReportIsCurrent
    <3> QED
      BY <2>2, <3>3, <3>4 DEF DeliveryInv
  <2>4. CASE reported = Aggregate
    <3>1. UNCHANGED <<reported, connected, queue>>
      BY <1>4, <2>4 DEF Report
    <3>2. connected = reported
      BY <1>0, <2>1, <2>2, <2>4 DEF ReportIsCurrent
    <3>3. BlockTypes' /\ LastBlockIsCurrent' /\ ReportIsCurrent'
      BY <1>0, <2>1, <2>2, <2>4, <3>1, <3>2 DEF BlockTypes, LastBlockIsCurrent, ReportIsCurrent
    <3> QED
      BY <2>2, <3>3 DEF DeliveryInv
  <2> QED
    BY <2>3, <2>4
<1>5. CASE CreateWindow
  <2>1. /\ UNCHANGED <<slots, phase, main, reported, connected, overlay>>
        /\ reported # "unset" /\ queue' = Append(queue, "attach")
    BY <1>5 DEF CreateWindow, vars
  <2>2. /\ queue' \in Seq({"attach", "connected", "disconnected"}) /\ queue' # <<>>
        /\ queue'[Len(queue')] = "attach"
    BY <1>0, <2>1, AppendedIsLast DEF BlockTypes
  <2>3. BlockTypes' /\ LastBlockIsCurrent'
    BY <1>0, <2>1, <2>2 DEF BlockTypes, LastBlockIsCurrent
  <2>4. TurnsOfMain' /\ ReportIsCurrent'
    BY <1>0, <2>1 DEF TurnsOfMain, ReportIsCurrent, Aggregate
  <2> QED
    BY <2>3, <2>4 DEF DeliveryInv
<1>6. CASE ShutDown
  <2>1. /\ main = "loop" /\ main' = "loop" /\ phase' = "stopped" /\ CloseSlots(Players \ Free)
        /\ UNCHANGED <<reported, overlay>> /\ reported # "unset"
        /\ connected' = "disconnected" /\ queue' = Append(queue, "disconnected")
    BY <1>6 DEF ShutDown, CloseAll, Notify
  <2>2. Aggregate' = "disconnected"
    <3>1. \A s \in Players : slots'[s].handle = None
      BY <2>1 DEF CloseSlots, Free, Empty
    <3> QED
      BY <3>1 DEF Aggregate
  <2>3. /\ queue' \in Seq({"attach", "connected", "disconnected"}) /\ queue' # <<>>
        /\ queue'[Len(queue')] = "disconnected"
    BY <1>0, <2>1, AppendedIsLast DEF BlockTypes
  <2>4. BlockTypes' /\ LastBlockIsCurrent' /\ TurnsOfMain' /\ ReportIsCurrent'
    BY <2>1, <2>2, <2>3 DEF BlockTypes, LastBlockIsCurrent, TurnsOfMain, ReportIsCurrent
  <2> QED
    BY <2>4 DEF DeliveryInv
<1>7. CASE RunBlock
  <2>1. /\ UNCHANGED <<slots, phase, main, reported, connected>>
        /\ queue # <<>> /\ queue' = Tail(queue)
        /\ overlay' = CASE Head(queue) = "attach" -> connected
                        [] Head(queue) # "attach" /\ overlay # "unset" -> Head(queue)
                        [] OTHER -> overlay
    BY <1>7 DEF RunBlock, vars
  <2>2. /\ queue' \in Seq({"attach", "connected", "disconnected"})
        /\ queue' # <<>> => queue'[Len(queue')] = queue[Len(queue)]
        /\ queue' = <<>> => Head(queue) = queue[Len(queue)]
    BY <1>0, <2>1, RestEndsAlike DEF BlockTypes
  <2>3. queue[Len(queue)] \in {"attach", connected}
    BY <1>0, <2>1 DEF LastBlockIsCurrent
  <2>4. overlay' # "unset" /\ queue' = <<>> => overlay' = connected
    BY <2>1, <2>2, <2>3
  <2>5. BlockTypes' /\ LastBlockIsCurrent'
    BY <1>0, <2>1, <2>2, <2>3, <2>4 DEF BlockTypes, LastBlockIsCurrent
  <2>6. TurnsOfMain' /\ ReportIsCurrent'
    BY <1>0, <2>1 DEF TurnsOfMain, ReportIsCurrent, Aggregate
  <2> QED
    BY <2>5, <2>6 DEF DeliveryInv
<1> QED
  BY <1>1, <1>2, <1>3, <1>4, <1>5, <1>6, <1>7 DEF NextInput

\* Whatever order reports, blocks, the overlay's creation and the shutdown come in, an
\* overlay that has had its blocks hides its controls if and only if a controller has
\* a slot: what OverlayFollowsSlots rests on, without fairness.
THEOREM OverlayIsAlwaysTold == InputSpec => []OverlayIsTold
<1>1. InitInput => DeliveryInv
  <2> SUFFICES ASSUME InitInput PROVE DeliveryInv
    OBVIOUS
  <2>1. queue \in Seq({"attach", "connected", "disconnected"})
    BY EmptySeq DEF InitInput
  <2>2. queue = <<>> /\ reported = "unset" /\ overlay = "unset" /\ connected = "disconnected"
    BY DEF InitInput
  <2>3. main = "loop" /\ phase = "idle"
    BY DEF InitInput, Init
  <2>4. BlockTypes
    BY <2>1, <2>2 DEF BlockTypes
  <2>5. TurnsOfMain
    BY <2>3 DEF TurnsOfMain
  <2>6. ReportIsCurrent /\ LastBlockIsCurrent
    BY <2>2 DEF ReportIsCurrent, LastBlockIsCurrent
  <2> QED
    BY <2>4, <2>5, <2>6 DEF DeliveryInv
<1>2. DeliveryInv => OverlayIsTold
  BY DEF DeliveryInv, ReportIsCurrent, LastBlockIsCurrent, OverlayIsTold
<1> QED
  BY <1>1, <1>2, DeliveryStep, PTL DEF InputSpec

-----------------------------------------------------------------------------
(* What a reconcile leaves behind *)

\* stable_sort puts an item first, and no other comes before it.
LEMMA FirstIsAnItem ==
  ASSUME NEW items \in SUBSET Items, items # {}
  PROVE  First(items) \in items /\ \A b \in items : Before(First(items), b)
<1>1. CASE \E a \in items : a.device_index = Preferred
  <2>1. PICK a \in items : a.device_index = Preferred
    BY <1>1
  <2>2. \A b \in items : Before(a, b)
    BY <2>1 DEF Before
  <2> QED
    BY <2>2, Zenon DEF First
<1>2. CASE \A a \in items : a.device_index # Preferred
  <2> DEFINE indices == {a.device_index : a \in items}
  <2>1. indices \subseteq Nat /\ indices # {}
    BY DEF Items
  <2> HIDE DEF indices
  <2>2. PICK m \in indices : \A k \in indices : <<k, m>> \notin OpToRel(<, Nat)
    BY <2>1, NatLessThanWellFounded, WFMin
  <2>3. \A k \in indices : ~(k < m)
    BY <2>1, <2>2, Zenon DEF OpToRel
  <2>4. \A k \in indices : m <= k
    BY <2>1, <2>3
  <2>5. PICK a \in items : a.device_index = m
    BY <2>2 DEF indices
  <2>6. \A b \in items : b.device_index \in indices
    BY DEF indices
  <2>7. \A b \in items : Before(a, b)
    BY <1>2, <2>4, <2>5, <2>6 DEF Before
  <2> QED
    BY <2>7, Zenon DEF First
<1> QED
  BY <1>1, <1>2

\* The controller of the slot, if it has one, is in the snapshot.
SlotListed(s) ==
  slots[s].handle # None => \E item \in listed : item.instance_id = slots[s].handle

\* The slots that the release loop has behind it hold controllers of the snapshot, and
\* the assign loop adds no others.
SnapshotInv ==
  /\ phase \in {"idle", "release"} => todo = {}
  /\ phase = "idle" => cursor = 1
  /\ phase = "opened" => todo # {}
  /\ todo \subseteq listed
  /\ \A s \in Players :
       phase \in {"assign", "opened"} \/ (phase = "release" /\ s < cursor) => SlotListed(s)

\* Every step keeps it.
LEMMA SnapshotStep == IInv /\ SnapshotInv /\ [Next]_vars => SnapshotInv'
<1> SUFFICES ASSUME IInv, SnapshotInv, [Next]_vars PROVE SnapshotInv'
  OBVIOUS
<1>0. TypeOK /\ SlotIdentity /\ OpenPending
  BY DEF IInv
<1>1. CASE UNCHANGED vars \/ Devices \/ Stopped
  <2>1. UNCHANGED <<slots, phase, cursor, listed, todo>>
    BY <1>1 DEF vars, Devices, Attach, Detach, Stopped, loopVars
  <2> QED
    BY <2>1 DEF SnapshotInv, SlotListed
<1>2. CASE BeginReconcile
  <2>1. phase = "idle" /\ phase' = "release" /\ cursor' = cursor /\ todo' = todo
    BY <1>2 DEF BeginReconcile
  <2>2. cursor' = 1 /\ todo' = {}
    BY <2>1 DEF SnapshotInv
  <2>3. \A s \in Players : ~(s < cursor')
    BY <2>2 DEF Players
  <2> QED
    BY <2>1, <2>2, <2>3 DEF SnapshotInv
<1>3. CASE CheckSlot
  <2>1. /\ phase = "release" /\ listed' = listed /\ cursor \in Players /\ todo = {}
        /\ \/ phase' = "release" /\ cursor' = cursor + 1 /\ todo' = todo
           \/ phase' = "assign" /\ cursor = MaxPlayers /\ todo' = listed
    BY <1>0, <1>3, MaxPlayersAssumption DEF CheckSlot, TypeOK, Players, SnapshotInv
  <2>2. /\ \A s \in Players \ {cursor} : slots'[s] = slots[s]
        /\ slots'[cursor].handle = None \/ (slots' = slots /\ Valid(cursor))
    BY <1>0, <1>3, <2>1 DEF CheckSlot, TypeOK, Empty
  <2>3. \A s \in Players : s = cursor => SlotListed(s)'
    BY <1>0, <2>1, <2>2 DEF SlotListed, Valid, SlotIdentity
  <2>4. \A s \in Players : s < cursor => SlotListed(s)'
    BY <2>1, <2>2 DEF SnapshotInv, SlotListed, Players
  <2>5. \A s \in Players : s <= cursor => SlotListed(s)'
    BY <2>1, <2>3, <2>4 DEF Players
  <2>6. CASE phase' = "release" /\ cursor' = cursor + 1 /\ todo' = todo
    <3>1. \A s \in Players : s < cursor' => s <= cursor
      BY <2>1, <2>6 DEF Players
    <3> QED
      BY <2>1, <2>5, <2>6, <3>1 DEF SnapshotInv
  <2>7. CASE phase' = "assign" /\ cursor = MaxPlayers /\ todo' = listed
    <3>1. \A s \in Players : s <= cursor
      BY <2>7, MaxPlayersAssumption DEF Players
    <3> QED
      BY <2>1, <2>5, <2>7, <3>1 DEF SnapshotInv
  <2> QED
    BY <2>1, <2>6, <2>7
<1>4. CASE SkipAssigned \/ RejectOpened
  <2>1. /\ UNCHANGED <<slots, listed>> /\ phase \in {"assign", "opened"} /\ phase' = "assign"
        /\ todo' \subseteq todo
    BY <1>4 DEF SkipAssigned, RejectOpened
  <2> QED
    BY <2>1 DEF SnapshotInv, SlotListed
<1>5. CASE EndReconcile
  <2>1. phase' = "idle" /\ cursor' = 1 /\ todo' = {}
    BY <1>5 DEF EndReconcile
  <2> QED
    BY <2>1 DEF SnapshotInv
<1>6. CASE OpenSucceeds \/ OpenFails
  <2>1. /\ phase = "assign" /\ phase' = "opened" /\ todo # {}
        /\ UNCHANGED <<slots, listed, todo>>
    BY <1>6 DEF OpenSucceeds, OpenFails, OpenItem
  <2> QED
    BY <2>1 DEF SnapshotInv, SlotListed
<1>7. CASE AssignOpened
  <2>1. /\ phase = "opened" /\ phase' = "assign" /\ listed' = listed
        /\ opened = Item.instance_id /\ todo' \subseteq todo
        /\ slots' = [slots EXCEPT ![FirstFree] = [handle |-> opened, id |-> Item.instance_id]]
    BY <1>7 DEF AssignOpened, IsTheItem
  <2>2. Item \in todo
    BY <1>0, <2>1, FirstIsAnItem DEF SnapshotInv, TypeOK, Item
  <2>3. Item \in listed
    BY <2>2 DEF SnapshotInv
  <2>4. \A s \in Players : slots'[s] = slots[s] \/ slots'[s].handle = Item.instance_id
    BY <1>0, <2>1 DEF TypeOK
  <2>5. \A s \in Players : SlotListed(s)
    BY <2>1 DEF SnapshotInv
  <2>6. \A s \in Players : SlotListed(s)'
    BY <2>1, <2>3, <2>4, <2>5 DEF SlotListed
  <2> QED
    BY <2>1, <2>6 DEF SnapshotInv
<1>8. CASE (\E i \in Ids : ReleaseInstance(i)) \/ CloseAll
  <2>1. /\ phase = "idle" /\ phase' \in {"idle", "stopped"}
        /\ UNCHANGED <<cursor, todo, listed>>
    BY <1>8 DEF ReleaseInstance, CloseAll, loopVars
  <2> QED
    BY <2>1 DEF SnapshotInv
<1> QED
  BY <1>1, <1>2, <1>3, <1>4, <1>5, <1>6, <1>7, <1>8 DEF Next, ReconcileStep

\* A reconcile leaves no stale owner behind: every slot is empty or plays a controller of
\* the snapshot, whatever was unplugged, replaced or refused while it ran, even if it
\* broke off because no slot was free.  What EveryoneServed rests on, without fairness.
THEOREM NoStaleOwnerSurvives ==
  InputSpec => [][EndReconcile => \A s \in Players : SlotListed(s)]_vars
<1>1. Init => SnapshotInv
  BY DEF Init, SnapshotInv
<1>2. SnapshotInv /\ [Next]_vars => [EndReconcile => \A s \in Players : SlotListed(s)]_vars
  BY DEF EndReconcile, SnapshotInv
<1>3. Spec => []SnapshotInv
  BY <1>1, SnapshotStep, Invariance, PTL DEF Spec
<1> QED
  BY <1>2, <1>3, DriverRefinesSlots, PTL DEF Spec
=============================================================================
