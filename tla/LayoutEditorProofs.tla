------------------------- MODULE LayoutEditorProofs -------------------------
(***************************************************************************)
(* What the layout editor keeps, for every set of controls, every geometry *)
(* and every drag.  That edits survive, and that UNDO throws no move, size *)
(* or look away (a link it may), are proved together: a drag may move the  *)
(* controls away from what is stored only while a finger is down in the    *)
(* editor, and UNDO is withdrawn by whatever moves, resizes or restyles.   *)
(* The second part is about linked groups: all of a group moves by one     *)
(* amount, within bounds that keep it on the screen.                       *)
(***************************************************************************)
EXTENDS LayoutEditor, TLAPS, WellFoundedInduction

\* A layout is a record of these four fields, whatever they hold.
IsLayout(l) == l = [at |-> l.at, size |-> l.size, look |-> l.look, linked |-> l.linked]

IInv ==
  /\ IsLayout(layout)
  /\ IsLayout(saved)
  /\ undo # Nothing => IsLayout(undo)
  /\ {editing, down} \subseteq BOOLEAN
  /\ role # "none" => down
  /\ LayoutSurvives
  /\ UndoKeepsControls

\* The defaults are a layout, and changing one field of a layout leaves the others.
LEMMA DefaultsAreALayout == IsLayout(defaultControls)
BY DEF IsLayout, defaultControls

\* A layout with one field replaced is a layout, and the other fields stay.
LEMMA ChangedLayout ==
  ASSUME NEW l, IsLayout(l), NEW x
  PROVE  /\ IsLayout([l EXCEPT !.at = x])
         /\ IsLayout([l EXCEPT !.size = x])
         /\ IsLayout([l EXCEPT !.look = x])
         /\ IsLayout([l EXCEPT !.linked = x])
         /\ [l EXCEPT !.at = x].size = l.size
         /\ [l EXCEPT !.at = x].look = l.look
         /\ [l EXCEPT !.at = x].linked = l.linked
         /\ [l EXCEPT !.linked = x].at = l.at
         /\ [l EXCEPT !.linked = x].size = l.size
         /\ [l EXCEPT !.linked = x].look = l.look
<1> DEFINE r == [at |-> l.at, size |-> l.size, look |-> l.look, linked |-> l.linked]
<1>1. l = r
  BY DEF IsLayout
<1>2. /\ [r EXCEPT !.at = x] = [at |-> x, size |-> l.size, look |-> l.look, linked |-> l.linked]
      /\ [r EXCEPT !.size = x] = [at |-> l.at, size |-> x, look |-> l.look, linked |-> l.linked]
      /\ [r EXCEPT !.look = x] = [at |-> l.at, size |-> l.size, look |-> x, linked |-> l.linked]
      /\ [r EXCEPT !.linked = x] = [at |-> l.at, size |-> l.size, look |-> l.look, linked |-> x]
  OBVIOUS
<1> HIDE DEF r
<1> QED
  BY <1>1, <1>2 DEF IsLayout

\* A tool of the editor stores the layout it makes; UNDO must be off, or the
\* controls those that were there.
LEMMA ToolKeepsIInv ==
  ASSUME IInv, NEW l, IsLayout(l), Tool(l),
         \/ undo' = Nothing
         \/ undo' = undo /\ l.at = layout.at /\ l.size = layout.size /\ l.look = layout.look
         \/ undo' = layout /\ l = defaultControls
  PROVE  IInv'
<1>1. /\ layout' = l /\ saved' = l /\ editing' = editing
      /\ down' = down /\ role' = role
  BY DEF Tool
<1>2. LayoutSurvives'
  BY <1>1 DEF LayoutSurvives
<1>3. UndoKeepsControls'
  BY <1>1 DEF IInv, UndoKeepsControls, defaultControls
<1>4. (undo # Nothing => IsLayout(undo))'
  BY DEF IInv, IsLayout
<1> QED
  BY <1>1, <1>2, <1>3, <1>4 DEF IInv, IsLayout

\* The inductive invariant holds in every behaviour of the editor.
THEOREM InvariantHolds == Spec => []IInv
<1>1. Init => IInv
  BY DefaultsAreALayout
  DEF Init, IInv, IsLayout, LayoutSurvives, UndoKeepsControls, Nothing
<1>2. IInv /\ [Next]_vars => IInv'
  <2> SUFFICES ASSUME IInv, [Next]_vars PROVE IInv'
    OBVIOUS
  <2>1. ASSUME NEW c \in Controls, TouchBegan(c) PROVE IInv'
    BY <2>1 DEF TouchBegan, IInv, IsLayout, LayoutSurvives, UndoKeepsControls
  <2>2. ASSUME NEW p \in Points, TouchMoved(p) PROVE IInv'
    <3> DEFINE moved == [layout EXCEPT !.at = Moved(role, p)]
    <3>1. /\ editing /\ down /\ layout' = moved /\ undo' = Nothing
          /\ saved' = saved /\ editing' = editing /\ down' = down /\ role' = role
      BY <2>2 DEF TouchMoved, IInv
    <3>2. /\ IsLayout(moved)
          /\ moved.size = layout.size /\ moved.look = layout.look
          /\ moved.linked = layout.linked
      BY ChangedLayout DEF IInv
    <3> HIDE DEF moved
    <3> QED
      BY <3>1, <3>2 DEF IInv, IsLayout, LayoutSurvives, UndoKeepsControls
  <2>3. CASE FinishTouches
    BY <2>3 DEF FinishTouches, IInv, IsLayout, LayoutSurvives, UndoKeepsControls
  <2>4. CASE Done
    BY <2>4 DEF Done, IInv, IsLayout, LayoutSurvives, UndoKeepsControls
  <2>5. CASE Undo
    BY <2>5, ToolKeepsIInv DEF Undo, IInv
  <2>6. CASE Reset
    BY <2>6, ToolKeepsIInv, DefaultsAreALayout DEF Reset
  <2>7. CASE Link
    <3> DEFINE g == {Group[selected]}
               l == IF g \subseteq layout.linked THEN layout.linked \ g
                    ELSE layout.linked \cup g
               linked == [layout EXCEPT !.linked = l]
    <3>1. Tool(linked) /\ undo' = undo
      BY <2>7 DEF Link
    <3>2. /\ IsLayout(linked)
          /\ linked.at = layout.at /\ linked.size = layout.size /\ linked.look = layout.look
      BY ChangedLayout, Zenon DEF IInv
    <3> HIDE DEF linked
    <3> QED
      BY <3>1, <3>2, ToolKeepsIInv
  <2>8. ASSUME NEW step \in {-1, 1}, Resize(step) PROVE IInv'
    <3> DEFINE x == [layout.size EXCEPT ![selected] = Clamp(MinSize, MaxSize, @ + step)]
    <3>1. Tool([layout EXCEPT !.size = x]) /\ undo' = Nothing
      BY <2>8 DEF Resize
    <3>2. IsLayout([layout EXCEPT !.size = x])
      BY ChangedLayout DEF IInv
    <3> QED
      BY <3>1, <3>2, ToolKeepsIInv
  <2>9. ASSUME NEW tool \in {"fade", "hide"}, Restyle(tool) PROVE IInv'
    <3> DEFINE x == [layout.look EXCEPT ![selected] = 1 - @]
               l == IF tool = "hide" /\ selected = Stick THEN layout
                    ELSE [layout EXCEPT !.look = x]
    <3>1. Tool(l) /\ undo' = Nothing
      BY <2>9 DEF Restyle
    <3>2. IsLayout(l)
      BY ChangedLayout DEF IInv
    <3> HIDE DEF l
    <3> QED
      BY <3>1, <3>2, ToolKeepsIInv
  <2>10. CASE BeginEditingLayout
    BY <2>10 DEF BeginEditingLayout, IInv, IsLayout, LayoutSurvives, UndoKeepsControls
  <2>11. CASE ResetLayout
    BY <2>11, DefaultsAreALayout
    DEF ResetLayout, IInv, IsLayout, LayoutSurvives, UndoKeepsControls, defaultControls
  <2>12. CASE ClearInput
    BY <2>12 DEF ClearInput, IInv, IsLayout, LayoutSurvives, UndoKeepsControls
  <2>13. CASE Relaunch
    BY <2>13 DEF Relaunch, IInv, IsLayout, LayoutSurvives, UndoKeepsControls
  <2>14. CASE UNCHANGED vars
    BY <2>14 DEF vars, IInv, IsLayout, LayoutSurvives, UndoKeepsControls
  <2> QED
    BY <2>1, <2>2, <2>3, <2>4, <2>5, <2>6, <2>7, <2>8, <2>9, <2>10, <2>11, <2>12,
       <2>13, <2>14 DEF Next
<1> QED
  BY <1>1, <1>2, PTL DEF Spec

\* Being killed at any time costs at most the drag in progress (saveLayout at the
\* end of every drag and after every tool).
THEOREM EditsSurvive == Spec => []LayoutSurvives
BY InvariantHolds, PTL DEF IInv

\* UNDO never throws a move, a size or a look away (_hasUndo in handleToolbarPoint,
\* moveSelectedToPoint and resetLayout); of a link chosen after the reset it says nothing.
THEOREM UndoKeepsEditedControls == Spec => []UndoKeepsControls
BY InvariantHolds, PTL DEF IInv

-----------------------------------------------------------------------------
(* Linked groups.  The numbers that bound the move of a group are bounded    *)
(* themselves, so that they have a greatest and a least one.                 *)

\* A nonempty set of natural numbers has a least element.
LEMMA Least ==
  ASSUME NEW S \in SUBSET Nat, S # {}
  PROVE  \E m \in S : \A n \in S : m <= n
<1>1. PICK m \in S : \A n \in S : <<n, m>> \notin OpToRel(<, Nat)
  BY NatLessThanWellFounded, WFMin
<1>2. \A n \in S : ~(n < m)
  BY <1>1, Zenon DEF OpToRel
<1> QED
  BY <1>2

\* Min is the least element of a set that has a lower bound.
LEMMA MinOfBounded ==
  ASSUME NEW S \in SUBSET Int, S # {}, NEW low \in Int, \A s \in S : low <= s
  PROVE  Min(S) \in S /\ \A s \in S : Min(S) <= s
<1> DEFINE T == {s - low : s \in S}
<1>1. T \in SUBSET Nat /\ T # {}
  <2>1. \A s \in S : s - low \in Nat
    OBVIOUS
  <2>2. T # {}
    OBVIOUS
  <2> QED
    BY <2>1, <2>2
<1>2. PICK t \in T : \A u \in T : t <= u
  BY <1>1, Least
<1>3. PICK m \in S : t = m - low
  BY <1>2
<1>4. ASSUME NEW s \in S PROVE m <= s
  <2>1. t <= s - low
    BY <1>2
  <2> QED
    BY <1>3, <2>1
<1>5. \E x \in S : \A y \in S : x <= y
  BY <1>4
<1> QED
  BY <1>5 DEF Min

\* Max is the greatest element of a set that has an upper bound.
LEMMA MaxOfBounded ==
  ASSUME NEW S \in SUBSET Int, S # {}, NEW high \in Int, \A s \in S : s <= high
  PROVE  Max(S) \in S /\ \A s \in S : s <= Max(S)
<1> DEFINE T == {high - s : s \in S}
<1>1. T \in SUBSET Nat /\ T # {}
  <2>1. \A s \in S : high - s \in Nat
    OBVIOUS
  <2>2. T # {}
    OBVIOUS
  <2> QED
    BY <2>1, <2>2
<1>2. PICK t \in T : \A u \in T : t <= u
  BY <1>1, Least
<1>3. PICK m \in S : t = high - m
  BY <1>2
<1>4. ASSUME NEW s \in S PROVE s <= m
  <2>1. t <= high - s
    BY <1>2
  <2> QED
    BY <1>3, <2>1
<1>5. \E x \in S : \A y \in S : x >= y
  BY <1>4
<1> QED
  BY <1>5 DEF Max

\* What a move of a group may add to its members: each of them is at least its radius
\* from the left edge at the lower bound, and from the right edge at the upper one.
LEMMA DeltaBounds ==
  ASSUME layout \in Layouts, NEW g \in SUBSET Controls, g # {}
  PROVE  /\ minimumDelta(g) \in Int /\ maximumDelta(g) \in Int
         /\ \A k \in g : /\ layout.at[k] + minimumDelta(g) >= layout.size[k]
                         /\ layout.at[k] + maximumDelta(g) <= Width - layout.size[k]
<1>1. \A k \in g : /\ layout.at[k] \in 0..Reach /\ layout.size[k] \in MinSize..MaxSize
  BY DEF Layouts
<1>2. /\ Reach \in Nat /\ Width \in Nat /\ MinSize \in Nat /\ MaxSize \in Nat
  BY GeometryAssumption
<1> DEFINE low == {layout.size[k] - layout.at[k] : k \in g}
           high == {Width - layout.size[k] - layout.at[k] : k \in g}
<1>3. /\ Max(low) \in low /\ \A s \in low : s <= Max(low)
      /\ low \in SUBSET Int
  <2>1. low \in SUBSET Int /\ low # {} /\ \A s \in low : s <= MaxSize
    BY <1>1, <1>2
  <2> HIDE DEF low
  <2> QED
    BY <2>1, <1>2, MaxOfBounded
<1>4. /\ Min(high) \in high /\ \A s \in high : Min(high) <= s
      /\ high \in SUBSET Int
  <2>1. /\ high \in SUBSET Int /\ high # {} /\ \A s \in high : Width - MaxSize - Reach <= s
        /\ Width - MaxSize - Reach \in Int
    BY <1>1, <1>2
  <2> HIDE DEF high
  <2> QED
    BY <2>1, <1>2, MinOfBounded
<1>5. \A k \in g : /\ layout.size[k] - layout.at[k] <= Max(low)
                   /\ Min(high) <= Width - layout.size[k] - layout.at[k]
  BY <1>3, <1>4
<1> HIDE DEF low, high
<1>6. Max(low) \in Int /\ Min(high) \in Int
  BY <1>3, <1>4
<1>7. ASSUME NEW k \in g
      PROVE  /\ layout.at[k] + Max(low) >= layout.size[k]
             /\ layout.at[k] + Min(high) <= Width - layout.size[k]
  <2>1. layout.at[k] \in Int /\ layout.size[k] \in Int
    BY <1>1, <1>2
  <2> QED
    BY <1>2, <1>5, <1>6, <2>1
<1> QED
  BY <1>6, <1>7 DEF minimumDelta, maximumDelta, low, high

\* Clamp never goes below its lower bound, nor above the upper one if there is room.
LEMMA ClampIsBetween ==
  ASSUME NEW low \in Int, NEW high \in Int, NEW v \in Int
  PROVE  /\ Clamp(low, high, v) \in Int /\ low <= Clamp(low, high, v)
         /\ low <= high => Clamp(low, high, v) <= high
BY DEF Clamp

SameShape(g, at1, at2) ==
  \A c, k \in Controls : Group[c] = g /\ Group[k] = g => at1[c] - at1[k] = at2[c] - at2[k]

\* A control moves alone, between the edges ...
LEMMA SingleMoves ==
  ASSUME layout \in Layouts, NEW c \in Controls, NEW p \in Int, Group[c] \notin layout.linked
  PROVE  /\ Moved(c, p) \in [Controls -> Nat]
         /\ \A k \in Controls \ {c} : Moved(c, p)[k] = layout.at[k]
<1> DEFINE v == Clamp(0, Width, p)
<1>1. v \in Nat /\ layout.at \in [Controls -> Nat]
  <2>1. Width \in Int
    BY GeometryAssumption
  <2>2. v \in Int /\ 0 <= v
    BY <2>1, ClampIsBetween
  <2>3. layout.at \in [Controls -> Nat]
    BY GeometryAssumption DEF Layouts
  <2> QED
    BY <2>2, <2>3
<1>2. Moved(c, p) = [layout.at EXCEPT ![c] = v]
  BY DEF Moved
<1> HIDE DEF v
<1> QED
  BY <1>1, <1>2

\* ... or with its linked group, all of which moves by the same amount, which keeps it on
\* the screen if it has room there.
LEMMA GroupMoves ==
  ASSUME layout \in Layouts, NEW c \in Controls, NEW p \in Int, Group[c] \in layout.linked
  PROVE  \E d \in Int :
           /\ Moved(c, p) = [k \in Controls |-> IF Group[k] = Group[c] THEN layout.at[k] + d
                                               ELSE layout.at[k]]
           /\ \A k \in Controls : Group[k] = Group[c] =>
                layout.at[k] + d >= layout.size[k]
           /\ LET g == {k \in Controls : Group[k] = Group[c]} IN
              minimumDelta(g) <= maximumDelta(g) =>
                \A k \in g : layout.at[k] + d <= Width - layout.size[k]
<1> DEFINE g == {k \in Controls : Group[k] = Group[c]}
           low == minimumDelta(g)
           high == maximumDelta(g)
           d == Clamp(low, high, p - layout.at[c])
<1>1. MoveGroup(c) = g
  <2>1. Group[c] # "none"
    BY DEF Layouts, Groups
  <2> QED
    BY <2>1 DEF MoveGroup, isDirectional
<1>2. \A k \in Controls : layout.at[k] \in Int /\ layout.size[k] \in Int
  BY GeometryAssumption DEF Layouts
<1>3. /\ low \in Int /\ high \in Int
      /\ \A k \in g : layout.at[k] + low >= layout.size[k]
      /\ \A k \in g : layout.at[k] + high <= Width - layout.size[k]
  <2>1. g \in SUBSET Controls /\ g # {}
    OBVIOUS
  <2> HIDE DEF g
  <2> QED
    BY <2>1, DeltaBounds
<1>4. Moved(c, p) = [k \in Controls |-> IF k \in g THEN layout.at[k] + d ELSE layout.at[k]]
  BY <1>1 DEF Moved
<1>5. p - layout.at[c] \in Int
  BY <1>2
<1> HIDE DEF low, high
<1>6. d \in Int /\ low <= d /\ (low <= high => d <= high)
  BY <1>3, <1>5, ClampIsBetween
<1> HIDE DEF d
<1>7. ASSUME NEW k \in g
      PROVE  /\ layout.at[k] + d >= layout.size[k]
             /\ low <= high => layout.at[k] + d <= Width - layout.size[k]
  <2>1. layout.at[k] \in Int /\ layout.size[k] \in Int /\ Width \in Int
    BY <1>2, GeometryAssumption
  <2> HIDE DEF g
  <2> QED
    BY <1>3, <1>6, <2>1
<1>8. Moved(c, p) = [k \in Controls |-> IF Group[k] = Group[c] THEN layout.at[k] + d
                                       ELSE layout.at[k]]
  BY <1>4
<1> QED
  BY <1>6, <1>7, <1>8 DEF low, high

-----------------------------------------------------------------------------
(* The types of the layouts, and the shape of what is stored *)

EditorTypes ==
  /\ layout \in Layouts /\ saved \in Layouts
  /\ undo # Nothing => undo \in Layouts
  /\ selected \in Controls /\ role \in Controls \cup {"none"}

\* What is stored differs from what is on the screen by the drag in progress only, which
\* moves linked controls as one.
StoredShape == \A g \in layout.linked : SameShape(g, saved.at, layout.at)

GeometryInv == IInv /\ EditorTypes /\ StoredShape

\* The defaults lie within the screen and the bounds on sizes.
LEMMA DefaultsAreTyped == defaultControls \in Layouts /\ First \in Controls
<1>1. DefaultAt \in [Controls -> 0..Reach]
  BY GeometryAssumption
<1>2. DefaultSize \in MinSize..MaxSize
  BY GeometryAssumption
<1> QED
  BY <1>1, <1>2, ControlsAssumption DEF defaultControls, Layouts, Looks

\* A layout stays one when its fields are replaced by values of their types.
LEMMA FieldsAreTyped ==
  ASSUME NEW l \in Layouts
  PROVE  /\ \A x \in [Controls -> 0..Reach] : [l EXCEPT !.at = x] \in Layouts /\ [l EXCEPT !.at = x].at = x
         /\ \A x \in [Controls -> MinSize..MaxSize] : [l EXCEPT !.size = x] \in Layouts
         /\ \A x \in [Controls -> Looks] : [l EXCEPT !.look = x] \in Layouts
         /\ \A x \in SUBSET Groups : [l EXCEPT !.linked = x] \in Layouts
BY DEF Layouts

\* The tools that leave the positions alone.
LEMMA ToolsKeepTypes ==
  ASSUME EditorTypes, Link \/ (\E step \in {-1, 1} : Resize(step))
                           \/ (\E tool \in {"fade", "hide"} : Restyle(tool))
  PROVE  /\ layout' \in Layouts /\ saved' = layout' /\ layout'.at = layout.at
         /\ UNCHANGED <<editing, selected, down, role>>
         /\ undo' \in {undo, Nothing}
<1>1. CASE Link
  <2> DEFINE g == {Group[selected]}
             l == IF g \subseteq layout.linked THEN layout.linked \ g ELSE layout.linked \cup g
  <2>1. Tool([layout EXCEPT !.linked = l]) /\ undo' = undo
    BY <1>1 DEF Link
  <2>2. l \in SUBSET Groups
    BY <1>1, ControlsAssumption DEF Link, EditorTypes, Layouts, isDirectional
  <2> HIDE DEF l
  <2> QED
    BY <2>1, <2>2, FieldsAreTyped, ChangedLayout DEF Tool, EditorTypes, Layouts
<1>2. ASSUME NEW step \in {-1, 1}, Resize(step)
      PROVE  /\ layout' \in Layouts /\ saved' = layout' /\ layout'.at = layout.at
             /\ UNCHANGED <<editing, selected, down, role>>
             /\ undo' \in {undo, Nothing}
  <2> DEFINE v == Clamp(MinSize, MaxSize, layout.size[selected] + step)
             x == [layout.size EXCEPT ![selected] = v]
  <2>1. Tool([layout EXCEPT !.size = x]) /\ undo' = Nothing
    BY <1>2 DEF Resize
  <2>2. layout.size \in [Controls -> MinSize..MaxSize] /\ selected \in Controls
    BY DEF EditorTypes, Layouts
  <2>3. v \in MinSize..MaxSize
    <3>1. MinSize \in Int /\ MaxSize \in Int /\ MinSize <= MaxSize
      BY GeometryAssumption
    <3>2. layout.size[selected] + step \in Int
      BY <2>2, <3>1
    <3>3. v \in Int /\ MinSize <= v /\ v <= MaxSize
      BY <3>1, <3>2, ClampIsBetween
    <3> HIDE DEF v
    <3> QED
      BY <3>1, <3>3
  <2> HIDE DEF v
  <2>4. x \in [Controls -> MinSize..MaxSize]
    BY <2>2, <2>3
  <2> HIDE DEF x
  <2> QED
    BY <2>1, <2>4, FieldsAreTyped DEF Tool, EditorTypes, Layouts
<1>3. ASSUME NEW tool \in {"fade", "hide"}, Restyle(tool)
      PROVE  /\ layout' \in Layouts /\ saved' = layout' /\ layout'.at = layout.at
             /\ UNCHANGED <<editing, selected, down, role>>
             /\ undo' \in {undo, Nothing}
  <2> DEFINE x == [layout.look EXCEPT ![selected] = 1 - @]
             l == IF tool = "hide" /\ selected = Stick THEN layout ELSE [layout EXCEPT !.look = x]
  <2>1. Tool(l) /\ undo' = Nothing
    BY <1>3 DEF Restyle
  <2>2. x \in [Controls -> Looks]
    BY DEF EditorTypes, Layouts, Looks
  <2>3. l \in Layouts /\ l.at = layout.at
    <3> HIDE DEF x
    <3> QED
      BY <2>2, FieldsAreTyped DEF EditorTypes, Layouts
  <2> HIDE DEF l
  <2> QED
    BY <2>1, <2>3 DEF Tool
<1> QED
  BY <1>1, <1>2, <1>3

\* A drag keeps the shape of every linked group.
LEMMA MoveKeepsShape ==
  ASSUME EditorTypes, NEW p \in Points, TouchMoved(p)
  PROVE  /\ layout' \in Layouts /\ layout'.linked = layout.linked
         /\ \A g \in layout.linked : SameShape(g, layout'.at, layout.at)
         /\ UNCHANGED <<saved, editing, down, role>> /\ undo' = Nothing /\ selected' \in Controls
<1>1. /\ role \in Controls /\ p \in Int /\ layout \in Layouts
      /\ layout' = [layout EXCEPT !.at = Moved(role, p)]
      /\ \A k \in Controls : Moved(role, p)[k] <= Reach
      /\ UNCHANGED <<saved, editing, down, role>> /\ undo' = Nothing /\ selected' = role
  <2>1. p \in Int
    BY GeometryAssumption DEF Points
  <2> QED
    BY <2>1 DEF TouchMoved, EditorTypes
<1>2. \A k \in Controls : layout.at[k] \in Nat /\ layout.size[k] \in Nat
  BY <1>1, GeometryAssumption DEF Layouts
<1>3. Moved(role, p) \in [Controls -> Nat] /\ \A g \in layout.linked : SameShape(g, Moved(role, p), layout.at)
  <2>1. CASE Group[role] \in layout.linked
    <3>1. PICK d \in Int :
            /\ Moved(role, p) = [k \in Controls |-> IF Group[k] = Group[role] THEN layout.at[k] + d
                                                   ELSE layout.at[k]]
            /\ \A k \in Controls : Group[k] = Group[role] => layout.at[k] + d >= layout.size[k]
      BY <1>1, <2>1, GroupMoves
    <3>2. \A k \in Controls : Moved(role, p)[k] \in Nat
      BY <1>2, <3>1
    <3>3. \A g \in layout.linked : SameShape(g, Moved(role, p), layout.at)
      BY <1>2, <3>1 DEF SameShape
    <3> QED
      BY <3>1, <3>2, <3>3
  <2>2. CASE Group[role] \notin layout.linked
    <3>1. /\ Moved(role, p) \in [Controls -> Nat]
          /\ \A k \in Controls \ {role} : Moved(role, p)[k] = layout.at[k]
      BY <1>1, <2>2, SingleMoves
    <3>2. \A g \in layout.linked : SameShape(g, Moved(role, p), layout.at)
      BY <2>2, <3>1 DEF SameShape
    <3> QED
      BY <3>1, <3>2
  <2> QED
    BY <2>1, <2>2
<1>4. Moved(role, p) \in [Controls -> 0..Reach]
  BY <1>1, <1>3, GeometryAssumption
<1>5. layout' \in Layouts /\ layout'.at = Moved(role, p)
  BY <1>1, <1>4, FieldsAreTyped
<1>6. layout'.linked = layout.linked
  BY <1>1 DEF Layouts
<1> QED
  BY <1>1, <1>3, <1>5, <1>6

\* The invariant holds in every behaviour of the editor.
THEOREM GeometryInvariance == Spec => []GeometryInv
<1>1. Init => EditorTypes /\ StoredShape
  BY DefaultsAreTyped DEF Init, EditorTypes, StoredShape, Nothing, defaultControls
<1>2. ASSUME IInv, EditorTypes, StoredShape, [Next]_vars
      PROVE  EditorTypes' /\ StoredShape'
  <2> USE <1>2
  <2>1. ASSUME NEW c \in Controls, TouchBegan(c) PROVE EditorTypes' /\ StoredShape'
    BY <2>1 DEF TouchBegan, EditorTypes, StoredShape
  <2>2. ASSUME NEW p \in Points, TouchMoved(p) PROVE EditorTypes' /\ StoredShape'
    <3>1. /\ layout' \in Layouts /\ layout'.linked = layout.linked
          /\ \A g \in layout.linked : SameShape(g, layout'.at, layout.at)
          /\ UNCHANGED <<saved, editing, down, role>> /\ undo' = Nothing /\ selected' \in Controls
      BY <2>2, MoveKeepsShape
    <3>2. StoredShape'
      BY <3>1 DEF StoredShape, SameShape
    <3> QED
      BY <3>1, <3>2 DEF EditorTypes
  <2>3. CASE FinishTouches
    BY <2>3 DEF FinishTouches, EditorTypes, StoredShape, SameShape
  <2>4. CASE Done
    BY <2>4 DEF Done, EditorTypes, StoredShape, SameShape
  <2>5. CASE Undo
    BY <2>5 DEF Undo, Tool, EditorTypes, StoredShape, SameShape
  <2>6. CASE Reset
    BY <2>6, DefaultsAreTyped DEF Reset, Tool, EditorTypes, StoredShape, SameShape
  <2>7. CASE Link \/ (\E step \in {-1, 1} : Resize(step)) \/ (\E tool \in {"fade", "hide"} : Restyle(tool))
    <3>1. /\ layout' \in Layouts /\ saved' = layout'
          /\ UNCHANGED <<selected, role>> /\ undo' \in {undo, Nothing}
      BY <2>7, ToolsKeepTypes
    <3> QED
      BY <3>1 DEF EditorTypes, StoredShape, SameShape
  <2>8. CASE BeginEditingLayout \/ ClearInput \/ UNCHANGED vars
    BY <2>8 DEF BeginEditingLayout, ClearInput, vars, EditorTypes, StoredShape
  <2>9. CASE ResetLayout
    BY <2>9, DefaultsAreTyped DEF ResetLayout, EditorTypes, StoredShape, SameShape
  <2>10. CASE Relaunch
    BY <2>10, DefaultsAreTyped DEF Relaunch, EditorTypes, StoredShape, SameShape
  <2> QED
    BY <2>1, <2>2, <2>3, <2>4, <2>5, <2>6, <2>7, <2>8, <2>9, <2>10 DEF Next
<1>3. IInv /\ EditorTypes /\ StoredShape /\ [Next]_vars => EditorTypes' /\ StoredShape'
  BY <1>2
<1> QED
  BY <1>1, <1>3, InvariantHolds, PTL DEF Spec, GeometryInv

\* A linked group keeps its shape through drags, tools and relaunches (moveSelectedToPoint
\* and loadLayout); only UNDO brings another layout back.
THEOREM LinkedGroupsKeepShape == Spec => LinkedGroupKeepsShape
<1> DEFINE Kept == \A g \in layout.linked \cap layout'.linked :
                     \/ undo # Nothing /\ layout' = undo
                     \/ SameShape(g, layout'.at, layout.at)
<1>1. ASSUME GeometryInv, [Next]_vars PROVE Kept
  <2> USE <1>1
  <2>1. ASSUME NEW p \in Points, TouchMoved(p) PROVE Kept
    BY <2>1, MoveKeepsShape DEF GeometryInv
  <2>2. CASE Undo
    BY <2>2 DEF Undo, Tool
  <2>3. CASE Reset \/ ResetLayout
    BY <2>3 DEF Reset, ResetLayout, Tool, defaultControls
  <2>4. CASE Link \/ (\E step \in {-1, 1} : Resize(step)) \/ (\E tool \in {"fade", "hide"} : Restyle(tool))
    BY <2>4, ToolsKeepTypes DEF GeometryInv, SameShape
  <2>5. CASE Relaunch
    <3>1. layout' = saved /\ saved.linked = layout.linked
      BY <2>5 DEF Relaunch, GeometryInv, IInv, LayoutSurvives
    <3> QED
      BY <3>1 DEF GeometryInv, StoredShape
  <2>6. CASE layout' = layout
    BY <2>6 DEF SameShape
  <2> QED
    BY <2>1, <2>2, <2>3, <2>4, <2>5, <2>6
    DEF Next, TouchBegan, FinishTouches, Done, BeginEditingLayout, ClearInput, vars
<1>2. GeometryInv /\ [Next]_vars
      => [\A g \in layout.linked \cap layout'.linked :
            \/ undo # Nothing /\ layout' = undo
            \/ \A c, k \in Controls : Group[c] = g /\ Group[k] = g =>
                 layout'.at[c] - layout'.at[k] = layout.at[c] - layout.at[k]]_vars
  BY <1>1 DEF SameShape
<1> QED
  BY <1>2, GeometryInvariance, PTL DEF Spec, LinkedGroupKeepsShape

\* A drag leaves a linked group on the screen whenever the group fits there
\* (minimumDelta and maximumDelta over every member in moveSelectedToPoint).
THEOREM LinkedGroupsStayOnScreen == Spec => LinkedGroupStaysOnScreen
<1> DEFINE members(g) == {k \in Controls : Group[k] = g}
           fits(g) == minimumDelta(members(g)) <= maximumDelta(members(g))
           onScreen(g) == \A k \in members(g) : layout'.at[k] \in layout.size[k]..(Width - layout.size[k])
           moved(g) == \E k \in members(g) : layout'.at[k] # layout.at[k]
           Stays == \A g \in layout.linked \cap layout'.linked :
                      editing' /\ layout' # undo /\ moved(g) /\ fits(g) => onScreen(g)
<1>1. ASSUME GeometryInv, NEW p \in Points, TouchMoved(p) PROVE Stays
  <2>1. /\ role \in Controls /\ p \in Int /\ layout \in Layouts
        /\ layout' = [layout EXCEPT !.at = Moved(role, p)]
    <3>1. p \in Int
      BY GeometryAssumption DEF Points
    <3> QED
      BY <1>1, <3>1 DEF TouchMoved, GeometryInv, EditorTypes
  <2>2. layout'.at = Moved(role, p)
    BY <2>1 DEF Layouts
  <2>3. SUFFICES ASSUME NEW g \in layout.linked, moved(g), fits(g)
                 PROVE  onScreen(g)
    OBVIOUS
  <2>4. CASE Group[role] \notin layout.linked
    <3>1. \A k \in Controls \ {role} : Moved(role, p)[k] = layout.at[k]
      BY <2>1, <2>4, SingleMoves
    <3>2. role \notin members(g)
      BY <2>4
    <3> QED
      BY <2>2, <2>3, <3>1, <3>2
  <2>5. CASE Group[role] \in layout.linked
    <3> DEFINE h == {k \in Controls : Group[k] = Group[role]}
    <3>1. PICK d \in Int :
            /\ Moved(role, p) = [k \in Controls |-> IF Group[k] = Group[role] THEN layout.at[k] + d
                                                   ELSE layout.at[k]]
            /\ \A k \in Controls : Group[k] = Group[role] => layout.at[k] + d >= layout.size[k]
            /\ minimumDelta(h) <= maximumDelta(h) =>
                 \A k \in h : layout.at[k] + d <= Width - layout.size[k]
      BY <2>1, <2>5, GroupMoves
    <3>2. g = Group[role]
      BY <2>2, <2>3, <3>1
    <3>3. \A k \in h : /\ layout'.at[k] = layout.at[k] + d
                       /\ layout.at[k] + d >= layout.size[k]
                       /\ layout.at[k] + d <= Width - layout.size[k]
      BY <2>2, <2>3, <3>1, <3>2
    <3>4. \A k \in h : layout.at[k] \in Int /\ layout.size[k] \in Int
      BY <2>1, GeometryAssumption DEF Layouts
    <3>5. Width \in Int
      BY GeometryAssumption
    <3> QED
      BY <3>2, <3>3, <3>4, <3>5
  <2> QED
    BY <2>4, <2>5
<1>2. ASSUME GeometryInv, [Next]_vars PROVE Stays
  <2> USE <1>2
  <2>1. ASSUME NEW p \in Points, TouchMoved(p) PROVE Stays
    BY <1>1, <2>1
  <2>2. CASE Undo
    BY <2>2 DEF Undo, Tool
  <2>3. CASE Reset \/ ResetLayout
    BY <2>3 DEF Reset, ResetLayout, Tool, defaultControls
  <2>4. CASE Link \/ (\E step \in {-1, 1} : Resize(step)) \/ (\E tool \in {"fade", "hide"} : Restyle(tool))
    BY <2>4, ToolsKeepTypes DEF GeometryInv
  <2>5. CASE Relaunch
    BY <2>5 DEF Relaunch
  <2>6. CASE layout' = layout
    BY <2>6
  <2> QED
    BY <2>1, <2>2, <2>3, <2>4, <2>5, <2>6
    DEF Next, TouchBegan, FinishTouches, Done, BeginEditingLayout, ClearInput, vars
<1>3. GeometryInv /\ [Next]_vars
      => [\A g \in layout.linked \cap layout'.linked :
            LET ms == {k \in Controls : Group[k] = g} IN
            /\ editing' /\ layout' # undo
            /\ \E k \in ms : layout'.at[k] # layout.at[k]
            /\ minimumDelta(ms) <= maximumDelta(ms)
            => \A k \in ms : layout'.at[k] \in layout.size[k]..(Width - layout.size[k])]_vars
  BY <1>2
<1> QED
  BY <1>3, GeometryInvariance, PTL DEF Spec, LinkedGroupStaysOnScreen
=============================================================================
