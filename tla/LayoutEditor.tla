---------------------------- MODULE LayoutEditor ----------------------------
(***************************************************************************)
(* The touch-layout editor of apple/app/ios_main.mm and what it leaves in   *)
(* NSUserDefaults: a finger drags a control, alone or with the group it is  *)
(* linked to; the toolbar resets, undoes, links, resizes and restyles; and  *)
(* the app can be killed at any time.                                       *)
(*                                                                         *)
(* Geometry is one axis, a grid of 0..Width: the code treats x and y alike. *)
(* The radius of a control is its size in grid units.  Opacity and          *)
(* visibility only have to be kept: they are one value, the look.  A drag   *)
(* names where the control's centre is to go, which is the finger's place   *)
(* and the grab offset together.  One finger drags; toolbar taps, menu      *)
(* actions and notifications come in between its callbacks.                 *)
(*                                                                         *)
(* Bound: a linked group too wide for the screen is pushed along by its     *)
(* left edge, at every relinking further; no position past Reach is         *)
(* explored.                                                                *)
(***************************************************************************)
EXTENDS Integers, FiniteSetsExt

CONSTANTS
  Controls,     \* keys of the controls
  Stick,        \* the control that cannot be hidden
  First,        \* the control selected at launch
  Group,        \* the group a control belongs to: "d", "c", or "none"
  Width,        \* grid units across the usable bounds
  DefaultAt, DefaultSize,   \* defaultControls
  MinSize, MaxSize,         \* 70% and 150% of the default size
  Reach                     \* bound on positions

Groups == {"d", "c"}

ASSUME ControlsAssumption ==
  /\ IsFiniteSet(Controls) /\ {Stick, First} \subseteq Controls
  /\ Group \in [Controls -> Groups \cup {"none"}]
ASSUME GeometryAssumption ==
  /\ {Width, MinSize, MaxSize, DefaultSize, Reach} \subseteq Nat
  /\ Width <= Reach
  /\ MinSize <= DefaultSize /\ DefaultSize <= MaxSize
  /\ DefaultAt \in [Controls -> DefaultSize..(Width - DefaultSize)]

VARIABLES
  layout,    \* _controls and the two link flags
  undo,      \* _undoControls and its link flags while _hasUndo, else Nothing
  saved,     \* the dictionary in NSUserDefaults
  editing,   \* _editing
  selected,  \* _selected
  down,      \* the finger is on the glass
  role       \* the control it drives in _touchRoles, or "none"

vars == <<layout, undo, saved, editing, selected, down, role>>

Looks   == 0..1
Nothing == <<>>

defaultControls ==
  [at     |-> DefaultAt,
   size   |-> [c \in Controls |-> DefaultSize],
   look   |-> [c \in Controls |-> 0],
   linked |-> {}]

-----------------------------------------------------------------------------
(* Dragging *)

isDirectional(c) == Group[c] # "none"
MoveGroup(c) ==
  IF isDirectional(c) /\ Group[c] \in layout.linked
  THEN {k \in Controls : Group[k] = Group[c]} ELSE {c}

\* What a move may add to the position of every member of a linked group.
minimumDelta(g) == Max({layout.size[k] - layout.at[k] : k \in g})
maximumDelta(g) == Min({Width - layout.size[k] - layout.at[k] : k \in g})
Clamp(low, high, v) == LET w == IF v < high THEN v ELSE high IN IF w > low THEN w ELSE low

\* Mutant of Moved: every member of a linked group is kept on the screen by itself.
MovedApart(c, p) ==
  LET g == MoveGroup(c)
      d == p - layout.at[c]
  IN [k \in Controls |-> IF k \in g THEN Clamp(0, Width, layout.at[k] + d) ELSE layout.at[k]]

\* Mutant of Moved: only the dragged control bounds the move of its group.
MovedBlindly(c, p) ==
  LET g == MoveGroup(c)
      d == Clamp(minimumDelta({c}), maximumDelta({c}), p - layout.at[c])
  IN IF Group[c] \in layout.linked
     THEN [k \in Controls |-> IF k \in g THEN layout.at[k] + d ELSE layout.at[k]]
     ELSE [layout.at EXCEPT ![c] = Clamp(0, Width, p)]

\* moveSelectedToPoint
Moved(c, p) ==
  LET g == MoveGroup(c)
      d == Clamp(minimumDelta(g), maximumDelta(g), p - layout.at[c])
  IN IF Group[c] \in layout.linked
     THEN [k \in Controls |-> IF k \in g THEN layout.at[k] + d ELSE layout.at[k]]
     ELSE [layout.at EXCEPT ![c] = Clamp(0, Width, p)]

\* touchesBegan on a control, in the game as in the editor
TouchBegan(c) ==
  /\ ~down
  /\ down' = TRUE
  /\ role' = c
  /\ selected' = c
  /\ UNCHANGED <<layout, undo, saved, editing>>

\* Mutant of TouchMoved: UNDO stays on offer after the move.
TouchMovedUndoable(p) ==
  /\ editing /\ role # "none"
  /\ \A k \in Controls : Moved(role, p)[k] <= Reach
  /\ selected' = role
  /\ layout' = [layout EXCEPT !.at = Moved(role, p)]
  /\ UNCHANGED <<undo, saved, editing, down, role>>

TouchMoved(p) ==
  /\ editing /\ role # "none"
  /\ \A k \in Controls : Moved(role, p)[k] <= Reach
  /\ selected' = role
  /\ layout' = [layout EXCEPT !.at = Moved(role, p)]
  /\ undo' = Nothing
  /\ UNCHANGED <<saved, editing, down, role>>

\* Mutant of FinishTouches: a drag is not saved when it ends.
FinishUnsaved ==
  /\ down
  /\ down' = FALSE
  /\ role' = "none"
  /\ UNCHANGED <<layout, undo, saved, editing, selected>>

\* touchesEnded and touchesCancelled
FinishTouches ==
  /\ down
  /\ down' = FALSE
  /\ role' = "none"
  /\ saved' = IF editing THEN layout ELSE saved
  /\ UNCHANGED <<layout, undo, editing, selected>>

-----------------------------------------------------------------------------
(* The toolbar, handleToolbarPoint *)

\* Every tool ends in saveLayout, and all but DONE stay in the editor.
Tool(newLayout) ==
  /\ editing
  /\ layout' = newLayout
  /\ saved' = newLayout
  /\ UNCHANGED <<editing, selected, down, role>>

Done ==
  /\ editing
  /\ editing' = FALSE
  /\ undo' = Nothing
  /\ saved' = layout
  /\ UNCHANGED <<layout, selected, down, role>>

Undo ==
  /\ undo # Nothing
  /\ Tool(undo)
  /\ undo' = Nothing

Reset ==
  /\ undo = Nothing
  /\ Tool(defaultControls)
  /\ undo' = layout

\* LINK and UNLINK leave UNDO on offer, which swaps the link flags back, too.
Link ==
  /\ isDirectional(selected)
  /\ LET g == {Group[selected]} IN
       Tool([layout EXCEPT !.linked = IF g \subseteq @ THEN @ \ g ELSE @ \cup g])
  /\ UNCHANGED undo

Resize(step) ==
  /\ Tool([layout EXCEPT !.size[selected] = Clamp(MinSize, MaxSize, @ + step)])
  /\ undo' = Nothing

\* FADE, and HIDE or SHOW, which leaves the stick as it is
Restyle(tool) ==
  /\ Tool(IF tool = "hide" /\ selected = Stick THEN layout
          ELSE [layout EXCEPT !.look[selected] = 1 - @])
  /\ undo' = Nothing

-----------------------------------------------------------------------------
(* The menu, and the app's life *)

BeginEditingLayout ==
  /\ editing' = TRUE
  /\ role' = "none"
  /\ UNCHANGED <<layout, undo, saved, selected, down>>

\* "Reset Touch Layout"
ResetLayout ==
  /\ editing' = FALSE
  /\ undo' = layout
  /\ layout' = defaultControls
  /\ saved' = defaultControls
  /\ UNCHANGED <<selected, down, role>>

\* clearInput, on resigning active and on what hides the controls.  In the game a
\* finger that slides off its button loses its role in the same way.
ClearInput ==
  /\ role # "none"
  /\ role' = "none"
  /\ UNCHANGED <<layout, undo, saved, editing, selected, down>>

\* Killed and launched again: initWithFrame and loadLayout.
Relaunch ==
  /\ layout' = saved
  /\ undo' = Nothing
  /\ editing' = FALSE
  /\ selected' = First
  /\ down' = FALSE
  /\ role' = "none"
  /\ UNCHANGED saved

-----------------------------------------------------------------------------
Init ==
  /\ layout = defaultControls
  /\ undo = Nothing
  /\ saved = defaultControls
  /\ editing = FALSE
  /\ selected = First
  /\ down = FALSE
  /\ role = "none"

Points == -1..(Width + 1)

Next ==
  \/ \E c \in Controls : TouchBegan(c)
  \/ \E p \in Points : TouchMoved(p)
  \/ FinishTouches
  \/ Done \/ Undo \/ Reset \/ Link
  \/ \E step \in {-1, 1} : Resize(step)
  \/ \E tool \in {"fade", "hide"} : Restyle(tool)
  \/ BeginEditingLayout \/ ResetLayout
  \/ ClearInput \/ Relaunch

Spec == Init /\ [][Next]_vars

-----------------------------------------------------------------------------
(* Properties *)

Layouts ==
  [at : [Controls -> 0..Reach],
   size : [Controls -> MinSize..MaxSize],
   look : [Controls -> Looks],
   linked : SUBSET Groups]

\* Being killed costs at most the drag in progress: sizes, looks and links are
\* stored as soon as they change, and positions once the finger is lifted or the
\* editor is left.
LayoutSurvives ==
  /\ <<saved.size, saved.look, saved.linked>> = <<layout.size, layout.look, layout.linked>>
  /\ ~editing \/ ~down => saved = layout

\* UNDO is on offer only while the controls are those that RESET has put there, so
\* that it never throws a move, a size or a look away, whether the reset came from the
\* toolbar or from the menu.  Links are no part of this: LINK leaves UNDO on offer,
\* and UNDO then takes back a link that was made, and stored, after the reset.
UndoKeepsControls ==
  undo # Nothing => /\ layout.at = DefaultAt
                    /\ layout.size = defaultControls.size
                    /\ layout.look = defaultControls.look

\* A linked group keeps its internal geometry as long as it stays linked, through
\* drags, resizing and relaunches; only UNDO brings another layout back.
LinkedGroupKeepsShape ==
  [][\A g \in layout.linked \cap layout'.linked :
       \/ undo # Nothing /\ layout' = undo
       \/ \A c, k \in Controls : Group[c] = g /\ Group[k] = g =>
            layout'.at[c] - layout'.at[k] = layout.at[c] - layout.at[k]]_vars

\* A drag leaves a linked group within the screen, every member by its own radius,
\* if there is room for the group at all, wherever resizing had put its members.
LinkedGroupStaysOnScreen ==
  [][\A g \in layout.linked \cap layout'.linked :
       LET members == {k \in Controls : Group[k] = g} IN
       /\ editing' /\ layout' # undo
       /\ \E k \in members : layout'.at[k] # layout.at[k]
       /\ minimumDelta(members) <= maximumDelta(members)
       => \A k \in members : layout'.at[k] \in layout.size[k]..(Width - layout.size[k])]_vars
=============================================================================
