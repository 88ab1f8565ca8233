---------------------------- MODULE MCLayoutEditor ----------------------------
(* Two D-pad buttons, which can be linked, on a screen just wide enough for    *)
(* both at their largest size, and one other control, which is both the one     *)
(* selected at launch (A in the code) and the one that cannot be hidden.        *)
EXTENDS LayoutEditor

CONSTANTS d1, d2, a

MCControls  == {d1, d2, a}
MCGroup     == [c \in MCControls |-> IF c = a THEN "none" ELSE "d"]
MCDefaultAt == [c \in MCControls |-> IF c = d2 THEN 2 ELSE 1]
=============================================================================
