--------------------------- MODULE MCTouchOverlay ---------------------------
(* Two fingers, so that one can hold a control while the other edits, taps or *)
(* grabs the stick; taps held for one poll, which is one more than none.      *)
EXTENDS TouchOverlay, TLC

CONSTANTS f1, f2, a

MCTouches  == {f1, f2}
MCButtons  == {a}
MCTilts    == {"left"}
MCSymmetry == Permutations(MCTouches)
=============================================================================
