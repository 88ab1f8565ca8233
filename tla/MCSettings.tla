------------------------------ MODULE MCSettings ------------------------------
(* Unknown, too small for 1x, a narrow window, and one larger than 4x. *)
EXTENDS Settings

MCScreens == {<<0, 0>>, <<300, 200>>, <<700, 1000>>, <<2400, 1500>>}
=============================================================================
