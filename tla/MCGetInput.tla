----------------------------- MODULE MCGetInput -----------------------------
(* The A button and the stick to the right, on a button and an axis of the     *)
(* controller (inside its dead zone, just outside, at its end) and on the      *)
(* overlay.                                                                    *)
EXTENDS GetInput

MCUsed == {1, 18}
MCTapped == {1}
MCAxisValues == {7999, 8000, 32767}
MCSticks == {<<0, 0>>, <<-100, 0>>}
=============================================================================
