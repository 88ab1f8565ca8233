---------------------------- MODULE MCAudioQueue ----------------------------
(* A rate below the device's, as the game's 32 kHz is, and the device's own. *)
EXTENDS AudioQueue

MCRates == {1, 2}
=============================================================================
