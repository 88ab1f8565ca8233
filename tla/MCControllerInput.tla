-------------------------- MODULE MCControllerInput --------------------------
(* Two players and three game controllers: more controllers than slots, and   *)
(* slots handed over while the poll runs; the preferred device index is 2.    *)
EXTENDS ControllerInput

CONSTANTS c1, c2, c3

MCIds == {c1, c2, c3}
=============================================================================
