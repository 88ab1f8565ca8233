--------------------------- MODULE MCRenderContext ---------------------------
(* Auto, two fixed scales that share an option, and one with Fill Screen. *)
EXTENDS RenderContext

MCModes == {<<0, 0>>, <<3, 0>>, <<4, 0>>, <<4, 1>>}
MCSaved == {<<3, 0>>}
MCSize == <<4, 3>>
=============================================================================
