------------------------ MODULE MCDiagnosticsSession ------------------------
(* Four launches: one to crash, one to die while it rotates the log of that   *)
(* crash, one that must not mislabel what they left, and one after it.        *)
EXTENDS DiagnosticsSession
=============================================================================
