--------------------------- MODULE MCMirrorManager ---------------------------
(* Three mirrors, of which the operator's own daemon.json lists one.          *)
EXTENDS MirrorManager

CONSTANTS m1, m2, m3
=============================================================================
