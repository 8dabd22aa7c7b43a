--------------------------- MODULE MCShareAccess ---------------------------
(* Small instances of ShareAccess for TLC.                                 *)
EXTENDS ShareAccess

CONSTANTS s1, s2, v1, v2
=============================================================================
