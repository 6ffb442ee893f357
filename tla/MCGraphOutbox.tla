---------------------------- MODULE MCGraphOutbox ---------------------------
(* Small instances of GraphOutbox for TLC.                                 *)
EXTENDS GraphOutbox

CONSTANTS e1, e2, d1, d2
=============================================================================
