----------------------------- MODULE MCStmLeds -----------------------------
(* The life cycle with three files and two blocks of memory: a structure   *)
(* that stays in use by old files while its successor is probed, opened    *)
(* and disconnected.                                                       *)
EXTENDS StmLeds
=============================================================================
