---------------------------- MODULE MCStmLedsIo ----------------------------
(* Two files of one device, two URBs and two button presses: two readers,  *)
(* two writers or one of each, a write whose URB is still in flight when   *)
(* the next one is made, and all of it across an unplug.                   *)
EXTENDS StmLedsIo
=============================================================================
