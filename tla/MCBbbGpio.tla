----------------------------- MODULE MCBbbGpio -----------------------------
(* Two pins, the numbers on both sides of the bounds that period_store()   *)
(* checks, and the two bounds the parameter is documented to have.         *)
EXTENDS BbbGpio
=============================================================================
