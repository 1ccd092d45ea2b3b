----------------------------- MODULE MCGpioLkm -----------------------------
(* Two pins and two processes: init and exit at different pins while both  *)
(* processes have one open, or both have the same one.                     *)
EXTENDS GpioLkm
=============================================================================
