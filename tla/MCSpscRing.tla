------------------------------ MODULE MCSpscRing -------------------------------
(***************************************************************************)
(* SpscRing on a ring of two slots with positions that wrap at 8, so that  *)
(* both the slots and the positions wrap around within the run.            *)
(***************************************************************************)
EXTENDS SpscRing

================================================================================
