--------------------------- MODULE MCLiveExecution ---------------------------
(***************************************************************************)
(* The live router on two venues.  The amounts are small numbers given in  *)
(* the configurations: three units of which two must fill, two attempts.   *)
(***************************************************************************)
EXTENDS LiveExecution
=============================================================================
