------------------------------- MODULE MCDt2w -------------------------------
(***************************************************************************)
(* The instance of Dt2w for TLC.  All constants are numbers and Booleans,  *)
(* given in the configurations.                                            *)
(***************************************************************************)
EXTENDS Dt2wProps
=============================================================================
