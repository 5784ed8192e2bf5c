------------------------------- MODULE MCBoot -------------------------------
(***************************************************************************)
(* Three files: seeded and calibrated, seeded only, and calibrated only;   *)
(* the last is also one of the HAL's own.                                  *)
(***************************************************************************)
EXTENDS Boot

MCSeeds == <<"cali_0_0", "cali_0_1">>
=============================================================================
