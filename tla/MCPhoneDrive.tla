---------------------------- MODULE MCPhoneDrive ----------------------------
(***************************************************************************)
(* PhoneDrive on small instances.                                          *)
(***************************************************************************)
EXTENDS PhoneDrive, TLC

CONSTANTS Throttle, Brake

Symmetry == Permutations({Throttle, Brake})
=============================================================================
