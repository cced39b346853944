--------------------------- MODULE MCMarkerWriter ---------------------------
(***************************************************************************)
(* MarkerWriter on a small instance: one marker and its removal, requests  *)
(* that return to a value already acknowledged, two faults, and one crash. *)
(***************************************************************************)
EXTENDS MarkerWriter, TLC
=============================================================================
