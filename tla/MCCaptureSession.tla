-------------------------- MODULE MCCaptureSession --------------------------
(***************************************************************************)
(* CaptureSession on small bounds, for TLC.                                *)
(***************************************************************************)
EXTENDS CaptureSession, TLC
=============================================================================
