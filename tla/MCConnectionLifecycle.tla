----------------------- MODULE MCConnectionLifecycle -----------------------
(***************************************************************************)
(* ConnectionLifecycle on a small instance.  Two devices let an attempt be *)
(* replaced by one for another device.  Five generations let a device      *)
(* exhaust its three initial retries and still be replaced, and four       *)
(* retries would be possible if the budget were one too large.  The retry  *)
(* counter saturates at 4 and the revision wraps at 3, so both edges are   *)
(* crossed.                                                                *)
(***************************************************************************)
EXTENDS ConnectionLifecycle, TLC
=============================================================================
