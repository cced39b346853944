--------------------------- MODULE MCRideActivity ---------------------------
(***************************************************************************)
(* Instances of RideActivity.  Three requests reach the actor in any order *)
(* in each process: enough for a start, a second request that overtakes or *)
(* queues behind it, and an end, disconnect or scene change around both.   *)
(* Two wheels let one ride replace another; one crash leaves a marker and  *)
(* activities behind for a second process.  Telemetry is at most one       *)
(* request old.  The liveness instance has one wheel, no crash, and the    *)
(* manager's end does not throw, as ActivityKit's does not.                *)
(***************************************************************************)
EXTENDS RideActivity, TLC

\* The wheels are interchangeable.  Used by the safety runs only.
Symmetry == Permutations(Platforms)
=============================================================================
