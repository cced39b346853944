--------------------------- MODULE MCRideRecording ---------------------------
(* Instances of RideRecording for TLC. *)
EXTENDS RideRecording, TLC

VehicleSymmetry == Permutations(Vehicles)

==============================================================================
