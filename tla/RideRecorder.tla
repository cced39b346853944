---------------------------- MODULE RideRecorder ----------------------------
(***************************************************************************)
(* One recorded ride, in its two copies.  The recorder is the projection   *)
(* the recording owner keeps in memory (cutout-ride-maps RideMapRecorder); *)
(* a stored ride is its row in the database (libcutout-persistence).       *)
(* Operators only: RideRecording says who calls them and when.             *)
(*                                                                         *)
(* Times, distances and moving time are left out.  A route is the sequence *)
(* of its points' arrival numbers, which grow like the code's monotonic    *)
(* timestamps.  The code keeps a candidate vehicle until it is confirmed   *)
(* and then an associated one; every decision modelled here reads          *)
(* "associated, else candidate", so one field stands for both.             *)
(***************************************************************************)
EXTENDS Naturals, Sequences

CONSTANTS None,     \* no ride, no vehicle, no state
          Vehicles  \* vehicle identities

Lifecycles == {"Active", "Paused", "Stopped", "Interrupted", "Saved", "Discarded"}

Events == {"Resume", "Pause", "Stop", "Interrupt", "Discard", "Save"}

(* RideLifecycleState::transition: which event leads from where to where.  *)
(* Draft is left out: a live ride is stored already started.               *)
TransitionTable ==
    { <<{"Paused", "Interrupted"}, "Resume", "Active">>,
      <<{"Active"}, "Pause", "Paused">>,
      <<{"Active", "Paused"}, "Stop", "Stopped">>,
      <<{"Active", "Paused"}, "Interrupt", "Interrupted">>,
      <<{"Active", "Paused", "Stopped", "Interrupted"}, "Discard", "Discarded">>,
      <<{"Stopped", "Interrupted"}, "Save", "Saved">> }

CanTransition(life, event) ==
    \E row \in TransitionTable : life \in row[1] /\ event = row[2]

NextLife(life, event) ==
    (CHOOSE row \in TransitionTable : life \in row[1] /\ event = row[2])[3]

IsRecording(life) == life \in {"Active", "Paused"}

AllowsReplacement(life) == life \in {None, "Interrupted", "Saved", "Discarded"}

CanStart(life) == life \in {None, "Stopped", "Interrupted", "Saved", "Discarded"}

-----------------------------------------------------------------------------
(* The recorder in memory.  `gen` is the process-wide recording generation *)
(* that fences location samples admitted for an earlier projection.        *)

NewRecorder == [life |-> None, gen |-> 0, route |-> <<>>, vehicle |-> None]

Started(gen, vehicle) ==
    [life |-> "Active", gen |-> gen, route |-> <<>>, vehicle |-> vehicle]

Applied(rec, event) == [rec EXCEPT !.life = NextLife(rec.life, event)]

(* record_admitted_sample: a durable point joins the route only if the     *)
(* projection it was admitted for is still the one in memory.              *)
RecordsSample(rec, route, point, gen) ==
    /\ rec.life \in Lifecycles \ {"Discarded"}
    /\ rec.gen = gen
    /\ route = <<>> \/ route[Len(route)] < point

ObserveVehicle(rec, vehicle) ==
    IF IsRecording(rec.life) /\ rec.vehicle = None
    THEN [rec EXCEPT !.vehicle = vehicle]
    ELSE rec

-----------------------------------------------------------------------------
(* The stored ride.  `paused` says that paused_at_ms is set.               *)

StartedRow(vehicle) ==
    [life |-> "Active", paused |-> FALSE, route |-> <<>>, vehicle |-> vehicle]

(* A pause that a reopened database turned into an interruption is still a *)
(* pause to the commands that follow.                                      *)
EffectiveLife(row) ==
    IF row.life = "Interrupted" /\ row.paused THEN "Paused" ELSE row.life

(* transition_at: the pause mark is set by Pause and cleared by leaving a  *)
(* pause for anything but Discard and Save.                                *)
StoredTransition(row, event) ==
    [row EXCEPT !.life = NextLife(EffectiveLife(row), event),
                !.paused = \/ event = "Pause"
                           \/ @ /\ event \in {"Discard", "Save"}]

AcceptsLocation(row) == IsRecording(row.life)

AppendLocation(row, point) == [row EXCEPT !.route = Append(@, point)]

(* recover_interrupted_rides, run by every opening of the database.        *)
Reopened(rows) ==
    [r \in DOMAIN rows |->
        IF IsRecording(rows[r].life)
        THEN [rows[r] EXCEPT !.life = "Interrupted"]
        ELSE rows[r]]

Recoverable(rows) ==
    {r \in DOMAIN rows : rows[r].life \in {"Active", "Paused", "Interrupted"}}

(* newest_recoverable_ride: rides are numbered in creation order.          *)
NewestRecoverable(rows) ==
    IF Recoverable(rows) = {}
    THEN None
    ELSE CHOOSE r \in Recoverable(rows) : \A s \in Recoverable(rows) : s <= r

(* restore_projection: a stored pause comes back as a pause.               *)
Restored(row, gen) ==
    [life |-> EffectiveLife(row), gen |-> gen, route |-> row.route,
     vehicle |-> row.vehicle]

=============================================================================
