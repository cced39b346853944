---------------------------- MODULE RideSession ----------------------------
(***************************************************************************)
(* The logical ride of cutout-core, as operators on a record: one operator *)
(* per method of RideSessionLifecycle                                      *)
(* (src/crates/cutout-core/src/ride_lifecycle.rs).  A method returns a     *)
(* decision: the next ride and at most one platform effect.                *)
(*                                                                         *)
(* The platform's opaque activity identifier is left out: the reducer      *)
(* stores it and never looks at it.  Freshness is an input: whether the    *)
(* Rust deadline of two seconds has passed since the last telemetry.       *)
(***************************************************************************)
EXTENDS Naturals

CONSTANTS
  Platforms,  \* platform identifiers of wheels
  None        \* Option::None

ASSUME RideAssumption ==
  /\ None \notin Nat
  /\ None \notin Platforms
  /\ None \notin [platform : Platforms, session : Nat]

\* A ride: the wheel it is on, and the UUID minted when it started.
RideSessionIdentity == [platform : Platforms, session : Nat]

EndReasons ==
  {"UserDisconnect", "UserStop", "ReconnectExhausted", "UnrecoverableSessionFailure",
   "ReplacedByNewSession", "AppReset"}

RideSessionPhases ==
  {"Idle", "Starting", "Active", "Reconnecting", "Stale", "Ending", "Ended"}

ActivityProjections ==
  {"Absent", "Starting", "Active", "Stale", "Ending", "Ended", "Unavailable"}

\* The reason is the payload of the phases Ending and Ended.
RideSessionLifecycle ==
  [phase : RideSessionPhases,
   reason : EndReasons \cup {None},
   identity : RideSessionIdentity \cup {None},
   pending_identity : RideSessionIdentity \cup {None},
   activity : ActivityProjections,
   last_telemetry_at : Nat \cup {None},
   app_presence : {"Foreground", "Background"}]

DefaultRide ==
  [phase |-> "Idle", reason |-> None, identity |-> None, pending_identity |-> None,
   activity |-> "Absent", last_telemetry_at |-> None, app_presence |-> "Foreground"]

IsLive(r) == r.phase \notin {"Idle", "Ended"}

AcceptsUpdates(r) == r.phase \in {"Starting", "Active", "Reconnecting", "Stale"}

\* The identity to persist while the ride can be reconciled after a relaunch.
Marker(r) == IF IsLive(r) THEN r.identity ELSE None

Effect(kind, identity) == [kind |-> kind, identity |-> identity]
NoEffect == Effect("None", None)

Decide(ride, effect) == [state |-> ride, effect |-> effect]
Ignore(r) == Decide(r, NoEffect)

RideOn(phase, identity, activity, presence) ==
  [phase |-> phase, reason |-> None, identity |-> identity, pending_identity |-> None,
   activity |-> activity, last_telemetry_at |-> None, app_presence |-> presence]

\* A ride that has only been started, with the effect that projects it.
Begin(identity, presence) ==
  Decide(RideOn("Starting", identity, "Starting", presence), Effect("StartActivity", identity))

\* A persisted ride is adopted when the platform restored its own wheel, and waits otherwise.
Recover(marker, restored, presence) ==
  IF restored = marker.platform THEN Begin(marker, presence)
  ELSE Ignore(RideOn("Reconnecting", marker, "Unavailable", presence))

\* Recovery never replaces a live ride or its pending cleanup.
RecoverRideSessionMarker(r, marker, restored) ==
  IF Marker(r) # None THEN Ignore(r) ELSE Recover(marker, restored, r.app_presence)

Start_AtOnce(r, identity) ==
  IF IsLive(r) /\ r.identity = identity THEN Ignore(r) ELSE Begin(identity, r.app_presence)

Start_ResumesEndedRide(r, identity) ==
  IF r.phase = "Ended" /\ r.identity # None /\ r.identity.platform = identity.platform
  THEN Begin(r.identity, r.app_presence)
  ELSE IF ~IsLive(r) THEN Begin(identity, r.app_presence)
  ELSE Decide([r EXCEPT !.phase = "Ending", !.reason = "ReplacedByNewSession",
                        !.pending_identity = identity, !.activity = "Ending"],
              Effect("EndActivity", r.identity))

Start(r, identity) ==
  IF ~IsLive(r) THEN Begin(identity, r.app_presence)
  ELSE IF r.identity = identity THEN Ignore(r)
  ELSE Decide([r EXCEPT !.phase = "Ending", !.reason = "ReplacedByNewSession",
                        !.pending_identity = identity, !.activity = "Ending"],
              Effect("EndActivity", r.identity))

ActivityStarted(r, identity) ==
  IF r.identity = identity /\ r.activity = "Starting" /\ AcceptsUpdates(r)
  THEN Ignore([r EXCEPT !.phase = IF @ = "Starting" THEN "Active" ELSE @,
                        !.activity = "Active"])
  ELSE Ignore(r)

ActivityEnded(r, identity) ==
  IF r.identity # identity \/ r.phase # "Ending" THEN Ignore(r)
  ELSE IF r.pending_identity # None THEN Begin(r.pending_identity, r.app_presence)
  ELSE Ignore([r EXCEPT !.phase = "Ended", !.activity = "Ended"])

ActivityUnavailable(r, identity) ==
  IF r.identity = identity /\ IsLive(r)
  THEN Ignore([r EXCEPT !.activity = "Unavailable"])
  ELSE Ignore(r)

AppBackgrounded(r) ==
  IF r.app_presence = "Background" THEN Ignore(r)
  ELSE Decide([r EXCEPT !.app_presence = "Background"],
              IF IsLive(r) THEN Effect("RequestCaptureFlush", r.identity) ELSE NoEffect)

AppForegrounded(r) == Ignore([r EXCEPT !.app_presence = "Foreground"])

BluetoothDisconnected(r, at) ==
  IF r.identity = None \/ ~AcceptsUpdates(r) THEN Ignore(r)
  ELSE LET visible == r.activity \in {"Active", "Stale"}
       IN  Decide([r EXCEPT !.phase = "Reconnecting",
                            !.last_telemetry_at = IF @ = None THEN at ELSE @,
                            !.activity = IF visible THEN "Stale" ELSE @],
                  IF visible THEN Effect("MarkActivityStale", r.identity) ELSE NoEffect)

BluetoothConnected(r) ==
  IF r.phase \in {"Reconnecting", "Stale"}
  THEN Ignore([r EXCEPT !.phase = "Active"])
  ELSE Ignore(r)

TelemetryObserved(r, at) ==
  IF r.identity = None \/ ~AcceptsUpdates(r) THEN Ignore(r)
  ELSE LET visible == r.activity \in {"Active", "Stale"}
       IN  Decide([r EXCEPT !.last_telemetry_at = at, !.phase = "Active",
                            !.activity = IF visible THEN "Active" ELSE @],
                  IF visible THEN Effect("UpdateActivity", r.identity) ELSE NoEffect)

\* late: at least RIDE_SESSION_STALE_AFTER has passed since the last telemetry.
FreshnessChecked(r, late) ==
  IF \/ r.identity = None \/ r.last_telemetry_at = None
     \/ ~AcceptsUpdates(r) \/ r.phase = "Stale" \/ ~late
  THEN Ignore(r)
  ELSE LET visible == r.activity = "Active"
       IN  Decide([r EXCEPT !.phase = "Stale", !.activity = IF visible THEN "Stale" ELSE @],
                  IF visible THEN Effect("MarkActivityStale", r.identity) ELSE NoEffect)

End(r, reason) ==
  IF r.identity = None
  THEN Ignore([r EXCEPT !.phase = "Ended", !.reason = reason, !.activity = "Ended"])
  ELSE IF r.phase = "Ending"
  THEN IF r.reason = reason /\ r.activity = "Unavailable"
       THEN Decide([r EXCEPT !.activity = "Ending"], Effect("EndActivity", r.identity))
       ELSE Ignore(r)
  ELSE IF IsLive(r)
  THEN Decide([r EXCEPT !.phase = "Ending", !.reason = reason,
                        !.pending_identity = None, !.activity = "Ending"],
              Effect("EndActivity", r.identity))
  ELSE Ignore(r)
=============================================================================
