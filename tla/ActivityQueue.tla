--------------------------- MODULE ActivityQueue ---------------------------
(***************************************************************************)
(* Admission of platform work for a ride, as operators on a record: the    *)
(* methods of ActivityWorkQueue                                            *)
(* (src/crates/cutout-application/src/ride_activity.rs).  A method that    *)
(* answers is two operators: the answer, and the queue after it.  Every    *)
(* request carries a number the app counts up; requests may reach the      *)
(* queue in another order.                                                 *)
(*                                                                         *)
(* Left out: last_projection_telemetry_at_ms.  It only decides whether a   *)
(* presentation with equal content is worth sending again, which the       *)
(* modules that use the queue take as an input.                            *)
(***************************************************************************)
EXTENDS RideSession

Terminal == [request_id : Nat, identity : RideSessionIdentity]

WorkState ==
  [latest_request_id : Nat,
   latest_presentation_request_id : Nat,
   latest_telemetry_at : Nat \cup {None},
   latest_transport_request_id : Nat,
   disconnected_at : Nat \cup {None},
   latest_session_request_id : Nat,
   latest_session_identity : RideSessionIdentity \cup {None},
   pending_start_platform : Platforms \cup {None},
   latest_scene_request_id : Nat,
   latest_background_request_id : Nat,
   latest_terminal_request_id : Nat,
   in_flight_request_id : Nat \cup {None},
   pending_presentation_request_id : Nat \cup {None},
   terminal : Terminal \cup {None}]

DefaultQueue ==
  [latest_request_id |-> 0, latest_presentation_request_id |-> 0,
   latest_telemetry_at |-> None, latest_transport_request_id |-> 0,
   disconnected_at |-> None, latest_session_request_id |-> 0,
   latest_session_identity |-> None, pending_start_platform |-> None,
   latest_scene_request_id |-> 0, latest_background_request_id |-> 0,
   latest_terminal_request_id |-> 0, in_flight_request_id |-> None,
   pending_presentation_request_id |-> None, terminal |-> None]

Max2(a, b) == IF a >= b THEN a ELSE b

(***************************************************************************)
(* Policy over the ride that the queue and its caller consult.             *)
(***************************************************************************)
PendingStart(r) == r.phase = "Starting" /\ r.activity = "Starting" /\ r.identity # None

BackgroundProjection(r) ==
  IF r.identity = None \/ r.activity \notin {"Active", "Stale"} THEN NoEffect
  ELSE IF r.phase = "Active" THEN Effect("UpdateActivity", r.identity)
  ELSE IF r.phase \in {"Reconnecting", "Stale"} THEN Effect("MarkActivityStale", r.identity)
  ELSE NoEffect

AdmitsTelemetry(r, at) ==
  /\ r.identity # None
  /\ r.last_telemetry_at = None \/ at > r.last_telemetry_at
  /\ r.phase \in {"Starting", "Active", "Stale"}

MayClearMarker_WhenIdle(r) == r.phase = "Idle"

MayClearMarker(r) == r.phase = "Ended"

(***************************************************************************)
(* Presentation requests: a newer one supersedes an older one, and a       *)
(* terminal request supersedes every older one.                            *)
(***************************************************************************)
AcceptsRequest(q, id) ==
  id > q.latest_presentation_request_id /\ id > q.latest_terminal_request_id

AcceptRequest(q, id) ==
  [q EXCEPT !.latest_presentation_request_id = id, !.latest_request_id = id]

StartsNewSession(q, platform, r) ==
  /\ \/ r.phase \in {"Idle", "Ending", "Ended"}
     \/ r.identity = None
     \/ r.identity.platform # platform
  /\ q.pending_start_platform # platform

AcceptsPresentation(q, id, platform, r, at) ==
  /\ AcceptsRequest(q, id)
  /\ \/ StartsNewSession(q, platform, r)
     \/ q.disconnected_at = None
     \/ at > q.disconnected_at

AcceptPresentation(q, id, platform, r, at) ==
  IF StartsNewSession(q, platform, r)
  THEN [AcceptRequest(q, id) EXCEPT !.latest_session_request_id = id,
                                    !.pending_start_platform = platform,
                                    !.disconnected_at = None,
                                    !.latest_telemetry_at = at]
  ELSE [AcceptRequest(q, id) EXCEPT !.latest_telemetry_at =
                                       IF @ = None THEN at ELSE Max2(@, at)]

\* The request that owns an identity the reducer has just issued.
NoteSessionStart(q, id, identity) ==
  IF q.latest_session_identity = identity THEN q
  ELSE IF id >= q.latest_session_request_id /\ q.pending_start_platform = identity.platform
  THEN [q EXCEPT !.pending_start_platform = None, !.latest_session_identity = identity]
  ELSE [q EXCEPT !.latest_session_request_id = Max2(@, id),
                 !.latest_session_identity = identity]

(***************************************************************************)
(* Lifecycle requests have fences of their own.                            *)
(***************************************************************************)
AcceptsTerminal(q, id) ==
  id > q.latest_session_request_id /\ id > q.latest_terminal_request_id

AcceptTerminal(q, id) ==
  [q EXCEPT !.latest_terminal_request_id = id,
            !.pending_start_platform = None,
            !.latest_request_id = Max2(@, id)]

BackgroundAdmission(q, id, r) ==
  IF id <= q.latest_background_request_id THEN "Rejected"
  ELSE IF id <= q.latest_scene_request_id THEN "FlushOnly"
  ELSE IF r.phase \in {"Idle", "Ended"} THEN "ReduceAndFlush"
  ELSE "Reduce"

AcceptBackground(q, id) ==
  [q EXCEPT !.latest_background_request_id = id, !.latest_scene_request_id = Max2(@, id)]

AcceptsForeground(q, id) == id > q.latest_scene_request_id

AcceptForeground(q, id) == [q EXCEPT !.latest_scene_request_id = id]

AcceptsDisconnected(q, id, at) ==
  /\ id > q.latest_transport_request_id
  /\ id > q.latest_session_request_id
  /\ q.latest_telemetry_at = None \/ q.latest_telemetry_at <= at
  /\ q.disconnected_at = None \/ at >= q.disconnected_at

AcceptDisconnected(q, id, at) ==
  [q EXCEPT !.latest_transport_request_id = id, !.disconnected_at = at,
            !.pending_presentation_request_id = None]

(***************************************************************************)
(* The sole platform worker: one request in flight, the latest             *)
(* presentation, and one terminal obligation that runs before it.          *)
(***************************************************************************)
MayEnqueuePresentation(q, id) == id = q.latest_request_id

EnqueuePresentation(q, id) ==
  IF q.in_flight_request_id = None
  THEN [q EXCEPT !.in_flight_request_id = id]
  ELSE [q EXCEPT !.pending_presentation_request_id = id]

MayEnqueueProjection(q, id) ==
  /\ id \in {q.latest_scene_request_id, q.latest_transport_request_id}
  /\ id >= q.latest_request_id \/ id = q.latest_transport_request_id

EnqueueProjection(q, id) == EnqueuePresentation([q EXCEPT !.latest_request_id = id], id)

MayEnqueueTerminal(q, id) == id \in {q.latest_request_id, q.latest_terminal_request_id}

EnqueueTerminal_DroppedWhenBusy(q, id, identity) ==
  [q EXCEPT !.pending_presentation_request_id = None,
            !.in_flight_request_id = IF @ = None THEN id ELSE @]

EnqueueTerminal(q, id, identity) ==
  LET idle == q.in_flight_request_id = None
      work == [request_id |-> id, identity |-> identity]
  IN  [q EXCEPT !.pending_presentation_request_id = None,
                !.in_flight_request_id = IF idle THEN id ELSE @,
                !.terminal = IF ~idle /\ @ = None THEN work ELSE @]

\* What finish_work hands the worker next; only the latest presentation is still wanted.
NextPresentation(q) ==
  IF q.pending_presentation_request_id = q.latest_request_id
  THEN q.pending_presentation_request_id ELSE None

FinishWork_KeepsInFlight(q) ==
  IF q.terminal # None
  THEN [q EXCEPT !.terminal = None, !.in_flight_request_id = q.terminal.request_id]
  ELSE [q EXCEPT !.pending_presentation_request_id = None]

FinishWork(q) ==
  IF q.terminal # None
  THEN [q EXCEPT !.terminal = None, !.in_flight_request_id = q.terminal.request_id]
  ELSE [q EXCEPT !.pending_presentation_request_id = None,
                 !.in_flight_request_id = NextPresentation(q)]
=============================================================================
