---------------------------- MODULE RideActivity ----------------------------
(***************************************************************************)
(* A ride on an iPhone: the Swift actor that carries out the ride          *)
(* reducer's effects (LiveActivityRideLifecycleCoordinator in              *)
(* src/swift/CutoutMobile/Sources/CutoutMobile/                            *)
(* LiveActivityRideLifecycle.swift), with the Rust ride (RideSession) and  *)
(* the Rust work queue (ActivityQueue) it calls, the persisted ride        *)
(* marker, and ActivityKit.                                                *)
(*                                                                         *)
(* The app numbers its requests and sends each in a task of its own, so    *)
(* they reach the actor in any order.  The actor runs a call up to its     *)
(* next suspension without interruption; these runs are the actions.  Its  *)
(* suspensions are the hop into a presentation closure and back, the calls *)
(* to the activity manager, and the capture flush.                         *)
(*                                                                         *)
(* "app" is the memory of the process, which a crash loses.  ActivityKit   *)
(* keeps the activities of a dead process, and storage its marker.         *)
(* Snapshot contents are left out: "shown" is lastSnapshot # nil, and      *)
(* whether a snapshot differs from the last one is an input.               *)
(***************************************************************************)
EXTENDS ActivityQueue

CONSTANTS
  MaxRequest,       \* bound: requests of one process
  MaxTelemetryAge,  \* bound: age of the telemetry a request carries, in requests
  MaxCrashes,       \* bound: process deaths
  EndMayFail        \* whether the manager's end may throw (ActivityKit's own never does)

\* PendingPresentation: a closure that waits for the worker.
Operations ==
  [kind : {"Reconcile", "Recover", "Project", "EndIfNeeded"}, request : Nat,
   platform : Platforms \cup {None}, identity : RideSessionIdentity \cup {None},
   timing : Nat \cup {None}, reason : {"UserDisconnect", "UserStop", None}]

Workers ==
  [request : Nat, terminal : BOOLEAN,
   stage : {"dispatch", "start", "update", "end", "cleanup", "return"},
   op : Operations \cup {None}, identity : RideSessionIdentity \cup {None},
   snapshot : BOOLEAN, timing : Nat \cup {None}, start : Nat \cup {None}]

ASSUME ActivityAssumption ==
  /\ MaxRequest \in Nat /\ MaxTelemetryAge \in Nat /\ MaxCrashes \in Nat
  /\ EndMayFail \in BOOLEAN
  /\ None \notin EndReasons /\ None \notin Operations /\ None \notin Workers /\ None \notin Terminal
  /\ None \notin [value : RideSessionIdentity \cup {None}]

VARIABLES
  app,         \* process memory
  durable,     \* the ride marker in storage
  activities,  \* identities of the activities ActivityKit shows
  arrived,     \* requests of this process that have reached the actor
  minted,      \* session UUIDs minted so far
  crashes

vars == <<app, durable, activities, arrived, minted, crashes>>

Requests == 1 .. MaxRequest
Intent(value) == [value |-> value]

\* A presentation closure and what it captures.
Operation(kind, id) ==
  [kind |-> kind, request |-> id, platform |-> None, identity |-> None,
   timing |-> None, reason |-> None]

(***************************************************************************)
(* The drain loop at one of its suspensions: dispatch (hop into a          *)
(* closure), start, update, end, cleanup (calls to the manager), return    *)
(* (hop back out of a closure).  The other fields are the arguments of the *)
(* suspended call of execute.                                              *)
(***************************************************************************)
Worker(id, terminal, op) ==
  [request |-> id, terminal |-> terminal, stage |-> "dispatch", op |-> op,
   identity |-> None, snapshot |-> FALSE, timing |-> None, start |-> None]

Launch(restored) ==
  [ride |-> DefaultRide, queue |-> DefaultQueue,
   inactive |-> FALSE,       \* hasReconciledInactiveState
   shown |-> FALSE,          \* lastSnapshot # nil
   timing |-> None,          \* latestPresentationTiming: when its telemetry was received
   payload |-> None,         \* pendingPresentation
   worker |-> None, flushing |-> {},
   manager |-> FALSE,        \* the manager holds an activity
   desired |-> None,         \* latest marker intent of this process
   launch_marker |-> restored]

(***************************************************************************)
(* Steps of the coordinator's code, as operators from process memory to    *)
(* process memory.                                                         *)
(***************************************************************************)
\* reduce, with persistSessionMarker.
Reduce(s, d) ==
  [s EXCEPT !.ride = d.state,
            !.desired = IF Marker(d.state) # None THEN Intent(Marker(d.state))
                        ELSE IF MayClearMarker(d.state) THEN Intent(None)
                        ELSE @]

Await(s, stage, identity, snapshot, timing, start) ==
  [s EXCEPT !.worker = [@ EXCEPT !.stage = stage, !.op = None, !.identity = identity,
                                 !.snapshot = snapshot, !.timing = timing, !.start = start]]

\* One turn of drainPlatformWork: finishWork, then the work it hands over.
Drain(s) ==
  LET q == s.queue
      finished == [s EXCEPT !.queue = FinishWork(q)]
      id == NextPresentation(q)
      mine == s.payload # None /\ s.payload.request = id
  IN  IF q.terminal # None
      THEN Await([finished EXCEPT !.worker = Worker(q.terminal.request_id, TRUE, None)],
                 "end", q.terminal.identity, s.shown, None, None)
      ELSE IF id = None
      THEN [finished EXCEPT !.worker = None, !.payload = None]
      ELSE [finished EXCEPT !.worker = Worker(id, FALSE, IF mine THEN s.payload ELSE None),
                            !.payload = IF mine THEN None ELSE @]

\* A closure hops back to the drain loop; terminal work runs in it.
Return(s) ==
  IF s.worker.terminal THEN Drain(s)
  ELSE Await(s, "return", None, FALSE, None, None)

Observe(s, at, late) ==
  LET observed == Reduce(s, TelemetryObserved(s.ride, at))
  IN  Reduce(observed, FreshnessChecked(observed.ride, late))

\* execute up to its call of the manager.
Execute(s, effect, snapshot, timing, start, late) ==
  LET noted == IF start = None THEN s
               ELSE [s EXCEPT !.queue = NoteSessionStart(@, start, effect.identity)]
      observed == IF timing = None THEN noted ELSE Observe(noted, timing, late)
  IN  IF effect.kind = "StartActivity"
      THEN IF snapshot
           THEN Await(observed, "start", effect.identity, snapshot, timing, start)
           ELSE Return(noted)
      ELSE IF effect.kind = "EndActivity"
      THEN Await(s, "end", effect.identity, snapshot, timing, start)
      ELSE IF effect.kind \in {"UpdateActivity", "MarkActivityStale"} /\ snapshot
      THEN Await(s, "update", effect.identity, snapshot, timing, start)
      ELSE Return(s)

\* The caller that gets the worker drains it; another leaves its closure behind.
Admit(s, op, admitted) ==
  IF s.queue.in_flight_request_id = None
  THEN [s EXCEPT !.queue = admitted, !.worker = Worker(op.request, FALSE, op)]
  ELSE [s EXCEPT !.queue = admitted, !.payload = op]

EnqueueOperation(s, op) ==
  IF MayEnqueuePresentation(s.queue, op.request)
  THEN Admit(s, op, EnqueuePresentation(s.queue, op.request))
  ELSE s

EnqueueProjectionOperation(s, id) ==
  IF MayEnqueueProjection(s.queue, id)
  THEN Admit(s, Operation("Project", id), EnqueueProjection(s.queue, id))
  ELSE s

EnqueueTerminalWork(s, id, identity) ==
  LET replaced == s.queue.pending_presentation_request_id
      queued == [s EXCEPT !.queue = EnqueueTerminal(@, id, identity)]
  IN  IF ~MayEnqueueTerminal(s.queue, id) THEN s
      ELSE IF s.queue.in_flight_request_id = None
      THEN Await([queued EXCEPT !.worker = Worker(id, TRUE, None)],
                 "end", identity, s.shown, None, None)
      ELSE [queued EXCEPT !.payload =
                             IF @ # None /\ @.request = replaced THEN None ELSE @]

\* differs: the snapshot is not the one last shown.
EnqueueProjectionIfNeeded(s, id, differs) ==
  LET effect == BackgroundProjection(s.ride)
  IN  IF \/ effect = NoEffect
         \/ effect.kind = "UpdateActivity" /\ s.shown /\ ~differs
      THEN s ELSE EnqueueProjectionOperation(s, id)

(***************************************************************************)
(* The presentation closures.                                              *)
(***************************************************************************)
RidesOn(s, platform) == s.ride.identity # None /\ s.ride.identity.platform = platform

\* Required cleanup is waiting for the worker: a closure gives way to it.
Barred(s) == s.queue.terminal # None

\* Whether a reconciliation asks the reducer for a new session.
Starts(s, op) ==
  LET same == RidesOn(s, op.platform)
  IN  /\ ~Barred(s)
      /\ ~(same /\ PendingStart(s.ride))
      /\ ~s.shown \/ ~same

PerformReconciliation(s, op, identity, late, differs) ==
  LET started == Start(s.ride, identity)
      connected == IF s.ride.phase = "Reconnecting"
                   THEN BluetoothConnected(s.ride).state ELSE s.ride
      observed == TelemetryObserved(connected, op.timing)
      checked == FreshnessChecked(observed.state, late)
      effect == IF checked.effect = NoEffect THEN observed.effect ELSE checked.effect
  IN  IF Barred(s) THEN Return(s)
      ELSE IF RidesOn(s, op.platform) /\ PendingStart(s.ride)
      THEN Execute(s, Effect("StartActivity", s.ride.identity), TRUE, op.timing, op.request, late)
      ELSE IF Starts(s, op)
      THEN Execute(Reduce(s, started), started.effect, TRUE, op.timing, op.request, late)
      ELSE Execute(Reduce(s, checked), IF differs THEN effect ELSE NoEffect,
                   TRUE, op.timing, None, late)

ProjectCurrentLifecycle(s, late) ==
  LET replayed == IF s.timing # None /\ AdmitsTelemetry(s.ride, s.timing)
                  THEN Reduce(s, TelemetryObserved(s.ride, s.timing)) ELSE s
      checked == IF s.timing = None THEN s
                 ELSE Reduce(replayed, FreshnessChecked(replayed.ride, late))
  IN  Execute(checked, BackgroundProjection(checked.ride), TRUE, s.timing, None, late)

EndIfNeeded(s, reason) ==
  LET known == s.shown \/ s.ride.identity # None
      ended == End(s.ride, reason)
      reduced == IF known THEN Reduce(s, ended) ELSE s
  IN  IF known /\ ended.effect # NoEffect
      THEN Execute(reduced, ended.effect, s.shown, None, None, FALSE)
      ELSE IF s.inactive THEN Return([reduced EXCEPT !.shown = FALSE])
      ELSE Await(reduced, "cleanup", None, FALSE, None, None)

RequestEnd(s, id, reason) ==
  LET ended == End(s.ride, reason)
      reduced == Reduce(s, ended)
  IN  IF ended.effect.kind = "EndActivity"
      THEN EnqueueTerminalWork(reduced, id, ended.effect.identity)
      ELSE IF ~s.inactive
      THEN EnqueueOperation(reduced, [Operation("EndIfNeeded", id) EXCEPT !.reason = reason])
      ELSE reduced

-----------------------------------------------------------------------------
Init ==
  /\ app = Launch(None)
  /\ durable = None
  /\ activities = {}
  /\ arrived = {}
  /\ minted = 0
  /\ crashes = 0

\* The n-th request is made at time n; it carries telemetry received at that time or before.
Receive(id) ==
  /\ id \notin arrived
  /\ arrived' = arrived \cup {id}

ReceiptTimes(id) == {t \in 0 .. id : t + MaxTelemetryAge >= id}

OnlyApp == UNCHANGED <<durable, activities, minted, crashes>>

Reconcile(id, platform, at) ==
  /\ Receive(id)
  /\ app' = IF AcceptsPresentation(app.queue, id, platform, app.ride, at)
            THEN EnqueueOperation(
                   [app EXCEPT !.queue = AcceptPresentation(@, id, platform, app.ride, at),
                               !.timing = at],
                   [Operation("Reconcile", id) EXCEPT !.platform = platform, !.timing = at])
            ELSE app
  /\ OnlyApp

\* end, and a reconciliation whose ride should not be active.
EndRide(id, reason) ==
  /\ Receive(id)
  /\ app' = IF AcceptsTerminal(app.queue, id)
            THEN RequestEnd([app EXCEPT !.queue = AcceptTerminal(@, id)], id, reason)
            ELSE app
  /\ OnlyApp

\* reconnectExhausted and unrecoverableSessionFailure.
Terminate(id, reason) ==
  LET ended == End(app.ride, reason)
      reduced == Reduce([app EXCEPT !.queue = AcceptTerminal(@, id)], ended)
  IN  /\ Receive(id)
      /\ app' = IF ~AcceptsTerminal(app.queue, id) THEN app
                ELSE IF ended.effect.kind = "EndActivity"
                THEN EnqueueTerminalWork(reduced, id, ended.effect.identity)
                ELSE reduced
      /\ OnlyApp

TransportDisconnected(id) ==
  LET at == id
      accepted == [app EXCEPT !.queue = AcceptDisconnected(@, id, at)]
  IN  /\ Receive(id)
      /\ app' = IF AcceptsDisconnected(app.queue, id, at)
                THEN EnqueueProjectionOperation(
                       Reduce(accepted, BluetoothDisconnected(app.ride, at)), id)
                ELSE app
      /\ OnlyApp

\* The actor suspends for the capture flush, and projects the ride after it.
EnterBackground(id, differs) ==
  LET admission == BackgroundAdmission(app.queue, id, app.ride)
      accepted == [app EXCEPT !.queue = AcceptBackground(@, id)]
      decision == AppBackgrounded(app.ride)
      reduced == Reduce(accepted, decision)
      flushes == admission = "ReduceAndFlush" \/ decision.effect.kind = "RequestCaptureFlush"
  IN  /\ Receive(id)
      /\ app' = IF admission = "Rejected" THEN app
                ELSE IF admission = "FlushOnly" THEN accepted
                ELSE IF flushes THEN [reduced EXCEPT !.flushing = @ \cup {id}]
                ELSE EnqueueProjectionIfNeeded(reduced, id, differs)
      /\ OnlyApp

FlushCompletes(id, differs) ==
  /\ id \in app.flushing
  /\ app' = EnqueueProjectionIfNeeded([app EXCEPT !.flushing = @ \ {id}], id, differs)
  /\ OnlyApp /\ UNCHANGED arrived

BecomeActive(id, differs) ==
  LET accepted == [app EXCEPT !.queue = AcceptForeground(@, id)]
  IN  /\ Receive(id)
      /\ app' = IF AcceptsForeground(app.queue, id)
                THEN EnqueueProjectionIfNeeded(
                       Reduce(accepted, AppForegrounded(app.ride)), id, differs)
                ELSE app
      /\ OnlyApp

(***************************************************************************)
(* The first request of a relaunched app: adopt the marker read at launch. *)
(* The app has a snapshot of the ride only when its own wheel was restored *)
(* (CutoutAppModel waits for one).                                         *)
(***************************************************************************)
RecoverPersistedRide(restored, at) ==
  LET id == 1
      m == app.launch_marker
      accepted == [app EXCEPT !.queue = AcceptRequest(@, id)]
      recovered == RecoverRideSessionMarker(app.ride, m, restored)
      op == [Operation("Recover", id) EXCEPT !.identity = m, !.timing = at]
  IN  /\ m # None
      /\ Receive(id)
      /\ app' = IF ~AcceptsRequest(app.queue, id) THEN app
                ELSE IF recovered.effect = NoEffect THEN Reduce(accepted, recovered)
                ELSE EnqueueOperation([Reduce(accepted, recovered) EXCEPT !.timing = at], op)
      /\ OnlyApp

At(stage) == app.worker # None /\ app.worker.stage = stage

\* The worker enters the closure.  Only a new session mints an identity.
Dispatch(late, differs) ==
  LET op == app.worker.op
      identity == [platform |-> op.platform, session |-> minted]
  IN  /\ At("dispatch")
      /\ app' = IF op = None THEN Return(app)
                ELSE IF op.kind = "Reconcile"
                THEN PerformReconciliation(app, op, identity, late, differs)
                ELSE IF op.kind = "Recover"
                THEN Execute(app, Effect("StartActivity", op.identity), TRUE, op.timing,
                             op.request, late)
                ELSE IF op.kind = "Project" THEN ProjectCurrentLifecycle(app, late)
                ELSE EndIfNeeded(app, op.reason)
      /\ minted' = IF op # None /\ op.kind = "Reconcile" /\ Starts(app, op)
                   THEN minted + 1 ELSE minted
      /\ UNCHANGED <<durable, activities, arrived, crashes>>

ClosureReturns ==
  /\ At("return")
  /\ app' = Drain(app)
  /\ OnlyApp /\ UNCHANGED arrived

OnlyActivities == UNCHANGED <<durable, arrived, minted, crashes>>

ManagerStarts_FlagKept ==
  LET w == app.worker
      started == [app EXCEPT !.shown = TRUE, !.manager = TRUE]
  IN  /\ At("start")
      /\ activities' = {w.identity}
      /\ app' = Return(Reduce(started, ActivityStarted(app.ride, w.identity)))
      /\ OnlyActivities

\* The manager ends activities of other rides, and adopts or requests this one.
ManagerStarts ==
  LET w == app.worker
      started == [app EXCEPT !.inactive = FALSE, !.shown = TRUE, !.manager = TRUE]
  IN  /\ At("start")
      /\ activities' = {w.identity}
      /\ app' = Return(Reduce(started, ActivityStarted(app.ride, w.identity)))
      /\ OnlyActivities

\* Activities are not allowed, or the request for a new one fails.
ManagerStartFails ==
  LET w == app.worker
      failed(held) == [app EXCEPT !.shown = FALSE, !.manager = held]
      unavailable(s) == Return(Reduce(s, ActivityUnavailable(app.ride, w.identity)))
  IN  /\ At("start")
      /\ \/ /\ activities' = activities
            /\ app' = unavailable(failed(app.manager))
         \/ /\ w.identity \notin activities
            /\ activities' = {}
            /\ app' = unavailable(failed(FALSE))
      /\ OnlyActivities

\* Without an activity in hand the manager throws, and only the error is recorded.
ManagerUpdates ==
  /\ At("update")
  /\ app' = Return([app EXCEPT !.shown = @ \/ app.manager])
  /\ OnlyApp /\ UNCHANGED arrived

\* end of the manager removes every activity of the app.
ManagerEnds ==
  LET w == app.worker
      ended == [app EXCEPT !.shown = FALSE, !.inactive = TRUE, !.manager = FALSE]
      decision == ActivityEnded(app.ride, w.identity)
  IN  /\ At("end") \/ At("cleanup")
      /\ activities' = {}
      /\ \E late \in BOOLEAN :
           app' = IF w.stage = "cleanup" THEN Return(ended)
                  ELSE Execute(Reduce(ended, decision), decision.effect, w.snapshot,
                               w.timing, w.start, late)
      /\ OnlyActivities

ManagerEndFails ==
  /\ EndMayFail
  /\ \/ /\ At("end")
        /\ app' = Return(Reduce(app, ActivityUnavailable(app.ride, app.worker.identity)))
     \/ /\ At("cleanup")
        /\ app' = Return(app)
  /\ OnlyApp /\ UNCHANGED arrived

PersistMarker ==
  /\ app.desired # None
  /\ durable # app.desired.value
  /\ durable' = app.desired.value
  /\ UNCHANGED <<app, activities, arrived, minted, crashes>>

Crash ==
  /\ crashes < MaxCrashes
  /\ crashes' = crashes + 1
  /\ app' = Launch(durable)
  /\ arrived' = {}
  /\ UNCHANGED <<durable, activities, minted>>

ManagerReturns ==
  ManagerStarts \/ ManagerStartFails \/ ManagerUpdates \/ ManagerEnds \/ ManagerEndFails

WorkerStep ==
  \/ \E late \in BOOLEAN, differs \in BOOLEAN : Dispatch(late, differs)
  \/ ClosureReturns
  \/ ManagerReturns

Next ==
  \/ \E id \in Requests, platform \in Platforms :
       \E at \in ReceiptTimes(id) : Reconcile(id, platform, at)
  \/ \E id \in Requests, reason \in {"UserDisconnect", "UserStop"} : EndRide(id, reason)
  \/ \E id \in Requests, reason \in {"ReconnectExhausted", "UnrecoverableSessionFailure"} :
       Terminate(id, reason)
  \/ \E id \in Requests : TransportDisconnected(id)
  \/ \E id \in Requests, differs \in BOOLEAN :
       EnterBackground(id, differs) \/ BecomeActive(id, differs) \/ FlushCompletes(id, differs)
  \/ \E restored \in Platforms \cup {None} :
       \E at \in ReceiptTimes(1) : RecoverPersistedRide(restored, at)
  \/ WorkerStep
  \/ PersistMarker
  \/ Crash

Spec == Init /\ [][Next]_vars

(***************************************************************************)
(* The Swift runtime resumes a suspended task, the activity manager        *)
(* answers its calls, and the marker writer retries until storage          *)
(* acknowledges the latest intent.  No request need ever be made.          *)
(***************************************************************************)
FairSpec == Spec /\ WF_vars(WorkerStep) /\ WF_vars(PersistMarker)

-----------------------------------------------------------------------------
(***************************************************************************)
(* Every field has its type, and the payloads of the phases are there      *)
(* exactly in those phases: a reason once the ride is ending, an identity  *)
(* while it is live, a successor only while it is being replaced.          *)
(***************************************************************************)
TypeOK ==
  /\ app.ride \in RideSessionLifecycle
  /\ app.queue \in WorkState
  /\ durable \in RideSessionIdentity \cup {None}
  /\ app.ride.reason # None <=> app.ride.phase \in {"Ending", "Ended"}
  /\ IsLive(app.ride) => app.ride.identity # None
  /\ app.ride.pending_identity # None => app.ride.reason = "ReplacedByNewSession"

\* The end of this ride's activity waits for the worker, or is under way.
Cleaning(identity) ==
  \/ app.queue.terminal # None /\ app.queue.terminal.identity = identity
  \/ At("end") /\ app.worker.identity = identity

(***************************************************************************)
(* A ride that is ending always has its cleanup waiting or under way,      *)
(* whatever presentations, scene changes, disconnects or further ends      *)
(* arrive meanwhile, and whichever of them holds the worker.  And cleanup  *)
(* is never carried out for a ride other than the current one: the         *)
(* manager's end removes every activity, so a late cleanup of the old ride *)
(* would take down the activity of the new one.                            *)
(***************************************************************************)
CleanupMatchesRide ==
  /\ app.ride.phase = "Ending" /\ app.ride.activity = "Ending" => Cleaning(app.ride.identity)
  /\ app.queue.terminal # None => app.queue.terminal.identity = app.ride.identity
  /\ At("end") => app.worker.identity = app.ride.identity

(***************************************************************************)
(* What the app believes to be on screen is what ActivityKit shows, also   *)
(* after a crash that left activities of the previous process behind.      *)
(* When the ride says that its activity is active or stale, that activity  *)
(* is shown and no other.  While hasReconciledInactiveState lets an end    *)
(* skip the manager, there is none, so nothing is left behind by skipping. *)
(***************************************************************************)
ScreenIsKnown ==
  /\ app.ride.activity \in {"Active", "Stale"} => activities = {app.ride.identity}
  /\ app.inactive => activities = {}

\* The step is not a relaunch, which starts from a new process memory.
Alive == crashes' = crashes

\* A late callback, telemetry or scene change never revives a ride that has ended.
EndedStaysEnded ==
  [][/\ Alive
     /\ app.ride.phase = "Ended"
     /\ app'.ride.identity = app.ride.identity
     => app'.ride.phase = "Ended"]_vars

(***************************************************************************)
(* A live ride gives way to another identity only in the step in which the *)
(* manager acknowledges the end of its activity: two rides never share the *)
(* screen.                                                                 *)
(***************************************************************************)
RidesDoNotOverlap ==
  [][Alive /\ IsLive(app.ride) /\ app'.ride.identity # app.ride.identity
       => At("end") /\ activities' = {}]_vars

(***************************************************************************)
(* A ride that is ending gets its cleanup acknowledged: it does not stay   *)
(* in that phase behind a stream of presentations.                         *)
(***************************************************************************)
EndingTerminates == app.ride.phase = "Ending" ~> app.ride.phase # "Ending"

(***************************************************************************)
(* The marker of an ended ride is removed from storage, unless a new ride  *)
(* has begun: a later launch does not bring the ended ride back.           *)
(***************************************************************************)
EndedRideIsForgotten == app.ride.phase = "Ended" ~> (durable = None \/ IsLive(app.ride))

(***************************************************************************)
(* When the worker is idle and the last word was to end the ride, no ride  *)
(* is live.  performReconciliation says that the terminal barrier "also    *)
(* covers the hop into this not-yet-dispatched payload".                   *)
(***************************************************************************)
NewerEndWins ==
  /\ app.worker = None
  /\ app.queue.latest_terminal_request_id > app.queue.latest_session_request_id
  => ~IsLive(app.ride)

(***************************************************************************)
(* A ride that waits for its transport becomes active again only by        *)
(* telemetry received after the loss, as the queue's test                  *)
(* only_actual_newer_receipt_supersedes_disconnection_and_allows_reconnect *)
(* says.                                                                   *)
(***************************************************************************)
OnlyNewerReceiptReconnects ==
  [][/\ Alive
     /\ app.ride.phase = "Reconnecting" /\ app'.ride.phase = "Active"
     /\ app'.ride.identity = app.ride.identity
     /\ app.queue.disconnected_at # None
     => app'.ride.last_telemetry_at > app.queue.disconnected_at]_vars
=============================================================================
