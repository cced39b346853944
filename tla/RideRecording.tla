---------------------------- MODULE RideRecording ---------------------------
(***************************************************************************)
(* The ride recording stack: the mobile core (MobileRideMapCore), the      *)
(* recording owner below it (RideRecordingApplication), the owner threads  *)
(* that wait for durable results, and the storage worker with its file.    *)
(*                                                                         *)
(* Every command is two-phase.  Its begin half validates against memory,   *)
(* queues one storage request and takes the single command lease           *)
(* (app.pending); its finish half waits for the reply and publishes it in  *)
(* memory.  Locations are written through the same FIFO queue without      *)
(* taking the lease.  The worker can die with or without committing the    *)
(* request it holds; the next request, or another client of the database,  *)
(* reopens the file, which interrupts the rides stored as open.            *)
(*                                                                         *)
(* The wall clock, the automatic-start setting, the selected vehicle and   *)
(* the last connected one (remembered across processes, and forgotten on   *)
(* request) can change at any moment: every read of them is a free choice. *)
(* Calls that are refused and change nothing are left out.                 *)
(***************************************************************************)
EXTENDS RideRecorder, FiniteSets

CONSTANTS MaxPendingLocations, \* MAX_PENDING_LOCATION_WRITES, 64 in the code
          MaxCommands,         \* bound: commands begun in one process
          MaxRides,            \* bound: rides stored before no new one is begun
          MaxPoints,           \* bound: locations received
          MaxConnections,      \* bound: verified connections in one process
          MaxFaults            \* bound: worker deaths, failed writes, lost threads, restarts

ASSUME NoneAssumption == None \notin Nat

VARIABLES core,      \* MobileRideMapCoreInner: restoration state and mutation barriers
          app,       \* RecordingState of the recording owner
          ops,       \* prepared commands held by an owner thread or a blocked caller
          queue,     \* requests the storage worker has not answered
          up,        \* the storage worker is running
          db,        \* the stored rides, in creation order
          conn,      \* the verified connection: its generation and vehicle
          token,     \* what the rider last saw: ride, generation and state
          points,    \* locations received so far
          returned,  \* location outcomes the recording owner has returned, in order
          lost,      \* the thread of an admission was lost in this process
          faults

vars == <<core, app, ops, queue, up, db, conn, token, points, returned, lost, faults>>

CoreInit ==
    [restoration |-> "Pending", lifecycle |-> None, stop |-> None,
     restore |-> None, admission |-> None]

AppInit ==
    [phase |-> "Pending", pending |-> None, nextId |-> 1, ride |-> None,
     rec |-> NewRecorder, lastGen |-> 0, recoverable |-> FALSE, locs |-> <<>>,
     settled |-> <<>>, generation |-> 0, admitted |-> None, joined |-> None,
     joinedRide |-> None]

NoConnection == [gen |-> 0, vehicle |-> None]

Init ==
    /\ core = CoreInit
    /\ app = AppInit
    /\ ops = {}
    /\ queue = <<>>
    /\ up = TRUE
    /\ db = <<>>
    /\ conn = NoConnection
    /\ token = None
    /\ points = 0
    /\ returned = <<>>
    /\ lost = FALSE
    /\ faults = 0

-----------------------------------------------------------------------------
(* Guards.                                                                 *)

(* A restore settles its recovery with the recording owner's lock held.    *)
AppFree == \A op \in ops : op.stage # "Recovering"

(* A synchronous command blocks the native caller's serial executor.       *)
CallerFree == AppFree /\ \A op \in ops : ~op.sync

RequireReady(c, a) ==
    /\ c.admission = None
    /\ c.lifecycle = None
    /\ a.phase # "RecoveryRequired"
    /\ c.restoration = "Ready"

RequireLifecycleReady(c, a) == RequireReady(c, a) /\ c.stop = None

(* reserve_command_id under a free lease, in a ready owner.                *)
CanBegin(a) == a.phase = "Ready" /\ a.pending = None /\ a.nextId <= MaxCommands

TakeLease(a) == [a EXCEPT !.pending = a.nextId, !.nextId = @ + 1]

DropLease_Keeps(a, id) == a

(* Drop of CommandLease.                                                   *)
DropLease(a, id) == IF a.pending = id THEN [a EXCEPT !.pending = None] ELSE a

CommandStorageError_AlwaysKnown(a, id, status) ==
    IF a.pending # id THEN a ELSE [a EXCEPT !.pending = None]

(* command_storage_error: only a lost reply leaves the outcome unknown.    *)
CommandStorageError(a, id, status) ==
    IF a.pending # id THEN a
    ELSE [a EXCEPT !.pending = None,
                   !.phase = IF status = "Dropped" THEN "RecoveryRequired" ELSE @]

RecoveryRequired(a) == [a EXCEPT !.pending = None, !.phase = "RecoveryRequired"]

(* A request to the worker; a dead worker is replaced, and opening the     *)
(* file interrupts the rides it holds open.                                *)
Enqueue(request) ==
    /\ queue' = Append(queue, request)
    /\ up' = TRUE
    /\ db' = IF up THEN db ELSE Reopened(db)

Request(kind, id, ride, event, vehicle, plan) ==
    [kind |-> kind, id |-> id, ride |-> ride, event |-> event,
     vehicle |-> vehicle, plan |-> plan]

(* What a connection or a recovery asks of the store: lifecycle events, the *)
(* vehicle to write on the open ride, and how to settle an expired ride.   *)
NoPlan == [events |-> <<>>, meta |-> None, settle |-> None]

(* A prepared command: its lease, what it asks and where its owner stands. *)
Prepared(kind, sync, ride, event, vehicle, plan, stage) ==
    [id |-> app.nextId, kind |-> kind, sync |-> sync, ride |-> ride,
     event |-> event, vehicle |-> vehicle, plan |-> plan, gen |-> 0,
     from |-> app.rec.life, saw |-> app.rec.life, stage |-> stage,
     reply |-> None, outcomes |-> <<>>, result |-> None]

Move(op, to) == ops' = (ops \ {op}) \union {to}

(* The prepared command is consumed; its result is on the way to the core. *)
Consumed(op, result) ==
    [op EXCEPT !.stage = "Returned", !.result = result, !.plan = NoPlan,
               !.reply = None, !.outcomes = <<>>]

Return(op, result) == Move(op, Consumed(op, result))

-----------------------------------------------------------------------------
(* Locations.  Their writes settle in order: an outcome is reported, and   *)
(* its point joins the route, only after every earlier one.                *)

ReadyCount(locs) ==
    CHOOSE n \in 0..Len(locs) :
        /\ \A i \in 1..n : locs[i].reply # None
        /\ n < Len(locs) => locs[n + 1].reply = None

(* The route after the first n writes settled: record_admitted_sample for  *)
(* each that was committed for the ride and the generation in memory.      *)
SettledRoute_AnyReply(a, n) ==
    LET loc(i) == a.locs[i]
        route[i \in 0..n] ==
            IF i = 0 THEN a.rec.route
            ELSE IF /\ loc(i).ride = a.ride
                    /\ RecordsSample(a.rec, route[i - 1], loc(i).point, loc(i).gen)
                 THEN Append(route[i - 1], loc(i).point)
                 ELSE route[i - 1]
    IN  route[n]

SettledRoute(a, n) ==
    LET loc(i) == a.locs[i]
        route[i \in 0..n] ==
            IF i = 0 THEN a.rec.route
            ELSE IF /\ loc(i).reply = "Committed" /\ loc(i).ride = a.ride
                    /\ RecordsSample(a.rec, route[i - 1], loc(i).point, loc(i).gen)
                 THEN Append(route[i - 1], loc(i).point)
                 ELSE route[i - 1]
    IN  route[n]

SettleReady(a) ==
    [a EXCEPT !.rec.route = SettledRoute(a, ReadyCount(a.locs)),
              !.locs = SubSeq(@, ReadyCount(a.locs) + 1, Len(@)),
              !.settled = <<>>]

ReadyOutcomes_NewestFirst(a) ==
    [i \in 1..ReadyCount(a.locs) |-> a.locs[i].point] \o a.settled

ReadyOutcomes(a) ==
    a.settled \o [i \in 1..ReadyCount(a.locs) |-> a.locs[i].point]

(* ingest_location, then admit_location_with_policy.                       *)
IngestLocation ==
    /\ CallerFree
    /\ RequireReady(core, app)
    /\ app.phase = "Ready"
    /\ app.ride # None
    /\ app.rec.life = "Active"
    /\ Len(app.locs) + Len(app.settled) < MaxPendingLocations
    /\ points < MaxPoints
    /\ points' = points + 1
    /\ app' = [app EXCEPT !.locs =
                 Append(@, [point |-> points', ride |-> app.ride,
                            gen |-> app.rec.gen, reply |-> None])]
    /\ Enqueue(Request("Location", points', app.ride, None, None, NoPlan))
    /\ UNCHANGED <<core, ops, conn, token, returned, lost, faults>>

ReturnOutcomes ==
    /\ ReadyOutcomes(app) # <<>>
    /\ app' = SettleReady(app)
    /\ returned' = returned \o ReadyOutcomes(app)

PollLocationWrites ==
    /\ CallerFree
    /\ ReturnOutcomes
    /\ UNCHANGED <<core, ops, queue, up, db, conn, token, points, lost, faults>>

(* checkpoint runs on a detached task, beside whatever the caller's        *)
(* executor does.  It waits for the location writes queued before it, with *)
(* the core locked against new ones, and drains their outcomes.            *)
Checkpoint ==
    /\ AppFree
    /\ RequireReady(core, app) /\ app.phase = "Ready"
    /\ ReadyCount(app.locs) = Len(app.locs)
    /\ ReturnOutcomes
    /\ UNCHANGED <<core, ops, queue, up, db, conn, token, points, lost, faults>>

-----------------------------------------------------------------------------
(* Commands begin.                                                         *)

RiderLooks ==
    /\ CallerFree
    /\ app.ride # None
    /\ token' = [ride |-> app.ride, generation |-> app.generation, life |-> app.rec.life]
    /\ token' # token
    /\ UNCHANGED <<core, app, ops, queue, up, db, conn, points, returned, lost, faults>>

BeginRestore ==
    /\ CallerFree
    /\ core.restoration # "Ready"
    /\ core.stop = None /\ core.restore = None
    /\ app.pending = None /\ app.nextId <= MaxCommands
    /\ core' = [core EXCEPT !.restore = app.nextId]
    /\ app' = [TakeLease(app) EXCEPT !.phase = "Pending"]
    /\ ops' = ops \union {Prepared("Restore", FALSE, None, None, None, NoPlan, "Waiting")}
    /\ Enqueue(Request("Restore", app.nextId, None, None, None, NoPlan))
    /\ UNCHANGED <<conn, token, points, returned, lost, faults>>

BeginStart ==
    /\ CallerFree
    /\ RequireLifecycleReady(core, app)
    /\ CanBegin(app)
    /\ CanStart(app.rec.life)
    /\ Len(db) < MaxRides
    /\ \E vehicle \in Vehicles \union {None} :
         /\ ops' = ops \union
              {Prepared("Start", FALSE, None, None, vehicle, NoPlan, "Waiting")}
         /\ Enqueue(Request("Start", app.nextId, None, None, vehicle, NoPlan))
    /\ core' = [core EXCEPT !.lifecycle = app.nextId]
    /\ app' = TakeLease(app)
    /\ UNCHANGED <<conn, token, points, returned, lost, faults>>

TokenIsCurrent_RideOnly(a, t) == t # None /\ t.ride = a.ride

(* begin_transition's fence: the command names the ride and the generation *)
(* the rider saw.                                                          *)
TokenIsCurrent(a, t) == t # None /\ t.ride = a.ride /\ t.generation = a.generation

(* begin_lifecycle_command, and transition_at for the synchronous calls,   *)
(* which take the token on the spot.                                       *)
BeginTransition(event, sync) ==
    /\ CallerFree
    /\ RequireLifecycleReady(core, app)
    /\ CanBegin(app)
    /\ app.ride # None
    /\ sync \/ TokenIsCurrent(app, token)
    /\ CanTransition(app.rec.life, event)
    /\ core' = IF sync THEN core ELSE [core EXCEPT !.lifecycle = app.nextId]
    /\ app' = TakeLease(app)
    /\ ops' = ops \union
         {[Prepared("Transition", sync, app.ride, event, None, NoPlan, "Waiting")
             EXCEPT !.saw = IF sync THEN @ ELSE token.life]}
    /\ Enqueue(Request("Transition", app.nextId, app.ride, event, None, NoPlan))
    /\ UNCHANGED <<conn, token, points, returned, lost, faults>>

(* A Stop that first waits for the music observations admitted before it:  *)
(* it takes the lease but queues nothing yet.                              *)
BeginStopAfterMusic ==
    /\ CallerFree
    /\ RequireLifecycleReady(core, app)
    /\ CanBegin(app)
    /\ TokenIsCurrent(app, token)
    /\ CanTransition(app.rec.life, "Stop")
    /\ core' = [core EXCEPT !.lifecycle = app.nextId, !.stop = app.nextId]
    /\ app' = TakeLease(app)
    /\ ops' = ops \union
         {[Prepared("Transition", FALSE, app.ride, "Stop", None, NoPlan, "Fence")
             EXCEPT !.saw = token.life]}
    /\ UNCHANGED <<queue, up, db, conn, token, points, returned, lost, faults>>

MusicFenceOpens(op) ==
    /\ AppFree
    /\ op.stage = "Fence"
    /\ Move(op, [op EXCEPT !.stage = "Waiting"])
    /\ Enqueue(Request("Transition", op.id, op.ride, "Stop", None, NoPlan))
    /\ UNCHANGED <<core, app, conn, token, points, returned, lost, faults>>

MusicFenceFails(op) ==
    /\ AppFree
    /\ op.stage = "Fence"
    /\ faults < MaxFaults
    /\ faults' = faults + 1
    /\ app' = DropLease(app, op.id)
    /\ Return(op, "Known")
    /\ UNCHANGED <<core, queue, up, db, conn, token, points, returned, lost>>

-----------------------------------------------------------------------------
(* A verified connection.                                                  *)

Connections ==
    {conn} \union
    {[gen |-> g, vehicle |-> v] : g \in {conn.gen + 1} \cap 1..MaxConnections, v \in Vehicles}

(* plan_auto_recording: close a ride of another vehicle, resume a recent   *)
(* interruption of this one, and start a ride when none remains open.      *)
PlanAutoRecording(a, vehicle, recent) ==
    LET another == IsRecording(a.rec.life) /\ a.rec.vehicle \notin {None, vehicle}
        resumes == /\ a.rec.life = "Interrupted" /\ a.rec.vehicle = vehicle
                   /\ a.recoverable /\ recent
        starts == another \/ (AllowsReplacement(a.rec.life) /\ ~resumes)
    IN  (IF another THEN <<"Stop", "Save">> ELSE <<>>)
        \o (IF resumes THEN <<"Resume">> ELSE <<>>)
        \o (IF starts THEN <<"Start">> ELSE <<>>)

(* The application owner answers a repeat for the generation this ride     *)
(* already joined at once, changing nothing.                               *)
RepeatsJoined(a, c) == c.gen > 0 /\ a.joined = c.gen /\ a.joinedRide = a.ride

AdmissionWorkerStarts(op) ==
    /\ core' = [core EXCEPT !.admission = op.id]
    /\ app' = TakeLease(app)
    /\ ops' = ops \union {op}
    /\ UNCHANGED <<lost, faults>>

(* The thread that would wait for the reply cannot be spawned: the lease   *)
(* is dropped and the barrier cleared, the queued request is not undone.   *)
AdmissionWorkerFails(op) ==
    /\ faults < MaxFaults
    /\ faults' = faults + 1
    /\ app' = DropLease(TakeLease(app), op.id)
    /\ lost' = TRUE
    /\ UNCHANGED <<core, ops>>

(* begin_verified_connection_admission, for a packet of the known verified *)
(* connection or of a new one.                                             *)
BeginAdmission(c) ==
    /\ CallerFree
    /\ RequireReady(core, app)
    /\ c.gen > 0
    /\ ~RepeatsJoined(app, c)
    /\ CanBegin(app)
    /\ \E automatic, recent \in BOOLEAN :
         LET events == IF automatic /\ app.admitted # c.gen
                       THEN PlanAutoRecording(app, c.vehicle, recent)
                       ELSE <<>>
             plan == [NoPlan EXCEPT !.events = events,
                                    !.meta = IF IsRecording(app.rec.life)
                                             THEN ObserveVehicle(app.rec, c.vehicle).vehicle
                                             ELSE None]
             op == [Prepared("Admission", FALSE, app.ride, None, c.vehicle, plan, "Waiting")
                      EXCEPT !.gen = c.gen]
         IN  /\ events # <<>> /\ events[Len(events)] = "Start" => Len(db) < MaxRides
             /\ AdmissionWorkerStarts(op) \/ AdmissionWorkerFails(op)
             /\ Enqueue(Request("Admission", app.nextId, app.ride, None, c.vehicle, plan))
    /\ conn' = c
    /\ UNCHANGED <<token, points, returned>>

-----------------------------------------------------------------------------
(* Commands finish: the owner thread has its reply.                        *)

Answered(op, kinds) ==
    /\ AppFree
    /\ op.kind \in kinds /\ op.stage = "Waiting"
    /\ op.reply # None

StorageFails(op) ==
    /\ op.reply.status # "Committed"
    /\ app' = CommandStorageError(app, op.id, op.reply.status)
    /\ Return(op, IF op.reply.status = "Dropped" THEN "Unknown" ELSE "Known")

StartedRide(a, ride, vehicle) ==
    [a EXCEPT !.rec = Started(a.lastGen + 1, vehicle), !.lastGen = @ + 1,
              !.ride = ride, !.generation = @ + 1]

FinishStart(op) ==
    /\ Answered(op, {"Start"})
    /\ \/ StorageFails(op)
       \/ /\ op.reply.status = "Committed"
          /\ app.pending = op.id
          /\ IF CanStart(app.rec.life)
             THEN /\ app' = [StartedRide(app, op.reply.ride, op.vehicle)
                               EXCEPT !.pending = None]
                  /\ Return(op, "Ok")
             ELSE /\ app' = RecoveryRequired(app)
                  /\ Return(op, "Known")
    /\ UNCHANGED <<core, queue, up, db, conn, token, points, returned, lost, faults>>

(* The first half of finish_transition, finish_stop_after_music and        *)
(* finish_verified_connection_admission: settle the locations written      *)
(* before the command, keep their outcomes, and let go of the lock.        *)
FinishPoll(op) ==
    /\ Answered(op, {"Transition", "Admission"})
    /\ \/ StorageFails(op)
       \/ /\ op.reply.status = "Committed"
          /\ app' = SettleReady(app)
          /\ Move(op, [op EXCEPT !.stage = "Polled", !.outcomes = ReadyOutcomes(app)])
    /\ UNCHANGED <<core, queue, up, db, conn, token, points, returned, lost, faults>>

(* The projection of a committed transition.                               *)
TransitionedApp(a, event) ==
    LET moved == [a EXCEPT !.rec = Applied(@, event), !.generation = @ + 1,
                           !.recoverable = @ /\ event # "Resume", !.pending = None]
    IN  IF event = "Discard"
        THEN [moved EXCEPT !.ride = None, !.recoverable = FALSE, !.locs = <<>>]
        ELSE moved

FinishTransition(op) ==
    LET a == [app EXCEPT !.settled = @ \o op.outcomes]
    IN  /\ AppFree
        /\ op.kind = "Transition" /\ op.stage = "Polled"
        /\ app.pending = op.id
        /\ IF /\ a.ride = op.ride
              /\ op.reply.row.life = NextLife(op.from, op.event)
              /\ a.rec.life = op.from
           THEN app' = TransitionedApp(a, op.event) /\ Return(op, "Ok")
           ELSE app' = RecoveryRequired(a) /\ Return(op, "Known")
        /\ UNCHANGED <<core, queue, up, db, conn, token, points, returned, lost, faults>>

(* apply_selected_mutations: the committed plan, replayed in memory.  A    *)
(* plan that ends in Start replaces what its earlier events leave; any     *)
(* other is a Resume.                                                      *)
ReplayedPlan(a, op) ==
    LET events == op.plan.events
        moved == IF events[Len(events)] = "Start"
                 THEN StartedRide(a, op.reply.created, op.vehicle)
                 ELSE [a EXCEPT !.rec = Applied(@, "Resume")]
    IN  IF events = <<>> THEN a
        ELSE [moved EXCEPT !.generation = a.generation + Len(events),
                           !.recoverable = FALSE, !.joined = op.gen,
                           !.joinedRide = moved.ride]

(* The receipt names the ride in memory with another lifecycle.            *)
ReceiptContradicts(a, reply) ==
    reply.matches /\ reply.ride = a.ride /\ a.ride # None /\ a.rec.life # reply.row.life

(* The end of finish_verified_connection_admission.                        *)
FinishAdmission(op) ==
    LET kept == [app EXCEPT !.settled = @ \o op.outcomes]
        a == IF op.reply.matches THEN ReplayedPlan(kept, op) ELSE kept
        joins == IsRecording(a.rec.life) /\ a.rec.vehicle \in {None, op.vehicle}
    IN  /\ AppFree
        /\ op.kind = "Admission" /\ op.stage = "Polled"
        /\ app.pending = op.id
        /\ IF ReceiptContradicts(a, op.reply)
           THEN app' = RecoveryRequired(a) /\ Return(op, "Known")
           ELSE /\ app' = [a EXCEPT !.admitted = op.gen, !.pending = None,
                                    !.rec = ObserveVehicle(@, op.vehicle),
                                    !.joined = IF joins THEN op.gen ELSE @,
                                    !.joinedRide = IF joins THEN a.ride ELSE @]
                /\ Return(op, "Ok")
        /\ UNCHANGED <<core, queue, up, db, conn, token, points, returned, lost, faults>>

-----------------------------------------------------------------------------
(* Restore.                                                                *)

(* restore_projection.                                                     *)
RestoredApp(a, ride, row) ==
    LET b == [a EXCEPT !.admitted = None, !.joined = None, !.joinedRide = None,
                       !.ride = ride, !.generation = @ + 1]
    IN  IF ride = None
        THEN [b EXCEPT !.rec = NewRecorder, !.recoverable = FALSE]
        ELSE [b EXCEPT !.rec = Restored(row, a.lastGen + 1), !.lastGen = @ + 1,
                       !.recoverable = row.life # "Active"]

ReadyApp(a) == [a EXCEPT !.phase = "Ready", !.pending = None]

RestoreFails(op) ==
    /\ op.reply.status # "Committed"
    /\ app' = DropLease(app, op.id)
    /\ Return(op, "Known")
    /\ UNCHANGED <<queue, up, db>>

(* apply_recovery's decision needs a second durable command.               *)
Recover(op, request) ==
    /\ app' = RestoredApp(app, op.reply.ride, op.reply.row)
    /\ Move(op, [op EXCEPT !.stage = "Recovering", !.reply = None, !.ride = request.ride,
                           !.event = request.event, !.plan = request.plan])
    /\ Enqueue(request)

(* finish_restore_with_policy.  `recent` is whether the ride was updated   *)
(* within its recovery window; a ride without points is discarded unless   *)
(* telemetry was received for it; the replacement needs the setting and    *)
(* the selected vehicle to agree.                                          *)
FinishRestore(op) ==
    LET ride == op.reply.ride
        row == op.reply.row
    IN  /\ Answered(op, {"Restore"})
        /\ \/ RestoreFails(op)
           \/ /\ op.reply.status = "Committed"
              /\ app.pending = op.id
              /\ \/ /\ ride # None => row.life = "Active" \/ row.paused \/ row.vehicle # None
                    /\ app' = ReadyApp(RestoredApp(app, ride, row))
                    /\ Return(op, "Ok")
                    /\ UNCHANGED <<queue, up, db>>
                 \/ /\ ride # None /\ row.life # "Active"
                    /\ ~row.paused /\ row.vehicle = None
                    /\ Recover(op, Request("Transition", op.id, ride, "Resume", None, NoPlan))
                 \/ /\ ride # None /\ row.life # "Active"
                    /\ \E telemetry \in BOOLEAN, replacement \in Vehicles \union {None} :
                         Recover(op, Request("Settle", op.id, ride, None, None,
                             [NoPlan EXCEPT !.settle =
                                [discard |-> row.route = <<>> /\ ~telemetry,
                                 replacement |-> replacement]]))
        /\ UNCHANGED <<core, conn, token, points, returned, lost, faults>>

ResetApp(a) ==
    [a EXCEPT !.rec = NewRecorder, !.ride = None, !.locs = <<>>, !.generation = @ + 1]

(* The rest of apply_recovery, still under the lock.                       *)
RecoveredApp(a, op) ==
    LET b == [a EXCEPT !.recoverable = FALSE]
    IN  IF op.event = "Resume"
        THEN [b EXCEPT !.rec = Applied(@, "Resume"), !.generation = @ + 1]
        ELSE IF op.plan.settle.replacement # None
        THEN StartedRide(ResetApp(b), op.reply.ride, op.plan.settle.replacement)
        ELSE IF op.plan.settle.discard
        THEN ResetApp(b)
        ELSE [b EXCEPT !.rec.life = "Saved", !.generation = @ + 1]

FinishRecovery(op) ==
    /\ op.stage = "Recovering"
    /\ op.reply # None
    /\ \/ RestoreFails(op)
       \/ /\ op.reply.status = "Committed"
          /\ app' = ReadyApp(RecoveredApp(app, op))
          /\ Return(op, "Ok")
          /\ UNCHANGED <<queue, up, db>>
    /\ UNCHANGED <<core, conn, token, points, returned, lost, faults>>

-----------------------------------------------------------------------------
(* The mobile core takes the result and lifts its barrier.                 *)

(* fail_lifecycle_settlement.                                              *)
FailLifecycle(c, id) ==
    IF id \notin {c.lifecycle, c.stop} THEN c
    ELSE [c EXCEPT !.lifecycle = None, !.stop = None, !.restoration = "Failed"]

(* mark_restoration_failed.                                                *)
MarkFailed(c) ==
    [c EXCEPT !.restoration = "Failed", !.admission = None, !.lifecycle = None, !.stop = None]

ClearLifecycle_StopOnly(c, id) ==
    [c EXCEPT !.stop = IF @ = id THEN None ELSE @]

ClearLifecycle(c, id) ==
    [c EXCEPT !.lifecycle = IF @ = id THEN None ELSE @,
              !.stop = IF @ = id THEN None ELSE @]

(* complete_lifecycle_command, complete_start_gps_only_command and the     *)
(* end of the synchronous transition_at.                                   *)
LifecycleCompleted(c, a, op) ==
    IF op.sync
    THEN IF op.result # "Ok" /\ a.phase = "RecoveryRequired" THEN MarkFailed(c) ELSE c
    ELSE IF op.result = "Unknown" \/ (op.result = "Known" /\ a.phase = "RecoveryRequired")
    THEN FailLifecycle(c, op.id)
    ELSE ClearLifecycle(c, op.id)

(* complete_restore.                                                       *)
RestoreCompleted(c, op) ==
    IF c.restore # op.id THEN c
    ELSE [c EXCEPT !.restore = None,
                   !.restoration = IF op.result = "Ok" THEN "Ready" ELSE "Failed"]

(* complete_verified_connection_admission.                                 *)
AdmissionCompleted(c, a, op) ==
    IF c.admission # op.id THEN c
    ELSE IF op.result # "Ok" /\ a.phase = "RecoveryRequired" THEN MarkFailed(c)
    ELSE [c EXCEPT !.admission = None]

Completed(c, a, op) ==
    CASE op.kind = "Restore" -> RestoreCompleted(c, op)
      [] op.kind = "Admission" -> AdmissionCompleted(c, a, op)
      [] OTHER -> LifecycleCompleted(c, a, op)

Complete(op) ==
    /\ AppFree
    /\ op.stage = "Returned"
    /\ core' = Completed(core, app, op)
    /\ ops' = ops \ {op}
    /\ UNCHANGED <<app, queue, up, db, conn, token, points, returned, lost, faults>>

-----------------------------------------------------------------------------
(* The storage worker: one transaction per request.                        *)

Reply(status, ride, rows, created, matches) ==
    [status |-> status, ride |-> ride, created |-> created, matches |-> matches,
     row |-> IF ride = None THEN None ELSE rows[ride]]

Refused(rows) ==
    {[rows |-> rows, reply |-> Reply("Failed", None, rows, None, FALSE)]}

Committed(rows, ride, created, matches) ==
    {[rows |-> rows, reply |-> Reply("Committed", ride, rows, created, matches)]}

(* A sequence of events on one row, all of them or none.                   *)
EventsRow(row, events) ==
    LET run[i \in 0..Len(events)] ==
            IF i = 0 THEN row ELSE StoredTransition(run[i - 1], events[i])
    IN  run[Len(events)]

EventsValid(row, events) ==
    \A i \in 1..Len(events) :
        CanTransition(EffectiveLife(EventsRow(row, SubSeq(events, 1, i - 1))), events[i])

StoreTransitions(rows, ride, events) ==
    IF EventsValid(rows[ride], events)
    THEN Committed([rows EXCEPT ![ride] = EventsRow(@, events)], ride, None, FALSE)
    ELSE Refused(rows)

(* settle_recovered_ride: a pause closes through Stop only where opening   *)
(* the file had turned it into an interruption.                            *)
StoreSettlement(rows, ride, settle) ==
    LET events == IF settle.discard THEN <<"Discard">>
                  ELSE IF rows[ride].life = "Interrupted" /\ rows[ride].paused
                       THEN <<"Stop", "Save">> ELSE <<"Save">>
        settled == [rows EXCEPT ![ride] = EventsRow(@, events)]
    IN  IF ~EventsValid(rows[ride], events) THEN Refused(rows)
        ELSE IF settle.replacement # None
        THEN Committed(Append(settled, StartedRow(settle.replacement)),
                       Len(rows) + 1, None, FALSE)
        ELSE Committed(settled, IF settle.discard THEN None ELSE ride, None, FALSE)

(* apply_verified_connection_admission: the plan runs only if the vehicle  *)
(* is still the selected one when the worker gets to it.                   *)
StoreAdmission(rows, request, matches) ==
    LET events == IF matches THEN request.plan.events ELSE <<>>
        starts == events # <<>> /\ events[Len(events)] = "Start"
        prior == IF starts THEN SubSeq(events, 1, Len(events) - 1) ELSE events
        moved == IF prior = <<>> THEN rows
                 ELSE [rows EXCEPT ![request.ride] = EventsRow(@, prior)]
    IN  IF prior # <<>> /\ ~EventsValid(rows[request.ride], prior) THEN Refused(rows)
        ELSE IF starts
        THEN Committed(Append(moved, StartedRow(request.vehicle)),
                       Len(rows) + 1, Len(rows) + 1, matches)
        ELSE IF request.plan.meta # None
        THEN Committed([moved EXCEPT ![request.ride].vehicle = request.plan.meta],
                       request.ride, None, matches)
        ELSE Committed(moved, IF events = <<>> THEN None ELSE request.ride, None, matches)

StoreLocation(rows, ride, point) ==
    IF AcceptsLocation(rows[ride])
    THEN Committed([rows EXCEPT ![ride] = AppendLocation(@, point)], ride, None, FALSE)
    ELSE Refused(rows)

Execute(rows, request) ==
    CASE request.kind = "Restore" -> Committed(rows, NewestRecoverable(rows), None, FALSE)
      [] request.kind = "Start" ->
            Committed(Append(rows, StartedRow(request.vehicle)), Len(rows) + 1, None, FALSE)
      [] request.kind = "Transition" ->
            StoreTransitions(rows, request.ride, <<request.event>>)
      [] request.kind = "Settle" -> StoreSettlement(rows, request.ride, request.plan.settle)
      [] request.kind = "Admission" ->
            UNION {StoreAdmission(rows, request, matches) : matches \in BOOLEAN}
      [] request.kind = "Location" -> StoreLocation(rows, request.ride, request.id)

Notified(op, asked, reply) ==
    IF op.id \in asked /\ op.stage # "Returned" THEN [op EXCEPT !.reply = reply] ELSE op

(* The replies to a set of requests reach whoever still waits for them.    *)
Deliver(requests, reply) ==
    LET written == {r.id : r \in {q \in requests : q.kind = "Location"}}
        asked == {r.id : r \in {q \in requests : q.kind # "Location"}}
    IN  /\ app' = [app EXCEPT !.locs = [i \in DOMAIN @ |->
                     IF @[i].point \in written
                     THEN [@[i] EXCEPT !.reply = reply.status] ELSE @[i]]]
        /\ ops' = {Notified(op, asked, reply) : op \in ops}

WorkerStep ==
    /\ up /\ queue # <<>>
    /\ \E outcome \in Execute(db, Head(queue)) :
         /\ db' = outcome.rows
         /\ Deliver({Head(queue)}, outcome.reply)
    /\ queue' = Tail(queue)
    /\ UNCHANGED <<core, up, conn, token, points, returned, lost, faults>>

(* The file refuses the write and the worker says so.                      *)
WriteFails ==
    /\ up /\ queue # <<>>
    /\ faults < MaxFaults
    /\ faults' = faults + 1
    /\ \E outcome \in Refused(db) : Deliver({Head(queue)}, outcome.reply)
    /\ queue' = Tail(queue)
    /\ UNCHANGED <<core, up, db, conn, token, points, returned, lost>>

(* The worker exits; the request it held may have been committed, and no   *)
(* queued request is answered.                                             *)
WorkerDies ==
    /\ up
    /\ faults < MaxFaults
    /\ faults' = faults + 1
    /\ up' = FALSE
    /\ \/ UNCHANGED db
       \/ /\ queue # <<>>
          /\ \E outcome \in Execute(db, Head(queue)) : db' = outcome.rows
    /\ Deliver({queue[i] : i \in DOMAIN queue}, Reply("Dropped", None, db, None, FALSE))
    /\ queue' = <<>>
    /\ UNCHANGED <<core, conn, token, points, returned, lost>>

(* Another client of the database has it reopened.                         *)
Reopen ==
    /\ ~up
    /\ up' = TRUE
    /\ db' = Reopened(db)
    /\ UNCHANGED <<core, app, ops, queue, conn, token, points, returned, lost, faults>>

(* The thread that owns a prepared command unwinds: the lease is dropped,  *)
(* the queued request is not, and the core sees a dropped response.        *)
OwnerLost(op) ==
    /\ ~op.sync /\ op.stage # "Returned"
    /\ faults < MaxFaults
    /\ faults' = faults + 1
    /\ app' = DropLease(app, op.id)
    /\ Return(op, "Unknown")
    /\ lost' = (lost \/ op.kind = "Admission")
    /\ UNCHANGED <<core, queue, up, db, conn, token, points, returned>>

AppRestarts ==
    /\ faults < MaxFaults
    /\ faults' = faults + 1
    /\ core' = CoreInit
    /\ app' = AppInit
    /\ ops' = {}
    /\ queue' = <<>>
    /\ up' = TRUE
    /\ db' = Reopened(db)
    /\ conn' = NoConnection
    /\ token' = None
    /\ returned' = <<>>
    /\ lost' = FALSE
    /\ UNCHANGED points

-----------------------------------------------------------------------------
Finish(op) ==
    \/ MusicFenceOpens(op) \/ MusicFenceFails(op)
    \/ FinishStart(op) \/ FinishPoll(op) \/ FinishTransition(op) \/ FinishAdmission(op)
    \/ FinishRestore(op) \/ FinishRecovery(op) \/ Complete(op)

Next ==
    \/ IngestLocation \/ PollLocationWrites \/ Checkpoint \/ RiderLooks
    \/ BeginRestore \/ BeginStart \/ BeginStopAfterMusic
    \/ \E c \in Connections : BeginAdmission(c)
    \/ \E event \in Events, sync \in BOOLEAN : BeginTransition(event, sync)
    \/ \E op \in ops : Finish(op) \/ OwnerLost(op)
    \/ WorkerStep \/ WriteFails \/ WorkerDies \/ Reopen \/ AppRestarts

Spec == Init /\ [][Next]_vars

-----------------------------------------------------------------------------
(* Properties.                                                             *)

(* The single command lease belongs to a live prepared command and every   *)
(* live prepared command holds it.  A command dropped, refused, answered   *)
(* late or lost with its thread frees the lease, so no later command is    *)
(* refused for one that no longer exists, and two never run together.      *)
LeaseOwnsCommand ==
    /\ \A op \in ops : op.stage # "Returned" => op.id = app.pending
    /\ app.pending # None =>
         \E op \in ops : op.id = app.pending /\ op.stage # "Returned"

OneOpenRide ==
    Cardinality({r \in DOMAIN db : IsRecording(db[r].life)}) <= 1

Settled ==
    /\ core.restoration = "Ready" /\ app.phase = "Ready"
    /\ app.pending = None /\ ops = {}

(* At no time are two stored rides open, whatever was lost or retried.     *)
(* When the core accepts commands and none is in flight, the ride in       *)
(* memory has the lifecycle that is stored, and every other stored ride is *)
(* closed.  A worker that was replaced is the one difference: the file     *)
(* then holds as interrupted the ride that memory has open.  A reply that  *)
(* was lost, a process that was killed, or the lost thread of a lifecycle  *)
(* command or of a restore ("A lost worker may have committed. Block       *)
(* mutations until durable restore", fail_lifecycle_settlement) lead to a  *)
(* restore before this state is reached again.  The lost thread of an      *)
(* admission does not: complete_verified_connection_admission only clears  *)
(* its barrier, and from then on, until the process ends, nothing is       *)
(* claimed here.                                                           *)
AgreesWithStore ==
    ~lost =>
    /\ OneOpenRide
    /\ Settled =>
        /\ app.ride # None =>
             \/ app.rec.life = EffectiveLife(db[app.ride])
             \/ IsRecording(app.rec.life) /\ db[app.ride].life = "Interrupted"
        /\ \A r \in DOMAIN db \ {app.ride} : ~IsRecording(db[r].life)

(* The route shown is the beginning of the stored one: a point is never    *)
(* shown before it is durable, twice, out of order, or on another ride.    *)
(* (Past MAX_LIVE_ROUTE_POINTS, 4096, the code drops the oldest points     *)
(* from memory; the model has no such long route.)                         *)
RouteIsStored ==
    app.ride # None =>
        LET shown == app.rec.route
            kept == db[app.ride].route
        IN  Len(shown) <= Len(kept) /\ shown = SubSeq(kept, 1, Len(shown))

(* "Settles ready location writes without overtaking an unfinished         *)
(* predecessor": the recording owner returns each outcome at most once and *)
(* in request order, whoever drains them (a poll on the caller's executor  *)
(* or a checkpoint on a task of its own), also when a command's thread     *)
(* settled some of them and handed them over in a second step.             *)
OutcomesInOrder ==
    \A i, j \in DOMAIN returned : i < j => returned[i] < returned[j]

(* A lifecycle command runs on the state the rider saw when giving it.     *)
CommandAppliesToSeenState ==
    \A op \in ops : op.kind = "Transition" => op.saw = op.from

(* Nothing the core waits for can stay away for good: each barrier it has  *)
(* raised against other commands belongs to a command still under way, and *)
(* every such command has its reply, or its request is queued, or it waits *)
(* for the music fence.  A dead worker answers for all it had queued.      *)
BarriersAreServed ==
    /\ {core.lifecycle, core.stop, core.admission, core.restore} \ {None}
          \subseteq {op.id : op \in ops}
    /\ \A op \in ops : op.stage \in {"Waiting", "Recovering"} =>
         \/ op.reply # None
         \/ up /\ \E i \in DOMAIN queue : queue[i].kind # "Location" /\ queue[i].id = op.id

(* "Existing verified packets remain admissible while Stop waits behind the *)
(* music fence" (begin_verified_connection_admission): a repeat for the    *)
(* connection this ride has joined passes the core's gate.                 *)
StopKeepsAdmissionOpen ==
    \A op \in ops :
        op.stage = "Fence" /\ RepeatsJoined(app, conn) => RequireReady(core, app)

=============================================================================
