------------------------- MODULE RideRecordingProofs -------------------------
(***************************************************************************)
(* For any number of vehicles, commands, rides, points and faults: the     *)
(* command lease belongs to exactly the live prepared command, and a       *)
(* lifecycle command runs on the state the rider saw when giving it.       *)
(*                                                                         *)
(* The first rests on the identity of commands: ids are handed out once,   *)
(* so the live command, whose id is in the lease, is the only one.  The    *)
(* second rests on the generation: every change of the ride or of its      *)
(* lifecycle raises it, so a token that still names the current generation *)
(* still tells the current lifecycle.                                      *)
(***************************************************************************)
EXTENDS RideRecording, SequenceTheorems, TLAPS

AppFields ==
    {"phase", "pending", "nextId", "ride", "rec", "lastGen", "recoverable",
     "locs", "settled", "generation", "admitted", "joined", "joinedRide"}

RecFields == {"life", "gen", "route", "vehicle"}

PlanEvents == Events \union {"Start"}

OpFields ==
    {"id", "kind", "sync", "ride", "event", "vehicle", "plan", "gen", "from",
     "saw", "stage", "reply", "outcomes", "result"}

AppShape(a) ==
    /\ DOMAIN a = AppFields
    /\ DOMAIN a.rec = RecFields
    /\ a.generation \in Nat
    /\ a.nextId \in Nat

(* A step of the owner either keeps what the rider sees or raises the      *)
(* generation.                                                             *)
Steps(a, b) ==
    /\ AppShape(b)
    /\ \/ b.ride = a.ride /\ b.generation = a.generation /\ b.rec.life = a.rec.life
       \/ b.generation > a.generation

SameLease(a, b) == b.pending = a.pending /\ b.nextId = a.nextId

TokenSees(t, a) ==
    t # None =>
        /\ t.generation \in Nat
        /\ t.generation <= a.generation
        /\ t.generation = a.generation /\ t.ride = a.ride => t.life = a.rec.life

OpShape(op) ==
    /\ DOMAIN op = OpFields
    /\ op.id \in Nat
    /\ op.plan.events \in Seq(PlanEvents)
    /\ op.saw = op.from

Live(op) == op.stage # "Returned"

OpsInv(s, a) ==
    /\ \A op \in s : OpShape(op) /\ op.id < a.nextId
    /\ \A o1, o2 \in s : o1.id = o2.id => o1 = o2
    /\ \A op \in s : Live(op) => op.id = a.pending
    /\ a.pending # None => \E op \in s : op.id = a.pending /\ Live(op)

(* The inductive invariant.                                                *)
RecordingInv == AppShape(app) /\ TokenSees(token, app) /\ OpsInv(ops, app)

-----------------------------------------------------------------------------
(* What a step of each kind does to the set of prepared commands.          *)

\* begin_*: a fresh id enters a free lease.
LEMMA AddCommand ==
    ASSUME NEW s, NEW a, NEW b, NEW op, AppShape(a), OpsInv(s, a), a.pending = None,
           OpShape(op), op.id = a.nextId, Live(op),
           b.pending = a.nextId, b.nextId = a.nextId + 1
    PROVE  OpsInv(s \union {op}, b)
<1>1. \A o \in s : o.id < a.nextId /\ OpShape(o) /\ o.id \in Nat
    BY DEF OpsInv, OpShape
<1>2. \A o \in s : ~Live(o)
    BY <1>1, NoneAssumption DEF OpsInv
<1>3. \A o \in s \union {op} : OpShape(o) /\ o.id < b.nextId
    BY <1>1, SMT DEF AppShape
<1>4. \A o1, o2 \in s \union {op} : o1.id = o2.id => o1 = o2
    BY <1>1, SMT DEF OpsInv, AppShape
<1>5. QED
    BY <1>2, <1>3, <1>4 DEF OpsInv

\* The live command goes on to its next stage and keeps the lease.
LEMMA MoveCommand ==
    ASSUME NEW s, NEW a, NEW b, NEW op \in s, NEW to, OpsInv(s, a), SameLease(a, b),
           OpShape(to), to.id = op.id, Live(op), Live(to)
    PROVE  OpsInv((s \ {op}) \union {to}, b)
<1>1. \A o \in (s \ {op}) \union {to} : OpShape(o) /\ o.id < b.nextId
    BY DEF OpsInv, SameLease
<1>2. \A o1, o2 \in (s \ {op}) \union {to} : o1.id = o2.id => o1 = o2
    BY DEF OpsInv
<1>3. QED
    BY <1>1, <1>2 DEF OpsInv, SameLease

\* The live command is consumed and gives the lease up.
LEMMA ReturnCommand ==
    ASSUME NEW s, NEW a, NEW b, NEW op \in s, NEW to, OpsInv(s, a),
           b.pending = None, b.nextId = a.nextId,
           OpShape(to), to.id = op.id, Live(op), ~Live(to)
    PROVE  OpsInv((s \ {op}) \union {to}, b)
<1>1. \A o \in (s \ {op}) \union {to} : OpShape(o) /\ o.id < b.nextId
    BY DEF OpsInv
<1>2. \A o1, o2 \in (s \ {op}) \union {to} : o1.id = o2.id => o1 = o2
    BY DEF OpsInv
<1>3. \A o \in (s \ {op}) \union {to} : ~Live(o)
    BY DEF OpsInv
<1>4. QED
    BY <1>1, <1>2, <1>3 DEF OpsInv

\* The core forgets a command that has returned.
LEMMA RemoveCommand ==
    ASSUME NEW s, NEW a, NEW op \in s, OpsInv(s, a), ~Live(op)
    PROVE  OpsInv(s \ {op}, a)
BY DEF OpsInv

\* A reply changes no id and no stage.
LEMMA NotifyCommands ==
    ASSUME NEW s, NEW a, NEW b, NEW asked, NEW reply, OpsInv(s, a), SameLease(a, b)
    PROVE  OpsInv({Notified(op, asked, reply) : op \in s}, b)
<1> DEFINE F(op) == Notified(op, asked, reply)
<1>1. \A op \in s : OpShape(F(op)) /\ F(op).id = op.id /\ F(op).stage = op.stage
    BY DEF OpsInv, OpShape, OpFields, Notified
<1> HIDE DEF F
<1>2. OpsInv({F(op) : op \in s}, b)
    BY <1>1 DEF OpsInv, SameLease, Live
<1>3. QED
    BY <1>2 DEF F

\* An id is used up by a command that never gets an owner.
LEMMA SkipCommand ==
    ASSUME NEW s, NEW a, NEW b, AppShape(a), OpsInv(s, a), a.pending = None,
           b.pending = None, b.nextId = a.nextId + 1
    PROVE  OpsInv(s, b)
<1>1. \A op \in s : OpShape(op) /\ op.id \in Nat /\ op.id < a.nextId
    BY DEF OpsInv, OpShape
<1>2. \A op \in s : OpShape(op) /\ op.id < b.nextId
    BY <1>1, SMT DEF AppShape
<1>3. QED
    BY <1>2 DEF OpsInv

\* A step of the owner that leaves the lease alone.
LEMMA KeepCommands ==
    ASSUME NEW s, NEW a, NEW b, OpsInv(s, a), SameLease(a, b)
    PROVE  OpsInv(s, b)
BY DEF OpsInv, SameLease

\* The generation fences what the rider saw.
LEMMA TokenStaysTrue ==
    ASSUME NEW t, NEW a, NEW b, AppShape(a), TokenSees(t, a), Steps(a, b)
    PROVE  TokenSees(t, b)
BY SMT DEF TokenSees, Steps, AppShape

-----------------------------------------------------------------------------
(* What the operators on the recording owner's state do to the lease and   *)
(* to what the rider sees.                                                 *)

USE DEF AppFields, RecFields

\* reserve_command_id takes the next id.
LEMMA TakeLeaseFacts ==
    ASSUME NEW a, AppShape(a)
    PROVE  /\ Steps(a, TakeLease(a))
           /\ TakeLease(a).pending = a.nextId
           /\ TakeLease(a).nextId = a.nextId + 1
BY SMT DEF AppShape, Steps, TakeLease

\* Drop of CommandLease frees its own lease only.
LEMMA DropLeaseFacts ==
    ASSUME NEW a, NEW id, AppShape(a)
    PROVE  /\ Steps(a, DropLease(a, id))
           /\ DropLease(a, id).nextId = a.nextId
           /\ a.pending = id => DropLease(a, id).pending = None
BY SMT DEF AppShape, Steps, DropLease

\* command_storage_error frees the lease whatever the error.
LEMMA CommandStorageErrorFacts ==
    ASSUME NEW a, NEW id, NEW status, AppShape(a)
    PROVE  /\ Steps(a, CommandStorageError(a, id, status))
           /\ CommandStorageError(a, id, status).nextId = a.nextId
           /\ a.pending = id => CommandStorageError(a, id, status).pending = None
BY SMT DEF AppShape, Steps, CommandStorageError

\* An outcome that contradicts memory frees the lease too.
LEMMA RecoveryRequiredFacts ==
    ASSUME NEW a, AppShape(a)
    PROVE  /\ Steps(a, RecoveryRequired(a))
           /\ RecoveryRequired(a).nextId = a.nextId
           /\ RecoveryRequired(a).pending = None
BY SMT DEF AppShape, Steps, RecoveryRequired

\* settle_ready_location_writes touches the route alone.
LEMMA SettleReadyFacts ==
    ASSUME NEW a, AppShape(a)
    PROVE  Steps(a, SettleReady(a)) /\ SameLease(a, SettleReady(a))
BY SMT DEF AppShape, Steps, SettleReady, SameLease

\* A started ride is a new generation.
LEMMA StartedRideFacts ==
    ASSUME NEW a, NEW ride, NEW vehicle, AppShape(a)
    PROVE  /\ AppShape(StartedRide(a, ride, vehicle))
           /\ StartedRide(a, ride, vehicle).generation = a.generation + 1
           /\ SameLease(a, StartedRide(a, ride, vehicle))
BY SMT DEF AppShape, StartedRide, Started, SameLease

\* A committed transition is a new generation and frees the lease.
LEMMA TransitionedAppFacts ==
    ASSUME NEW a, NEW event, AppShape(a)
    PROVE  /\ Steps(a, TransitionedApp(a, event))
           /\ TransitionedApp(a, event).nextId = a.nextId
           /\ TransitionedApp(a, event).pending = None
BY SMT DEF AppShape, Steps, TransitionedApp, Applied

\* restore_projection is a new generation; the restore keeps its lease.
LEMMA RestoredAppFacts ==
    ASSUME NEW a, NEW ride, NEW row, AppShape(a)
    PROVE  /\ Steps(a, RestoredApp(a, ride, row))
           /\ SameLease(a, RestoredApp(a, ride, row))
BY SMT DEF AppShape, Steps, RestoredApp, NewRecorder, Restored, SameLease

\* The end of finish_restore_with_policy frees the lease.
LEMMA ReadyAppFacts ==
    ASSUME NEW a, NEW b, Steps(a, b)
    PROVE  /\ Steps(a, ReadyApp(b))
           /\ ReadyApp(b).nextId = b.nextId
           /\ ReadyApp(b).pending = None
BY SMT DEF AppShape, Steps, ReadyApp

\* reset_after_recovery is a new generation.
LEMMA ResetAppFacts ==
    ASSUME NEW a, AppShape(a)
    PROVE  /\ AppShape(ResetApp(a))
           /\ ResetApp(a).generation = a.generation + 1
           /\ SameLease(a, ResetApp(a))
BY SMT DEF AppShape, ResetApp, NewRecorder, SameLease

\* Every outcome of apply_recovery is a new generation.
LEMMA RecoveredAppFacts ==
    ASSUME NEW a, NEW op, AppShape(a)
    PROVE  Steps(a, RecoveredApp(a, op)) /\ SameLease(a, RecoveredApp(a, op))
<1> DEFINE b == [a EXCEPT !.recoverable = FALSE]
<1>1. AppShape(b) /\ b.generation = a.generation /\ SameLease(a, b)
    BY SMT DEF AppShape, SameLease
<1>2. CASE op.event = "Resume"
    <2>1. RecoveredApp(a, op) = [b EXCEPT !.rec = Applied(@, "Resume"), !.generation = @ + 1]
        BY <1>2 DEF RecoveredApp
    <2>2. QED
        BY <1>1, <2>1, SMT DEF AppShape, Steps, SameLease, Applied
<1>3. CASE op.event # "Resume" /\ op.plan.settle.replacement # None
    <2> DEFINE c == ResetApp(b)
    <2>1. RecoveredApp(a, op) = StartedRide(c, op.reply.ride, op.plan.settle.replacement)
        BY <1>3 DEF RecoveredApp
    <2>2. AppShape(c) /\ c.generation = a.generation + 1 /\ SameLease(b, c)
        BY <1>1, ResetAppFacts
    <2> HIDE DEF c
    <2> DEFINE d == StartedRide(c, op.reply.ride, op.plan.settle.replacement)
    <2>3. AppShape(d) /\ d.generation = c.generation + 1 /\ SameLease(c, d)
        BY <2>2, StartedRideFacts
    <2> HIDE DEF d, b
    <2>4. Steps(a, d)
        BY <2>2, <2>3, SMT DEF AppShape, Steps
    <2>5. SameLease(a, d)
        BY <1>1, <2>2, <2>3 DEF SameLease
    <2>6. QED
        BY <2>1, <2>4, <2>5 DEF d
<1>4. CASE /\ op.event # "Resume" /\ op.plan.settle.replacement = None
           /\ op.plan.settle.discard
    <2>1. RecoveredApp(a, op) = ResetApp(b)
        BY <1>4 DEF RecoveredApp
    <2>2. AppShape(ResetApp(b)) /\ ResetApp(b).generation = b.generation + 1
          /\ SameLease(b, ResetApp(b))
        BY <1>1, ResetAppFacts
    <2> HIDE DEF b
    <2>3. Steps(a, ResetApp(b)) /\ SameLease(a, ResetApp(b))
        BY <1>1, <2>2, SMT DEF AppShape, Steps, SameLease
    <2>4. QED
        BY <2>1, <2>3
<1>5. CASE /\ op.event # "Resume" /\ op.plan.settle.replacement = None
           /\ ~op.plan.settle.discard
    <2>1. RecoveredApp(a, op) = [b EXCEPT !.rec.life = "Saved", !.generation = @ + 1]
        BY <1>5 DEF RecoveredApp
    <2>2. QED
        BY <1>1, <2>1, SMT DEF AppShape, Steps, SameLease
<1>6. QED
    BY <1>2, <1>3, <1>4, <1>5

\* apply_selected_mutations raises the generation once per event.
LEMMA ReplayedPlanFacts ==
    ASSUME NEW a, NEW op, AppShape(a), op.plan.events \in Seq(PlanEvents)
    PROVE  Steps(a, ReplayedPlan(a, op)) /\ SameLease(a, ReplayedPlan(a, op))
<1> DEFINE events == op.plan.events
           moved == IF events[Len(events)] = "Start"
                    THEN StartedRide(a, op.reply.created, op.vehicle)
                    ELSE [a EXCEPT !.rec = Applied(@, "Resume")]
<1>1. CASE events = <<>>
    BY <1>1, SMT DEF ReplayedPlan, Steps, SameLease, AppShape
<1>2. CASE events # <<>>
    <2>1. AppShape(moved) /\ SameLease(a, moved)
        <3>1. AppShape([a EXCEPT !.rec = Applied(@, "Resume")])
              /\ SameLease(a, [a EXCEPT !.rec = Applied(@, "Resume")])
            BY SMT DEF AppShape, SameLease, Applied
        <3>2. QED
            BY <3>1, StartedRideFacts
    <2>2. ReplayedPlan(a, op) =
            [moved EXCEPT !.generation = a.generation + Len(events),
                          !.recoverable = FALSE, !.joined = op.gen,
                          !.joinedRide = moved.ride]
        BY <1>2 DEF ReplayedPlan
    <2>3. Len(events) \in Nat /\ Len(events) > 0
        BY <1>2, SMT
    <2> HIDE DEF moved, events
    <2>4. QED
        BY <2>1, <2>2, <2>3, SMT DEF AppShape, Steps, SameLease
<1>3. QED
    BY <1>1, <1>2

\* Handing over settled outcomes changes nothing else.
LEMMA KeepOutcomesFacts ==
    ASSUME NEW a, NEW outcomes, AppShape(a)
    PROVE  /\ Steps(a, [a EXCEPT !.settled = @ \o outcomes])
           /\ SameLease(a, [a EXCEPT !.settled = @ \o outcomes])
BY SMT DEF AppShape, Steps, SameLease

\* Two steps of the owner under one lock are one step.
LEMMA StepsCompose ==
    ASSUME NEW a, NEW b, NEW c, AppShape(a), Steps(a, b), Steps(b, c)
    PROVE  Steps(a, c)
BY SMT DEF Steps, AppShape

-----------------------------------------------------------------------------
(* The kinds of step.                                                      *)

\* A command begins.
LEMMA AddStep ==
    ASSUME RecordingInv, NEW op, OpShape(op), op.id = app.nextId, Live(op),
           app.pending = None, ops' = ops \union {op}, UNCHANGED token,
           Steps(app, app'), app'.pending = app.nextId, app'.nextId = app.nextId + 1
    PROVE  RecordingInv'
<1>1. OpsInv(ops \union {op}, app')
    BY AddCommand DEF RecordingInv
<1>2. AppShape(app') /\ TokenSees(token, app')
    BY TokenStaysTrue DEF RecordingInv, Steps
<1>3. QED
    BY <1>1, <1>2 DEF RecordingInv

\* A command begins and its owner cannot be started: the lease is dropped at once.
LEMMA UnownedStep ==
    ASSUME RecordingInv, app.pending = None, UNCHANGED <<ops, token>>,
           app' = DropLease(TakeLease(app), app.nextId)
    PROVE  RecordingInv'
<1> DEFINE taken == TakeLease(app)
<1>1. AppShape(app)
    BY DEF RecordingInv
<1>2. /\ Steps(app, taken) /\ AppShape(taken)
      /\ taken.pending = app.nextId /\ taken.nextId = app.nextId + 1
    BY <1>1, TakeLeaseFacts DEF Steps
<1>3. app' = DropLease(taken, app.nextId)
    OBVIOUS
<1> HIDE DEF taken
<1>4. /\ Steps(taken, app')
      /\ app'.nextId = app.nextId + 1 /\ app'.pending = None
    BY <1>2, <1>3, DropLeaseFacts
<1>5. Steps(app, app')
    BY <1>1, <1>2, <1>4, StepsCompose
<1>6. OpsInv(ops, app')
    BY <1>1, <1>4, SkipCommand DEF RecordingInv
<1>7. AppShape(app') /\ TokenSees(token, app')
    BY <1>5, TokenStaysTrue DEF RecordingInv, Steps
<1>8. QED
    BY <1>6, <1>7 DEF RecordingInv

\* A command goes on.
LEMMA MoveStep ==
    ASSUME RecordingInv, NEW op \in ops, NEW to, Move(op, to), OpShape(to),
           to.id = op.id, Live(op), Live(to), UNCHANGED token,
           Steps(app, app'), SameLease(app, app')
    PROVE  RecordingInv'
<1>1. OpsInv((ops \ {op}) \union {to}, app')
    BY MoveCommand DEF RecordingInv
<1>2. AppShape(app') /\ TokenSees(token, app')
    BY TokenStaysTrue DEF RecordingInv, Steps
<1>3. QED
    BY <1>1, <1>2 DEF RecordingInv, Move

\* A command without a plan has no events.
LEMMA NoPlanEvents == NoPlan.events \in Seq(PlanEvents)
BY SMT DEF NoPlan

\* A consumed command keeps its id.
LEMMA ConsumedFacts ==
    ASSUME NEW op, NEW result, OpShape(op)
    PROVE  /\ OpShape(Consumed(op, result))
           /\ Consumed(op, result).id = op.id
           /\ ~Live(Consumed(op, result))
<1>1. /\ DOMAIN Consumed(op, result) = OpFields
      /\ Consumed(op, result).id = op.id
      /\ Consumed(op, result).stage = "Returned"
      /\ Consumed(op, result).plan = NoPlan
      /\ Consumed(op, result).saw = op.saw
      /\ Consumed(op, result).from = op.from
    BY SMT DEF OpShape, OpFields, Consumed
<1>2. QED
    BY <1>1, NoPlanEvents DEF OpShape, Live

\* A command is consumed.
LEMMA ReturnStep ==
    ASSUME RecordingInv, NEW op \in ops, NEW result, Return(op, result), Live(op),
           UNCHANGED token, Steps(app, app'), app'.nextId = app.nextId,
           app'.pending = None
    PROVE  RecordingInv'
<1> DEFINE to == Consumed(op, result)
<1>1. OpShape(op)
    BY DEF RecordingInv, OpsInv
<1>2. OpShape(to) /\ to.id = op.id /\ ~Live(to)
    BY <1>1, ConsumedFacts
<1>3. ops' = (ops \ {op}) \union {to}
    BY DEF Return, Move
<1> HIDE DEF to
<1>4. OpsInv((ops \ {op}) \union {to}, app')
    BY <1>2, ReturnCommand DEF RecordingInv
<1>5. AppShape(app') /\ TokenSees(token, app')
    BY TokenStaysTrue DEF RecordingInv, Steps
<1>6. QED
    BY <1>3, <1>4, <1>5 DEF RecordingInv

\* The owner steps outside of any command.
LEMMA KeepStep ==
    ASSUME RecordingInv, UNCHANGED <<ops, token>>, Steps(app, app'), SameLease(app, app')
    PROVE  RecordingInv'
<1>1. OpsInv(ops, app')
    BY KeepCommands DEF RecordingInv
<1>2. AppShape(app') /\ TokenSees(token, app')
    BY TokenStaysTrue DEF RecordingInv, Steps
<1>3. QED
    BY <1>1, <1>2 DEF RecordingInv

\* Nothing happens to the owner.
LEMMA SameApp ==
    ASSUME AppShape(app), UNCHANGED app
    PROVE  Steps(app, app') /\ SameLease(app, app')
BY DEF Steps, SameLease

\* The worker answers.
LEMMA DeliverStep ==
    ASSUME RecordingInv, NEW requests, NEW reply, Deliver(requests, reply), UNCHANGED token
    PROVE  RecordingInv'
<1> DEFINE asked == {r.id : r \in {q \in requests : q.kind # "Location"}}
<1>1. ops' = {Notified(op, asked, reply) : op \in ops}
    BY DEF Deliver
<1>2. PICK locs : app' = [app EXCEPT !.locs = locs]
    BY DEF Deliver
<1> HIDE DEF asked
<1>3. Steps(app, app') /\ SameLease(app, app')
    BY <1>2, SMT DEF RecordingInv, AppShape, Steps, SameLease
<1>4. OpsInv({Notified(op, asked, reply) : op \in ops}, app')
    BY <1>3, NotifyCommands DEF RecordingInv
<1>5. AppShape(app') /\ TokenSees(token, app')
    BY <1>3, TokenStaysTrue DEF RecordingInv, Steps
<1>6. QED
    BY <1>1, <1>4, <1>5 DEF RecordingInv

\* A prepared command has the next id and is live.
LEMMA PreparedFacts ==
    ASSUME RecordingInv, NEW kind, NEW sync, NEW ride, NEW event, NEW vehicle,
           NEW plan, NEW stage, plan.events \in Seq(PlanEvents), stage # "Returned"
    PROVE  /\ OpShape(Prepared(kind, sync, ride, event, vehicle, plan, stage))
           /\ Prepared(kind, sync, ride, event, vehicle, plan, stage).id = app.nextId
           /\ Live(Prepared(kind, sync, ride, event, vehicle, plan, stage))
BY SMT DEF RecordingInv, AppShape, OpShape, OpFields, Prepared, Live

-----------------------------------------------------------------------------
(* One lemma per action.                                                   *)

\* begin_restore.
LEMMA BeginRestoreKeeps == RecordingInv /\ BeginRestore => RecordingInv'
<1> SUFFICES ASSUME RecordingInv, BeginRestore PROVE RecordingInv'
    OBVIOUS
<1> DEFINE op == Prepared("Restore", FALSE, None, None, None, NoPlan, "Waiting")
<1>1. OpShape(op) /\ op.id = app.nextId /\ Live(op)
    BY PreparedFacts, NoPlanEvents
<1>2. /\ app.pending = None /\ ops' = ops \union {op} /\ UNCHANGED token
      /\ app' = [TakeLease(app) EXCEPT !.phase = "Pending"]
    BY DEF BeginRestore
<1> HIDE DEF op
<1>3. /\ Steps(app, app') /\ app'.pending = app.nextId
      /\ app'.nextId = app.nextId + 1
    BY <1>2, SMT DEF RecordingInv, AppShape, Steps, TakeLease
<1>4. QED
    BY <1>1, <1>2, <1>3, AddStep

\* begin_start.
LEMMA BeginStartKeeps == RecordingInv /\ BeginStart => RecordingInv'
<1> SUFFICES ASSUME RecordingInv, BeginStart PROVE RecordingInv'
    OBVIOUS
<1>1. PICK vehicle : ops' = ops \union
            {Prepared("Start", FALSE, None, None, vehicle, NoPlan, "Waiting")}
    BY DEF BeginStart
<1> DEFINE op == Prepared("Start", FALSE, None, None, vehicle, NoPlan, "Waiting")
<1>2. OpShape(op) /\ op.id = app.nextId /\ Live(op)
    BY PreparedFacts, NoPlanEvents
<1>3. app.pending = None /\ app' = TakeLease(app) /\ UNCHANGED token
    BY DEF BeginStart, CanBegin
<1>4. ops' = ops \union {op}
    BY <1>1
<1> HIDE DEF op
<1>5. QED
    BY <1>2, <1>3, <1>4, AddStep, TakeLeaseFacts DEF RecordingInv

(* A lifecycle command carries the life its token tells.                   *)
LEMMA TokenTellsLife ==
    ASSUME RecordingInv, TokenIsCurrent(app, token)
    PROVE  token.life = app.rec.life
BY SMT DEF RecordingInv, TokenIsCurrent, TokenSees, AppShape

\* A prepared transition that remembers the life its token told.
LEMMA PreparedWithSaw ==
    ASSUME RecordingInv, NEW sync, NEW event, NEW stage, stage # "Returned",
           NEW saw, saw = app.rec.life
    PROVE  LET op == [Prepared("Transition", sync, app.ride, event, None, NoPlan, stage)
                        EXCEPT !.saw = saw]
           IN  OpShape(op) /\ op.id = app.nextId /\ Live(op)
<1> DEFINE base == Prepared("Transition", sync, app.ride, event, None, NoPlan, stage)
           op == [base EXCEPT !.saw = saw]
<1>1. OpShape(base) /\ base.id = app.nextId /\ Live(base)
    BY PreparedFacts, NoPlanEvents
<1>2. base.from = app.rec.life
    BY DEF Prepared
<1> HIDE DEF base
<1>3. OpShape(op) /\ op.id = app.nextId /\ Live(op)
    BY <1>1, <1>2, SMT DEF OpShape, OpFields, Live
<1>4. QED
    BY <1>3 DEF base

\* begin_transition, with a token or on the spot.
LEMMA BeginTransitionKeeps ==
    ASSUME RecordingInv, NEW event, NEW sync \in BOOLEAN, BeginTransition(event, sync)
    PROVE  RecordingInv'
<1> DEFINE base == Prepared("Transition", sync, app.ride, event, None, NoPlan, "Waiting")
           op == [base EXCEPT !.saw = IF sync THEN @ ELSE token.life]
<1>1. /\ app.pending = None /\ app' = TakeLease(app) /\ UNCHANGED token
      /\ sync \/ TokenIsCurrent(app, token)
      /\ ops' = ops \union {op}
    BY DEF BeginTransition, CanBegin
<1>2. OpShape(base) /\ base.id = app.nextId /\ Live(base)
    BY NoPlanEvents, SMT DEF RecordingInv, AppShape, OpShape, OpFields, Prepared, Live
<1>3. base.saw = app.rec.life /\ base.from = app.rec.life
    BY DEF Prepared
<1> HIDE DEF base
<1>4. (IF sync THEN base.saw ELSE token.life) = app.rec.life
    BY <1>1, <1>3, TokenTellsLife
<1>5. op = [base EXCEPT !.saw = app.rec.life]
    BY <1>4
<1> HIDE DEF op
<1>6. OpShape(op) /\ op.id = app.nextId /\ Live(op)
    BY <1>2, <1>3, <1>5, SMT DEF OpShape, OpFields, Live
<1>7. QED
    BY <1>1, <1>6, AddStep, TakeLeaseFacts DEF RecordingInv

\* begin_stop_after_music.
LEMMA BeginStopAfterMusicKeeps == RecordingInv /\ BeginStopAfterMusic => RecordingInv'
<1> SUFFICES ASSUME RecordingInv, BeginStopAfterMusic PROVE RecordingInv'
    OBVIOUS
<1> DEFINE op == [Prepared("Transition", FALSE, app.ride, "Stop", None, NoPlan, "Fence")
                    EXCEPT !.saw = token.life]
<1>1. /\ app.pending = None /\ app' = TakeLease(app) /\ UNCHANGED token
      /\ TokenIsCurrent(app, token) /\ ops' = ops \union {op}
    BY DEF BeginStopAfterMusic, CanBegin
<1>2. OpShape(op) /\ op.id = app.nextId /\ Live(op)
    BY <1>1, TokenTellsLife, PreparedWithSaw
<1> HIDE DEF op
<1>3. QED
    BY <1>1, <1>2, AddStep, TakeLeaseFacts DEF RecordingInv

\* plan_auto_recording plans lifecycle events and starts.
LEMMA PlannedEvents ==
    ASSUME NEW a, NEW vehicle, NEW recent
    PROVE  PlanAutoRecording(a, vehicle, recent) \in Seq(PlanEvents)
<1> DEFINE another == IsRecording(a.rec.life) /\ a.rec.vehicle \notin {None, vehicle}
           resumes == /\ a.rec.life = "Interrupted" /\ a.rec.vehicle = vehicle
                      /\ a.recoverable /\ recent
           starts == another \/ (AllowsReplacement(a.rec.life) /\ ~resumes)
           s1 == IF another THEN <<"Stop", "Save">> ELSE <<>>
           s2 == IF resumes THEN <<"Resume">> ELSE <<>>
           s3 == IF starts THEN <<"Start">> ELSE <<>>
<1>1. /\ <<"Stop", "Save">> \in Seq(PlanEvents) /\ <<"Resume">> \in Seq(PlanEvents)
      /\ <<"Start">> \in Seq(PlanEvents) /\ <<>> \in Seq(PlanEvents)
    BY SMT DEF PlanEvents, Events
<1> HIDE DEF another, resumes, starts
<1>2. s1 \in Seq(PlanEvents) /\ s2 \in Seq(PlanEvents) /\ s3 \in Seq(PlanEvents)
    BY <1>1, SMT
<1> HIDE DEF s1, s2, s3
<1>3. (s1 \o s2) \o s3 \in Seq(PlanEvents)
    BY <1>2, ConcatProperties
<1>4. PlanAutoRecording(a, vehicle, recent) = (s1 \o s2) \o s3
    BY DEF PlanAutoRecording, s1, s2, s3, another, resumes, starts
<1>5. QED
    BY <1>3, <1>4

\* begin_verified_connection_admission.
LEMMA BeginAdmissionKeeps ==
    ASSUME RecordingInv, NEW c, BeginAdmission(c)
    PROVE  RecordingInv'
<1>1. PICK automatic, recent, plan :
        /\ automatic \in BOOLEAN /\ recent \in BOOLEAN
        /\ plan.events = IF automatic /\ app.admitted # c.gen
                         THEN PlanAutoRecording(app, c.vehicle, recent) ELSE <<>>
        /\ LET op == [Prepared("Admission", FALSE, app.ride, None, c.vehicle, plan, "Waiting")
                        EXCEPT !.gen = c.gen]
           IN  AdmissionWorkerStarts(op) \/ AdmissionWorkerFails(op)
    <2>1. PICK automatic \in BOOLEAN, recent \in BOOLEAN :
            LET events == IF automatic /\ app.admitted # c.gen
                          THEN PlanAutoRecording(app, c.vehicle, recent) ELSE <<>>
                plan == [NoPlan EXCEPT !.events = events,
                                       !.meta = IF IsRecording(app.rec.life)
                                                THEN ObserveVehicle(app.rec, c.vehicle).vehicle
                                                ELSE None]
                op == [Prepared("Admission", FALSE, app.ride, None, c.vehicle, plan, "Waiting")
                         EXCEPT !.gen = c.gen]
            IN  AdmissionWorkerStarts(op) \/ AdmissionWorkerFails(op)
        BY DEF BeginAdmission
    <2> DEFINE events == IF automatic /\ app.admitted # c.gen
                         THEN PlanAutoRecording(app, c.vehicle, recent) ELSE <<>>
               plan == [NoPlan EXCEPT !.events = events,
                                      !.meta = IF IsRecording(app.rec.life)
                                               THEN ObserveVehicle(app.rec, c.vehicle).vehicle
                                               ELSE None]
    <2>2. plan.events = events
        BY SMT DEF NoPlan
    <2>3. QED
        BY <2>1, <2>2
<1> DEFINE base == Prepared("Admission", FALSE, app.ride, None, c.vehicle, plan, "Waiting")
           op == [base EXCEPT !.gen = c.gen]
<1>2. plan.events \in Seq(PlanEvents)
    <2>1. <<>> \in Seq(PlanEvents)
        BY SMT
    <2>2. QED
        BY <1>1, <2>1, PlannedEvents
<1>3. OpShape(base) /\ base.id = app.nextId /\ Live(base)
    BY <1>2, SMT DEF RecordingInv, AppShape, OpShape, OpFields, Prepared, Live
<1>4. AdmissionWorkerStarts(op) \/ AdmissionWorkerFails(op)
    BY <1>1
<1> HIDE DEF base
<1>5. OpShape(op) /\ op.id = app.nextId /\ Live(op)
    BY <1>3, SMT DEF OpShape, OpFields, Live
<1> HIDE DEF op
<1>6. app.pending = None /\ UNCHANGED token
    BY DEF BeginAdmission, CanBegin
<1>7. CASE AdmissionWorkerStarts(op)
    BY <1>5, <1>6, <1>7, AddStep, TakeLeaseFacts DEF AdmissionWorkerStarts, RecordingInv
<1>8. CASE AdmissionWorkerFails(op)
    BY <1>5, <1>6, <1>8, UnownedStep DEF AdmissionWorkerFails
<1>9. QED
    BY <1>4, <1>7, <1>8

\* ingest_location.
LEMMA IngestLocationKeeps == RecordingInv /\ IngestLocation => RecordingInv'
<1> SUFFICES ASSUME RecordingInv, IngestLocation PROVE RecordingInv'
    OBVIOUS
<1>1. UNCHANGED <<ops, token>> /\ \E locs : app' = [app EXCEPT !.locs = locs]
    BY DEF IngestLocation
<1>2. Steps(app, app') /\ SameLease(app, app')
    BY <1>1, SMT DEF RecordingInv, AppShape, Steps, SameLease
<1>3. QED
    BY <1>1, <1>2, KeepStep

\* poll_location_writes, on the caller's executor or by a checkpoint.
LEMMA PollLocationWritesKeeps ==
    RecordingInv /\ (PollLocationWrites \/ Checkpoint) => RecordingInv'
BY KeepStep, SettleReadyFacts DEF PollLocationWrites, Checkpoint, ReturnOutcomes, RecordingInv

\* A token issued now tells the current life.
LEMMA RiderLooksKeeps == RecordingInv /\ RiderLooks => RecordingInv'
<1> SUFFICES ASSUME RecordingInv, RiderLooks PROVE RecordingInv'
    OBVIOUS
<1>1. TokenSees(token', app)
    BY SMT DEF RiderLooks, TokenSees, RecordingInv, AppShape
<1>2. QED
    BY <1>1 DEF RecordingInv, RiderLooks

\* The music fence lets the command through.
LEMMA StageMoves ==
    ASSUME NEW op, NEW to, OpShape(op),
           to = [op EXCEPT !.stage = "Waiting"]
    PROVE  OpShape(to) /\ to.id = op.id /\ Live(to)
BY SMT DEF OpShape, OpFields, Live

\* A live command holds the lease.
LEMMA LivePending ==
    ASSUME RecordingInv, NEW op \in ops, Live(op)
    PROVE  op.id = app.pending /\ OpShape(op)
BY DEF RecordingInv, OpsInv

\* finish_stop_after_music queues the Stop.
LEMMA MusicFenceOpensKeeps ==
    ASSUME RecordingInv, NEW op \in ops, MusicFenceOpens(op)
    PROVE  RecordingInv'
<1> DEFINE to == [op EXCEPT !.stage = "Waiting"]
<1>1. op.stage = "Fence" /\ Move(op, to) /\ UNCHANGED <<app, token>>
    BY DEF MusicFenceOpens
<1>2. Live(op)
    BY <1>1 DEF Live
<1>3. OpShape(to) /\ to.id = op.id /\ Live(to)
    BY <1>2, LivePending, StageMoves
<1> HIDE DEF to
<1>4. QED
    BY <1>1, <1>2, <1>3, MoveStep, SameApp DEF RecordingInv

\* finish_stop_after_music gives up.
LEMMA MusicFenceFailsKeeps ==
    ASSUME RecordingInv, NEW op \in ops, MusicFenceFails(op)
    PROVE  RecordingInv'
<1>1. /\ op.stage = "Fence" /\ Return(op, "Known")
      /\ app' = DropLease(app, op.id) /\ UNCHANGED token
    BY DEF MusicFenceFails
<1>2. Live(op)
    BY <1>1 DEF Live
<1>3. Steps(app, app') /\ app'.nextId = app.nextId /\ app'.pending = None
    BY <1>1, <1>2, LivePending, DropLeaseFacts DEF RecordingInv
<1>4. QED
    BY <1>1, <1>2, <1>3, ReturnStep

\* A command whose storage failed.
LEMMA StorageFailsKeeps ==
    ASSUME RecordingInv, NEW op \in ops, Live(op), StorageFails(op), UNCHANGED token
    PROVE  RecordingInv'
<1>1. /\ app' = CommandStorageError(app, op.id, op.reply.status)
      /\ \E result : Return(op, result)
    BY DEF StorageFails
<1>2. Steps(app, app') /\ app'.nextId = app.nextId /\ app'.pending = None
    BY <1>1, LivePending, CommandStorageErrorFacts DEF RecordingInv
<1>3. QED
    BY <1>1, <1>2, ReturnStep

\* finish_start.
LEMMA FinishStartKeeps ==
    ASSUME RecordingInv, NEW op \in ops, FinishStart(op)
    PROVE  RecordingInv'
<1>1. Live(op) /\ UNCHANGED token
    BY DEF FinishStart, Answered, Live
<1>2. CASE StorageFails(op)
    BY <1>1, <1>2, StorageFailsKeeps
<1>3. CASE /\ Return(op, "Ok")
           /\ app' = [StartedRide(app, op.reply.ride, op.vehicle) EXCEPT !.pending = None]
    <2> DEFINE b == StartedRide(app, op.reply.ride, op.vehicle)
    <2>1. AppShape(b) /\ b.generation = app.generation + 1 /\ SameLease(app, b)
        BY StartedRideFacts DEF RecordingInv
    <2>2. AppShape(app)
        BY DEF RecordingInv
    <2> HIDE DEF b
    <2>3. app' = [b EXCEPT !.pending = None]
        BY <1>3 DEF b
    <2>4. Steps(app, app') /\ app'.nextId = app.nextId /\ app'.pending = None
        BY <2>1, <2>2, <2>3, SMT DEF AppShape, Steps, SameLease
    <2>5. QED
        BY <1>1, <1>3, <2>4, ReturnStep
<1>4. CASE app' = RecoveryRequired(app) /\ Return(op, "Known")
    BY <1>1, <1>4, RecoveryRequiredFacts, ReturnStep DEF RecordingInv
<1>5. QED
    BY <1>2, <1>3, <1>4 DEF FinishStart

\* The first half of the finish functions.
LEMMA FinishPollKeeps ==
    ASSUME RecordingInv, NEW op \in ops, FinishPoll(op)
    PROVE  RecordingInv'
<1>1. Live(op) /\ UNCHANGED token
    BY DEF FinishPoll, Answered, Live
<1>2. CASE StorageFails(op)
    BY <1>1, <1>2, StorageFailsKeeps
<1>3. CASE /\ app' = SettleReady(app)
           /\ Move(op, [op EXCEPT !.stage = "Polled", !.outcomes = ReadyOutcomes(app)])
    <2> DEFINE to == [op EXCEPT !.stage = "Polled", !.outcomes = ReadyOutcomes(app)]
    <2>1. OpShape(op)
        BY <1>1, LivePending
    <2>2. OpShape(to) /\ to.id = op.id /\ Live(to)
        BY <2>1, SMT DEF OpShape, OpFields, Live
    <2> HIDE DEF to
    <2>3. Move(op, to)
        BY <1>3 DEF to
    <2>4. QED
        BY <1>1, <1>3, <2>2, <2>3, SettleReadyFacts, MoveStep DEF RecordingInv
<1>4. QED
    BY <1>2, <1>3 DEF FinishPoll

\* finish_transition.
LEMMA FinishTransitionKeeps ==
    ASSUME RecordingInv, NEW op \in ops, FinishTransition(op)
    PROVE  RecordingInv'
<1> DEFINE a == [app EXCEPT !.settled = @ \o op.outcomes]
<1>1. Live(op) /\ UNCHANGED token
    BY DEF FinishTransition, Live
<1>2. AppShape(app) /\ Steps(app, a) /\ SameLease(app, a)
    BY KeepOutcomesFacts DEF RecordingInv
<1>3. \/ app' = TransitionedApp(a, op.event) /\ Return(op, "Ok")
      \/ app' = RecoveryRequired(a) /\ Return(op, "Known")
    BY DEF FinishTransition
<1> HIDE DEF a
<1>4. AppShape(a) /\ a.nextId = app.nextId
    BY <1>2 DEF Steps, SameLease
<1>5. Steps(a, app') /\ app'.nextId = a.nextId /\ app'.pending = None
    BY <1>3, <1>4, TransitionedAppFacts, RecoveryRequiredFacts
<1>6. Steps(app, app') /\ app'.nextId = app.nextId /\ app'.pending = None
    BY <1>2, <1>4, <1>5, StepsCompose
<1>7. QED
    BY <1>1, <1>3, <1>6, ReturnStep

\* finish_verified_connection_admission.
LEMMA FinishAdmissionKeeps ==
    ASSUME RecordingInv, NEW op \in ops, FinishAdmission(op)
    PROVE  RecordingInv'
<1> DEFINE kept == [app EXCEPT !.settled = @ \o op.outcomes]
           a == IF op.reply.matches THEN ReplayedPlan(kept, op) ELSE kept
           joins == IsRecording(a.rec.life) /\ a.rec.vehicle \in {None, op.vehicle}
           b == [a EXCEPT !.admitted = op.gen, !.pending = None,
                          !.rec = ObserveVehicle(@, op.vehicle),
                          !.joined = IF joins THEN op.gen ELSE @,
                          !.joinedRide = IF joins THEN a.ride ELSE @]
<1>1. Live(op) /\ UNCHANGED token
    BY DEF FinishAdmission, Live
<1>2. AppShape(app) /\ Steps(app, kept) /\ SameLease(app, kept)
    BY KeepOutcomesFacts DEF RecordingInv
<1>3. \/ app' = RecoveryRequired(a) /\ Return(op, "Known")
      \/ app' = b /\ Return(op, "Ok")
    BY DEF FinishAdmission
<1>4. op.plan.events \in Seq(PlanEvents)
    BY <1>1, LivePending DEF OpShape
<1> HIDE DEF kept
<1>5. AppShape(kept)
    BY <1>2 DEF Steps
<1>6. Steps(kept, kept) /\ SameLease(kept, kept)
    BY <1>5 DEF Steps, SameLease
<1>7. Steps(kept, a) /\ SameLease(kept, a)
    BY <1>4, <1>5, <1>6, ReplayedPlanFacts
<1> HIDE DEF a
<1>8. Steps(app, a) /\ SameLease(app, a) /\ AppShape(a)
    BY <1>2, <1>7, StepsCompose DEF SameLease, Steps
<1>9. Steps(a, b) /\ b.nextId = a.nextId /\ b.pending = None
    <2>1. DOMAIN ObserveVehicle(a.rec, op.vehicle) = RecFields
          /\ ObserveVehicle(a.rec, op.vehicle).life = a.rec.life
        BY <1>8, SMT DEF AppShape, ObserveVehicle
    <2> HIDE DEF joins
    <2>2. QED
        BY <1>8, <2>1, SMT DEF AppShape, Steps
<1> HIDE DEF b
<1>10. Steps(a, app') /\ app'.nextId = a.nextId /\ app'.pending = None
    BY <1>3, <1>8, <1>9, RecoveryRequiredFacts
<1>11. Steps(app, app') /\ app'.nextId = app.nextId /\ app'.pending = None
    BY <1>2, <1>8, <1>10, StepsCompose DEF SameLease
<1>12. QED
    BY <1>1, <1>3, <1>11, ReturnStep

\* A restore whose storage failed.
LEMMA RestoreFailsKeeps ==
    ASSUME RecordingInv, NEW op \in ops, Live(op), RestoreFails(op), UNCHANGED token
    PROVE  RecordingInv'
<1>1. app' = DropLease(app, op.id) /\ Return(op, "Known")
    BY DEF RestoreFails
<1>2. Steps(app, app') /\ app'.nextId = app.nextId /\ app'.pending = None
    BY <1>1, LivePending, DropLeaseFacts DEF RecordingInv
<1>3. QED
    BY <1>1, <1>2, ReturnStep

\* apply_recovery sends its second command.
LEMMA RecoverKeeps ==
    ASSUME RecordingInv, NEW op \in ops, Live(op), NEW request, Recover(op, request),
           request.plan.events \in Seq(PlanEvents), UNCHANGED token
    PROVE  RecordingInv'
<1> DEFINE to == [op EXCEPT !.stage = "Recovering", !.reply = None, !.ride = request.ride,
                            !.event = request.event, !.plan = request.plan]
<1>1. app' = RestoredApp(app, op.reply.ride, op.reply.row) /\ Move(op, to)
    BY DEF Recover
<1>2. OpShape(op)
    BY LivePending
<1>3. OpShape(to) /\ to.id = op.id /\ Live(to)
    BY <1>2, SMT DEF OpShape, OpFields, Live
<1> HIDE DEF to
<1>4. Steps(app, app') /\ SameLease(app, app')
    BY <1>1, RestoredAppFacts DEF RecordingInv
<1>5. QED
    BY <1>1, <1>3, <1>4, MoveStep

\* finish_restore_with_policy, up to the recovery command.
LEMMA FinishRestoreKeeps ==
    ASSUME RecordingInv, NEW op \in ops, FinishRestore(op)
    PROVE  RecordingInv'
<1> DEFINE ride == op.reply.ride
           row == op.reply.row
           plan(telemetry, replacement) ==
               [NoPlan EXCEPT !.settle = [discard |-> row.route = <<>> /\ ~telemetry,
                                          replacement |-> replacement]]
<1>1. Live(op) /\ UNCHANGED token
    BY DEF FinishRestore, Answered, Live
<1>2. CASE RestoreFails(op)
    BY <1>1, <1>2, RestoreFailsKeeps
<1>3. CASE app' = ReadyApp(RestoredApp(app, ride, row)) /\ Return(op, "Ok")
    <2> DEFINE b == RestoredApp(app, ride, row)
    <2>1. Steps(app, b) /\ SameLease(app, b)
        BY RestoredAppFacts DEF RecordingInv
    <2> HIDE DEF b
    <2>2. app' = ReadyApp(b)
        BY <1>3 DEF b
    <2>3. Steps(app, app') /\ app'.nextId = app.nextId /\ app'.pending = None
        BY <2>1, <2>2, ReadyAppFacts DEF SameLease
    <2>4. QED
        BY <1>1, <1>3, <2>3, ReturnStep
<1>4. CASE Recover(op, Request("Transition", op.id, ride, "Resume", None, NoPlan))
    <2>1. Request("Transition", op.id, ride, "Resume", None, NoPlan).plan = NoPlan
        BY DEF Request
    <2>2. QED
        BY <1>1, <1>4, <2>1, NoPlanEvents, RecoverKeeps
<1>5. CASE \E telemetry \in BOOLEAN, replacement \in Vehicles \union {None} :
             Recover(op, Request("Settle", op.id, ride, None, None,
                                 plan(telemetry, replacement)))
    <2>1. PICK telemetry \in BOOLEAN, replacement \in Vehicles \union {None} :
             Recover(op, Request("Settle", op.id, ride, None, None,
                                 plan(telemetry, replacement)))
        BY <1>5
    <2> DEFINE request == Request("Settle", op.id, ride, None, None,
                                  plan(telemetry, replacement))
    <2>2. request.plan = plan(telemetry, replacement)
        BY DEF Request
    <2>3. plan(telemetry, replacement).events = NoPlan.events
        BY SMT DEF NoPlan
    <2> HIDE DEF request
    <2>4. request.plan.events \in Seq(PlanEvents)
        BY <2>2, <2>3, NoPlanEvents
    <2>5. Recover(op, request)
        BY <2>1 DEF request
    <2>6. QED
        BY <1>1, <2>4, <2>5, RecoverKeeps
<1>6. QED
    BY <1>2, <1>3, <1>4, <1>5 DEF FinishRestore

\* The end of apply_recovery.
LEMMA FinishRecoveryKeeps ==
    ASSUME RecordingInv, NEW op \in ops, FinishRecovery(op)
    PROVE  RecordingInv'
<1>1. Live(op) /\ UNCHANGED token
    BY DEF FinishRecovery, Live
<1>2. CASE RestoreFails(op)
    BY <1>1, <1>2, RestoreFailsKeeps
<1>3. CASE app' = ReadyApp(RecoveredApp(app, op)) /\ Return(op, "Ok")
    <2> DEFINE b == RecoveredApp(app, op)
    <2>1. Steps(app, b) /\ SameLease(app, b)
        BY RecoveredAppFacts DEF RecordingInv
    <2> HIDE DEF b
    <2>2. app' = ReadyApp(b)
        BY <1>3 DEF b
    <2>3. Steps(app, app') /\ app'.nextId = app.nextId /\ app'.pending = None
        BY <2>1, <2>2, ReadyAppFacts DEF SameLease
    <2>4. QED
        BY <1>1, <1>3, <2>3, ReturnStep
<1>4. QED
    BY <1>2, <1>3 DEF FinishRecovery

\* The complete_* functions of the core.
LEMMA CompleteKeeps ==
    ASSUME RecordingInv, NEW op \in ops, Complete(op)
    PROVE  RecordingInv'
<1>1. ~Live(op) /\ ops' = ops \ {op} /\ UNCHANGED <<app, token>>
    BY DEF Complete, Live
<1>2. QED
    BY <1>1, RemoveCommand DEF RecordingInv

\* The owner thread unwinds.
LEMMA OwnerLostKeeps ==
    ASSUME RecordingInv, NEW op \in ops, OwnerLost(op)
    PROVE  RecordingInv'
<1>1. /\ Live(op) /\ Return(op, "Unknown") /\ UNCHANGED token
      /\ app' = DropLease(app, op.id)
    BY DEF OwnerLost, Live
<1>2. Steps(app, app') /\ app'.nextId = app.nextId /\ app'.pending = None
    BY <1>1, LivePending, DropLeaseFacts DEF RecordingInv
<1>3. QED
    BY <1>1, <1>2, ReturnStep

\* The storage worker answers, refuses or dies.
LEMMA WorkerKeeps ==
    RecordingInv /\ (WorkerStep \/ WriteFails \/ WorkerDies) => RecordingInv'
<1> SUFFICES ASSUME RecordingInv, WorkerStep \/ WriteFails \/ WorkerDies
             PROVE  RecordingInv'
    OBVIOUS
<1>1. UNCHANGED token /\ \E requests, reply : Deliver(requests, reply)
    BY DEF WorkerStep, WriteFails, WorkerDies
<1>2. QED
    BY <1>1, DeliverStep

\* A new process starts with a free lease and no token.
LEMMA FreshProcess ==
    ASSUME NEW t, t = None
    PROVE  AppShape(AppInit) /\ TokenSees(t, AppInit) /\ OpsInv({}, AppInit)
<1>1. AppShape(AppInit) /\ AppInit.pending = None
    BY SMT DEF AppShape, AppInit, NewRecorder
<1>2. QED
    BY <1>1 DEF TokenSees, OpsInv

-----------------------------------------------------------------------------
\* The invariant holds at first.
LEMMA RecordingInvInit == Init => RecordingInv
BY FreshProcess DEF Init, RecordingInv

\* Every step preserves the invariant.
LEMMA RecordingInvNext == RecordingInv /\ [Next]_vars => RecordingInv'
<1> SUFFICES ASSUME RecordingInv, [Next]_vars PROVE RecordingInv'
    OBVIOUS
<1>1. CASE IngestLocation
    BY <1>1, IngestLocationKeeps
<1>2. CASE PollLocationWrites \/ Checkpoint
    BY <1>2, PollLocationWritesKeeps
<1>3. CASE RiderLooks
    BY <1>3, RiderLooksKeeps
<1>4. CASE BeginRestore
    BY <1>4, BeginRestoreKeeps
<1>5. CASE BeginStart
    BY <1>5, BeginStartKeeps
<1>6. CASE BeginStopAfterMusic
    BY <1>6, BeginStopAfterMusicKeeps
<1>7. CASE \E c \in Connections : BeginAdmission(c)
    BY <1>7, BeginAdmissionKeeps
<1>8. CASE \E event \in Events, sync \in BOOLEAN : BeginTransition(event, sync)
    BY <1>8, BeginTransitionKeeps
<1>9. CASE \E op \in ops : Finish(op) \/ OwnerLost(op)
    <2>1. PICK op \in ops : Finish(op) \/ OwnerLost(op)
        BY <1>9
    <2>2. CASE OwnerLost(op)
        BY <2>2, OwnerLostKeeps
    <2>3. CASE Finish(op)
        BY <2>3, MusicFenceOpensKeeps, MusicFenceFailsKeeps, FinishStartKeeps,
           FinishPollKeeps, FinishTransitionKeeps, FinishAdmissionKeeps,
           FinishRestoreKeeps, FinishRecoveryKeeps, CompleteKeeps DEF Finish
    <2>4. QED
        BY <2>1, <2>2, <2>3
<1>10. CASE WorkerStep \/ WriteFails \/ WorkerDies
    BY <1>10, WorkerKeeps
<1>11. CASE Reopen
    BY <1>11 DEF Reopen, RecordingInv
<1>12. CASE AppRestarts
    BY <1>12, FreshProcess DEF AppRestarts, RecordingInv
<1>13. CASE UNCHANGED vars
    BY <1>13 DEF vars, RecordingInv
<1>14. QED
    BY <1>1, <1>2, <1>3, <1>4, <1>5, <1>6, <1>7, <1>8, <1>9, <1>10, <1>11, <1>12,
       <1>13 DEF Next

\* The inductive invariant of the recording stack.
THEOREM RecordingInvariant == Spec => []RecordingInv
BY RecordingInvInit, RecordingInvNext, PTL DEF Spec

(* The single command lease of RideRecordingApplication belongs to exactly *)
(* the live prepared command, in every process and after every loss.       *)
THEOREM LeaseIsOwned == Spec => []LeaseOwnsCommand
<1>1. RecordingInv => LeaseOwnsCommand
    BY DEF RecordingInv, OpsInv, Live, LeaseOwnsCommand
<1>2. QED
    BY <1>1, RecordingInvariant, PTL

(* A lifecycle command that begin_transition or begin_stop_after_music     *)
(* accepted runs on the state its token was issued for.                    *)
THEOREM CommandsApplyToSeenState == Spec => []CommandAppliesToSeenState
<1>1. RecordingInv => CommandAppliesToSeenState
    BY DEF RecordingInv, OpsInv, OpShape, CommandAppliesToSeenState
<1>2. QED
    BY <1>1, RecordingInvariant, PTL

=============================================================================
