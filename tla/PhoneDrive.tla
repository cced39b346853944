----------------------------- MODULE PhoneDrive -----------------------------
(***************************************************************************)
(* Phone control end to end: the Rust session of PhoneDriveControl, the    *)
(* native owner that offers its writes to Bluetooth                        *)
(* (DeviceSessionTransport.swift), the bounded native write queue          *)
(* (CoreBluetoothWriteQueue in CutoutMobile.swift), its one timer, and the *)
(* settings sheet, which calls the Rust handle from other threads          *)
(* (PhoneDriveModel.swift, crates/cutout-mobile-ffi/src/phone_drive.rs).   *)
(*                                                                         *)
(* The Bluetooth queue is serial: a handler starts when `ble` is at rest.  *)
(* A handler calls Rust, offers the write it got, asks Rust whether the    *)
(* write is still current, and only then hands it to CoreBluetooth.  The   *)
(* settings sheet and the clock can come in between.                       *)
(***************************************************************************)
EXTENDS PhoneDriveControl, Sequences

CONSTANTS
  Capacity,     \* capacity of the native write queue
  MaxTime,      \* bound: ticks of the clock
  MaxAttempts,  \* bound: connection attempts
  MaxEvents,    \* bound: calls and failures that are not contacts, timers or queue steps
  NativeReasons \* why the native surface cancels a gesture

ASSUME DriveAssumption ==
  /\ Capacity \in Nat \ {0}
  /\ MaxTime \in Nat /\ MaxAttempts \in Nat /\ MaxEvents \in Nat
  /\ NativeReasons \subseteq Reasons \ (GestureLocal \cup {"ConnectionChanged"})

VARIABLES
  session,  \* the Rust device session
  ble,      \* where the Bluetooth queue is: rest, offer, hand or flush
  queue,    \* pending writes of the native queue
  driveWasLastSubmitted,
  ready,    \* canSendWriteWithoutResponse, and whether its callback is due
  timer,    \* scheduledWakeupAt
  now,
  wire,     \* history: the sequence of the latest motor write handed to CoreBluetooth
  lifted,   \* history: the generation in which all contacts were last seen lifted
  late,     \* history: the latest step delivered, during a hold, a contact that was too old
  sheet,    \* a load or save of preferences that is waiting for the database
  saved,    \* the preferences in the database
  events    \* bound: events so far

transport == <<queue, driveWasLastSubmitted, ready>>
native == <<ble, timer, transport>>
settings == <<sheet, saved>>
vars == <<session, native, now, wire, lifted, late, settings, events>>

InitialSession ==
  [attempt |-> 0, verified |-> FALSE, eligible |-> FALSE, input |-> InitialInput,
   limits |-> DefaultBudget, preferences |-> None, presented |-> None, activation |-> None,
   pending |-> None, next_activation |-> 0, next_sequence |-> 0, fault |-> FALSE,
   last_input_at |-> 0]

\* write: the write in hand; flush: the queue is flushed afterwards, as long as `gate`,
\* the write that asked for it (None: the ready callback), is current.
AtRest == [pc |-> "rest", write |-> None, flush |-> FALSE, gate |-> None]

\* A write of the application that is not phone control, in the queue of an attempt.
Ordinary(token) == [kind |-> "Ordinary", token |-> token]

\* isCurrent, as the native owner asks it for an entry of the queue.
Current(s, w) ==
  IF w.kind = "Ordinary" THEN IsVerified(s, w.token) ELSE TransportIsCurrent(s, w, now)

\* The receipt of a write reaches Rust if it was a motor write.
Receipt(s, w, status) == IF w.kind = "Ordinary" THEN s ELSE Mark(s, w, status, now)

\* CoreBluetoothWriteQueue.discardExpired: the queue, and the session after the receipts.
Unexpired(s) ==
  LET kept[i \in 0 .. Len(queue)] ==
        IF i = 0 THEN <<>>
        ELSE IF Current(s, queue[i]) THEN Append(kept[i - 1], queue[i]) ELSE kept[i - 1]
  IN  kept[Len(queue)]

Waiting == {queue[i] : i \in DOMAIN queue}

Discarded(s) ==
  LET expired == {w \in Waiting : w.kind # "Ordinary" /\ ~Current(s, w)}
      mine    == {w \in expired : s.pending # None /\ s.pending.sequence = w.sequence}
  IN  IF mine = {} THEN s ELSE Mark(s, CHOOSE w \in mine : TRUE, "Cancelled", now)

\* Array.remove(at:)
Without(q, i) == SubSeq(q, 1, i - 1) \o SubSeq(q, i + 1, Len(q))

LastOf(q, kind) ==
  LET found == {i \in DOMAIN q : q[i].kind = kind}
  IN  IF found = {} THEN 0 ELSE CHOOSE i \in found : \A j \in found : j <= i

FirstOf(q, kind) ==
  LET found == {i \in DOMAIN q : q[i].kind = kind}
  IN  IF found = {} THEN 0 ELSE CHOOSE i \in found : \A j \in found : i <= j

\* Mutant: a full queue gives up an older setpoint only.
Displaced_SetpointOnly(q, w) ==
  IF Len(q) < Capacity \/ w.kind # "Release" THEN 0 ELSE LastOf(q, "Setpoint")

\* The entry a full queue gives up for a motor write, 0 when there is none.
Displaced(q, w) ==
  IF Len(q) < Capacity \/ w.kind = "Ordinary" THEN 0
  ELSE IF LastOf(q, "Ordinary") # 0 THEN LastOf(q, "Ordinary")
  ELSE IF w.kind = "Release" THEN LastOf(q, "Setpoint")
  ELSE 0

\* The entry flush takes next: neutral first, then motor and ordinary writes in turns.
Chosen(q) ==
  IF FirstOf(q, "Release") # 0 THEN FirstOf(q, "Release")
  ELSE IF driveWasLastSubmitted /\ FirstOf(q, "Ordinary") # 0 THEN FirstOf(q, "Ordinary")
  ELSE IF FirstOf(q, "Setpoint") # 0 THEN FirstOf(q, "Setpoint")
  ELSE 1

\* rescheduleTimer ends every handler of the Bluetooth queue.
Reschedule(s, canSend) ==
  timer' = IF s.verified THEN NextWakeup(s, canSend) ELSE None

\* What a handler does after its last Rust call: offer the write it got, flush, or end.
Continue(s, flush, canSend) ==
  IF flush
  THEN ble' = [AtRest EXCEPT !.pc = "flush", !.flush = TRUE] /\ UNCHANGED timer
  ELSE ble' = AtRest /\ Reschedule(s, canSend)

Finish(s, offers, flush) ==
  /\ session' = IF offers THEN Emitted(s) ELSE s
  /\ IF offers
     THEN /\ ble' = [AtRest EXCEPT !.pc = "offer", !.write = Emitted(s).pending, !.flush = flush]
          /\ UNCHANGED timer
     ELSE Continue(s, flush, ready.can)

-----------------------------------------------------------------------------
Init ==
  /\ session = InitialSession
  /\ ble = AtRest
  /\ queue = <<>>
  /\ driveWasLastSubmitted = FALSE
  /\ ready = [can |-> TRUE, due |-> FALSE]
  /\ timer = None
  /\ now = 0
  /\ wire = 0
  /\ lifted = None
  /\ late = FALSE
  /\ sheet = None
  /\ saved \in [mode : Modes, limits : Budgets]
  /\ events = 0

Rest == ble.pc = "rest"

Event == events < MaxEvents /\ events' = events + 1

(* The connection. *)

\* reset_for_attempt, then a verified standard VESC route
Connect ==
  /\ Rest /\ ~session.verified /\ session.attempt < MaxAttempts
  /\ session' = [CancelConnection(session) EXCEPT
                  !.attempt = @ + 1, !.verified = TRUE, !.eligible = TRUE, !.last_input_at = now]
  /\ Event
  /\ late' = FALSE
  /\ UNCHANGED <<native, now, wire, lifted, settings>>

\* disconnect, link_down, transport_failed, protocol_conflict; the native owner that ends
\* its own attempt (invalidate) clears the queue too.
LinkDown(clears) ==
  /\ Rest /\ session.verified
  /\ session' = [CancelConnection(session) EXCEPT !.verified = FALSE, !.eligible = FALSE]
  /\ timer' = None
  /\ queue' = IF clears THEN <<>> ELSE queue
  /\ driveWasLastSubmitted' = (driveWasLastSubmitted /\ ~clears)
  /\ Event
  /\ late' = FALSE
  /\ UNCHANGED <<ble, ready, now, wire, lifted, settings>>

\* ingest: telemetry may report a fault, and identity may change the route.
Ingest(fault, eligible) ==
  /\ Rest /\ session.verified
  /\ LET heard   == [session EXCEPT !.last_input_at = Later(@, now), !.fault = fault]
         faulted == IF fault THEN Cancel(heard, "ControllerFault") ELSE heard
         s == IF eligible = session.eligible THEN faulted
              ELSE Cancel([faulted EXCEPT !.eligible = eligible], "ConfigurationChanged")
     IN  session' = s /\ Reschedule(s, ready.can)
  /\ IF fault \/ eligible # session.eligible THEN Event ELSE UNCHANGED events
  /\ late' = FALSE
  /\ UNCHANGED <<ble, transport, now, wire, lifted, settings>>

\* install_user_drivetrain, apply_vehicle_classification: on any thread
Reconfigure ==
  /\ session.verified
  /\ session' = Cancel(session, "ConfigurationChanged")
  /\ Event
  /\ late' = FALSE
  /\ UNCHANGED <<native, now, wire, lifted, settings>>

(* The surface: every call runs on the Bluetooth queue. *)

\* activatePhoneDrive; it waits for the lock that a load or a save holds.
ActivateDrive(generation, busy) ==
  /\ Rest /\ sheet = None
  /\ LET s == Activate(session, session.attempt, generation, busy, now)
     IN  session' = s /\ Reschedule(s, ready.can)
  /\ Event
  /\ late' = FALSE
  /\ UNCHANGED <<ble, transport, now, wire, lifted, settings>>

\* One actor observes the contacts and waits for each delivery, so observations are in order.
InOrder(observed) ==
  IF session.activation = None THEN TRUE
  ELSE IF session.activation.observed_at = None THEN TRUE
  ELSE session.activation.observed_at <= observed

\* observePhoneDriveContacts
Touch(generation, contacts, observed) ==
  /\ Rest /\ session.verified /\ InOrder(observed)
  /\ LET s == ObserveContacts(session, session.attempt, generation, contacts, observed, now)
     IN  /\ Finish(s, /\ Admits(session, session.attempt)
                      /\ session.input.generation = generation
                      /\ Emits(s, now, TRUE), FALSE)
         /\ lifted' = IF contacts.kind = "Released" /\ s.input.gesture = Idle
                      THEN s.input.generation ELSE lifted
  /\ late' = (Driving(session) /\ StaleObservation(session, observed, now))
  /\ UNCHANGED <<transport, now, wire, settings, events>>

\* cancelPhoneDrive, and handleTimer below: advancePhoneDrive
Advance(s) ==
  LET t == Tick(s, s.attempt, now, ready.can)
  IN  Finish(t, IsVerified(s, s.attempt) /\ Emits(t, now, ready.can), FALSE)

CancelDrive(reason) ==
  /\ Rest
  /\ Advance(CancelAt(session, reason, now))
  /\ Event
  /\ late' = FALSE
  /\ UNCHANGED <<transport, now, wire, lifted, settings>>

(* The Bluetooth queue. *)

\* handleTimer.  The one timer also serves the telemetry polls and the settings operations,
\* so it may fire before the time phone control asked for; and it is set, whatever phone
\* control asks for, while Bluetooth takes writes.
TimerArmed ==
  \/ timer # None /\ now >= timer
  \/ ready.can /\ ReleasePending(session)

HandleTimer ==
  /\ Rest /\ session.verified
  /\ Advance(session)
  /\ late' = FALSE
  /\ UNCHANGED <<transport, now, wire, lifted, settings, events>>

\* A write of another part of the application.
SubmitOrdinary ==
  /\ Rest /\ session.verified
  /\ ble' = [AtRest EXCEPT !.pc = "offer", !.write = Ordinary(session.attempt)]
  /\ Event
  /\ late' = FALSE
  /\ UNCHANGED <<session, timer, queue, driveWasLastSubmitted, ready, now, wire, lifted,
                 settings>>

\* CoreBluetoothWriteQueue.submit.  The receipt of a displaced entry changes nothing: an
\* ordinary write has none here, and a setpoint is no longer the pending write.
Offer ==
  /\ ble.pc = "offer"
  /\ LET w == ble.write
         s == Discarded(session)
         q == Unexpired(session)
         d == Displaced(q, w)
         r == IF d = 0 THEN q ELSE Without(q, d)
         settles(status, kept) ==
           /\ session' = Receipt(s, w, status)
           /\ queue' = kept
           /\ Continue(session', ble.flush, ready.can)
     IN  IF ~Current(s, w) THEN settles("Cancelled", q)
         ELSE IF q = <<>> /\ ready.can
         THEN /\ session' = s /\ queue' = q
              /\ ble' = [ble EXCEPT !.pc = "hand"]
              /\ UNCHANGED timer
         ELSE IF Len(r) >= Capacity THEN settles("Rejected", r)
         ELSE /\ session' = s /\ queue' = Append(r, w)
              /\ ble' = [ble EXCEPT !.pc = "flush", !.flush = TRUE,
                                    !.gate = IF ble.flush THEN None ELSE w]
              /\ UNCHANGED timer
  /\ late' = FALSE
  /\ UNCHANGED <<driveWasLastSubmitted, ready, now, wire, lifted, settings, events>>

\* CutoutSessionBluetoothWriteAdapter.submit: the capture journal refuses the write.
RefuseOffer ==
  /\ ble.pc = "offer"
  /\ session' = Receipt(session, ble.write, "Rejected")
  /\ Continue(session', ble.flush, ready.can)
  /\ Event
  /\ late' = FALSE
  /\ UNCHANGED <<queue, driveWasLastSubmitted, ready, now, wire, lifted, settings>>

\* One turn of CoreBluetoothWriteQueue.flush.
Flush ==
  /\ ble.pc = "flush"
  /\ LET s == Discarded(session)
         q == Unexpired(session)
     IN  /\ session' = s
         /\ IF q # <<>> /\ ready.can /\ (IF ble.gate = None THEN TRUE ELSE Current(s, ble.gate))
            THEN /\ queue' = Without(q, Chosen(q))
                 /\ ble' = [ble EXCEPT !.pc = "hand", !.write = q[Chosen(q)]]
                 /\ UNCHANGED timer
            ELSE queue' = q /\ Continue(s, FALSE, ready.can)
  /\ late' = FALSE
  /\ UNCHANGED <<driveWasLastSubmitted, ready, now, wire, lifted, settings, events>>

\* The write reaches CoreBluetooth, and its receipt Rust.
HandOver(still) ==
  /\ ble.pc = "hand"
  /\ wire' = IF ble.write.kind = "Ordinary" THEN wire ELSE ble.write.sequence
  /\ driveWasLastSubmitted' = CASE ble.write.kind = "Setpoint" -> TRUE
                                [] ble.write.kind = "Ordinary" -> FALSE
                                [] OTHER -> driveWasLastSubmitted
  /\ ready' = [ready EXCEPT !.can = still]
  /\ session' = Receipt(session, ble.write, "Submitted")
  /\ IF ble.flush
     THEN ble' = [ble EXCEPT !.pc = "flush", !.write = None] /\ UNCHANGED timer
     ELSE Continue(session', FALSE, still)
  /\ late' = FALSE
  /\ UNCHANGED <<queue, now, lifted, settings, events>>

BecomeReady ==
  /\ ~ready.can
  /\ ready' = [can |-> TRUE, due |-> TRUE]
  /\ late' = FALSE
  /\ UNCHANGED <<session, ble, timer, queue, driveWasLastSubmitted, now, wire,
                 lifted, settings, events>>

\* handlePeripheralIsReadyToSendWithoutResponse
ReadyCallback ==
  /\ Rest /\ ready.due
  /\ ready' = [ready EXCEPT !.due = FALSE]
  /\ IF session.verified
     THEN LET s == Tick(session, session.attempt, now, ready.can)
          IN  Finish(s, Emits(s, now, ready.can), TRUE)
     ELSE UNCHANGED <<session, ble, timer>>
  /\ late' = FALSE
  /\ UNCHANGED <<queue, driveWasLastSubmitted, now, wire, lifted, settings, events>>

(* The settings sheet, on threads of its own. *)

Present(presented) ==
  /\ session.verified
  /\ session' = SetPresented(session, session.attempt, presented)
  /\ IF presented THEN Event ELSE UNCHANGED events
  /\ late' = FALSE
  /\ UNCHANGED <<native, now, wire, lifted, settings>>

\* load_phone_drive_preferences_with and save_phone_drive_preferences_with hold the lock of
\* configuration updates around the database, and not the session's.
LoadBegins ==
  /\ sheet = None /\ TargetIsCurrent(session, session.attempt)
  /\ sheet' = [kind |-> "load", token |-> session.attempt, generation |-> None, record |-> saved]
  /\ Event
  /\ late' = FALSE
  /\ UNCHANGED <<session, native, now, wire, lifted, saved>>

SaveBegins(record) ==
  LET s == Cancel(session, "ActivationChanged")
  IN  /\ sheet = None
      /\ SettingsArePresented(session, session.attempt)
      /\ PreferencesAreCurrent(session, session.attempt)
      /\ session' = s
      /\ sheet' = IF s.input.generation = None THEN None
                  ELSE [kind |-> "save", token |-> s.attempt, generation |-> s.input.generation,
                        record |-> record]
      /\ Event
      /\ late' = FALSE
      /\ UNCHANGED <<native, now, wire, lifted, saved>>

Apply(token, record) ==
  session' = ApplyPreferences(session, token, record.mode, record.limits)

LoadEnds ==
  /\ sheet # None /\ sheet.kind = "load"
  /\ sheet' = None
  /\ Apply(sheet.token, saved)
  /\ late' = FALSE
  /\ UNCHANGED <<native, now, wire, lifted, saved, events>>

SaveEnds ==
  /\ sheet # None /\ sheet.kind = "save"
  /\ sheet' = None
  /\ saved' = sheet.record
  /\ IF /\ SettingsArePresented(session, sheet.token)
        /\ session.input.generation = sheet.generation
     THEN Apply(sheet.token, sheet.record)
     ELSE UNCHANGED session
  /\ late' = FALSE
  /\ UNCHANGED <<native, now, wire, lifted, events>>

\* The database fails, or the text of a limit does not parse.
SheetFails ==
  /\ sheet # None
  /\ sheet' = None
  /\ late' = FALSE
  /\ UNCHANGED <<session, native, now, wire, lifted, saved, events>>

TimePasses ==
  /\ now < MaxTime
  /\ now' = now + 1
  /\ late' = FALSE
  /\ UNCHANGED <<session, native, wire, lifted, settings, events>>

-----------------------------------------------------------------------------
\* The generation a native caller read: the current one, or one retired since, here 0.  A
\* contact of a retired generation is refused before anything else of it is looked at.
KnownGenerations == ({session.input.generation} \ {None}) \cup {0}

Next ==
  \/ Connect \/ Reconfigure
  \/ \E clears \in BOOLEAN : LinkDown(clears)
  \/ \E fault, eligible \in BOOLEAN : Ingest(fault, eligible)
  \/ \E generation \in KnownGenerations, busy \in BOOLEAN : ActivateDrive(generation, busy)
  \/ \E generation \in {session.input.generation} \ {None}, contacts \in Contacts,
        observed \in 0 .. now : Touch(generation, contacts, observed)
  \/ Touch(0, NoSingle("Invalid"), now)
  \/ \E reason \in NativeReasons : CancelDrive(reason)
  \/ HandleTimer \/ SubmitOrdinary \/ Offer \/ RefuseOffer \/ Flush
  \/ \E still \in BOOLEAN : HandOver(still)
  \/ BecomeReady \/ ReadyCallback
  \/ \E presented \in BOOLEAN : Present(presented)
  \/ LoadBegins \/ LoadEnds \/ SaveEnds \/ SheetFails
  \/ \E record \in [mode : Modes, limits : Budgets] : SaveBegins(record)
  \/ TimePasses

Spec == Init /\ [][Next]_vars

-----------------------------------------------------------------------------
\* Every record has its fields, of their types; a write carries an action and its budget
\* exactly when it is a Setpoint.
TypeOK ==
  /\ session.input \in Inputs
  /\ session.pending = None \/ session.pending \in Writes
  /\ wire \in 0 .. LastSequence
  /\ \A w \in Waiting : w.kind = "Ordinary" \/ w \in Writes
  /\ Len(queue) <= Capacity
  /\ session.limits \in Budgets
  /\ session.preferences \in {None, session.attempt} /\ session.presented \in {None, session.attempt}
  /\ session.last_input_at <= now
  /\ timer = None \/ timer \in Nat
  /\ \A w \in ({session.pending} \ {None}) :
       (w.kind = "Setpoint") = (w.action # None) /\ (w.action = None) = (w.budget = None)

HoldEnds == Driving(session) /\ ~Driving(session') /\ session'.verified

\* When a held gesture of an activation ends, for whatever reason, in the same verified
\* attempt, a neutral is pending at once: no path drops a hold without owing the release
\* (cancel_phone_drive, observe_phone_drive_contacts_at).  Two exceptions: identifiers that
\* are exhausted, and the delivery of a contact that is too old, when the session has not
\* been heard of for a whole submission window: that call issues the neutral and retires it.
EndOfHoldOwesNeutral ==
  [][ HoldEnds => \/ ReleasePending(session') \/ Exhausted(session')
                  \/ late' /\ session.last_input_at + SubmissionWindow <= now ]_vars

\* cancel_phone_drive "retains bounded neutral intent for the same live attempt", also when
\* a late contact cancels the hold.
CancelRetainsNeutral ==
  [][ HoldEnds => ReleasePending(session') \/ Exhausted(session') ]_vars

\* A pending neutral is never replaced: it stays, with its deadline, until it is on the
\* wire, the connection ends, or it has failed; and a failure takes the activation along.
NeutralIsSettled ==
  [][ LET p == session.pending
          q == session'.pending
      IN  /\ ReleasePending(session)
          /\ q = None \/ q.sequence # p.sequence \/ q.submit_before # p.submit_before
          => \/ ~session'.verified
             \/ q = None /\ wire' # wire /\ wire' = p.sequence
             \/ q = None /\ session'.activation = None
                /\ session'.input.gesture.phase = "Cancelled" ]_vars

\* Motor writes reach CoreBluetooth in the order Rust issued them, none of them twice,
\* although the queue reorders and displaces them.
WritesKeepTheirOrder ==
  ble.pc = "hand" /\ ble.write.kind # "Ordinary" => ble.write.sequence > wire

\* A Setpoint is handed to CoreBluetooth for a contact that holds its region in this very
\* generation, after all contacts were lifted in that generation, with the budget saved for
\* the attempt; only a settings sheet or a reconfiguration that came between the last check
\* and the handover can have ended the hold, and then the neutral is already owed.
SetpointIsHeld ==
  ble.pc = "hand" /\ ble.write.kind = "Setpoint" =>
    \/ ReleasePending(session) \/ Exhausted(session)
    \/ /\ Driving(session) /\ session.input.gesture.action = ble.write.action
       /\ session.input.generation = ble.write.generation
       /\ lifted = ble.write.generation
       /\ ble.write.budget = session.limits
       /\ session.presented = None

\* The native queue never refuses a neutral for want of room.
NeutralFindsRoom ==
  ble.pc = "offer" /\ ble.write.kind = "Release" =>
    LET q == Unexpired(session)
    IN  Current(Discarded(session), ble.write) => Len(q) < Capacity \/ Displaced(q, ble.write) # 0

-----------------------------------------------------------------------------
\* Time passes, the timer fires when it is due, and also while a neutral waits and Bluetooth
\* takes writes (the telemetry polls set it), the Bluetooth queue goes on with a handler it
\* has begun, and CoreBluetooth becomes ready again.
Fairness ==
  /\ WF_vars(TimePasses)
  /\ WF_vars(TimerArmed /\ HandleTimer)
  /\ WF_vars(Offer \/ Flush \/ \E still \in BOOLEAN : HandOver(still))
  /\ WF_vars(BecomeReady) /\ WF_vars(ReadyCallback)

FairSpec == Spec /\ Fairness

\* A hold that no fresh contact renews ends: advance_phone_drive_deadlines is called in time,
\* whatever Bluetooth does.
SilentHoldEnds ==
  \A t \in {u \in 0 .. MaxTime : u + InputMaxAge <= MaxTime} :
    []<>~(Driving(session) /\ session.activation.observed_at = t)

\* A neutral that is owed does not stay owed: it reaches CoreBluetooth or is retired at its
\* deadline, so that a later activation is not locked out.
NeutralResolves ==
  []<>~(ReleasePending(session) /\ session.pending.submit_before <= MaxTime)
=============================================================================
