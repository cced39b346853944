------------------------- MODULE PhoneDriveControl --------------------------
(***************************************************************************)
(* Phone control as the Rust device session owns it                        *)
(* (src/crates/cutout-protocols/src/device_connection/phone_drive.rs): the *)
(* activation, the one pending motor write, its deadline, and what         *)
(* cancels them.  One operator per method, on the record of the session;   *)
(* a call that is refused returns the record unchanged.                    *)
(*                                                                         *)
(* A token is the number of a connection attempt.  Times are host times;   *)
(* `at` is the time of the call.                                           *)
(***************************************************************************)
EXTENDS DriveInput

CONSTANTS
  Budgets,           \* PhoneDriveLimits: the current budgets that can be saved
  DefaultBudget,     \* PhoneDriveLimits::default
  Cadence,           \* CADENCE_MS, in ticks of the clock
  InputMaxAge,       \* INPUT_MAX_AGE_MS
  SubmissionWindow,  \* SUBMISSION_WINDOW_MS
  LastSequence       \* the largest write sequence, u64::MAX in the code

\* The activation of a session, and a motor write: a setpoint, or a release (neutral).
Activations ==
  [id : Nat, limits : Budgets, observed_at : Nat \cup {None}, next_setpoint_at : Nat \cup {None}]

Writes ==
  [kind : {"Setpoint", "Release"}, activation : Nat, sequence : 1 .. LastSequence,
   generation : 1 .. LastGeneration, submit_before : Nat, token : Nat,
   action : Actions \cup {None}, budget : Budgets \cup {None}, issued_at : Nat,
   emitted : BOOLEAN]

ASSUME ControlAssumption ==
  /\ Cadence \in Nat \ {0} /\ InputMaxAge \in Nat \ {0} /\ SubmissionWindow \in Nat \ {0}
  /\ LastSequence \in Nat
  /\ None \notin Budgets /\ DefaultBudget \in Budgets
  /\ None \notin Activations /\ None \notin Writes

Later(a, b) == IF a > b THEN a ELSE b

IsVerified(s, token) == s.verified /\ token = s.attempt

\* phone_drive_availability: a verified, eligible route; Active when activated.
Available(s) == s.verified /\ s.eligible

\* phone_drive_target_is_current, phone_drive_preferences_are_current,
\* phone_drive_settings_are_presented
TargetIsCurrent(s, token) == Available(s) /\ IsVerified(s, token)
PreferencesAreCurrent(s, token) == s.preferences = token /\ TargetIsCurrent(s, token)
SettingsArePresented(s, token) == s.presented = token /\ TargetIsCurrent(s, token)

Held(s) == s.input.gesture.phase = "Pressed"
ReleasePending(s) == s.pending # None /\ s.pending.kind = "Release"

CancelInput(s, reason) == [s EXCEPT !.input = InputCancel(@, reason)]

\* A write that cannot be made any more takes the activation with it.
Retire(s, reason) == [CancelInput(s, reason) EXCEPT !.activation = None, !.pending = None]

\* prepare_phone_drive_write: a Setpoint for an action, a Release (neutral) for None.
\* token: the attempt whose native owner is going to carry the write.
Prepare(s, action, at) ==
  IF s.activation = None THEN s
  ELSE IF s.next_sequence = LastSequence THEN Retire(s, "GenerationExhausted")
  ELSE IF s.input.generation = None THEN s
  ELSE [s EXCEPT
         !.next_sequence = @ + 1,
         !.pending = [kind |-> IF action = None THEN "Release" ELSE "Setpoint",
                      activation |-> s.activation.id, sequence |-> s.next_sequence + 1,
                      generation |-> s.input.generation, submit_before |-> at + SubmissionWindow,
                      token |-> s.attempt, action |-> action,
                      budget |-> IF action = None THEN None ELSE s.activation.limits,
                      issued_at |-> at, emitted |-> FALSE],
         !.activation.next_setpoint_at = IF action = None THEN None ELSE at + Cadence]

\* Mutant: every cancellation prepares the neutral anew.
PrepareRelease_Again(s, at) == Prepare(s, None, at)

\* The neutral is prepared once: one that is pending already keeps its deadline.
PrepareRelease(s, at) == IF ReleasePending(s) THEN s ELSE Prepare(s, None, at)

\* cancel_phone_drive with ConnectionChanged
CancelConnection(s) ==
  CancelInput([s EXCEPT
                !.activation = None, !.pending = None, !.fault = FALSE,
                !.preferences = None, !.presented = None,
                !.input = SetMode(@, "Disabled"), !.limits = DefaultBudget],
              "ConnectionChanged")

\* cancel_phone_drive with any other reason; the neutral is issued at last_input_at.
Cancel(s, reason) ==
  LET cancelled == CancelInput(s, reason)
      released  == PrepareRelease(cancelled, s.last_input_at)
  IN  IF s.activation = None THEN cancelled
      ELSE IF released.activation = None THEN released
      ELSE IF reason \in GestureLocal THEN [released EXCEPT !.activation.next_setpoint_at = None]
      ELSE [released EXCEPT !.activation = None]

\* cancel_phone_drive_at
CancelAt(s, reason, at) == Cancel([s EXCEPT !.last_input_at = Later(@, at)], reason)

\* activate_phone_drive; busy: a settings operation owns the transport.  A neutral that
\* missed its deadline is retired first, even if the activation is then refused.
Activate(s, token, generation, busy, at) ==
  LET expired == IF ReleasePending(s) THEN Retire(s, "TransportUnavailable") ELSE s
      fresh   == CancelInput(expired, "ActivationChanged")
  IN  IF \/ ~IsVerified(s, token) \/ s.input.generation # generation
         \/ s.preferences # token \/ s.presented = token \/ ~Available(s)
         \/ s.input.mode = "Disabled" \/ at < s.last_input_at \/ s.fault
         \/ ReleasePending(s) /\ at < s.pending.submit_before
      THEN s
      ELSE IF expired.input.gesture.phase # "Idle" \/ busy THEN expired
      ELSE IF fresh.input.generation = None THEN fresh
      ELSE [fresh EXCEPT
             !.next_activation = @ + 1, !.pending = None, !.last_input_at = at,
             !.activation = [id |-> s.next_activation + 1, limits |-> s.limits,
                             observed_at |-> None, next_setpoint_at |-> None]]

\* advance_phone_drive_deadlines
InputExpired(s, at) ==
  /\ Held(s) /\ s.activation # None
  /\ LET observed == s.activation.observed_at
     IN  IF observed = None THEN TRUE ELSE observed > at \/ at - observed >= InputMaxAge

\* Mutant: the neutral of an expired hold is issued at the time of the call before.
ExpireInput_KeepsTime(s, at) ==
  IF InputExpired(s, at) THEN Cancel(s, "InputExpired") ELSE s

ExpireInput(s, at) ==
  IF InputExpired(s, at) THEN Cancel([s EXCEPT !.last_input_at = at], "InputExpired") ELSE s

\* Mutant: a neutral has no deadline.
ExpireWrite_SetpointOnly(s, at) ==
  IF s.pending = None THEN s
  ELSE IF at < s.pending.submit_before \/ s.pending.kind = "Release" THEN s
  ELSE Cancel([s EXCEPT !.pending = None, !.last_input_at = at], "TransportUnavailable")

ExpireWrite(s, at) ==
  IF s.pending = None THEN s
  ELSE IF at < s.pending.submit_before THEN s
  ELSE LET late == [s EXCEPT !.pending = None, !.last_input_at = at]
       IN  IF s.pending.kind = "Setpoint" THEN Cancel(late, "TransportUnavailable")
           ELSE Retire(late, "TransportUnavailable")

AdvanceDeadlines(s, at) == ExpireWrite(ExpireInput(s, at), at)

\* phone_drive_step: every call that returns a step records its time.
Stepped(s, at) == [s EXCEPT !.last_input_at = Later(@, at)]

CadenceDue(s, at) ==
  /\ s.pending = None /\ s.activation # None /\ Held(s)
  /\ IF s.activation.next_setpoint_at = None THEN FALSE ELSE at >= s.activation.next_setpoint_at

\* Mutant: without a pending write a tick only records its time.
Tick_PendingOnly(s, token, now, can_submit) ==
  LET at == Later(now, s.last_input_at)
  IN  IF ~IsVerified(s, token) THEN s
      ELSE Stepped(IF s.pending = None THEN s ELSE AdvanceDeadlines(s, at), at)

\* tick_phone_drive
Tick(s, token, now, can_submit) ==
  LET at       == Later(now, s.last_input_at)
      advanced == AdvanceDeadlines(
                    IF now < s.last_input_at THEN Cancel(s, "InputExpired") ELSE s, at)
  IN  IF ~IsVerified(s, token) THEN s
      ELSE Stepped(IF can_submit /\ CadenceDue(advanced, at)
                   THEN Prepare(advanced, advanced.input.gesture.action, at)
                   ELSE advanced, at)

\* append_phone_drive_write: the pending write leaves with the step, once.
Emits(s, at, can_submit) ==
  /\ can_submit /\ s.pending # None
  /\ ~s.pending.emitted /\ at < s.pending.submit_before

Emitted(s) == [s EXCEPT !.pending.emitted = TRUE]

\* The observation is admitted: right attempt, loaded settings, no sheet over the surface.
Admits(s, token) == IsVerified(s, token) /\ s.preferences = token /\ s.presented # token

StaleObservation(s, observed, at) ==
  \/ at < s.last_input_at \/ observed > at \/ at - observed >= InputMaxAge
  \/ IF s.activation = None THEN FALSE
     ELSE IF s.activation.observed_at = None THEN FALSE
     ELSE observed < s.activation.observed_at

\* A contact cannot press while a neutral is unsent: it is suppressed as Invalid.
Press(s, generation, contacts) ==
  LET input == IF Available(s) THEN InputObserve(s.input, generation, contacts) ELSE s.input
  IN  IF input.gesture.phase = "Pressed" /\ ReleasePending(s)
      THEN InputObserve(input, generation, NoSingle("Invalid"))
      ELSE input

\* The pending write an observed change of phase asks for.
Respond(s, before, at) ==
  LET after == s.input.gesture
      phase(g) == [phase |-> g.phase, action |-> g.action, reason |-> g.reason]
      quiet == [s EXCEPT !.activation.next_setpoint_at = None]
  IN  IF after.phase = "Pressed"
      THEN IF phase(before) # phase(after) THEN Prepare(s, after.action, at) ELSE s
      ELSE IF after.phase = "Idle"
      THEN IF before.phase = "Pressed" THEN Prepare(quiet, None, at) ELSE quiet
      ELSE IF phase(before) = phase(after) THEN quiet
      ELSE IF after.reason = "local" THEN PrepareRelease(quiet, at)
      ELSE Cancel(quiet, "TouchCancelled")

\* observe_phone_drive_contacts_at
ObserveContacts(s, token, generation, contacts, observed, at) ==
  LET seen == [s EXCEPT !.last_input_at = at, !.input = Press(s, generation, contacts)]
      aged == [seen EXCEPT !.activation.observed_at = observed]
  IN  IF ~Admits(s, token) THEN s
      ELSE IF s.input.generation # generation THEN Stepped(s, at)
      ELSE IF StaleObservation(s, observed, at)
      THEN Tick(Cancel(s, "InputExpired"), token, Later(s.last_input_at, at), TRUE)
      ELSE IF s.activation = None THEN seen
      ELSE Stepped(Respond(aged, s.input.gesture, at), at)

\* phone_drive_transport_is_current
TransportIsCurrent(s, w, at) ==
  /\ IsVerified(s, w.token)
  /\ ~(s.presented = w.token /\ w.kind = "Setpoint")
  /\ s.pending # None /\ s.pending.sequence = w.sequence
  /\ w.issued_at <= at /\ at < w.submit_before
  /\ w.kind = "Setpoint" =>
       /\ s.activation # None /\ s.activation.id = w.activation
       /\ s.input.generation = w.generation
       /\ Held(s) /\ s.input.gesture.action = w.action
       /\ s.activation.observed_at # None
       /\ s.activation.observed_at <= at /\ at - s.activation.observed_at < InputMaxAge

\* mark_phone_drive_transport.  Queued changes nothing; the other statuses settle the write.
Mark(s, w, status, at) ==
  IF \/ ~IsVerified(s, w.token) \/ (s.presented = w.token /\ w.kind = "Setpoint")
     \/ s.pending = None
  THEN s
  ELSE IF s.pending.sequence # w.sequence \/ at < w.issued_at \/ status = "Queued" THEN s
  ELSE IF status = "Submitted" THEN [s EXCEPT !.pending = None]
  ELSE IF w.kind = "Setpoint"
  THEN CancelAt([s EXCEPT !.pending = None], "TransportUnavailable", at)
  ELSE Retire(s, "TransportUnavailable")

\* set_phone_drive_settings_presented
SetPresented(s, token, presented) ==
  IF ~TargetIsCurrent(s, token) THEN s
  ELSE IF ~presented THEN [s EXCEPT !.presented = IF @ = token THEN None ELSE @]
  ELSE IF s.presented = token THEN s
  ELSE [Cancel(s, "Navigation") EXCEPT !.presented = token]

\* apply_phone_drive_preferences
ApplyPreferences(s, token, mode, limits) ==
  LET cancelled == IF s.input.mode # mode THEN Cancel(s, "ModeChanged")
                   ELSE IF s.limits # limits THEN Cancel(s, "ActivationChanged")
                   ELSE s
  IN  IF ~TargetIsCurrent(s, token) THEN s
      ELSE [cancelled EXCEPT !.input = SetMode(@, mode), !.limits = limits,
                             !.preferences = token]

\* phone_drive_next_wakeup_at: the earliest of the times below, None when there is none.
Wakeups(s, can_submit) ==
  (IF s.pending = None THEN {}
   ELSE {s.pending.submit_before}
          \cup (IF ~s.pending.emitted /\ can_submit THEN {s.last_input_at} ELSE {}))
  \cup
  (IF s.activation = None THEN {}
   ELSE (IF Held(s)
         THEN {t + InputMaxAge : t \in {s.activation.observed_at} \ {None}} ELSE {})
          \cup (IF can_submit /\ s.pending = None
                THEN {s.activation.next_setpoint_at} \ {None} ELSE {}))

NextWakeup(s, can_submit) ==
  LET times == Wakeups(s, can_submit)
  IN  IF times = {} THEN None ELSE CHOOSE t \in times : \A u \in times : t <= u

\* A gesture of an activation is held; no further neutral can be numbered.
Driving(s) == s.activation # None /\ Held(s)
Exhausted(s) == s.next_sequence = LastSequence \/ s.input.generation = None
=============================================================================
