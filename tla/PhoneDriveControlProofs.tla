----------------------- MODULE PhoneDriveControlProofs -----------------------
(***************************************************************************)
(* The calls of the Rust session for phone control, for any contacts,      *)
(* budgets, identifiers and timing: what each of them keeps, and that none *)
(* leaves a hold without preparing the neutral or being out of             *)
(* identifiers.                                                            *)
(***************************************************************************)
EXTENDS PhoneDriveControl, TLAPS

Generations == 1 .. LastGeneration

GestureType ==
  [phase : {"Idle", "Pressed", "Cancelled"}, contact : ContactIds \cup {None},
   action : Actions \cup {None}, reason : {None, "local", "retired"}]

InputType == [mode : Modes, generation : Generations \cup {None}, gesture : GestureType]

Sessions ==
  [attempt : Nat, verified : BOOLEAN, eligible : BOOLEAN, input : InputType,
   limits : Budgets, preferences : Nat \cup {None}, presented : Nat \cup {None},
   activation : Activations \cup {None}, pending : Writes \cup {None},
   next_activation : Nat, next_sequence : Nat, fault : BOOLEAN, last_input_at : Nat]

\* A gesture is held or idle only in a generation in which the contacts were lifted.
InputKnows(i, l) ==
  /\ i.gesture.phase = "Pressed" => i.gesture.action # None /\ i.mode # "Disabled"
  /\ i.gesture.phase # "Cancelled" => i.generation # None
  /\ i.gesture.phase # "Cancelled" /\ i.mode # "Disabled" => l = i.generation

\* The session s, when the contacts were last lifted in generation l, at time n.
Coherent(s, l, n) ==
  /\ s \in Sessions
  /\ s.next_sequence <= LastSequence
  /\ s.pending # None => s.pending.sequence = s.next_sequence
  /\ s.activation # None => s.activation.limits = s.limits /\ s.activation.id <= s.next_activation
  /\ s.presented \in {None, s.attempt}
  /\ ~s.verified => s.pending = None /\ s.activation = None
  /\ ReleasePending(s) => ~Held(s)
  /\ InputKnows(s.input, l)
  /\ s.last_input_at <= n

Motor(w) == w.kind # "Ordinary"

\* A motor write w belongs to an activation that s knows, and has its budget.
Issued(w, s) ==
  /\ w.activation <= s.next_activation
  /\ w.kind = "Setpoint" /\ s.activation # None /\ s.activation.id = w.activation
       => w.budget = s.activation.limits

\* What Rust remembers of a motor write w that it has emitted.
Remembers(s, w) ==
  /\ w \in Writes /\ w.emitted
  /\ w.sequence <= s.next_sequence
  /\ s.pending # None /\ w.sequence = s.pending.sequence => w = s.pending
  /\ Issued(w, s)

\* A write in hand goes out after the writes on the wire, and a setpoint is held.
HandIsRight(s, l, onWire, w) ==
  /\ Motor(w) => w.sequence > onWire
  /\ w.kind = "Setpoint" =>
       \/ ReleasePending(s) \/ Exhausted(s)
       \/ /\ Driving(s) /\ s.input.gesture.action = w.action
          /\ s.input.generation = w.generation
          /\ l = w.generation
          /\ w.budget = s.limits
          /\ s.presented = None

-----------------------------------------------------------------------------
(* Gestures. *)

\* No value stands for None in the types of this module.
LEMMA NoneIsNothing ==
  /\ None \notin Activations /\ None \notin Writes
  /\ None \notin Generations /\ None \notin Actions /\ None \notin Budgets
BY InputAssumption, ControlAssumption DEF Generations

\* PhoneDriveInputState::cancel suppresses the gesture and never revives an exhausted epoch.
LEMMA InputCancelFacts ==
  ASSUME NEW i \in InputType, NEW reason
  PROVE  /\ InputCancel(i, reason) \in InputType
         /\ InputCancel(i, reason).mode = i.mode
         /\ InputCancel(i, reason).gesture.phase = "Cancelled"
         /\ i.generation = None => InputCancel(i, reason).generation = None
         /\ \A l : InputKnows(InputCancel(i, reason), l)
<1> DEFINE j == InputCancel(i, reason)
<1>1. ASSUME NEW g \in Generations \cup {None}, NEW x \in GestureType,
             x.phase = "Cancelled", i.generation = None => g = None,
             j = [i EXCEPT !.generation = g, !.gesture = x]
      PROVE  /\ j \in InputType /\ j.mode = i.mode /\ j.gesture.phase = "Cancelled"
             /\ i.generation = None => j.generation = None
  BY <1>1, Zenon DEF InputType
<1>2. \A r : Suppressed(r) \in GestureType /\ Suppressed(r).phase = "Cancelled"
  BY DEF Suppressed, GestureType
<1>3. \/ /\ i.generation \in 1 .. (LastGeneration - 1)
         /\ j = [i EXCEPT !.generation = i.generation + 1, !.gesture = Suppressed(reason)]
      \/ j = [i EXCEPT !.generation = None, !.gesture = Suppressed("GenerationExhausted")]
  BY DEF InputCancel
<1>4. i.generation \in 1 .. (LastGeneration - 1) =>
        i.generation + 1 \in Generations /\ i.generation # None
  BY NoneIsNothing, InputAssumption DEF Generations
<1> HIDE DEF j
<1>5. /\ j \in InputType /\ j.mode = i.mode /\ j.gesture.phase = "Cancelled"
      /\ i.generation = None => j.generation = None
  BY <1>1, <1>2, <1>3, <1>4, Zenon
<1>6. \A l : InputKnows(j, l)
  BY <1>5 DEF InputKnows
<1> QED
  BY <1>5, <1>6 DEF j

\* PhoneDriveInputState::set_mode
LEMMA SetModeFacts ==
  ASSUME NEW i \in InputType, NEW mode \in Modes, NEW l, InputKnows(i, l)
  PROVE  /\ SetMode(i, mode) \in InputType
         /\ SetMode(i, mode).mode = mode
         /\ SetMode(i, mode) = i \/ SetMode(i, mode).gesture.phase = "Cancelled"
         /\ i.generation = None => SetMode(i, mode).generation = None
         /\ InputKnows(SetMode(i, mode), l)
<1>1. CASE i.mode = mode
  BY <1>1 DEF SetMode
<1>2. CASE i.mode # mode
  <2> DEFINE j == [i EXCEPT !.mode = mode]
  <2>1. j \in InputType /\ j.mode = mode /\ j.generation = i.generation
    BY DEF InputType
  <2>2. SetMode(i, mode) = InputCancel(j, "ModeChanged")
    BY <1>2 DEF SetMode
  <2> HIDE DEF j
  <2> QED
    BY <2>1, <2>2, InputCancelFacts
<1> QED
  BY <1>1, <1>2

\* Gesture::observe: idle only by lifting, pressed only from idle or pressed.
LEMMA ObserveFacts ==
  ASSUME NEW g \in GestureType, NEW c \in Contacts,
         g.phase = "Pressed" => g.action # None
  PROVE  /\ Observe(g, c) \in GestureType
         /\ Observe(g, c).phase = "Idle" => c.kind = "Released" /\ Observe(g, c) = Idle
         /\ Observe(g, c).phase = "Pressed" =>
              /\ g.phase \in {"Idle", "Pressed"}
              /\ Observe(g, c).action # None
         /\ c.kind = "Invalid" => Observe(g, c).phase = "Cancelled"
<1>1. /\ c.kind \in {"Single", "Released", "Multiple", "Invalid"}
      /\ c.region \in Actions \cup {None}
      /\ c.kind = "Single" => c.contact \in ContactIds
  BY DEF Contacts, Single, NoSingle
<1>2. /\ Idle \in GestureType /\ Idle.phase = "Idle"
      /\ \A r : Suppressed(r) \in GestureType /\ Suppressed(r).phase = "Cancelled"
      /\ \A k \in ContactIds, a \in Actions :
           /\ Pressed(k, a) \in GestureType
           /\ Pressed(k, a).phase = "Pressed" /\ Pressed(k, a).action = a
  BY DEF Idle, Suppressed, Pressed, GestureType
<1>3. g.phase \in {"Idle", "Pressed", "Cancelled"}
  BY DEF GestureType
<1> QED
  BY <1>1, <1>2, <1>3, NoneIsNothing DEF Observe

-----------------------------------------------------------------------------
(* What a call may do to a session, whatever it is for. *)

\* The identifiers that t hands out are new to s, and what t keeps of s is unchanged.
Goes(s, t) ==
  /\ s.next_sequence <= t.next_sequence
  /\ s.next_activation <= t.next_activation
  /\ \/ t.pending = None
     \/ t.pending = s.pending
     \/ ~t.pending.emitted /\ t.pending.sequence > s.next_sequence /\ Issued(t.pending, t)
  /\ \/ t.activation = None
     \/ /\ s.activation # None
        /\ t.activation.id = s.activation.id /\ t.activation.limits = s.activation.limits
     \/ t.activation.id > s.next_activation

\* Owed: the neutral is pending, or it cannot be numbered.
Owed(s) == ReleasePending(s) \/ Exhausted(s)

\* A pending neutral stays, or fails together with the activation.
Settles(s, t) ==
  ReleasePending(s) =>
    \/ /\ ReleasePending(t)
       /\ t.pending.sequence = s.pending.sequence
       /\ t.pending.submit_before = s.pending.submit_before
    \/ t.pending = None /\ t.activation = None /\ t.input.gesture.phase = "Cancelled"

\* A hold goes on or the neutral is owed.
Releases(s, t) == Driving(s) => Driving(t) \/ Owed(t)

\* A call takes s to t, when the contacts were then last lifted in generation l.
Proper(s, t, l, n) == Coherent(t, l, n) /\ Goes(s, t) /\ Settles(s, t) /\ Releases(s, t)

\* What a write was remembered for, it is remembered for after a call.
LEMMA GoesIssued ==
  ASSUME NEW s \in Sessions, NEW t \in Sessions, Goes(s, t), NEW w \in Writes, Issued(w, s)
  PROVE  Issued(w, t)
<1>1. /\ w.activation \in Nat /\ s.next_activation \in Nat /\ t.next_activation \in Nat
      /\ t.activation # None => t.activation.id \in Nat
  BY DEF Sessions, Writes, Activations
<1>2. w.activation <= t.next_activation
  BY <1>1 DEF Goes, Issued
<1>3. w.kind = "Setpoint" /\ t.activation # None /\ t.activation.id = w.activation
        => w.budget = t.activation.limits
  BY <1>1 DEF Goes, Issued
<1> QED
  BY <1>2, <1>3 DEF Issued

\* A write that was remembered stays remembered.
LEMMA GoesRemembers ==
  ASSUME NEW s \in Sessions, NEW t \in Sessions, Goes(s, t), NEW w, Remembers(s, w)
  PROVE  Remembers(t, w)
<1>1. /\ w.sequence \in Nat /\ s.next_sequence \in Nat /\ t.next_sequence \in Nat
      /\ t.pending # None => t.pending.sequence \in Nat
  BY ControlAssumption DEF Sessions, Writes, Remembers
<1>2. w.sequence <= t.next_sequence
  BY <1>1 DEF Goes, Remembers
<1>3. t.pending # None /\ w.sequence = t.pending.sequence => w = t.pending
  BY <1>1 DEF Goes, Remembers
<1>4. Issued(w, t)
  BY GoesIssued DEF Remembers
<1> QED
  BY <1>2, <1>3, <1>4 DEF Remembers

\* So is the write that is pending.
LEMMA GoesPending ==
  ASSUME NEW s \in Sessions, NEW t \in Sessions, Goes(s, t),
         s.pending # None => Issued(s.pending, s)
  PROVE  t.pending # None => Issued(t.pending, t)
<1>1. s.pending # None => s.pending \in Writes
  BY DEF Sessions
<1>2. t.pending = s.pending \/ t.pending = None \/ Issued(t.pending, t)
  BY DEF Goes
<1> QED
  BY <1>1, <1>2, GoesIssued

\* Steps of the session compose.
LEMMA GoesTransitive ==
  ASSUME NEW s \in Sessions, NEW t \in Sessions, NEW u \in Sessions, Goes(s, t), Goes(t, u)
  PROVE  Goes(s, u)
<1>1. /\ s.next_sequence \in Nat /\ t.next_sequence \in Nat /\ u.next_sequence \in Nat
      /\ s.next_activation \in Nat /\ t.next_activation \in Nat /\ u.next_activation \in Nat
      /\ t.pending # None => t.pending.sequence \in Nat /\ t.pending \in Writes
      /\ t.activation # None => t.activation.id \in Nat
      /\ u.pending # None => u.pending.sequence \in Nat
      /\ u.activation # None => u.activation.id \in Nat
  BY ControlAssumption DEF Sessions, Writes, Activations
<1>2. s.next_sequence <= u.next_sequence /\ s.next_activation <= u.next_activation
  BY <1>1 DEF Goes
<1>3. \/ u.pending = None \/ u.pending = s.pending
      \/ ~u.pending.emitted /\ u.pending.sequence > s.next_sequence /\ Issued(u.pending, u)
  <2>1. CASE u.pending = t.pending /\ t.pending # None /\ t.pending # s.pending
    <3>1. ~t.pending.emitted /\ t.pending.sequence > s.next_sequence /\ Issued(t.pending, t)
      BY <2>1 DEF Goes
    <3>2. Issued(t.pending, u)
      BY <1>1, <2>1, <3>1, GoesIssued
    <3> QED
      BY <2>1, <3>1, <3>2
  <2>2. CASE u.pending = None \/ u.pending = s.pending
    BY <2>2
  <2>3. CASE ~u.pending.emitted /\ u.pending.sequence > t.next_sequence /\ Issued(u.pending, u)
    BY <1>1, <2>3 DEF Goes
  <2> QED
    BY <2>1, <2>2, <2>3 DEF Goes
<1>4. \/ u.activation = None
      \/ /\ s.activation # None
         /\ u.activation.id = s.activation.id /\ u.activation.limits = s.activation.limits
      \/ u.activation.id > s.next_activation
  BY <1>1 DEF Goes
<1> QED
  BY <1>2, <1>3, <1>4 DEF Goes

-----------------------------------------------------------------------------
(* The calls of the session. *)

\* The fields that only the connection, the sheet and telemetry change.
Keeps(s, t) ==
  /\ t.attempt = s.attempt /\ t.verified = s.verified /\ t.eligible = s.eligible
  /\ t.limits = s.limits /\ t.preferences = s.preferences /\ t.presented = s.presented
  /\ t.fault = s.fault /\ t.next_activation = s.next_activation
  /\ t.last_input_at = s.last_input_at

\* Cancelling the input, and retiring the write and the activation with it.
LEMMA CancelInputFacts ==
  ASSUME NEW s \in Sessions, NEW reason
  PROVE  LET c == CancelInput(s, reason)
         IN  /\ c \in Sessions /\ Keeps(s, c)
             /\ c.input = InputCancel(s.input, reason)
             /\ c.activation = s.activation /\ c.pending = s.pending
             /\ c.next_sequence = s.next_sequence
<1>1. InputCancel(s.input, reason) \in InputType
  BY InputCancelFacts DEF Sessions
<1>2. ASSUME NEW i \in InputType, NEW c, c = [s EXCEPT !.input = i]
      PROVE  /\ c \in Sessions /\ Keeps(s, c) /\ c.input = i
             /\ c.activation = s.activation /\ c.pending = s.pending
             /\ c.next_sequence = s.next_sequence
  BY <1>2 DEF Sessions, Keeps
<1>3. CancelInput(s, reason) = [s EXCEPT !.input = InputCancel(s.input, reason)]
  BY DEF CancelInput
<1> QED
  BY <1>1, <1>2, <1>3

\* Retiring drops the activation and the pending write together.
LEMMA RetireFacts ==
  ASSUME NEW s \in Sessions, NEW reason
  PROVE  LET r == Retire(s, reason)
         IN  /\ r \in Sessions /\ Keeps(s, r)
             /\ r.input = InputCancel(s.input, reason)
             /\ r.activation = None /\ r.pending = None
             /\ r.next_sequence = s.next_sequence
<1> DEFINE c == CancelInput(s, reason)
           r == Retire(s, reason)
<1>1. /\ c \in Sessions /\ Keeps(s, c) /\ c.input = InputCancel(s.input, reason)
      /\ c.next_sequence = s.next_sequence
  BY CancelInputFacts
<1>2. r = [c EXCEPT !.activation = None, !.pending = None]
  BY DEF Retire
<1> HIDE DEF c, r
<1>3. /\ r \in Sessions /\ Keeps(s, r) /\ r.input = c.input
      /\ r.activation = None /\ r.pending = None /\ r.next_sequence = c.next_sequence
  BY <1>1, <1>2, Zenon DEF Sessions, Keeps
<1> QED
  BY <1>1, <1>3 DEF r

\* prepare_phone_drive_write does nothing, retires the activation that has run out of
\* sequence numbers, or makes the write with the next number pending.
Prepared(s, p, kind, at) ==
  /\ s.activation # None /\ s.input.generation # None
  /\ p.input = s.input
  /\ p.next_sequence = s.next_sequence + 1 /\ p.next_sequence <= LastSequence
  /\ p.pending # None /\ p.pending.sequence = p.next_sequence /\ ~p.pending.emitted
  /\ p.pending.kind = kind /\ p.pending.submit_before = at + SubmissionWindow
  /\ p.pending.activation = s.activation.id
  /\ kind = "Setpoint" => p.pending.budget = s.activation.limits
  /\ p.activation # None
  /\ p.activation.id = s.activation.id /\ p.activation.limits = s.activation.limits

Retired(s, p) ==
  /\ p.pending = None /\ p.activation = None
  /\ p.input \in InputType /\ p.input.gesture.phase = "Cancelled"
  /\ \A l : InputKnows(p.input, l)
  /\ s.input.generation = None => p.input.generation = None
  /\ p.next_sequence = s.next_sequence

\* prepare_phone_drive_write numbers a write, or retires the activation when it cannot.
LEMMA PrepareFacts ==
  ASSUME NEW s \in Sessions, s.next_sequence <= LastSequence,
         NEW action \in Actions \cup {None}, NEW at \in Nat
  PROVE  LET p == Prepare(s, action, at)
         IN  /\ p \in Sessions /\ Keeps(s, p)
             /\ \/ p = s /\ (s.activation = None \/ s.input.generation = None)
                \/ Retired(s, p) /\ s.next_sequence = LastSequence
                \/ Prepared(s, p, IF action = None THEN "Release" ELSE "Setpoint", at)
<1> DEFINE p == Prepare(s, action, at)
<1>1. CASE s.activation = None
  BY <1>1 DEF Prepare, Keeps
<1>2. CASE s.activation # None /\ s.next_sequence = LastSequence
  <2>1. p = Retire(s, "GenerationExhausted")
    BY <1>2 DEF Prepare
  <2>2. s.input \in InputType
    BY DEF Sessions
  <2> QED
    BY <1>2, <2>1, <2>2, RetireFacts, InputCancelFacts DEF Retired
<1>3. CASE s.activation # None /\ s.next_sequence # LastSequence /\ s.input.generation = None
  BY <1>3 DEF Prepare, Keeps
<1>4. CASE s.activation # None /\ s.next_sequence # LastSequence /\ s.input.generation # None
  <2> DEFINE w == [kind |-> IF action = None THEN "Release" ELSE "Setpoint",
                   activation |-> s.activation.id, sequence |-> s.next_sequence + 1,
                   generation |-> s.input.generation, submit_before |-> at + SubmissionWindow,
                   token |-> s.attempt, action |-> action,
                   budget |-> IF action = None THEN None ELSE s.activation.limits,
                   issued_at |-> at, emitted |-> FALSE]
             due == IF action = None THEN None ELSE at + Cadence
  <2>1. /\ s.activation \in Activations /\ s.activation.id \in Nat
        /\ s.activation.limits \in Budgets
        /\ s.next_sequence \in Nat /\ s.next_sequence + 1 \in 1 .. LastSequence
        /\ s.input.generation \in Generations /\ s.attempt \in Nat
        /\ at + SubmissionWindow \in Nat /\ due \in Nat \cup {None}
    BY <1>4, ControlAssumption DEF Sessions, Activations, InputType
  <2>2. w \in Writes
    BY <2>1 DEF Writes, Generations
  <2>3. p = [s EXCEPT !.next_sequence = s.next_sequence + 1, !.pending = w,
                      !.activation = [s.activation EXCEPT !.next_setpoint_at = due]]
    BY <1>4 DEF Prepare
  <2>4. /\ w.sequence = s.next_sequence + 1 /\ ~w.emitted
        /\ w.kind = (IF action = None THEN "Release" ELSE "Setpoint")
        /\ w.submit_before = at + SubmissionWindow
        /\ w.activation = s.activation.id
        /\ w.kind = "Setpoint" => w.budget = s.activation.limits
    OBVIOUS
  <2> HIDE DEF w, due
  <2>5. /\ [s.activation EXCEPT !.next_setpoint_at = due] \in Activations
        /\ [s.activation EXCEPT !.next_setpoint_at = due].id = s.activation.id
        /\ [s.activation EXCEPT !.next_setpoint_at = due].limits = s.activation.limits
    BY <2>1 DEF Activations
  <2> DEFINE a == [s.activation EXCEPT !.next_setpoint_at = due]
             n == s.next_sequence + 1
  <2>6. n \in Nat /\ w \in Writes \cup {None} /\ a \in Activations \cup {None}
    BY <2>1, <2>2, <2>5
  <2> HIDE DEF p, a, n
  <2>7. p = [s EXCEPT !.next_sequence = n, !.pending = w, !.activation = a]
    BY <2>3 DEF a, n
  <2>8. /\ a \in Activations /\ a.id = s.activation.id /\ a.limits = s.activation.limits
    BY <2>5 DEF a
  <2>9. /\ p.next_sequence = n /\ p.pending = w /\ p.input = s.input /\ p.activation = a
        /\ Keeps(s, p)
    BY <2>7 DEF Sessions, Keeps
  <2>10. p \in Sessions
    BY <2>6, <2>7, Zenon DEF Sessions
  <2> QED
    BY <1>4, <2>1, <2>2, <2>4, <2>8, <2>9, <2>10, NoneIsNothing DEF Prepared, p, n
<1> QED
  BY <1>1, <1>2, <1>3, <1>4

\* cancel_phone_drive: the gesture is suppressed, a pending neutral stays, and without one
\* an activation leaves with the neutral prepared, or with the identifiers exhausted.
Cancels(s, c) ==
  /\ c \in Sessions /\ Keeps(s, c)
  /\ c.input.gesture.phase = "Cancelled" /\ \A l : InputKnows(c.input, l)
  /\ s.input.generation = None => c.input.generation = None
  /\ c.next_sequence <= LastSequence
  /\ s.activation = None =>
       c.activation = None /\ c.pending = s.pending /\ c.next_sequence = s.next_sequence
  /\ s.activation # None => Owed(c)
  /\ c.activation # None => c.activation.id = s.activation.id /\ c.activation.limits = s.activation.limits
  /\ \/ c.pending = s.pending /\ c.next_sequence = s.next_sequence
     \/ /\ ~ReleasePending(s) /\ c.pending = None /\ c.activation = None
        /\ c.next_sequence = s.next_sequence
     \/ /\ ~ReleasePending(s) /\ c.next_sequence = s.next_sequence + 1
        /\ ReleasePending(c) /\ ~c.pending.emitted /\ c.pending.sequence = c.next_sequence
        /\ c.pending.submit_before = s.last_input_at + SubmissionWindow
        /\ s.activation # None /\ c.pending.activation = s.activation.id

\* cancel_phone_drive owes the neutral of the activation it ends.
LEMMA CancelFacts ==
  ASSUME NEW s \in Sessions, s.next_sequence <= LastSequence, NEW reason
  PROVE  Cancels(s, Cancel(s, reason))
<1> DEFINE k == CancelInput(s, reason)
           r == PrepareRelease(k, s.last_input_at)
           c == Cancel(s, reason)
<1> SUFFICES Cancels(s, c)
  OBVIOUS
<1>1. /\ k \in Sessions /\ Keeps(s, k) /\ k.input = InputCancel(s.input, reason)
      /\ k.activation = s.activation /\ k.pending = s.pending
      /\ k.next_sequence = s.next_sequence
  BY CancelInputFacts
<1>2. /\ k.input.gesture.phase = "Cancelled" /\ \A l : InputKnows(k.input, l)
      /\ s.input.generation = None => k.input.generation = None
  <2>1. s.input \in InputType
    BY DEF Sessions
  <2> HIDE DEF k
  <2> QED
    BY <1>1, <2>1, InputCancelFacts
<1>3. s.last_input_at \in Nat /\ s.next_sequence \in Nat
  BY DEF Sessions
<1> HIDE DEF k
<1>4. \/ r = k /\ (ReleasePending(s) \/ s.activation = None \/ k.input.generation = None)
      \/ ~ReleasePending(s) /\ Retired(k, r) /\ k.next_sequence = LastSequence
      \/ ~ReleasePending(s) /\ Prepared(k, r, "Release", s.last_input_at)
  <2>1. ReleasePending(k) = ReleasePending(s)
    BY <1>1 DEF ReleasePending
  <2>2. CASE ReleasePending(s)
    BY <2>1, <2>2 DEF PrepareRelease
  <2>3. CASE ~ReleasePending(s)
    <3>1. r = Prepare(k, None, s.last_input_at)
      BY <2>1, <2>3 DEF PrepareRelease
    <3> QED
      BY <1>1, <1>3, <2>3, <3>1, PrepareFacts, Zenon
  <2> QED
    BY <2>2, <2>3
<1>5. r \in Sessions /\ Keeps(s, r)
  <2>1. r = k \/ r = Prepare(k, None, s.last_input_at)
    BY DEF PrepareRelease
  <2>2. r \in Sessions /\ Keeps(k, r)
    BY <1>1, <1>3, <2>1, PrepareFacts DEF Keeps
  <2> QED
    BY <1>1, <2>2 DEF Keeps
<1> HIDE DEF r
<1>6. c = IF s.activation = None THEN k
          ELSE IF r.activation = None THEN r
          ELSE IF reason \in GestureLocal THEN [r EXCEPT !.activation.next_setpoint_at = None]
          ELSE [r EXCEPT !.activation = None]
  BY DEF Cancel, k, r
<1> HIDE DEF c
<1>7. CASE s.activation = None
  <2>1. c = k
    BY <1>6, <1>7
  <2> QED
    BY <1>1, <1>2, <1>3, <1>7, <2>1 DEF Cancels
<1>8. ASSUME s.activation # None,
             c \in Sessions, Keeps(s, c), c.input = r.input, c.pending = r.pending,
             c.next_sequence = r.next_sequence,
             \/ c.activation = None
             \/ /\ r.activation # None
                /\ c.activation.id = r.activation.id /\ c.activation.limits = r.activation.limits
      PROVE  Cancels(s, c)
  <2>1. /\ c.input.gesture.phase = "Cancelled" /\ \A l : InputKnows(c.input, l)
        /\ s.input.generation = None => c.input.generation = None
        /\ c.next_sequence <= LastSequence
    BY <1>1, <1>2, <1>3, <1>4, <1>8 DEF Retired, Prepared
  <2>2. Owed(c)
    BY <1>1, <1>2, <1>4, <1>8 DEF Retired, Prepared, Owed, ReleasePending, Exhausted
  <2>3. c.activation # None =>
          c.activation.id = s.activation.id /\ c.activation.limits = s.activation.limits
    BY <1>1, <1>4, <1>8 DEF Retired, Prepared
  <2>4. \/ c.pending = s.pending /\ c.next_sequence = s.next_sequence
        \/ /\ ~ReleasePending(s) /\ c.pending = None /\ c.activation = None
           /\ c.next_sequence = s.next_sequence
        \/ /\ ~ReleasePending(s) /\ c.next_sequence = s.next_sequence + 1
           /\ ReleasePending(c) /\ ~c.pending.emitted /\ c.pending.sequence = c.next_sequence
           /\ c.pending.submit_before = s.last_input_at + SubmissionWindow
           /\ s.activation # None /\ c.pending.activation = s.activation.id
    BY <1>1, <1>4, <1>8 DEF Retired, Prepared, ReleasePending
  <2> QED
    BY <1>8, <2>1, <2>2, <2>3, <2>4 DEF Cancels
<1>9. CASE s.activation # None /\ r.activation = None
  <2>1. c = r
    BY <1>6, <1>9
  <2> QED
    BY <1>5, <1>8, <1>9, <2>1
<1>10. CASE s.activation # None /\ r.activation # None
  <2> DEFINE a == IF reason \in GestureLocal THEN [r.activation EXCEPT !.next_setpoint_at = None]
                  ELSE None
  <2>1. c = [r EXCEPT !.activation = a]
    BY <1>6, <1>10
  <2>2. r.activation \in Activations
    BY <1>5, <1>10 DEF Sessions
  <2>3. /\ a \in Activations \cup {None}
        /\ \/ a = None
           \/ a.id = r.activation.id /\ a.limits = r.activation.limits
    BY <2>2 DEF Activations
  <2> HIDE DEF a
  <2>4. /\ c.activation = a /\ c.input = r.input /\ c.pending = r.pending
        /\ c.next_sequence = r.next_sequence /\ Keeps(s, c)
    BY <1>5, <2>1 DEF Sessions, Keeps
  <2>5. c \in Sessions
    BY <1>5, <2>1, <2>3 DEF Sessions
  <2> QED
    BY <1>8, <1>10, <2>3, <2>4, <2>5
<1> QED
  BY <1>7, <1>9, <1>10

\* So a cancellation keeps the session coherent and hands out new identifiers only, and a
\* neutral or a hold is treated as the theorems below say.
LEMMA CancelsFacts ==
  ASSUME NEW s, NEW c, NEW l, NEW m, NEW n, Coherent(s, l, n), Cancels(s, c)
  PROVE  /\ Proper(s, c, m, n)
         /\ Owed(s) => Owed(c)
<1>1. /\ s.next_sequence \in Nat /\ c.next_sequence \in Nat
      /\ s.next_activation \in Nat /\ c.next_activation = s.next_activation
      /\ s.next_sequence <= LastSequence /\ LastSequence \in Nat
  BY ControlAssumption DEF Coherent, Cancels, Sessions, Keeps
<1>2. s.next_sequence <= c.next_sequence
  BY <1>1 DEF Cancels
<1>3. Goes(s, c)
  <2>1. \/ c.pending = None \/ c.pending = s.pending
        \/ ~c.pending.emitted /\ c.pending.sequence > s.next_sequence /\ Issued(c.pending, c)
    BY <1>1 DEF Cancels, ReleasePending, Issued, Coherent
  <2> QED
    BY <1>1, <1>2, <2>1 DEF Cancels, Goes
<1>4. c.pending # None => c.pending.sequence = c.next_sequence
  BY <1>1 DEF Cancels, Coherent, ReleasePending
<1>5. /\ c.activation # None => c.activation.limits = c.limits /\ c.activation.id <= c.next_activation
      /\ c.presented \in {None, c.attempt}
      /\ ~c.verified => c.pending = None /\ c.activation = None
      /\ c.last_input_at <= n
  BY DEF Cancels, Coherent, Keeps
<1>6. ReleasePending(c) => ~Held(c)
  BY DEF Cancels, Held
<1>7. Coherent(c, m, n)
  BY <1>4, <1>5, <1>6 DEF Cancels, Coherent
<1>8. Settles(s, c) /\ Releases(s, c)
  BY DEF Cancels, Settles, Releases, Driving, ReleasePending
<1>9. Owed(s) => Owed(c)
  BY <1>1 DEF Cancels, Owed, ReleasePending, Exhausted
<1> QED
  BY <1>3, <1>7, <1>8, <1>9 DEF Proper

\* What a reason that is not local to the gesture also ends.
LEMMA CancelEnds ==
  ASSUME NEW s \in Sessions, s.next_sequence <= LastSequence,
         NEW reason, reason \notin GestureLocal
  PROVE  Cancel(s, reason).activation = None
<1> DEFINE r == PrepareRelease(CancelInput(s, reason), s.last_input_at)
<1>1. CASE s.activation = None
  BY <1>1, CancelInputFacts DEF Cancel
<1>2. CASE s.activation # None /\ r.activation = None
  BY <1>2 DEF Cancel
<1>3. CASE s.activation # None /\ r.activation # None
  <2>1. Cancel(s, reason) = [r EXCEPT !.activation = None]
    BY <1>3 DEF Cancel
  <2>2. r = CancelInput(s, reason) \/ r = Prepare(CancelInput(s, reason), None, s.last_input_at)
    BY DEF PrepareRelease
  <2>3. /\ CancelInput(s, reason) \in Sessions /\ s.last_input_at \in Nat
        /\ CancelInput(s, reason).next_sequence <= LastSequence
    BY CancelInputFacts DEF Sessions
  <2> HIDE DEF r
  <2>4. r \in Sessions
    BY <2>2, <2>3, PrepareFacts
  <2> QED
    BY <2>1, <2>4 DEF Sessions
<1> QED
  BY <1>1, <1>2, <1>3

\* A call that leaves the control of the motor alone, but for the pending write.
SameControl(s, t) ==
  /\ t.input = s.input /\ t.activation = s.activation
  /\ t.next_sequence = s.next_sequence /\ t.next_activation = s.next_activation
  /\ t.limits = s.limits /\ t.verified = s.verified /\ t.attempt = s.attempt

\* A call that leaves control alone is proper.
LEMMA SameControlFacts ==
  ASSUME NEW s, NEW t \in Sessions, NEW l, NEW n, Coherent(s, l, n), SameControl(s, t),
         t.pending = s.pending, t.presented \in {None, t.attempt}, t.last_input_at <= n
  PROVE  Proper(s, t, l, n)
<1>1. s.next_sequence \in Nat /\ s.next_activation \in Nat
  BY DEF Coherent, Sessions
<1>2. Coherent(t, l, n)
  BY DEF Coherent, SameControl, ReleasePending, Held
<1>3. Goes(s, t)
  BY <1>1 DEF Goes, SameControl
<1>4. Settles(s, t) /\ Releases(s, t)
  BY DEF Settles, Releases, Driving, Held, ReleasePending, SameControl
<1> QED
  BY <1>2, <1>3, <1>4 DEF Proper

\* Retiring a neutral that failed.
LEMMA RetireReleaseFacts ==
  ASSUME NEW s, NEW l, NEW m, NEW n, Coherent(s, l, n), ReleasePending(s), NEW reason
  PROVE  /\ Proper(s, Retire(s, reason), m, n)
         /\ Retire(s, reason).input.gesture.phase = "Cancelled"
         /\ Exhausted(s) => Exhausted(Retire(s, reason))
<1> DEFINE r == Retire(s, reason)
<1>1. s \in Sessions /\ s.input \in InputType /\ s.next_sequence \in Nat /\ s.next_activation \in Nat
  BY DEF Coherent, Sessions
<1>2. /\ r \in Sessions /\ Keeps(s, r) /\ r.input = InputCancel(s.input, reason)
      /\ r.activation = None /\ r.pending = None /\ r.next_sequence = s.next_sequence
  BY <1>1, RetireFacts
<1> HIDE DEF r
<1>3. /\ r.input.gesture.phase = "Cancelled" /\ \A k : InputKnows(r.input, k)
      /\ s.input.generation = None => r.input.generation = None
  BY <1>1, <1>2, InputCancelFacts
<1>4. Coherent(r, m, n)
  BY <1>2, <1>3 DEF Coherent, Keeps, ReleasePending
<1>5. Goes(s, r)
  BY <1>1, <1>2 DEF Goes, Keeps
<1>6. Settles(s, r) /\ Releases(s, r)
  BY <1>2, <1>3 DEF Settles, Releases, Driving, Coherent
<1>7. Exhausted(s) => Exhausted(r)
  BY <1>2, <1>3 DEF Exhausted
<1> QED
  BY <1>3, <1>4, <1>5, <1>6, <1>7 DEF Proper, r

\* Cancelling such a session; a pending neutral may not have been dropped.
LEMMA CancelLateFacts ==
  ASSUME NEW s, NEW l, NEW m, NEW n, Coherent(s, l, n), NEW t \in Sessions, SameControl(s, t),
         t.pending \in {s.pending, None}, ReleasePending(s) => t.pending = s.pending,
         t.presented \in {None, t.attempt}, t.last_input_at <= n, NEW reason
  PROVE  LET c == Cancel(t, reason)
         IN  /\ Cancels(t, c) /\ Proper(s, c, m, n)
             /\ Exhausted(s) => Exhausted(c)
             /\ s.activation # None => Owed(c)
<1> DEFINE c == Cancel(t, reason)
<1>1. s \in Sessions /\ s.next_sequence \in Nat /\ s.next_activation \in Nat
  BY DEF Coherent, Sessions
<1>2. Coherent(t, l, n)
  BY DEF SameControl, Coherent, ReleasePending, Held
<1>3. Cancels(t, c)
  BY <1>2, CancelFacts DEF Coherent
<1> HIDE DEF c
<1>4. Proper(t, c, m, n)
  BY <1>2, <1>3, CancelsFacts
<1>5. Goes(s, t)
  BY <1>1 DEF Goes, SameControl
<1>6. Goes(s, c)
  BY <1>1, <1>3, <1>4, <1>5, GoesTransitive DEF Proper, Cancels
<1>7. Settles(s, c)
  BY <1>4 DEF SameControl, Settles, Proper, ReleasePending
<1>8. Releases(s, c)
  BY <1>4 DEF SameControl, Releases, Proper, Driving, Held
<1>9. Exhausted(s) => Exhausted(c)
  <2>1. c.next_sequence \in Nat /\ LastSequence \in Nat
    BY <1>3, ControlAssumption DEF Cancels, Sessions
  <2> QED
    BY <1>1, <1>3, <2>1 DEF Exhausted, Cancels, SameControl
<1>10. s.activation # None => Owed(c)
  BY <1>3 DEF Cancels, SameControl
<1> QED
  BY <1>3, <1>4, <1>6, <1>7, <1>8, <1>9, <1>10 DEF Proper, c

-----------------------------------------------------------------------------
(* Deadlines. *)

\* advance_phone_drive_deadlines, its first half.  A neutral that it prepares is not late.
LEMMA ExpireInputFacts ==
  ASSUME NEW s, NEW l, NEW n \in Nat, Coherent(s, l, n)
  PROVE  LET t == ExpireInput(s, n)
         IN  /\ Proper(s, t, l, n)
             /\ ReleasePending(s) => t = s
             /\ Exhausted(s) => Exhausted(t)
             /\ Driving(s) =>
                  \/ Driving(t) \/ Exhausted(t)
                  \/ ReleasePending(t) /\ n < t.pending.submit_before
<1> DEFINE t == [s EXCEPT !.last_input_at = n]
           c == Cancel(t, "InputExpired")
<1>1. s \in Sessions /\ s.last_input_at \in Nat
  BY DEF Coherent, Sessions
<1>2. CASE ~InputExpired(s, n)
  <2>1. ExpireInput(s, n) = s
    BY <1>2 DEF ExpireInput
  <2>2. SameControl(s, s)
    BY DEF SameControl
  <2>3. Proper(s, s, l, n)
    BY <1>1, <2>2, SameControlFacts DEF Coherent
  <2> QED
    BY <2>1, <2>3
<1>3. CASE InputExpired(s, n)
  <2>1. Driving(s) /\ ~ReleasePending(s)
    BY <1>3 DEF InputExpired, Driving, Coherent
  <2>2. /\ t \in Sessions /\ SameControl(s, t) /\ t.pending = s.pending
        /\ t.presented = s.presented /\ t.attempt = s.attempt /\ t.last_input_at = n
    BY <1>1 DEF Sessions, SameControl
  <2>3. ExpireInput(s, n) = c
    BY <1>3 DEF ExpireInput
  <2> HIDE DEF t
  <2>4. t.presented \in {None, t.attempt} /\ t.last_input_at <= n
    BY <2>2 DEF Coherent
  <2>5. /\ Cancels(t, c) /\ Proper(s, c, l, n)
        /\ Exhausted(s) => Exhausted(c)
        /\ s.activation # None => Owed(c)
    BY <2>2, <2>4, CancelLateFacts
  <2> HIDE DEF c
  <2>6. ReleasePending(c) => n < c.pending.submit_before
    <3>1. ReleasePending(c) => c.pending.submit_before = n + SubmissionWindow
      BY <2>1, <2>2, <2>5 DEF Cancels, ReleasePending
    <3> QED
      BY <3>1, ControlAssumption
  <2>7. ReleasePending(c) \/ Exhausted(c)
    BY <2>1, <2>5 DEF Owed, Driving
  <2> QED
    BY <2>1, <2>3, <2>5, <2>6, <2>7
<1> QED
  BY <1>2, <1>3

\* Its second half.  A write that is not late stays.
LEMMA ExpireWriteFacts ==
  ASSUME NEW s, NEW l, NEW n \in Nat, Coherent(s, l, n)
  PROVE  LET t == ExpireWrite(s, n)
         IN  /\ Proper(s, t, l, n)
             /\ s.pending # None /\ n < s.pending.submit_before => t = s
             /\ Exhausted(s) => Exhausted(t)
<1> DEFINE t == [s EXCEPT !.pending = None, !.last_input_at = n]
<1>1. s \in Sessions /\ s.next_sequence \in Nat /\ s.next_activation \in Nat
  BY DEF Coherent, Sessions
<1>2. /\ t \in Sessions /\ SameControl(s, t) /\ t.pending = None
      /\ t.presented = s.presented /\ t.attempt = s.attempt /\ t.last_input_at = n
  BY <1>1, Zenon DEF Sessions, SameControl
<1>3. CASE ExpireWrite(s, n) = s
  <2>1. SameControl(s, s)
    BY DEF SameControl
  <2>2. Proper(s, s, l, n)
    BY <1>1, <2>1, SameControlFacts DEF Coherent
  <2> QED
    BY <1>3, <2>2
<1>4. CASE s.pending # None /\ ~(n < s.pending.submit_before) /\ s.pending.kind = "Setpoint"
  <2>1. ExpireWrite(s, n) = Cancel(t, "TransportUnavailable")
    BY <1>4 DEF ExpireWrite
  <2>2. ~ReleasePending(s)
    BY <1>4 DEF ReleasePending
  <2>3. t.presented \in {None, t.attempt} /\ t.last_input_at <= n
    BY <1>2 DEF Coherent
  <2> HIDE DEF t
  <2>4. /\ Proper(s, Cancel(t, "TransportUnavailable"), l, n)
        /\ Exhausted(s) => Exhausted(Cancel(t, "TransportUnavailable"))
    BY <1>2, <2>2, <2>3, CancelLateFacts
  <2> QED
    BY <1>4, <2>1, <2>4
<1>5. CASE s.pending # None /\ ~(n < s.pending.submit_before) /\ s.pending.kind # "Setpoint"
  <2> DEFINE r == Retire(t, "TransportUnavailable")
  <2>1. ExpireWrite(s, n) = r
    BY <1>5 DEF ExpireWrite
  <2>2. ReleasePending(s)
    <3>1. s.pending \in Writes
      BY <1>1, <1>5 DEF Sessions
    <3> QED
      BY <1>5, <3>1 DEF ReleasePending, Writes
  <2>3. t.input = s.input /\ s.input \in InputType
    BY <1>1, <1>2 DEF SameControl, Sessions
  <2> HIDE DEF t
  <2>4. /\ r \in Sessions /\ Keeps(t, r) /\ r.input = InputCancel(t.input, "TransportUnavailable")
        /\ r.activation = None /\ r.pending = None /\ r.next_sequence = t.next_sequence
    BY <1>2, RetireFacts
  <2> HIDE DEF r
  <2>5. /\ r.input.gesture.phase = "Cancelled" /\ \A k : InputKnows(r.input, k)
        /\ s.input.generation = None => r.input.generation = None
    BY <2>3, <2>4, InputCancelFacts
  <2>6. Coherent(r, l, n)
    BY <1>2, <2>4, <2>5 DEF Coherent, Keeps, ReleasePending, SameControl
  <2>7. Goes(s, r)
    BY <1>1, <1>2, <2>4 DEF Goes, Keeps, SameControl
  <2>8. Settles(s, r) /\ Releases(s, r)
    BY <2>2, <2>4, <2>5 DEF Settles, Releases, Driving, Coherent
  <2>9. Exhausted(s) => Exhausted(r)
    BY <1>2, <2>4, <2>5 DEF Exhausted, SameControl
  <2> QED
    BY <1>5, <2>1, <2>6, <2>7, <2>8, <2>9 DEF Proper
<1>6. ExpireWrite(s, n) = s \/ (s.pending # None /\ ~(n < s.pending.submit_before))
  BY DEF ExpireWrite
<1> QED
  BY <1>3, <1>4, <1>5, <1>6

\* The two together.  A neutral that is not late stays, and so does the exhaustion.
Advances(s, t, l, n) ==
  /\ Proper(s, t, l, n)
  /\ ReleasePending(s) /\ n < s.pending.submit_before =>
       /\ ReleasePending(t)
       /\ t.pending.sequence = s.pending.sequence
       /\ t.pending.submit_before = s.pending.submit_before
  /\ Exhausted(s) => Exhausted(t)

\* advance_phone_drive_deadlines.
LEMMA AdvanceDeadlinesFacts ==
  ASSUME NEW s, NEW l, NEW n \in Nat, Coherent(s, l, n)
  PROVE  Advances(s, AdvanceDeadlines(s, n), l, n)
<1> DEFINE t == ExpireInput(s, n)
           u == ExpireWrite(t, n)
<1>1. /\ Proper(s, t, l, n)
      /\ ReleasePending(s) => t = s
      /\ Exhausted(s) => Exhausted(t)
      /\ Driving(s) => \/ Driving(t) \/ Exhausted(t)
                       \/ ReleasePending(t) /\ n < t.pending.submit_before
  BY ExpireInputFacts
<1>2. AdvanceDeadlines(s, n) = u
  BY DEF AdvanceDeadlines
<1> HIDE DEF t
<1>3. /\ Proper(t, u, l, n)
      /\ t.pending # None /\ n < t.pending.submit_before => u = t
      /\ Exhausted(t) => Exhausted(u)
  BY <1>1, ExpireWriteFacts, Zenon DEF Proper
<1> HIDE DEF u
<1>4. Goes(s, u)
  BY <1>1, <1>3, GoesTransitive DEF Proper, Coherent
<1>5. Settles(s, u)
  BY <1>1, <1>3 DEF Proper, Settles
<1>6. Releases(s, u)
  BY <1>1, <1>3 DEF Proper, Releases, Owed, ReleasePending
<1>7. Exhausted(s) => Exhausted(u)
  BY <1>1, <1>3
<1>8. ReleasePending(s) /\ n < s.pending.submit_before => u = s
  BY <1>1, <1>3, Zenon DEF ReleasePending
<1> QED
  BY <1>2, <1>3, <1>4, <1>5, <1>6, <1>7, <1>8 DEF Advances, Proper

\* Preparing a write while no neutral is pending; a neutral is owed by any activation.
LEMMA PrepareProper ==
  ASSUME NEW s, NEW l, NEW n, Coherent(s, l, n), ~ReleasePending(s),
         NEW action \in Actions \cup {None}, action = None => ~Held(s), NEW at \in Nat
  PROVE  LET p == Prepare(s, action, at)
         IN  /\ Proper(s, p, l, n)
             /\ Exhausted(s) => Exhausted(p)
             /\ s.activation # None /\ action = None => Owed(p)
<1> DEFINE p == Prepare(s, action, at)
           kind == IF action = None THEN "Release" ELSE "Setpoint"
<1>1. /\ s \in Sessions /\ s.next_sequence \in Nat /\ s.next_activation \in Nat
      /\ s.next_sequence <= LastSequence /\ LastSequence \in Nat
  BY ControlAssumption, Zenon DEF Coherent, Sessions
<1>2. /\ p \in Sessions /\ Keeps(s, p)
      /\ \/ p = s /\ (s.activation = None \/ s.input.generation = None)
         \/ Retired(s, p) /\ s.next_sequence = LastSequence
         \/ Prepared(s, p, kind, at)
  BY <1>1, PrepareFacts
<1> HIDE DEF p
<1>3. CASE p = s /\ (s.activation = None \/ s.input.generation = None)
  <2>1. SameControl(s, s)
    BY DEF SameControl
  <2>2. s.presented \in {None, s.attempt} /\ s.last_input_at <= n
    BY DEF Coherent
  <2>3. Proper(s, s, l, n)
    BY <1>1, <2>1, <2>2, SameControlFacts
  <2> QED
    BY <1>3, <2>3 DEF Owed, Exhausted, p
<1>4. CASE Retired(s, p) /\ s.next_sequence = LastSequence
  <2>1. Coherent(p, l, n)
    BY <1>1, <1>2, <1>4, Zenon DEF Retired, Coherent, Keeps, ReleasePending
  <2>2. Goes(s, p)
    BY <1>1, <1>2, <1>4 DEF Retired, Goes, Keeps
  <2>3. Exhausted(p)
    BY <1>4, Zenon DEF Exhausted, Retired
  <2> QED
    BY <2>1, <2>2, <2>3, Zenon DEF Proper, Settles, Releases, Owed, p
<1>5. CASE Prepared(s, p, kind, at)
  <2>1. p.pending \in Writes /\ p.activation \in Activations
    BY <1>2, <1>5, Zenon DEF Prepared, Sessions
  <2>2. Goes(s, p)
    <3>1. Issued(p.pending, p)
      BY <1>2, <1>5 DEF Prepared, Issued, Keeps, Coherent
    <3> QED
      BY <1>1, <1>2, <1>5, <3>1 DEF Prepared, Goes, Keeps
  <2>3. ReleasePending(p) => ~Held(p)
    BY <1>5, Zenon DEF Prepared, ReleasePending, Held
  <2>4. Coherent(p, l, n)
    BY <1>1, <1>2, <1>5, <2>3 DEF Prepared, Coherent, Keeps
  <2>5. Driving(s) => Driving(p)
    BY <1>5 DEF Prepared, Driving, Held
  <2>6. ~Exhausted(s)
    BY <1>1, <1>5 DEF Prepared, Exhausted
  <2>7. action = None => ReleasePending(p)
    BY <1>5 DEF Prepared, ReleasePending
  <2> QED
    BY <2>2, <2>4, <2>5, <2>6, <2>7 DEF Proper, Settles, Releases, Owed, p
<1> QED
  BY <1>2, <1>3, <1>4, <1>5

\* phone_drive_step: only the time of the call is recorded.
LEMMA SteppedFacts ==
  ASSUME NEW s, NEW l, NEW n \in Nat, Coherent(s, l, n)
  PROVE  LET t == Stepped(s, n)
         IN  /\ t \in Sessions /\ SameControl(s, t) /\ t.pending = s.pending
             /\ t.presented = s.presented /\ t.last_input_at = n
             /\ Proper(s, t, l, n)
             /\ t.eligible = s.eligible /\ t.preferences = s.preferences /\ t.fault = s.fault
<1> DEFINE t == Stepped(s, n)
<1>1. s \in Sessions /\ s.last_input_at \in Nat /\ s.last_input_at <= n
  BY DEF Coherent, Sessions
<1>2. Later(s.last_input_at, n) = n
  BY <1>1 DEF Later
<1>3. t = [s EXCEPT !.last_input_at = n]
  BY <1>2 DEF Stepped
<1> HIDE DEF t
<1>4. /\ t \in Sessions /\ SameControl(s, t) /\ t.pending = s.pending
      /\ t.presented = s.presented /\ t.last_input_at = n /\ t.attempt = s.attempt
      /\ t.eligible = s.eligible /\ t.preferences = s.preferences /\ t.fault = s.fault
  BY <1>1, <1>3 DEF Sessions, SameControl
<1>5. t.presented \in {None, t.attempt} /\ t.last_input_at <= n
  BY <1>4 DEF Coherent
<1>6. Proper(s, t, l, n)
  BY <1>4, <1>5, SameControlFacts
<1> QED
  BY <1>4, <1>6 DEF t

\* tick_phone_drive
LEMMA TickFacts ==
  ASSUME NEW s, NEW l, NEW n \in Nat, Coherent(s, l, n), NEW token, NEW can
  PROVE  Advances(s, Tick(s, token, n, can), l, n)
<1> DEFINE a == AdvanceDeadlines(s, n)
           p == Prepare(a, a.input.gesture.action, n)
           b == IF can /\ CadenceDue(a, n) THEN p ELSE a
           t == Stepped(b, n)
<1>1. s \in Sessions /\ s.last_input_at \in Nat /\ s.last_input_at <= n
  BY DEF Coherent, Sessions
<1>2. Later(n, s.last_input_at) = n /\ ~(n < s.last_input_at)
  BY <1>1 DEF Later
<1>3. Tick(s, token, n, can) = IF ~IsVerified(s, token) THEN s ELSE t
  BY <1>2 DEF Tick
<1>4. Advances(s, a, l, n)
  BY AdvanceDeadlinesFacts, Zenon
<1>5. a \in Sessions /\ Coherent(a, l, n)
  BY <1>4 DEF Advances, Proper, Coherent
<1> HIDE DEF a
<1>6. Advances(s, b, l, n)
  <2>1. CASE can /\ CadenceDue(a, n)
    <3>1. a.pending = None /\ a.activation # None /\ Held(a) /\ ~ReleasePending(a)
      BY <2>1 DEF CadenceDue, ReleasePending
    <3>2. a.input.gesture.action \in Actions
      <4>1. a.input.gesture.action # None
        BY <1>5, <3>1 DEF Coherent, InputKnows, Held
      <4>2. a.input.gesture.action \in Actions \cup {None}
        BY <1>5 DEF Sessions, InputType, GestureType
      <4> QED
        BY <4>1, <4>2
    <3>3. Proper(a, p, l, n) /\ (Exhausted(a) => Exhausted(p))
      BY <1>5, <3>1, <3>2, PrepareProper, NoneIsNothing, Zenon
    <3> HIDE DEF p
    <3>4. Goes(s, p)
      BY <1>1, <1>4, <1>5, <3>3, GoesTransitive DEF Advances, Proper, Coherent
    <3>5. ~ReleasePending(s)
      BY <1>4, <3>1 DEF Advances, Proper, Settles, Held, ReleasePending
    <3>6. Releases(s, p)
      BY <1>4, <3>1, <3>3 DEF Proper, Releases, Driving
    <3>7. Exhausted(s) => Exhausted(p)
      BY <1>4, <3>3, Zenon DEF Advances
    <3>8. Advances(s, p, l, n)
      BY <3>3, <3>4, <3>5, <3>6, <3>7 DEF Advances, Proper, Settles
    <3> QED
      BY <2>1, <3>8
  <2>2. CASE ~(can /\ CadenceDue(a, n))
    BY <1>4, <2>2, SMTT(30)
  <2> QED
    BY <2>1, <2>2
<1>7. b \in Sessions /\ Coherent(b, l, n)
  BY <1>6, Zenon DEF Advances, Proper, Coherent
<1> HIDE DEF b
<1>8. /\ t \in Sessions /\ SameControl(b, t) /\ t.pending = b.pending /\ Proper(b, t, l, n)
  BY <1>7, SteppedFacts, Zenon
<1> HIDE DEF t
<1>9. Advances(s, t, l, n)
  <2>1. Goes(s, t)
    BY <1>1, <1>6, <1>7, <1>8, GoesTransitive, Zenon DEF Advances, Proper
  <2>2. Settles(s, t)
    BY <1>6, <1>8, Zenon DEF Advances, Proper, Settles, SameControl, ReleasePending
  <2>3. Releases(s, t)
    BY <1>6, <1>8
    DEF Advances, Proper, Releases, SameControl, ReleasePending, Owed, Exhausted, Driving, Held
  <2>4. Exhausted(s) => Exhausted(t)
    BY <1>6, <1>8 DEF Advances, SameControl, Exhausted
  <2>5. ReleasePending(s) /\ n < s.pending.submit_before =>
          /\ ReleasePending(t)
          /\ t.pending.sequence = s.pending.sequence
          /\ t.pending.submit_before = s.pending.submit_before
    BY <1>6, <1>8 DEF Advances, ReleasePending
  <2> QED
    BY <1>8, <2>1, <2>2, <2>3, <2>4, <2>5 DEF Advances, Proper
<1>10. Advances(s, s, l, n)
  <2>1. SameControl(s, s) /\ s.presented \in {None, s.attempt}
    BY DEF SameControl, Coherent
  <2>2. Proper(s, s, l, n)
    BY <1>1, <2>1, SameControlFacts, Zenon
  <2> QED
    BY <2>2 DEF Advances
<1> QED
  BY <1>3, <1>9, <1>10

\* cancel_phone_drive_at, with the neutral not yet late.
LEMMA CancelAtFacts ==
  ASSUME NEW s, NEW l, NEW m, NEW n \in Nat, Coherent(s, l, n), NEW t \in Sessions,
         SameControl(s, t), t.pending \in {s.pending, None},
         ReleasePending(s) => t.pending = s.pending,
         t.presented \in {None, t.attempt}, t.last_input_at <= n, NEW reason
  PROVE  LET c == CancelAt(t, reason, n)
         IN  /\ Proper(s, c, m, n)
             /\ Exhausted(s) => Exhausted(c)
             /\ ReleasePending(s) => c.pending = s.pending
             /\ c.pending \in {t.pending, None} \/ ~c.pending.emitted
             /\ Driving(s) =>
                  \/ Exhausted(c)
                  \/ ReleasePending(c) /\ n < c.pending.submit_before
<1> DEFINE u == [t EXCEPT !.last_input_at = n]
           c == Cancel(u, reason)
<1>1. Later(t.last_input_at, n) = n
  <2>1. t.last_input_at \in Nat
    BY DEF Sessions
  <2> QED
    BY <2>1 DEF Later
<1>2. CancelAt(t, reason, n) = c
  BY <1>1 DEF CancelAt
<1>3. /\ u \in Sessions /\ SameControl(s, u) /\ u.pending = t.pending
      /\ u.presented = t.presented /\ u.attempt = t.attempt /\ u.last_input_at = n
  BY DEF Sessions, SameControl
<1>4. u.presented \in {None, u.attempt} /\ u.last_input_at <= n
  BY <1>3
<1> HIDE DEF u
<1>5. /\ Cancels(u, c) /\ Proper(s, c, m, n)
      /\ Exhausted(s) => Exhausted(c)
      /\ s.activation # None => Owed(c)
  BY <1>3, <1>4, CancelLateFacts, Zenon
<1> HIDE DEF c
<1>6. /\ ReleasePending(s) => c.pending = s.pending
      /\ c.pending \in {t.pending, None} \/ ~c.pending.emitted
  BY <1>3, <1>5 DEF Cancels, ReleasePending
<1>7. ASSUME Driving(s), ~Exhausted(c)
      PROVE  ReleasePending(c) /\ n < c.pending.submit_before
  <2>1. ReleasePending(c) /\ ~ReleasePending(u)
    BY <1>3, <1>5, <1>7, Zenon DEF Driving, Owed, Coherent, ReleasePending
  <2>2. c.pending.submit_before = n + SubmissionWindow
    BY <1>3, <1>5, <2>1 DEF Cancels, ReleasePending
  <2> QED
    BY <2>1, <2>2, ControlAssumption
<1> QED
  BY <1>2, <1>5, <1>6, <1>7

\* activate_phone_drive
LEMMA ActivateFacts ==
  ASSUME NEW s, NEW l, NEW n \in Nat, Coherent(s, l, n), NEW token, NEW generation, NEW busy
  PROVE  Proper(s, Activate(s, token, generation, busy, n), l, n)
<1> DEFINE e == IF ReleasePending(s) THEN Retire(s, "TransportUnavailable") ELSE s
           f == CancelInput(s, "ActivationChanged")
           new == [id |-> s.next_activation + 1, limits |-> s.limits,
                   observed_at |-> None, next_setpoint_at |-> None]
           next == f.next_activation + 1
           g == [f EXCEPT !.next_activation = next, !.pending = None, !.last_input_at = n,
                          !.activation = new]
           t == Activate(s, token, generation, busy, n)
<1> SUFFICES Proper(s, t, l, n)
  OBVIOUS
<1>1. /\ s \in Sessions /\ s.next_activation \in Nat /\ s.next_sequence \in Nat
      /\ s.limits \in Budgets /\ s.input \in InputType
      /\ s.presented \in {None, s.attempt} /\ s.last_input_at <= n
  BY DEF Coherent, Sessions
<1>2. Proper(s, s, l, n)
  <2>1. SameControl(s, s)
    BY DEF SameControl
  <2> QED
    BY <1>1, <2>1, SameControlFacts
<1>3. Proper(s, e, l, n)
  BY <1>2, RetireReleaseFacts
<1>4. e.input.gesture.phase = "Idle" => e = s /\ ~ReleasePending(s) /\ ~Held(s)
  BY RetireReleaseFacts DEF Held
<1>5. \/ t = s \/ t = e
      \/ e.input.gesture.phase = "Idle" /\ (t = f \/ (t = g /\ s.verified))
  BY <1>4, Zenon DEF Activate, IsVerified
<1>6. /\ f \in Sessions /\ Keeps(s, f) /\ f.input = InputCancel(s.input, "ActivationChanged")
      /\ f.activation = s.activation /\ f.pending = s.pending
      /\ f.next_sequence = s.next_sequence
  BY <1>1, CancelInputFacts
<1> HIDE DEF f
<1>7. f.input.gesture.phase = "Cancelled" /\ \A k : InputKnows(f.input, k)
  BY <1>1, <1>6, InputCancelFacts
<1>8. ASSUME ~ReleasePending(s), ~Held(s)
      PROVE  Proper(s, f, l, n)
  <2>1. Coherent(f, l, n)
    BY <1>1, <1>6, <1>7, Zenon DEF Coherent, Keeps, ReleasePending, Held
  <2>2. Goes(s, f)
    BY <1>1, <1>6 DEF Goes, Keeps
  <2> QED
    BY <1>8, <2>1, <2>2, Zenon DEF Proper, Settles, Releases, Driving
<1>9. ASSUME ~ReleasePending(s), ~Held(s), s.verified
      PROVE  Proper(s, g, l, n)
  <2>1. /\ new \in Activations /\ new.id = s.next_activation + 1 /\ new.limits = s.limits
        /\ next = s.next_activation + 1 /\ next \in Nat
    BY <1>1, <1>6 DEF Activations, Keeps
  <2> HIDE DEF new, next
  <2>2. g \in Sessions
    BY <1>6, <2>1, Zenon DEF Sessions
  <2>3. /\ g.activation = new /\ g.pending = None /\ g.next_activation = next
        /\ g.last_input_at = n /\ g.input = f.input /\ g.next_sequence = f.next_sequence
        /\ g.limits = f.limits /\ g.verified = f.verified /\ g.presented = f.presented
        /\ g.attempt = f.attempt
    BY <1>6 DEF Sessions
  <2> HIDE DEF g
  <2>4. Coherent(g, l, n)
    BY <1>1, <1>6, <1>7, <1>9, <2>1, <2>2, <2>3 DEF Coherent, Keeps, ReleasePending
  <2>5. Goes(s, g)
    BY <1>1, <1>6, <2>1, <2>3 DEF Goes
  <2> QED
    BY <1>9, <2>4, <2>5 DEF Proper, Settles, Releases, Driving
<1> HIDE DEF e, g, t
<1> QED
  BY <1>2, <1>3, <1>4, <1>5, <1>8, <1>9

-----------------------------------------------------------------------------
(* Contacts. *)

\* When the contacts have been lifted in the current generation, that may be recorded, and
\* a suppressed gesture does not depend on it.
LEMMA CoherentLifted ==
  ASSUME NEW s, NEW l, NEW n, Coherent(s, l, n)
  PROVE  /\ Coherent(s, s.input.generation, n)
         /\ s.input.gesture.phase = "Cancelled" => \A m : Coherent(s, m, n)
BY Zenon DEF Coherent, InputKnows

\* PhoneDriveInputState::observe
LEMMA InputObserveFacts ==
  ASSUME NEW i \in InputType, NEW l, InputKnows(i, l), NEW generation, generation # None,
         NEW c \in Contacts
  PROVE  LET j == InputObserve(i, generation, c)
         IN  /\ j \in InputType /\ j.mode = i.mode /\ j.generation = i.generation
             /\ InputKnows(j, IF c.kind = "Released" /\ j.gesture = Idle THEN j.generation ELSE l)
             /\ j # i /\ c.kind = "Invalid" => j.gesture.phase = "Cancelled"
<1> DEFINE g == Observe(i.gesture, c)
           j == InputObserve(i, generation, c)
<1>1. CASE i.mode = "Disabled" \/ i.generation # generation
  <2>1. j = i
    BY <1>1 DEF InputObserve
  <2> QED
    BY <2>1 DEF InputKnows
<1>2. CASE i.mode # "Disabled" /\ i.generation = generation
  <2>1. j = [i EXCEPT !.gesture = g]
    BY <1>2 DEF InputObserve
  <2>2. i.gesture \in GestureType /\ (i.gesture.phase = "Pressed" => i.gesture.action # None)
    BY DEF InputType, InputKnows
  <2>3. /\ g \in GestureType
        /\ g.phase = "Idle" => c.kind = "Released" /\ g = Idle
        /\ g.phase = "Pressed" => i.gesture.phase \in {"Idle", "Pressed"} /\ g.action # None
        /\ c.kind = "Invalid" => g.phase = "Cancelled"
    BY <2>2, ObserveFacts
  <2>4. g.phase \in {"Idle", "Pressed", "Cancelled"} /\ Idle.phase = "Idle"
    BY <2>3 DEF GestureType, Idle
  <2> HIDE DEF g
  <2>5. j \in InputType /\ j.mode = i.mode /\ j.generation = i.generation /\ j.gesture = g
    BY <2>1, <2>3 DEF InputType
  <2> HIDE DEF j
  <2>6. InputKnows(j, IF c.kind = "Released" /\ j.gesture = Idle THEN j.generation ELSE l)
    BY <1>2, <2>3, <2>4, <2>5, Zenon DEF InputKnows
  <2> QED
    BY <2>3, <2>5, <2>6 DEF j
<1> QED
  BY <1>1, <1>2, Zenon

\* The input after a contact: nothing is pressed while a neutral is pending.
LEMMA PressFacts ==
  ASSUME NEW s, NEW l, NEW n, Coherent(s, l, n), NEW generation, generation # None,
         NEW c \in Contacts
  PROVE  LET i == Press(s, generation, c)
         IN  /\ i \in InputType /\ i.mode = s.input.mode /\ i.generation = s.input.generation
             /\ InputKnows(i, IF c.kind = "Released" /\ i.gesture = Idle THEN i.generation ELSE l)
             /\ ReleasePending(s) => i.gesture.phase # "Pressed"
<1> DEFINE i == IF Available(s) THEN InputObserve(s.input, generation, c) ELSE s.input
           j == InputObserve(i, generation, NoSingle("Invalid"))
           lift(k) == IF c.kind = "Released" /\ k.gesture = Idle THEN k.generation ELSE l
<1>1. s.input \in InputType /\ InputKnows(s.input, l) /\ (ReleasePending(s) => ~Held(s))
  BY DEF Coherent, Sessions
<1>2. /\ i \in InputType /\ i.mode = s.input.mode /\ i.generation = s.input.generation
      /\ InputKnows(i, lift(i))
  <2>1. CASE Available(s)
    BY <1>1, <2>1, InputObserveFacts
  <2>2. CASE ~Available(s)
    BY <1>1, <2>2, Zenon DEF InputKnows
  <2> QED
    BY <2>1, <2>2, Zenon
<1>3. NoSingle("Invalid") \in Contacts /\ NoSingle("Invalid").kind = "Invalid"
  BY DEF Contacts, NoSingle
<1>4. i.gesture.phase = "Pressed" => i.gesture # Idle
  BY DEF Idle
<1>5. CASE i.gesture.phase = "Pressed" /\ ReleasePending(s)
  <2>1. Press(s, generation, c) = j
    BY <1>5 DEF Press
  <2>2. i # s.input
    BY <1>1, <1>5 DEF Held
  <2>3. i.mode # "Disabled" /\ i.generation = generation
    BY <2>2 DEF InputObserve, InputType
  <2> HIDE DEF i
  <2>4. /\ j \in InputType /\ j.mode = i.mode /\ j.generation = i.generation
        /\ InputKnows(i, l)
    BY <1>2, <1>3, <1>4, <1>5, InputObserveFacts, ZenonT(40)
  <2>5. j.gesture.phase = "Cancelled"
    <3>1. j = [i EXCEPT !.gesture = Observe(i.gesture, NoSingle("Invalid"))]
      BY <2>3 DEF InputObserve
    <3>2. i.gesture \in GestureType /\ i.gesture.action # None
      BY <1>2, <1>5, <2>4 DEF InputType, InputKnows
    <3>3. Observe(i.gesture, NoSingle("Invalid")).phase = "Cancelled"
      BY <1>3, <3>2, ObserveFacts
    <3>4. j.gesture = Observe(i.gesture, NoSingle("Invalid"))
      BY <1>2, <3>1 DEF InputType
    <3> QED
      BY <3>3, <3>4
  <2> HIDE DEF j
  <2>6. InputKnows(j, lift(j))
    BY <2>5 DEF InputKnows
  <2> QED
    BY <1>2, <2>1, <2>4, <2>5, <2>6, Zenon
<1>6. CASE ~(i.gesture.phase = "Pressed" /\ ReleasePending(s))
  <2>1. Press(s, generation, c) = i
    BY <1>6, SMTT(30) DEF Press
  <2> HIDE DEF i
  <2> QED
    BY <1>2, <1>6, <2>1, Zenon
<1> QED
  BY <1>5, <1>6, Zenon

\* What an activation answers to a change of the gesture from b.
LEMMA RespondFacts ==
  ASSUME NEW s, NEW l, NEW n \in Nat, Coherent(s, l, n), s.activation # None, NEW b,
         b.phase = "Pressed" => ~ReleasePending(s)
  PROVE  LET t == Respond(s, b, n)
         IN  /\ Coherent(t, l, n) /\ Goes(s, t) /\ Settles(s, t)
             /\ b.phase = "Pressed" => Driving(t) \/ Owed(t)
             /\ t.input = s.input \/ t.input.gesture.phase = "Cancelled"
<1> DEFINE a == [s.activation EXCEPT !.next_setpoint_at = None]
           q == [s EXCEPT !.activation = a]
           g == s.input.gesture
           t == Respond(s, b, n)
<1>1. /\ s \in Sessions /\ s.activation \in Activations /\ s.next_sequence \in Nat
      /\ s.next_activation \in Nat /\ s.input \in InputType /\ g \in GestureType
      /\ s.last_input_at <= n /\ s.presented \in {None, s.attempt}
  BY Zenon DEF Coherent, Sessions, InputType
<1>2. a \in Activations /\ a.id = s.activation.id /\ a.limits = s.activation.limits
  BY <1>1 DEF Activations
<1>3. q = [s EXCEPT !.activation.next_setpoint_at = None]
  BY SMTT(30)
<1>4. g.phase \in {"Idle", "Pressed", "Cancelled"} /\ g.action \in Actions \cup {None}
  BY <1>1, Zenon DEF GestureType
<1>5. \/ t = s /\ (g.phase = "Pressed")
      \/ t = Prepare(s, g.action, n) /\ g.phase = "Pressed"
      \/ t = Prepare(q, None, n) /\ b.phase = "Pressed" /\ ~Held(s)
      \/ t = q /\ ~Held(s) /\ b.phase # "Pressed"
      \/ t = PrepareRelease(q, n) /\ ~Held(s)
      \/ t = Cancel(q, "TouchCancelled")
  BY <1>3, <1>4 DEF Respond, Held
<1> HIDE DEF a
<1>6. /\ q \in Sessions /\ q.activation = a /\ q.input = s.input /\ q.pending = s.pending
      /\ q.next_sequence = s.next_sequence /\ q.next_activation = s.next_activation
      /\ q.limits = s.limits /\ q.verified = s.verified /\ q.attempt = s.attempt
      /\ q.presented = s.presented /\ q.last_input_at = s.last_input_at
  BY <1>1, <1>2 DEF Sessions
<1> HIDE DEF q, t
<1>7. /\ Coherent(q, l, n) /\ Goes(s, q) /\ ReleasePending(q) = ReleasePending(s)
      /\ Held(q) = Held(s) /\ q.activation # None
  <2>1. ReleasePending(q) = ReleasePending(s) /\ Held(q) = Held(s)
    BY <1>6 DEF ReleasePending, Held
  <2>2. q.activation # None
    BY <1>2, <1>6, NoneIsNothing, Zenon
  <2>3. Coherent(q, l, n)
    BY <1>2, <1>6, <2>1, Zenon DEF Coherent
  <2>4. Goes(s, q)
    BY <1>1, <1>2, <1>6 DEF Goes
  <2> QED
    BY <2>1, <2>2, <2>3, <2>4
<1>8. Proper(s, s, l, n)
  <2>1. SameControl(s, s)
    BY Zenon DEF SameControl
  <2> QED
    BY <1>1, <2>1, SameControlFacts
<1>9. CASE t = s /\ g.phase = "Pressed"
  BY <1>8, <1>9, Zenon DEF Proper, Driving, Held, t
<1>10. CASE t = Prepare(s, g.action, n) /\ g.phase = "Pressed"
  <2>1. Held(s) /\ ~ReleasePending(s) /\ g.action # None
    BY <1>10 DEF Held, Coherent, InputKnows
  <2>2. Proper(s, t, l, n)
    BY <1>4, <1>10, <2>1, PrepareProper, Zenon
  <2>3. t.input = s.input \/ t.input.gesture.phase = "Cancelled"
    BY <1>1, <1>4, <1>10, PrepareFacts DEF Retired, Prepared, Coherent
  <2>4. Driving(t) \/ Owed(t)
    BY <2>1, <2>2, Zenon DEF Proper, Releases, Driving
  <2> QED
    BY <2>2, <2>3, <2>4, Zenon DEF Proper, t
<1>11. ASSUME t = Prepare(q, None, n), ~Held(s), ~ReleasePending(s)
       PROVE  /\ Coherent(t, l, n) /\ Goes(s, t) /\ Settles(s, t) /\ Owed(t)
              /\ t.input = s.input \/ t.input.gesture.phase = "Cancelled"
  <2>1. Proper(q, t, l, n) /\ Owed(t)
    BY <1>7, <1>11, PrepareProper, SMTT(30)
  <2>2. t.input = s.input \/ t.input.gesture.phase = "Cancelled"
    <3>1. q.next_sequence <= LastSequence
      BY <1>7, Zenon DEF Coherent
    <3> QED
      BY <1>6, <1>11, <3>1, PrepareFacts, Zenon DEF Retired, Prepared
  <2>3. Goes(s, t)
    BY <1>1, <1>6, <1>7, <2>1, GoesTransitive, Zenon DEF Proper, Coherent
  <2> QED
    BY <1>11, <2>1, <2>2, <2>3 DEF Proper, Settles
<1>12. CASE t = q /\ ~Held(s) /\ b.phase # "Pressed"
  BY <1>6, <1>7, <1>12, Zenon DEF Settles, ReleasePending, t
<1>13. CASE t = PrepareRelease(q, n) /\ ~Held(s)
  <2>1. CASE ReleasePending(s)
    <3>1. t = q
      BY <1>7, <1>13, <2>1 DEF PrepareRelease
    <3>2. Settles(s, q)
      BY <1>6, Zenon DEF Settles, ReleasePending
    <3> QED
      BY <1>6, <1>7, <2>1, <3>1, <3>2 DEF t
  <2>2. CASE ~ReleasePending(s)
    <3>1. t = Prepare(q, None, n)
      BY <1>7, <1>13, <2>2, SMTT(30) DEF PrepareRelease
    <3> QED
      BY <1>11, <1>13, <2>2, <3>1 DEF t
  <2> QED
    BY <2>1, <2>2, Zenon
<1>14. CASE t = Cancel(q, "TouchCancelled")
  <2>1. Cancels(q, t)
    BY <1>6, <1>7, <1>14, CancelFacts, Zenon DEF Coherent
  <2>2. Proper(q, t, l, n)
    BY <1>7, <2>1, CancelsFacts, Zenon
  <2>3. Goes(s, t)
    BY <1>1, <1>6, <1>7, <2>2, GoesTransitive, Zenon DEF Proper, Coherent
  <2>4. Settles(s, t)
    BY <1>6, <2>2 DEF Proper, Settles, ReleasePending
  <2> QED
    BY <1>7, <2>1, <2>2, <2>3, <2>4, ZenonT(40) DEF Proper, Cancels, t
<1> QED
  BY <1>5, <1>9, <1>10, <1>11, <1>12, <1>13, <1>14, ZenonT(40) DEF t

\* observe_phone_drive_contacts_at.  The exception is a contact that is too old, when the
\* neutral it is owed is late too.
LEMMA ObserveContactsFacts ==
  ASSUME NEW s, NEW l, NEW n \in Nat, Coherent(s, l, n), NEW token,
         NEW generation, generation # None, NEW c \in Contacts, NEW observed \in Nat
  PROVE  LET t == ObserveContacts(s, token, generation, c, observed, n)
         IN  /\ Coherent(t, IF c.kind = "Released" /\ t.input.gesture = Idle
                            THEN t.input.generation ELSE l, n)
             /\ Goes(s, t) /\ Settles(s, t)
             /\ \/ Releases(s, t)
                \/ StaleObservation(s, observed, n) /\ s.last_input_at + SubmissionWindow <= n
<1> DEFINE lift(u) == IF c.kind = "Released" /\ u.input.gesture = Idle
                      THEN u.input.generation ELSE l
           t == ObserveContacts(s, token, generation, c, observed, n)
           i == Press(s, generation, c)
           v == [s EXCEPT !.last_input_at = n, !.input = i]
           o == [v.activation EXCEPT !.observed_at = observed]
           a == [v EXCEPT !.activation = o]
           r == Respond(a, s.input.gesture, n)
<1>1. /\ s \in Sessions /\ s.next_sequence \in Nat /\ s.next_activation \in Nat
      /\ s.last_input_at \in Nat /\ s.last_input_at <= n
      /\ s.presented \in {None, s.attempt}
  BY DEF Coherent, Sessions
<1>2. ASSUME NEW u, Proper(s, u, l, n)
      PROVE  /\ Coherent(u, lift(u), n) /\ Goes(s, u) /\ Settles(s, u) /\ Releases(s, u)
  <2>1. Coherent(u, u.input.generation, n) /\ Coherent(u, l, n)
    BY <1>2, CoherentLifted DEF Proper
  <2> QED
    BY <1>2, <2>1 DEF Proper
<1>3. CASE t = s
  <2>1. SameControl(s, s)
    BY DEF SameControl
  <2>2. Proper(s, s, l, n)
    BY <1>1, <2>1, SameControlFacts
  <2> HIDE DEF t
  <2> QED
    BY <1>2, <1>3, <2>2 DEF t
<1>4. CASE t = Stepped(s, n)
  <2>1. Proper(s, t, l, n)
    BY <1>4, SteppedFacts
  <2> HIDE DEF t
  <2> QED
    BY <1>2, <2>1, Zenon DEF t
<1>5. CASE /\ t = Tick(Cancel(s, "InputExpired"), token, Later(s.last_input_at, n), TRUE)
           /\ StaleObservation(s, observed, n)
  <2> DEFINE k == Cancel(s, "InputExpired")
  <2>1. Later(s.last_input_at, n) = n
    BY <1>1 DEF Later
  <2>2. Cancels(s, k)
    BY <1>1, CancelFacts DEF Coherent
  <2>3. Proper(s, k, l, n)
    BY <2>2, CancelsFacts
  <2>4. Advances(k, t, l, n)
    BY <1>5, <2>1, <2>3, TickFacts, ZenonT(40) DEF Proper
  <2> HIDE DEF k, t
  <2>5. Goes(s, t)
    BY <1>1, <2>3, <2>4, GoesTransitive, Zenon DEF Proper, Advances, Coherent
  <2>6. Settles(s, t)
    BY <2>2, <2>4, Zenon DEF Cancels, Settles, Advances, Proper, ReleasePending
  <2>7. Driving(s) => Owed(k) /\ ~ReleasePending(s)
    BY <2>2 DEF Cancels, Driving, Coherent
  <2>8. Releases(s, t) \/ s.last_input_at + SubmissionWindow <= n
    <3>1. ~ReleasePending(s) /\ ReleasePending(k) =>
            k.pending.submit_before = s.last_input_at + SubmissionWindow
      BY <2>2 DEF Cancels, ReleasePending
    <3>2. s.last_input_at + SubmissionWindow \in Nat
      BY <1>1, ControlAssumption
    <3>3. Exhausted(k) => Exhausted(t)
      BY <2>4 DEF Advances
    <3>4. ReleasePending(k) /\ n < k.pending.submit_before => ReleasePending(t)
      BY <2>4 DEF Advances
    <3> QED
      BY <2>7, <3>1, <3>2, <3>3, <3>4 DEF Releases, Owed
  <2>9. Coherent(t, lift(t), n)
    <3>1. Coherent(t, t.input.generation, n) /\ Coherent(t, l, n)
      BY <2>4, CoherentLifted, Zenon DEF Proper, Advances
    <3> QED
      BY <3>1, Zenon
  <2> QED
    BY <1>5, <2>5, <2>6, <2>8, <2>9, Zenon DEF t
<1>6. /\ i \in InputType /\ i.mode = s.input.mode /\ i.generation = s.input.generation
      /\ InputKnows(i, IF c.kind = "Released" /\ i.gesture = Idle THEN i.generation ELSE l)
      /\ ReleasePending(s) => i.gesture.phase # "Pressed"
  BY PressFacts
<1> HIDE DEF i
<1>7. /\ v \in Sessions /\ v.input = i /\ v.last_input_at = n
      /\ v.activation = s.activation /\ v.pending = s.pending
      /\ v.next_sequence = s.next_sequence /\ v.next_activation = s.next_activation
      /\ v.limits = s.limits /\ v.verified = s.verified /\ v.attempt = s.attempt
      /\ v.presented = s.presented
  BY <1>1, <1>6, Zenon DEF Sessions
<1> HIDE DEF v
<1>8. Coherent(v, lift(v), n) /\ Goes(s, v)
  <2>1. InputKnows(v.input, lift(v)) /\ (ReleasePending(v) => ~Held(v))
    BY <1>6, <1>7, Zenon DEF ReleasePending, Held
  <2>2. Coherent(v, lift(v), n)
    BY <1>7, <2>1 DEF Coherent
  <2>3. Goes(s, v)
    BY <1>1, <1>7 DEF Goes
  <2> QED
    BY <2>2, <2>3
<1>9. CASE t = v /\ s.activation = None
  <2>1. Settles(s, v) /\ Releases(s, v)
    BY <1>7, <1>9 DEF Settles, Releases, Driving, ReleasePending
  <2> HIDE DEF t
  <2> QED
    BY <1>8, <1>9, <2>1, Zenon DEF t
<1>10. CASE t = Stepped(r, n) /\ s.activation # None
  <2>1. s.activation \in Activations /\ v.activation = s.activation
    BY <1>1, <1>7, <1>10 DEF Sessions
  <2>2. o \in Activations /\ o.id = s.activation.id /\ o.limits = s.activation.limits
    BY <2>1 DEF Activations
  <2> HIDE DEF o
  <2>3. /\ a \in Sessions /\ a.activation = o /\ a.input = v.input /\ a.pending = v.pending
        /\ a.next_sequence = v.next_sequence /\ a.next_activation = v.next_activation
        /\ a.limits = v.limits /\ a.verified = v.verified /\ a.attempt = v.attempt
        /\ a.presented = v.presented /\ a.last_input_at = v.last_input_at
    BY <1>7, <2>2, Zenon DEF Sessions
  <2> HIDE DEF a
  <2>4. a.activation # None
    BY <2>2, <2>3, NoneIsNothing, SMTT(30)
  <2>5. Coherent(a, lift(v), n)
    <3>1. ReleasePending(a) => ~Held(a)
      BY <1>8, <2>3, Zenon DEF Coherent, ReleasePending, Held
    <3> QED
      BY <1>7, <1>8, <1>10, <2>2, <2>3, <3>1, Zenon DEF Coherent
  <2>6. Goes(s, a)
    BY <1>1, <1>7, <1>10, <2>2, <2>3 DEF Goes
  <2>7. s.input.gesture.phase = "Pressed" => ~ReleasePending(a)
    BY <1>7, <2>3, Zenon DEF Coherent, ReleasePending, Held
  <2>8. /\ Coherent(r, lift(v), n) /\ Goes(a, r) /\ Settles(a, r)
        /\ s.input.gesture.phase = "Pressed" => Driving(r) \/ Owed(r)
        /\ r.input = a.input \/ r.input.gesture.phase = "Cancelled"
    BY <2>4, <2>5, <2>7, RespondFacts, Zenon
  <2> HIDE DEF r
  <2>9. /\ t \in Sessions /\ SameControl(r, t) /\ t.pending = r.pending
        /\ Proper(r, t, lift(v), n)
    BY <1>10, <2>8, SteppedFacts, SMTT(30)
  <2> HIDE DEF t
  <2>10. Goes(s, t)
    <3>1. Goes(s, r) /\ r \in Sessions
      BY <1>1, <2>3, <2>6, <2>8, GoesTransitive, Zenon DEF Coherent
    <3> QED
      BY <1>1, <2>9, <3>1, GoesTransitive, Zenon DEF Proper
  <2>11. Settles(s, t)
    BY <1>7, <2>3, <2>8, <2>9, ZenonT(40) DEF Settles, ReleasePending, SameControl
  <2>12. Releases(s, t)
    BY <2>8, <2>9, Zenon
    DEF Releases, Driving, Held, Owed, ReleasePending, Exhausted, SameControl
  <2>13. Coherent(t, lift(t), n)
    <3>1. Coherent(t, lift(v), n)
      BY <2>9, Zenon DEF Proper
    <3>2. CASE t.input = v.input
      <4>1. lift(t) = lift(v)
        BY <3>2
      <4> QED
        BY <3>1, <4>1
    <3>3. CASE t.input.gesture.phase = "Cancelled"
      BY <3>1, <3>3, CoherentLifted, Zenon
    <3>4. t.input = v.input \/ t.input.gesture.phase = "Cancelled"
      BY <2>3, <2>8, <2>9 DEF SameControl
    <3> QED
      BY <3>2, <3>3, <3>4, Zenon
  <2> QED
    BY <2>10, <2>11, <2>12, <2>13 DEF t
<1>11. s.activation # None => a = [v EXCEPT !.activation.observed_at = observed]
  OBVIOUS
<1>12. \/ t = s \/ t = Stepped(s, n)
       \/ /\ t = Tick(Cancel(s, "InputExpired"), token, Later(s.last_input_at, n), TRUE)
          /\ StaleObservation(s, observed, n)
       \/ t = v /\ s.activation = None
       \/ t = Stepped(r, n) /\ s.activation # None
  BY <1>11, ZenonT(40) DEF ObserveContacts, v, i
<1> QED
  BY <1>3, <1>4, <1>5, <1>9, <1>10, <1>12, Zenon

-----------------------------------------------------------------------------
(* Receipts. *)

\* mark_phone_drive_transport.  Only a write that was submitted leaves without a trace; one
\* that failed leaves nothing, or a neutral that has not been emitted.
LEMMA MarkFacts ==
  ASSUME NEW s, NEW l, NEW n \in Nat, Coherent(s, l, n), NEW w, Remembers(s, w), NEW status
  PROVE  LET t == Mark(s, w, status, n)
         IN  /\ Coherent(t, l, n) /\ Goes(s, t) /\ Releases(s, t)
             /\ \/ Settles(s, t)
                \/ status = "Submitted" /\ t.pending = None /\ s.pending.sequence = w.sequence
             /\ \/ t = s \/ t.pending = None \/ ~t.pending.emitted
<1> DEFINE t == Mark(s, w, status, n)
           u == [s EXCEPT !.pending = None]
<1>1. /\ s \in Sessions /\ s.next_sequence \in Nat /\ s.next_activation \in Nat
      /\ s.presented \in {None, s.attempt} /\ s.last_input_at <= n
  BY Zenon DEF Coherent, Sessions
<1>2. \/ t = s
      \/ /\ s.pending # None /\ s.pending.sequence = w.sequence
         /\ \/ t = u /\ status = "Submitted"
            \/ t = CancelAt(u, "TransportUnavailable", n) /\ w.kind = "Setpoint"
            \/ t = Retire(s, "TransportUnavailable") /\ w.kind # "Setpoint"
  BY Zenon DEF Mark
<1>3. s.pending # None /\ s.pending.sequence = w.sequence =>
        /\ w = s.pending
        /\ w.kind = "Setpoint" => ~ReleasePending(s)
        /\ w.kind # "Setpoint" => ReleasePending(s)
  BY DEF Remembers, ReleasePending, Writes
<1>4. /\ u \in Sessions /\ SameControl(s, u) /\ u.pending = None /\ u.presented = s.presented
      /\ u.attempt = s.attempt /\ u.last_input_at = s.last_input_at
  BY <1>1, Zenon DEF Sessions, SameControl
<1> HIDE DEF t, u
<1>5. CASE t = s
  <2>1. SameControl(s, s)
    BY DEF SameControl
  <2>2. Proper(s, s, l, n)
    BY <1>1, <2>1, SameControlFacts, SMTT(30)
  <2> QED
    BY <1>5, <2>2 DEF Proper, t
<1>6. CASE s.pending # None /\ s.pending.sequence = w.sequence /\ t = u /\ status = "Submitted"
  <2>1. Coherent(u, l, n)
    BY <1>4, Zenon DEF Coherent, SameControl, ReleasePending, Held
  <2>2. Goes(s, u)
    BY <1>1, <1>4 DEF Goes, SameControl
  <2>3. Releases(s, u)
    BY <1>4, Zenon DEF Releases, SameControl, Driving, Held
  <2> QED
    BY <1>4, <1>6, <2>1, <2>2, <2>3, Zenon DEF t
<1>7. CASE /\ s.pending # None /\ s.pending.sequence = w.sequence
           /\ t = CancelAt(u, "TransportUnavailable", n) /\ w.kind = "Setpoint"
  <2>1. u.presented \in {None, u.attempt} /\ u.last_input_at <= n
    BY <1>1, <1>4, SMTT(30)
  <2>2. Proper(s, t, l, n) /\ (t.pending \in {u.pending, None} \/ ~t.pending.emitted)
    BY <1>3, <1>4, <1>7, <2>1, CancelAtFacts, Zenon
  <2> QED
    BY <1>4, <2>2, Zenon DEF Proper, t
<1>8. CASE /\ s.pending # None /\ s.pending.sequence = w.sequence
           /\ t = Retire(s, "TransportUnavailable") /\ w.kind # "Setpoint"
  <2>1. Proper(s, t, l, n)
    BY <1>3, <1>8, RetireReleaseFacts, Zenon
  <2>2. t.pending = None
    BY <1>1, <1>8, RetireFacts, Zenon
  <2> QED
    BY <2>1, <2>2, Zenon DEF Proper, t
<1> QED
  BY <1>2, <1>5, <1>6, <1>7, <1>8, Zenon

-----------------------------------------------------------------------------
(* The connection and the settings sheet. *)

\* cancel_phone_drive with ConnectionChanged
LEMMA CancelConnectionFacts ==
  ASSUME NEW s \in Sessions
  PROVE  LET c == CancelConnection(s)
         IN  /\ c \in Sessions /\ c.activation = None /\ c.pending = None /\ c.presented = None
             /\ c.input.gesture.phase = "Cancelled" /\ \A l : InputKnows(c.input, l)
             /\ c.attempt = s.attempt /\ c.next_sequence = s.next_sequence
             /\ c.next_activation = s.next_activation /\ c.last_input_at = s.last_input_at
<1> DEFINE i == SetMode(s.input, "Disabled")
           k == [s EXCEPT !.activation = None, !.pending = None, !.fault = FALSE,
                          !.preferences = None, !.presented = None,
                          !.input = i, !.limits = DefaultBudget]
           c == CancelConnection(s)
<1>1. s.input \in InputType /\ "Disabled" \in Modes /\ DefaultBudget \in Budgets
  BY ControlAssumption DEF Sessions, Modes
<1>2. i \in InputType
  <2> DEFINE j == [s.input EXCEPT !.mode = "Disabled"]
  <2>1. j \in InputType
    BY <1>1 DEF InputType
  <2>2. i = s.input \/ i = InputCancel(j, "ModeChanged")
    BY DEF SetMode
  <2> HIDE DEF i, j
  <2> QED
    BY <1>1, <2>1, <2>2, InputCancelFacts
<1>3. c = CancelInput(k, "ConnectionChanged")
  BY DEF CancelConnection
<1> HIDE DEF i
<1>4. k \in Sessions
  BY <1>1, <1>2, Zenon DEF Sessions
<1>5. /\ k.activation = None /\ k.pending = None /\ k.presented = None /\ k.input = i
      /\ k.attempt = s.attempt /\ k.next_sequence = s.next_sequence
      /\ k.next_activation = s.next_activation /\ k.last_input_at = s.last_input_at
  BY DEF Sessions
<1> HIDE DEF k, c
<1>6. /\ c \in Sessions /\ Keeps(k, c) /\ c.input = InputCancel(k.input, "ConnectionChanged")
      /\ c.activation = k.activation /\ c.pending = k.pending
      /\ c.next_sequence = k.next_sequence
  BY <1>3, <1>4, CancelInputFacts, Zenon
<1>7. c.input.gesture.phase = "Cancelled" /\ \A l : InputKnows(c.input, l)
  BY <1>2, <1>5, <1>6, InputCancelFacts, ZenonT(40)
<1> QED
  BY <1>5, <1>6, <1>7 DEF Keeps, c

\* A call of another thread, between the last check of a write and its handover: a hold goes
\* on untouched, or the neutral is owed.
Interferes(s, t) ==
  /\ Owed(s) => Owed(t)
  /\ Driving(s) =>
       \/ Owed(t)
       \/ /\ t.input = s.input /\ t.activation = s.activation /\ t.limits = s.limits
          /\ t.presented \in {None, s.presented}

\* A write in hand stays right while another thread interferes.
LEMMA InterferesFacts ==
  ASSUME NEW s, NEW t, NEW l, NEW onWire, NEW w, HandIsRight(s, l, onWire, w), Interferes(s, t)
  PROVE  HandIsRight(t, l, onWire, w)
BY DEF HandIsRight, Interferes, Owed, Driving, Held

\* cancel_phone_drive, as install_user_drivetrain and a save call it.
LEMMA CancelInterferes ==
  ASSUME NEW s, NEW l, NEW n, Coherent(s, l, n), NEW reason
  PROVE  /\ Cancels(s, Cancel(s, reason))
         /\ Proper(s, Cancel(s, reason), l, n)
         /\ Interferes(s, Cancel(s, reason))
<1> DEFINE c == Cancel(s, reason)
<1>1. Cancels(s, c)
  BY CancelFacts DEF Coherent
<1> HIDE DEF c
<1>2. Proper(s, c, l, n) /\ (Owed(s) => Owed(c))
  BY <1>1, CancelsFacts, Zenon
<1>3. Driving(s) => Owed(c)
  BY <1>1 DEF Cancels, Driving
<1> QED
  BY <1>1, <1>2, <1>3, Zenon DEF Interferes, c

\* set_phone_drive_settings_presented
LEMMA SetPresentedFacts ==
  ASSUME NEW s, NEW l, NEW n, Coherent(s, l, n), NEW token, NEW presented
  PROVE  /\ Proper(s, SetPresented(s, token, presented), l, n)
         /\ Interferes(s, SetPresented(s, token, presented))
<1> DEFINE p == IF s.presented = token THEN None ELSE s.presented
           v == [s EXCEPT !.presented = p]
           c == Cancel(s, "Navigation")
           x == [c EXCEPT !.presented = token]
           t == SetPresented(s, token, presented)
<1>1. s \in Sessions /\ s.presented \in {None, s.attempt} /\ s.last_input_at <= n /\ s.attempt \in Nat
  BY DEF Coherent, Sessions
<1>2. \/ t = s \/ t = v
      \/ t = x /\ token = s.attempt
  BY DEF SetPresented, TargetIsCurrent, IsVerified
<1>3. p \in {None, s.attempt} /\ p \in {None, s.presented}
  BY <1>1
<1> HIDE DEF p, t
<1>4. CASE t = s
  <2>1. SameControl(s, s)
    BY DEF SameControl
  <2>2. Proper(s, s, l, n)
    BY <1>1, <2>1, SameControlFacts
  <2> QED
    BY <1>4, <2>2 DEF Interferes, t
<1>5. CASE t = v
  <2>1. v \in Sessions
    BY <1>1, <1>3 DEF Sessions
  <2>2. /\ SameControl(s, v) /\ v.pending = s.pending /\ v.presented = p
        /\ v.attempt = s.attempt /\ v.last_input_at = s.last_input_at
    BY <1>1 DEF Sessions, SameControl
  <2> HIDE DEF v
  <2>3. Proper(s, v, l, n)
    BY <1>1, <1>3, <2>1, <2>2, SameControlFacts, Zenon
  <2>4. Interferes(s, v)
    BY <1>3, <2>2 DEF Interferes, SameControl, Owed, ReleasePending, Exhausted
  <2> QED
    BY <1>5, <2>3, <2>4 DEF t
<1>6. CASE t = x /\ token = s.attempt
  <2>1. Proper(s, c, l, n) /\ Interferes(s, c) /\ Cancels(s, c)
    BY CancelInterferes
  <2>2. c \in Sessions /\ token \in Nat /\ Coherent(c, l, n) /\ c.attempt = s.attempt
    BY <1>1, <1>6, <2>1 DEF Proper, Cancels, Keeps
  <2> HIDE DEF c
  <2>3. x \in Sessions
    BY <2>2 DEF Sessions
  <2>4. /\ SameControl(c, x) /\ x.pending = c.pending /\ x.presented = token
        /\ x.attempt = c.attempt /\ x.last_input_at = c.last_input_at
    BY <2>2, Zenon DEF Sessions, SameControl
  <2> HIDE DEF x
  <2>5. x.presented \in {None, x.attempt} /\ x.last_input_at <= n
    BY <1>6, <2>2, <2>4 DEF Coherent
  <2>6. Proper(c, x, l, n)
    BY <2>2, <2>3, <2>4, <2>5, SameControlFacts
  <2>7. Goes(s, x)
    BY <1>1, <2>1, <2>2, <2>3, <2>6, GoesTransitive DEF Proper
  <2>8. Owed(x) = Owed(c) /\ ReleasePending(x) = ReleasePending(c) /\ Driving(x) = Driving(c)
    BY <2>4 DEF SameControl, Owed, ReleasePending, Exhausted, Driving, Held
  <2>9. Settles(s, x) /\ Releases(s, x)
    BY <2>1, <2>4, <2>8, Zenon DEF Proper, Settles, Releases, SameControl
  <2>10. Interferes(s, x)
    BY <2>1, <2>8, Zenon DEF Interferes, Cancels, Driving
  <2> QED
    BY <1>6, <2>6, <2>7, <2>9, <2>10 DEF Proper, t
<1> QED
  BY <1>2, <1>4, <1>5, <1>6, Zenon

\* apply_phone_drive_preferences
LEMMA ApplyPreferencesFacts ==
  ASSUME NEW s, NEW l, NEW n, Coherent(s, l, n), NEW token, NEW mode \in Modes,
         NEW limits \in Budgets
  PROVE  /\ Proper(s, ApplyPreferences(s, token, mode, limits), l, n)
         /\ Interferes(s, ApplyPreferences(s, token, mode, limits))
<1> DEFINE t == ApplyPreferences(s, token, mode, limits)
           k == IF s.input.mode # mode THEN Cancel(s, "ModeChanged")
                ELSE IF s.limits # limits THEN Cancel(s, "ActivationChanged")
                ELSE s
           i == SetMode(k.input, mode)
           x == [k EXCEPT !.input = i, !.limits = limits, !.preferences = token]
<1>1. /\ s \in Sessions /\ s.presented \in {None, s.attempt} /\ s.last_input_at <= n
      /\ s.attempt \in Nat /\ s.input \in InputType /\ s.next_sequence <= LastSequence
  BY DEF Coherent, Sessions
<1>2. t = s \/ (t = x /\ token = s.attempt)
  BY DEF ApplyPreferences, TargetIsCurrent, IsVerified
<1>3. \/ k = s /\ s.input.mode = mode /\ s.limits = limits
      \/ k = Cancel(s, "ModeChanged") \/ k = Cancel(s, "ActivationChanged")
  OBVIOUS
<1> HIDE DEF t, k
<1>4. CASE t = s
  <2>1. SameControl(s, s)
    BY DEF SameControl
  <2>2. Proper(s, s, l, n)
    BY <1>1, <2>1, SameControlFacts
  <2> QED
    BY <1>4, <2>2 DEF Interferes, t
<1>5. CASE t = x /\ token = s.attempt /\ k = s /\ s.input.mode = mode /\ s.limits = limits
  <2>1. i = s.input
    BY <1>5 DEF SetMode
  <2> HIDE DEF i
  <2>2. x \in Sessions
    BY <1>1, <1>5, <2>1, Zenon DEF Sessions
  <2>3. /\ SameControl(s, x) /\ x.pending = s.pending /\ x.presented = s.presented
        /\ x.attempt = s.attempt /\ x.last_input_at = s.last_input_at
    BY <1>1, <1>5, <2>1 DEF Sessions, SameControl
  <2> HIDE DEF x
  <2>4. Proper(s, x, l, n)
    BY <1>1, <2>2, <2>3, SameControlFacts, Zenon
  <2>5. Interferes(s, x)
    BY <2>3 DEF Interferes, SameControl, Owed, ReleasePending, Exhausted
  <2> QED
    BY <1>5, <2>4, <2>5 DEF t
<1>6. ASSUME t = x, token = s.attempt, Cancels(s, k), Proper(s, k, l, n), Interferes(s, k),
             k.activation = None
      PROVE  Proper(s, t, l, n) /\ Interferes(s, t)
  <2>1. k \in Sessions /\ k.input \in InputType /\ InputKnows(k.input, l) /\ token \in Nat
    BY <1>1, <1>6, Zenon DEF Cancels, Sessions
  <2>2. /\ i \in InputType
        /\ i = k.input \/ i.gesture.phase = "Cancelled"
        /\ k.input.generation = None => i.generation = None
        /\ InputKnows(i, l)
    BY <2>1, SetModeFacts
  <2>3. i.gesture.phase = "Cancelled"
    BY <1>6, <2>2 DEF Cancels
  <2> HIDE DEF i
  <2>4. x \in Sessions
    BY <2>1, <2>2, ZenonT(40) DEF Sessions
  <2>5. /\ x.input = i /\ x.limits = limits /\ x.activation = None /\ x.pending = k.pending
        /\ x.next_sequence = k.next_sequence /\ x.next_activation = k.next_activation
        /\ x.verified = k.verified /\ x.presented = k.presented /\ x.attempt = k.attempt
        /\ x.last_input_at = k.last_input_at
    BY <1>6, <2>1 DEF Sessions
  <2> HIDE DEF x
  <2>6. Coherent(x, l, n)
    BY <1>6, <2>2, <2>3, <2>4, <2>5, Zenon DEF Proper, Coherent, ReleasePending, Held
  <2>7. Goes(s, x)
    BY <1>6, <2>5, Zenon DEF Proper, Goes, Issued
  <2>8. Settles(s, x)
    BY <1>6, <2>3, <2>5 DEF Proper, Settles, ReleasePending
  <2>9. Owed(k) => Owed(x)
    BY <2>2, <2>5, Zenon DEF Owed, ReleasePending, Exhausted
  <2>10. Driving(s) => Owed(k)
    BY <1>6, Zenon DEF Cancels, Driving
  <2>11. Releases(s, x) /\ Interferes(s, x)
    BY <1>6, <2>9, <2>10 DEF Releases, Interferes
  <2> QED
    BY <1>6, <2>6, <2>7, <2>8, <2>11 DEF Proper
<1>7. ASSUME NEW reason, reason \in {"ModeChanged", "ActivationChanged"}, k = Cancel(s, reason)
      PROVE  Cancels(s, k) /\ Proper(s, k, l, n) /\ Interferes(s, k) /\ k.activation = None
  <2>1. reason \notin GestureLocal
    BY <1>7, Zenon DEF GestureLocal
  <2> QED
    BY <1>1, <1>7, <2>1, CancelInterferes, CancelEnds
<1> HIDE DEF x
<1> QED
  BY <1>2, <1>3, <1>4, <1>5, <1>6, <1>7, Zenon DEF t

-----------------------------------------------------------------------------
(* The writes on their way. *)

\* append_phone_drive_write: the write that leaves is new to every place a write can be in.
LEMMA EmittedFacts ==
  ASSUME NEW s, NEW l, NEW n, Coherent(s, l, n), s.pending # None, ~s.pending.emitted,
         Issued(s.pending, s)
  PROVE  LET t == Emitted(s)
         IN  /\ Coherent(t, l, n) /\ SameControl(s, t) /\ Remembers(t, t.pending)
             /\ t.pending \in Writes /\ t.pending.emitted
             /\ t.pending.sequence = s.pending.sequence /\ t.pending.kind = s.pending.kind
             /\ t.pending.submit_before = s.pending.submit_before
             /\ \A w : Remembers(s, w) => Remembers(t, w) /\ w.sequence # t.pending.sequence
<1> DEFINE p == [s.pending EXCEPT !.emitted = TRUE]
           t == Emitted(s)
<1>1. s \in Sessions /\ s.pending \in Writes
  BY DEF Coherent, Sessions
<1>2. /\ p \in Writes /\ p.emitted /\ p.sequence = s.pending.sequence
      /\ p.kind = s.pending.kind /\ p.submit_before = s.pending.submit_before
      /\ p.activation = s.pending.activation /\ p.budget = s.pending.budget
  BY <1>1, ZenonT(40) DEF Writes
<1>3. t = [s EXCEPT !.pending = p]
  BY DEF Emitted
<1> HIDE DEF p, t
<1>4. t \in Sessions
  BY <1>1, <1>2, <1>3 DEF Sessions
<1>5. /\ t.pending = p /\ SameControl(s, t) /\ t.presented = s.presented
      /\ t.last_input_at = s.last_input_at
  BY <1>1, <1>3 DEF Sessions, SameControl
<1>6. p # None
  BY <1>2, NoneIsNothing, Zenon
<1>7. Coherent(t, l, n)
  <2>1. ReleasePending(t) => ~Held(t)
    BY <1>2, <1>5, Zenon DEF Coherent, ReleasePending, Held, SameControl
  <2> QED
    BY <1>2, <1>4, <1>5, <2>1, Zenon DEF Coherent, SameControl
<1>8. p.sequence = t.next_sequence /\ t.next_sequence \in Nat
  BY <1>2, <1>4, <1>5, Zenon DEF Coherent, SameControl, Sessions
<1>9. Issued(p, t)
  BY <1>2, <1>5, Zenon DEF Issued, SameControl
<1>10. Remembers(t, p)
  BY <1>2, <1>5, <1>8, <1>9, SMTT(30) DEF Remembers
<1>11. ASSUME NEW w, Remembers(s, w)
       PROVE  Remembers(t, w) /\ w.sequence # p.sequence
  <2>1. w.sequence # p.sequence
    BY <1>2, <1>11, Zenon DEF Remembers
  <2>2. Issued(w, t)
    BY <1>5, <1>11 DEF Remembers, Issued, SameControl
  <2> QED
    BY <1>5, <1>11, <2>1, <2>2, Zenon DEF Remembers, SameControl
<1> QED
  BY <1>2, <1>5, <1>7, <1>10, <1>11, Zenon DEF t
=============================================================================
