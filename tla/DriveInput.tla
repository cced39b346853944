----------------------------- MODULE DriveInput -----------------------------
(***************************************************************************)
(* The gesture reducer of phone control                                    *)
(* (src/crates/cutout-core/src/phone_drive.rs): which contact on the glass *)
(* holds the throttle or the brake, and in which input generation.  An     *)
(* observation that does not apply leaves the record as it was.            *)
(***************************************************************************)
EXTENDS Naturals

CONSTANTS
  None,
  ContactIds,     \* native identities of contacts
  Actions,        \* Throttle and Brake
  Layouts,        \* the saved layouts other than Disabled
  LastGeneration  \* the largest generation, u64::MAX in the code

ASSUME InputAssumption ==
  /\ LastGeneration \in Nat \ {0}
  /\ "Disabled" \notin Layouts
  /\ None \notin ContactIds /\ None \notin Actions /\ None \notin Layouts \cup {"Disabled"}
  /\ None \notin Nat

Modes == Layouts \cup {"Disabled"}

\* Cancellations that end one gesture and leave its generation and activation alive.
GestureLocal == {"RegionLeft", "MultipleContacts", "ContactReplaced", "InvalidContact"}

Reasons == GestureLocal \cup
  {"ConfigurationChanged", "ActivationChanged", "InputExpired", "TransportUnavailable",
   "ControllerFault", "TouchCancelled", "ModeChanged", "LayoutChanged", "Navigation",
   "SceneInactive", "ConnectionChanged", "GenerationExhausted"}

Single(contact, region) == [kind |-> "Single", contact |-> contact, region |-> region]
NoSingle(kind) == [kind |-> kind, contact |-> None, region |-> None]

\* What the native surface can report.
Contacts ==
  {Single(c, r) : c \in ContactIds, r \in Actions \cup {None}}
    \cup {NoSingle(k) : k \in {"Released", "Multiple", "Invalid"}}

Idle == [phase |-> "Idle", contact |-> None, action |-> None, reason |-> None]
Pressed(c, a) == [phase |-> "Pressed", contact |-> c, action |-> a, reason |-> None]
\* Of the reason, only whether it is local to the gesture is kept.
Suppressed(r) ==
  [phase |-> "Cancelled", contact |-> None, action |-> None,
   reason |-> IF r \in GestureLocal THEN "local" ELSE "retired"]

Gestures ==
  {Idle} \cup {Pressed(c, a) : c \in ContactIds, a \in Actions}
    \cup {Suppressed(r) : r \in Reasons}

Inputs == [mode : Modes, generation : (1 .. LastGeneration) \cup {None}, gesture : Gestures]

InitialInput == [mode |-> "Disabled", generation |-> 1, gesture |-> Idle]

\* Mutant: a contact presses again without having been lifted.
Observe_WithoutLift(g, c) ==
  IF c.kind = "Released" THEN Idle
  ELSE IF c.kind = "Invalid" THEN Suppressed("InvalidContact")
  ELSE IF c.kind = "Multiple" THEN Suppressed("MultipleContacts")
  ELSE IF g.phase # "Pressed"
  THEN IF c.region = None THEN Suppressed("RegionLeft") ELSE Pressed(c.contact, c.region)
  ELSE IF c.contact # g.contact THEN Suppressed("ContactReplaced")
  ELSE IF c.region # g.action THEN Suppressed("RegionLeft")
  ELSE g

\* Gesture::observe
Observe(g, c) ==
  IF c.kind = "Released" THEN Idle
  ELSE IF g.phase = "Cancelled" THEN g
  ELSE IF c.kind = "Invalid" THEN Suppressed("InvalidContact")
  ELSE IF c.kind = "Multiple" THEN Suppressed("MultipleContacts")
  ELSE IF g.phase = "Idle"
  THEN IF c.region = None THEN Suppressed("RegionLeft") ELSE Pressed(c.contact, c.region)
  ELSE IF c.contact # g.contact THEN Suppressed("ContactReplaced")
  ELSE IF c.region # g.action THEN Suppressed("RegionLeft")
  ELSE g

\* PhoneDriveInputState::observe
InputObserve(i, generation, c) ==
  IF i.mode = "Disabled" \/ i.generation # generation THEN i
  ELSE [i EXCEPT !.gesture = Observe(@, c)]

\* PhoneDriveInputState::cancel; an exhausted epoch stays exhausted.
InputCancel(i, reason) ==
  IF i.generation \in 1 .. (LastGeneration - 1)
  THEN [i EXCEPT !.generation = @ + 1, !.gesture = Suppressed(reason)]
  ELSE [i EXCEPT !.generation = None, !.gesture = Suppressed("GenerationExhausted")]

\* PhoneDriveInputState::set_mode
SetMode(i, mode) ==
  IF i.mode = mode THEN i ELSE InputCancel([i EXCEPT !.mode = mode], "ModeChanged")
=============================================================================
