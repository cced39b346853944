-------------------------- MODULE CaptureLifecycle --------------------------
(***************************************************************************)
(* The capture owner of cutout-core, as operators on a record: one         *)
(* operator per method of CaptureSessionLifecycle                          *)
(* (src/crates/cutout-core/src/capture_lifecycle.rs).  A method that       *)
(* returns early leaves the record as it is.                               *)
(*                                                                         *)
(* Generations and save operations are u64 counters advanced by            *)
(* checked_add; here they are naturals.  The Borrowed transport binding is *)
(* None, an owned one is the token of the attempt the capture opened.      *)
(***************************************************************************)
EXTENDS Naturals

CONSTANTS
  Devices,   \* platform identifiers of peripherals
  None       \* Option::None

ASSUME CaptureAssumption ==
  /\ None \notin Nat
  /\ None \notin [generation : Nat, id : Devices]
  /\ None \notin [generation : Nat, operation : Nat]
  /\ None \notin [generation : Nat, origin : {"Automatic", "Manual"},
                  stage : {"Starting", "Recording", "Saving", "SaveFailed",
                           "Finalizing", "Saved", "Failed"}]

CaptureOrigin == {"Automatic", "Manual"}
CaptureStage ==
  {"Starting", "Recording", "Saving", "SaveFailed", "Finalizing", "Saved", "Failed"}

ConnectionAttemptToken == [generation : Nat, id : Devices]
CaptureAttemptSnapshot == [generation : Nat, origin : CaptureOrigin, stage : CaptureStage]
CaptureFinishToken == [generation : Nat, operation : Nat]

CaptureSessionLifecycle ==
  [next_generation : Nat,
   next_operation : Nat,
   current : CaptureAttemptSnapshot \cup {None},
   transport : ConnectionAttemptToken \cup {None},
   finishing : CaptureFinishToken \cup {None},
   pending_completions : SUBSET Nat]

\* CaptureSessionLifecycle::default()
DefaultCapture ==
  [next_generation |-> 0, next_operation |-> 0, current |-> None, transport |-> None,
   finishing |-> None, pending_completions |-> {}]

ReservesWriter(stage) == stage \in {"Starting", "Recording", "Saving", "SaveFailed"}

\* The current attempt is g and in one of the stages.
At(c, g, stages) ==
  c.current # None /\ c.current.generation = g /\ c.current.stage \in stages

CanStart(c) == c.current # None => ~ ReservesWriter(c.current.stage)

CanPair_Always(c) == TRUE

CanPair(c) ==
  c.current # None => c.current.origin = "Automatic" \/ ~ ReservesWriter(c.current.stage)

BeginWithTransport_ForgetsFinalizing(c, origin, binding) ==
  [c EXCEPT !.next_generation = @ + 1,
            !.current = [generation |-> c.next_generation + 1, origin |-> origin,
                         stage |-> "Starting"],
            !.transport = binding,
            !.finishing = None]

BeginWithTransport_KeepsBinding(c, origin, binding) ==
  [c EXCEPT !.next_generation = @ + 1,
            !.pending_completions =
              IF c.current # None /\ c.current.stage = "Finalizing"
              THEN @ \cup {c.current.generation} ELSE @,
            !.current = [generation |-> c.next_generation + 1, origin |-> origin,
                         stage |-> "Starting"],
            !.transport = IF binding = None THEN @ ELSE binding,
            !.finishing = None]

\* A predecessor that is still finalizing keeps its claim to a receipt.
BeginWithTransport(c, origin, binding) ==
  IF ~ CanStart(c) THEN c
  ELSE [c EXCEPT !.next_generation = @ + 1,
                 !.pending_completions =
                   IF c.current # None /\ c.current.stage = "Finalizing"
                   THEN @ \cup {c.current.generation} ELSE @,
                 !.current = [generation |-> c.next_generation + 1, origin |-> origin,
                              stage |-> "Starting"],
                 !.transport = binding,
                 !.finishing = None]

Transition(c, g, from, to) ==
  IF At(c, g, {from}) THEN [c EXCEPT !.current = [@ EXCEPT !.stage = to]] ELSE c

WriterStarted(c, g) == Transition(c, g, "Starting", "Recording")

WriterStartFailed(c, g) == Transition(c, g, "Starting", "Failed")

\* One save at a time, of an explicit recording only.
MayBeginFinish(c, g) ==
  /\ At(c, g, {"Recording", "SaveFailed"})
  /\ c.current.origin = "Manual"

BeginFinish(c, g) ==
  IF MayBeginFinish(c, g)
  THEN [c EXCEPT !.next_operation = @ + 1,
                 !.current = [@ EXCEPT !.stage = "Saving"],
                 !.finishing = [generation |-> g, operation |-> c.next_operation + 1]]
  ELSE c

\* The save the token was issued for still owns finish admission.
AdmitsFlush(c, token) == c.finishing = token /\ At(c, token.generation, {"Saving"})

FinishFlush_SuccessOnly(c, token, succeeded) ==
  IF AdmitsFlush(c, token) /\ succeeded
  THEN [c EXCEPT !.finishing = None, !.current = [@ EXCEPT !.stage = "Finalizing"]]
  ELSE c

FinishFlush(c, token, succeeded) ==
  IF AdmitsFlush(c, token)
  THEN [c EXCEPT !.finishing = None,
                 !.current = [@ EXCEPT !.stage = IF succeeded THEN "Finalizing" ELSE "SaveFailed"]]
  ELSE c

\* std::mem::take of the binding once the flush was accepted as successful.
FinishFlushWithTransport(c, token, succeeded) ==
  IF AdmitsFlush(c, token) /\ succeeded
  THEN [FinishFlush(c, token, succeeded) EXCEPT !.transport = None]
  ELSE FinishFlush(c, token, succeeded)

\* Of an accepted successful flush: the link it owns is still the current one.
ReleasesOwnedTransport(c, current_token) ==
  c.transport # None /\ c.transport = current_token

WriterFailed(c, g) ==
  IF At(c, g, {"Recording", "SaveFailed"})
  THEN [c EXCEPT !.current = [@ EXCEPT !.stage = "SaveFailed"]] ELSE c

Retire_OnlyRecording(c, g) ==
  IF At(c, g, {"Recording", "SaveFailed", "Finalizing"})
  THEN [c EXCEPT !.current = [@ EXCEPT !.stage = "Finalizing"], !.finishing = None] ELSE c

Retire(c, g) ==
  IF At(c, g, {"Recording", "Saving", "SaveFailed", "Finalizing"})
  THEN [c EXCEPT !.current = [@ EXCEPT !.stage = "Finalizing"], !.finishing = None]
  ELSE c

Complete_CurrentOnly(c, g, succeeded) ==
  Transition(c, g, "Finalizing", IF succeeded THEN "Saved" ELSE "Failed")

\* The receipt of the current attempt, or of one that a newer attempt has displaced.
Complete(c, g, succeeded) ==
  IF At(c, g, {"Finalizing"})
  THEN Transition(c, g, "Finalizing", IF succeeded THEN "Saved" ELSE "Failed")
  ELSE [c EXCEPT !.pending_completions = @ \ {g}]
=============================================================================
