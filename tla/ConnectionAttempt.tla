------------------------- MODULE ConnectionAttempt -------------------------
(***************************************************************************)
(* The connection attempt owner of cutout-core, as operators on a record:  *)
(* one operator per method of ConnectionAttemptLifecycle                   *)
(* (src/crates/cutout-core/src/connection_lifecycle.rs).  A method that    *)
(* returns early leaves the record as it is.  Modules that own a           *)
(* connection hold the record in a variable and take these operators as    *)
(* its only updates, as the Rust callers do under the session mutex.       *)
(*                                                                         *)
(* Time is a countdown: a deadline is stored as the milliseconds that      *)
(* remain, so "at < deadline" is "remaining > 0".  The attempt deadline    *)
(* and the retry deadline are never armed together, so a clock is not      *)
(* needed to order them.                                                   *)
(*                                                                         *)
(* Generations and retry tokens are u64 counters that wrap after 2^64      *)
(* steps; here they are naturals.  The publication revision wraps at       *)
(* RevisionModulus (2^64 in the code), because callbacks can bump it       *)
(* without bound.                                                          *)
(***************************************************************************)
EXTENDS Integers

CONSTANTS
  Devices,          \* platform identifiers of peripherals
  None,             \* Option::None
  RevisionModulus,  \* 2^64: where the publication revision wraps
  RetryAttemptMax   \* u8::MAX: where the retry counter saturates

ASSUME ConnectionAssumption ==
  /\ None \notin Nat
  /\ None \notin [generation : Nat, id : Devices]
  /\ None \notin [token : Nat, attempt : Nat, deadline : Nat, id : Devices]
  /\ RevisionModulus \in Nat /\ RevisionModulus > 2
  /\ RetryAttemptMax \in Nat /\ RetryAttemptMax > 3

Readiness == {"Disconnected", "Pending", "Verified", "RecordOnly", "Failed", "Conflicted"}
Transport == {"Disconnected", "Connecting", "Connected"}
RetryScope == {"InitialIdentification", "EstablishedConnection"}

\* Identity that native callbacks of one attempt carry.
ConnectionAttemptToken == [generation : Nat, id : Devices]

ConnectionRetry == [token : Nat, attempt : Nat, deadline : Nat, id : Devices]

ConnectionAttemptLifecycle ==
  [generation : Nat,
   revision : 0 .. RevisionModulus - 1,
   token : ConnectionAttemptToken \cup {None},
   readiness : Readiness,
   transport : Transport,
   deadline : Nat \cup {None},
   retry_scope : RetryScope,
   retry_attempt : 0 .. RetryAttemptMax,
   retry_token : Nat,
   failed_attempt : ConnectionAttemptToken \cup {None},
   pending_retry : ConnectionRetry \cup {None}]

\* ConnectionAttemptLifecycle::default()
DefaultLifecycle ==
  [generation |-> 0, revision |-> 0, token |-> None,
   readiness |-> "Disconnected", transport |-> "Disconnected", deadline |-> None,
   retry_scope |-> "InitialIdentification", retry_attempt |-> 0, retry_token |-> 0,
   failed_attempt |-> None, pending_retry |-> None]

AttemptTimeout == 15000
InitialRetryLimit == 3

Bump(revision) == IF revision + 1 = RevisionModulus THEN 0 ELSE revision + 1

Min2(a, b) == IF a <= b THEN a ELSE b

(***************************************************************************)
(* Reconnect backoff in milliseconds: 250 ms doubled per consecutive       *)
(* failure, capped at 25 s, then scaled by 0.8 .. 1.2 with the platform's  *)
(* jitter in permille and rounded.  The quotient is the one of the code    *)
(* with the common factor 100 removed, which keeps it within 32 bits.      *)
(***************************************************************************)
ShiftLeftOne == <<1, 2, 4, 8, 16, 32, 64, 128>>   \* 1 << exponent, at exponent + 1

RetryBase(attempt) == Min2(250 * ShiftLeftOne[Min2(attempt - 1, 7) + 1], 25000)

RetryDelay(attempt, jitter) ==
  (RetryBase(attempt) * (8000 + 4 * Min2(jitter, 1000)) + 5000) \div 10000

-----------------------------------------------------------------------------

IsCurrent(c, t) == c.token # None /\ c.token = t

IsVerified(c, t) ==
  IsCurrent(c, t) /\ c.readiness = "Verified" /\ c.transport = "Connected"

BeginAttempt(c, id) ==
  [c EXCEPT !.generation = @ + 1,
            !.token = [generation |-> c.generation + 1, id |-> id],
            !.readiness = "Pending",
            !.transport = "Connecting",
            !.deadline = AttemptTimeout,
            !.revision = Bump(@)]

Begin(c, id) ==
  BeginAttempt([c EXCEPT !.retry_scope = "InitialIdentification",
                         !.retry_attempt = 0,
                         !.failed_attempt = None,
                         !.pending_retry = None], id)

MayRequestRetry_CurrentOnly(c, t) == c.pending_retry = None /\ IsCurrent(c, t)

\* The conditions under which request_retry decides anything but Rejected.
MayRequestRetry(c, t) ==
  /\ c.pending_retry = None
  /\ \/ IsCurrent(c, t) /\ c.readiness \in {"Pending", "Verified", "RecordOnly", "Failed"}
     \/ c.failed_attempt # None /\ c.failed_attempt = t

NextRetryAttempt(c) == Min2(c.retry_attempt + 1, RetryAttemptMax)

RetryExhausted_OneTooMany(c) ==
  /\ NextRetryAttempt(c) > InitialRetryLimit + 1
  /\ c.retry_scope = "InitialIdentification"

RetryExhausted(c) ==
  /\ NextRetryAttempt(c) > InitialRetryLimit
  /\ c.retry_scope = "InitialIdentification"

\* ConnectionRetryDecision::Exhausted: a current attempt is retired for good.
ExhaustRetries(c, t) ==
  LET failed == [c EXCEPT !.failed_attempt = t, !.retry_attempt = NextRetryAttempt(c)]
  IN  IF IsCurrent(c, t)
      THEN [failed EXCEPT !.generation = @ + 1, !.revision = Bump(@), !.token = None,
                          !.deadline = None, !.readiness = "Failed",
                          !.transport = "Disconnected"]
      ELSE failed

\* ConnectionRetryDecision::Scheduled: the attempt fails but keeps its token.
ScheduleRetry(c, t, jitter) ==
  LET attempt == NextRetryAttempt(c)
      failed  == [c EXCEPT !.failed_attempt = t,
                           !.retry_attempt = attempt,
                           !.retry_token = @ + 1,
                           !.pending_retry = [token |-> c.retry_token + 1,
                                              attempt |-> attempt,
                                              deadline |-> RetryDelay(attempt, jitter),
                                              id |-> t.id]]
  IN  IF IsCurrent(c, t)
      THEN [failed EXCEPT !.deadline = None, !.readiness = "Failed",
                          !.transport = "Disconnected", !.revision = Bump(@)]
      ELSE failed

RequestRetry(c, t, jitter) ==
  IF ~ MayRequestRetry(c, t) THEN c
  ELSE IF RetryExhausted(c) THEN ExhaustRetries(c, t)
  ELSE ScheduleRetry(c, t, jitter)

\* The retry timer r may start the next attempt.
RetryIsDue(c, r) ==
  c.pending_retry # None /\ c.pending_retry.token = r /\ c.pending_retry.deadline = 0

AdmitRetry_FailureKept(c, r) ==
  IF RetryIsDue(c, r)
  THEN BeginAttempt([c EXCEPT !.pending_retry = None], c.pending_retry.id)
  ELSE c

AdmitRetry(c, r) ==
  IF RetryIsDue(c, r)
  THEN BeginAttempt([c EXCEPT !.pending_retry = None, !.failed_attempt = None],
                    c.pending_retry.id)
  ELSE c

CancelRetry(c, r) ==
  IF c.pending_retry # None /\ c.pending_retry.token = r
  THEN [c EXCEPT !.pending_retry = None, !.retry_attempt = 0, !.failed_attempt = None]
  ELSE c

MayFinishDetection_Reopened(c, t, verified) ==
  /\ IsCurrent(c, t)
  /\ c.readiness \in {"Pending", "RecordOnly"}
  /\ verified => c.transport = "Connected"

\* Whether finish_detection(t, verified) takes effect.
MayFinishDetection(c, t, verified) ==
  /\ IsCurrent(c, t)
  /\ c.readiness = "Pending"
  /\ verified => c.transport = "Connected"

FinishDetection(c, t, verified) ==
  IF ~ MayFinishDetection(c, t, verified) THEN c
  ELSE IF verified
  THEN [c EXCEPT !.readiness = "Verified",
                 !.retry_scope = "EstablishedConnection",
                 !.retry_attempt = 0,
                 !.failed_attempt = None,
                 !.pending_retry = None,
                 !.deadline = None,
                 !.revision = Bump(@)]
  ELSE [c EXCEPT !.readiness = "RecordOnly", !.deadline = None, !.revision = Bump(@)]

Expire_ConnectedOnly(c, t) ==
  IF c.deadline = 0 /\ c.transport = "Connected" THEN FinishDetection(c, t, FALSE) ELSE c

Expire(c, t) ==
  IF c.deadline = 0 THEN FinishDetection(c, t, FALSE) ELSE c

Disconnect(c) ==
  [c EXCEPT !.retry_scope = "InitialIdentification",
            !.retry_attempt = 0,
            !.failed_attempt = None,
            !.pending_retry = None,
            !.generation = @ + 1,
            !.revision = Bump(@),
            !.token = None,
            !.deadline = None,
            !.readiness = "Disconnected",
            !.transport = "Disconnected"]

Connected(c, t) ==
  IF IsCurrent(c, t) /\ c.transport = "Connecting"
  THEN [c EXCEPT !.transport = "Connected", !.revision = Bump(@)]
  ELSE c

TransportFailed(c, t) ==
  IF ~ IsCurrent(c, t) THEN c
  ELSE IF c.readiness = "Pending" THEN FinishDetection(c, t, FALSE)
  ELSE IF c.readiness = "Verified"
  THEN [Disconnect(c) EXCEPT !.retry_scope = "EstablishedConnection",
                             !.failed_attempt = t,
                             !.readiness = "Failed"]
  ELSE c

LinkDown(c, t) ==
  IF IsCurrent(c, t)
  THEN TransportFailed([c EXCEPT !.transport = "Disconnected", !.revision = Bump(@)], t)
  ELSE c

Conflict_KeepsGeneration(c, t) ==
  IF IsCurrent(c, t) /\ c.readiness = "Verified"
  THEN [c EXCEPT !.revision = Bump(@), !.token = None, !.deadline = None,
                 !.readiness = "Conflicted", !.transport = "Disconnected"]
  ELSE c

Conflict(c, t) ==
  IF IsCurrent(c, t) /\ c.readiness = "Verified"
  THEN [c EXCEPT !.generation = @ + 1, !.revision = Bump(@), !.token = None,
                 !.deadline = None, !.readiness = "Conflicted",
                 !.transport = "Disconnected"]
  ELSE c

\* Time passes until the armed deadline, if any, has been reached.
Elapse(c) ==
  [c EXCEPT !.deadline = IF @ = None THEN None ELSE 0,
            !.pending_retry = IF @ = None THEN None
                              ELSE [c.pending_retry EXCEPT !.deadline = 0]]
=============================================================================
