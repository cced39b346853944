------------------------ MODULE ConnectionLifecycle ------------------------
(***************************************************************************)
(* Connection attempts as the native app drives them.  Swift or Kotlin     *)
(* owns the radio and every timer; Rust owns the attempt.  Each exported   *)
(* call of CutoutSessionStateHandle                                        *)
(* (src/crates/cutout-mobile-ffi/src/connection_attempt.rs) is one action  *)
(* under the session mutex.  A native callback carries the token of the    *)
(* attempt it was created for and may arrive late, twice or after the      *)
(* attempt was replaced, so every action takes any token ever issued; a    *)
(* retry timer may fire late, early or after it was cancelled.             *)
(*                                                                         *)
(* One native handler is followed through: the disconnect callback of the  *)
(* current peripheral, which reports the link down and then, unless it     *)
(* returns early, asks for a retry (CutoutSessionCore.swift).  No other    *)
(* handler asks for one: a failed subscription or session retires its      *)
(* attempt, and Bluetooth switched off cancels the timer.                  *)
(***************************************************************************)
EXTENDS ConnectionAttempt

CONSTANTS
  Jitters,         \* entropy in permille the platform may supply
  MaxGeneration,   \* bound: attempts and invalidations explored
  MaxRetryToken    \* bound: retry timers that may be cancelled

ASSUME LifecycleAssumption ==
  /\ Jitters \subseteq Nat
  /\ MaxGeneration \in Nat /\ MaxRetryToken \in Nat

VARIABLES
  conn,         \* the ConnectionAttemptLifecycle
  issued,       \* every token handed to native code so far
  admitted,     \* retries admitted since the last begin, success or cancellation
  terminating   \* attempt whose disconnect callback is being handled, or None

vars == <<conn, issued, admitted, terminating>>

Init ==
  /\ conn = DefaultLifecycle
  /\ issued = {}
  /\ admitted = 0
  /\ terminating = None

\* New attempts and invalidations stop at the bound.
Bounded == conn.generation < MaxGeneration

begin_connection_attempt(id) ==
  /\ Bounded
  /\ conn' = Begin(conn, id)
  /\ issued' = issued \cup {conn'.token}
  /\ admitted' = 0
  /\ UNCHANGED terminating

disconnect_connection_attempt ==
  /\ Bounded
  /\ conn' = Disconnect(conn)
  /\ admitted' = 0
  /\ UNCHANGED <<issued, terminating>>

request_connection_retry(t, jitter) ==
  /\ Bounded
  /\ MayRequestRetry(conn, t)
  /\ conn' = RequestRetry(conn, t, jitter)
  /\ UNCHANGED <<issued, admitted, terminating>>

\* A timer whose deadline has not passed, or that is not the pending one, is refused.
admit_connection_retry(r) ==
  /\ RetryIsDue(conn, r)
  /\ conn' = AdmitRetry(conn, r)
  /\ issued' = issued \cup {conn'.token}
  /\ admitted' = admitted + 1
  /\ UNCHANGED terminating

cancel_connection_retry(r) ==
  /\ conn.retry_token < MaxRetryToken
  /\ conn.pending_retry # None
  /\ conn.pending_retry.token = r
  /\ conn' = CancelRetry(conn, r)
  /\ admitted' = 0
  /\ UNCHANGED <<issued, terminating>>

connection_link_established(t) ==
  /\ conn' = Connected(conn, t)
  /\ UNCHANGED <<issued, admitted, terminating>>

connection_link_down(t) ==
  /\ conn' = LinkDown(conn, t)
  /\ UNCHANGED <<issued, admitted, terminating>>

connection_transport_failed(t) ==
  /\ conn' = TransportFailed(conn, t)
  /\ UNCHANGED <<issued, admitted, terminating>>

expire_connection_attempt(t) ==
  /\ conn' = Expire(conn, t)
  /\ UNCHANGED <<issued, admitted, terminating>>

\* The detector reached a verdict for attempt t (DeviceConnectionSession::resolve).
finish_detection(t, verified) ==
  /\ conn' = FinishDetection(conn, t, verified)
  /\ admitted' = IF MayFinishDetection(conn, t, verified) /\ verified THEN 0 ELSE admitted
  /\ UNCHANGED <<issued, terminating>>

\* Later wire evidence contradicts the verified decoder.
protocol_conflict(t) ==
  /\ conn' = Conflict(conn, t)
  /\ UNCHANGED <<issued, admitted, terminating>>

\* didDisconnect and didFailToConnect of the current attempt, up to the link being down,
\* which may retire it; the bound leaves room for its retry.
handleDisconnect(t) ==
  /\ conn.generation + 1 < MaxGeneration
  /\ IsCurrent(conn, t)
  /\ conn' = LinkDown(conn, t)
  /\ terminating' = t
  /\ UNCHANGED <<issued, admitted>>

\* The same handler goes on to ask for a retry, whatever the answer.
scheduleReconnect(jitter) ==
  /\ terminating # None
  /\ conn' = RequestRetry(conn, terminating, jitter)
  /\ terminating' = None
  /\ UNCHANGED <<issued, admitted>>

\* It returns early: the device was still being identified for the first time, the
\* connection only recorded, or the user has disconnected.  A connection that was
\* established, and its retries, are none of these.
terminationEnds ==
  /\ terminating # None
  /\ conn.retry_scope = "InitialIdentification"
  /\ terminating' = None
  /\ UNCHANGED <<conn, issued, admitted>>

TimePasses ==
  /\ conn' = Elapse(conn)
  /\ UNCHANGED <<issued, admitted, terminating>>

\* Any call from any other callback, timer or user command.
Call ==
  \/ \E id \in Devices : begin_connection_attempt(id)
  \/ disconnect_connection_attempt
  \/ \E t \in issued, jitter \in Jitters : request_connection_retry(t, jitter)
  \/ \E r \in 1 .. conn.retry_token : admit_connection_retry(r)
  \/ \E r \in 1 .. conn.retry_token : cancel_connection_retry(r)
  \/ \E t \in issued : connection_link_established(t)
  \/ \E t \in issued : connection_link_down(t)
  \/ \E t \in issued : connection_transport_failed(t)
  \/ \E t \in issued : expire_connection_attempt(t)
  \/ \E t \in issued, verified \in BOOLEAN : finish_detection(t, verified)
  \/ \E t \in issued : protocol_conflict(t)
  \/ \E t \in issued : handleDisconnect(t)
  \/ TimePasses

\* The calls are made on one serial queue: none comes between the halves of the handler.
Next ==
  \/ terminating = None /\ Call
  \/ \E jitter \in Jitters : scheduleReconnect(jitter)
  \/ terminationEnds

Spec == Init /\ [][Next]_vars

(***************************************************************************)
(* Fairness.  Time passes; the native expiry timer of the current attempt  *)
(* and the pending retry timer eventually fire after their deadlines; a    *)
(* disconnect callback that has begun is run to its end, which is one turn *)
(* of the Bluetooth queue.  Nothing is assumed of the user, the radio, the *)
(* detector or any other call, request_connection_retry included.          *)
(***************************************************************************)
Fairness ==
  /\ WF_vars(TimePasses)
  /\ WF_vars(\E t \in issued : IsCurrent(conn, t) /\ expire_connection_attempt(t))
  /\ WF_vars(\E r \in 1 .. conn.retry_token : admit_connection_retry(r))
  /\ WF_vars(terminationEnds \/ \E jitter \in Jitters : scheduleReconnect(jitter))

FairSpec == Spec /\ Fairness

-----------------------------------------------------------------------------

\* Type correctness of the attempt owner and of the tokens given to native code.
TypeOK ==
  /\ conn \in ConnectionAttemptLifecycle
  /\ issued \subseteq ConnectionAttemptToken
  /\ admitted \in Nat
  /\ terminating \in ConnectionAttemptToken \cup {None}

\* Generations identify attempts: no two tokens ever issued share one, and the current
\* token is the one of the published generation.  Every is_current check rests on this.
GenerationIdentifiesAttempt ==
  /\ \A t, u \in issued : t.generation = u.generation => t = u
  /\ \A t \in issued : t.generation <= conn.generation
  /\ conn.token # None => conn.token \in issued /\ conn.token.generation = conn.generation

\* While a reconnect is owed (failed_attempt) or its timer is pending, no attempt is live:
\* the failed attempt is the only one that can still be current, its transport is down,
\* and the timer is the newest one, for the device and the count of that failure.
RetryOwnsFailedAttempt ==
  /\ conn.failed_attempt # None =>
       /\ conn.readiness = "Failed" /\ conn.transport = "Disconnected"
       /\ conn.token \in {None, conn.failed_attempt}
  /\ conn.pending_retry # None =>
       /\ conn.failed_attempt # None
       /\ conn.pending_retry.id = conn.failed_attempt.id
       /\ conn.pending_retry.token = conn.retry_token
       /\ conn.pending_retry.attempt = conn.retry_attempt

\* Readiness Verified, which admits ride telemetry and writes, is never published for an
\* attempt that is timing out, without transport, or owing a retry.
VerifiedIsLive ==
  conn.readiness = "Verified" =>
    /\ conn.token # None /\ conn.transport = "Connected"
    /\ conn.retry_scope = "EstablishedConnection" /\ conn.retry_attempt = 0
    /\ conn.failed_attempt = None /\ conn.pending_retry = None

\* The whole-attempt deadline is armed exactly while identification is pending, so a late
\* expiry timer finds nothing to expire and a pending attempt always has one.
DeadlineGuardsIdentification ==
  /\ conn.deadline # None <=> conn.readiness = "Pending"
  /\ conn.readiness = "Pending" => conn.token # None

\* A device that was never verified is reconnected at most three times without the user
\* (or a cancelled timer) starting over, whatever order failures and timers arrive in.
InitialRetriesAreBounded ==
  conn.retry_scope = "InitialIdentification" => admitted <= InitialRetryLimit

\* An attempt that was replaced or invalidated never becomes current again, so callbacks
\* that captured its token stay without effect for ever.
RetiredTokenStaysRetired ==
  [][\A t \in issued : t # conn.token => t # conn'.token]_vars

\* finish_detection completes pending identification exactly once: within one attempt the
\* verdict is never reopened, and RecordOnly or Failed never turns into Verified.
VerdictIsFinal ==
  [][(conn.token # None /\ conn'.token = conn.token /\ conn.readiness # "Pending")
       => conn'.readiness \in {conn.readiness, "Failed"}]_vars

\* ConnectionAttemptSnapshot without its revision; of the deadline, whether it is armed.
Published(c) ==
  <<c.generation, c.token, c.readiness, c.transport, c.deadline = None>>

\* Consumers detect change by number: every change of the published snapshot changes the
\* revision, and every change of owner changes the generation.
ChangesAreNumbered ==
  [][/\ Published(conn') # Published(conn) => conn'.revision # conn.revision
     /\ conn'.token # conn.token => conn'.generation > conn.generation]_vars

Tokens == INSTANCE AttemptTokens WITH generation <- conn.generation, token <- conn.token

\* The attempt owner implements the specification that captures and other token holders
\* rely on: the current token changes only together with the next generation.
ImplementsTokens == Tokens!Spec

\* Identification of every attempt ends: by a verdict, a failure, a replacement or, at
\* the latest, by the expiry timer.
IdentificationTerminates ==
  \A g \in 1 .. MaxGeneration :
    LET Identifying == conn.token # None /\ conn.token.generation = g
                         /\ conn.readiness = "Pending"
    IN  []<> ~Identifying

\* "A verified connection keeps recovering until explicitly disconnected or replaced"
\* (request_retry), as far as the app asks: when the disconnect callback of an established
\* connection, or of one of its retries, is handled, the failure it leaves is always taken
\* up, by a retry, a cancellation, a disconnect or another attempt, however often the
\* retries fail.  A connection lost in another way (connection_transport_failed, Bluetooth
\* switched off) is not retried by the app, and not claimed here.
LostConnectionIsRetried ==
  (terminating # None /\ conn.retry_scope = "EstablishedConnection")
    ~> (terminating = None /\ conn.failed_attempt = None)
=============================================================================
