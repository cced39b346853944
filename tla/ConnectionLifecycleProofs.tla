--------------------- MODULE ConnectionLifecycleProofs ---------------------
(***************************************************************************)
(* Proofs about ConnectionLifecycle for every set of devices, every        *)
(* jitter and every bound on generations and retry timers.                 *)
(***************************************************************************)
EXTENDS ConnectionLifecycle, TLAPS

LEMMA RetryBaseCases ==
  ASSUME NEW attempt \in Nat, attempt >= 1
  PROVE  RetryBase(attempt) \in {250, 500, 1000, 2000, 4000, 8000, 16000, 25000}
<1>1. Min2(attempt - 1, 7) + 1 \in 1 .. 8
  BY DEF Min2
<1>2. \A i \in 1 .. 8 : ShiftLeftOne[i] \in {1, 2, 4, 8, 16, 32, 64, 128}
  BY DEF ShiftLeftOne
<1> QED
  BY <1>1, <1>2 DEF RetryBase, Min2

\* Every reconnect delay lies between 200 ms and 30 s whatever the failure count and the
\* entropy, and from the eighth consecutive failure on it lies between 20 and 30 seconds
\* (the comment beside the backoff computation in request_retry).
THEOREM RetryDelayBounds ==
  ASSUME NEW attempt \in Nat, attempt >= 1, NEW jitter \in Nat
  PROVE  /\ RetryDelay(attempt, jitter) \in Nat
         /\ 200 <= RetryDelay(attempt, jitter) /\ RetryDelay(attempt, jitter) <= 30000
         /\ attempt >= 8 => 20000 <= RetryDelay(attempt, jitter)
<1> DEFINE j == Min2(jitter, 1000)
           b == RetryBase(attempt)
           x == b * (8000 + 4 * j) + 5000
<1>1. j \in Nat /\ j <= 1000
  BY SMT DEF Min2
<1>2. b \in {250, 500, 1000, 2000, 4000, 8000, 16000, 25000}
  BY RetryBaseCases, SMT
<1>3. attempt >= 8 => b = 25000
  BY SMT DEF RetryBase, Min2, ShiftLeftOne
<1> HIDE DEF b, j
<1>4. x \in Nat /\ 2005000 <= x /\ x <= 300005000 /\ (attempt >= 8 => 200005000 <= x)
  BY <1>1, <1>2, <1>3, SMT
<1>5. RetryDelay(attempt, jitter) = x \div 10000
  BY SMT DEF RetryDelay, b, j
<1> HIDE DEF x
<1>6. /\ x \div 10000 \in Nat /\ 200 <= x \div 10000 /\ x \div 10000 <= 30000
      /\ attempt >= 8 => 20000 <= x \div 10000
  BY <1>4, SMT
<1> QED
  BY <1>5, <1>6, SMT

LEMMA RetryDelayType ==
  ASSUME NEW attempt \in Nat, attempt >= 1, NEW jitter \in Nat
  PROVE  RetryDelay(attempt, jitter) \in Nat
BY RetryDelayBounds, SMT

-----------------------------------------------------------------------------

\* What the safety invariants say of the attempt owner alone.
Coherent(c) ==
  /\ c \in ConnectionAttemptLifecycle
  /\ c.token # None => c.token.generation = c.generation
  /\ c.failed_attempt # None =>
       /\ c.readiness = "Failed" /\ c.transport = "Disconnected"
       /\ c.token \in {None, c.failed_attempt}
  /\ c.pending_retry # None =>
       /\ c.failed_attempt # None
       /\ c.pending_retry.id = c.failed_attempt.id
       /\ c.pending_retry.token = c.retry_token
       /\ c.pending_retry.attempt = c.retry_attempt
  /\ c.readiness = "Verified" =>
       /\ c.token # None /\ c.transport = "Connected"
       /\ c.retry_scope = "EstablishedConnection" /\ c.retry_attempt = 0
       /\ c.failed_attempt = None /\ c.pending_retry = None
  /\ c.deadline # None <=> c.readiness = "Pending"
  /\ c.readiness = "Pending" => c.token # None

\* A call that opens a new attempt.
Opens(c, d) ==
  /\ Coherent(d)
  /\ d.token # None
  /\ d.generation = c.generation + 1
  /\ d.revision # c.revision

\* A call that keeps the attempt or retires it, as the action properties demand.
Keeps(c, d) ==
  /\ Coherent(d)
  /\ \/ d.token = c.token /\ d.generation = c.generation
     \/ d.token = None /\ d.generation = c.generation + 1
  /\ (c.token # None /\ d.token = c.token /\ c.readiness # "Pending") =>
       d.readiness \in {c.readiness, "Failed"}
  /\ Published(d) # Published(c) => d.revision # c.revision

LEMMA BumpType ==
  ASSUME NEW r \in 0 .. RevisionModulus - 1
  PROVE  Bump(r) \in 0 .. RevisionModulus - 1 /\ Bump(r) # r /\ Bump(Bump(r)) # r
BY ConnectionAssumption DEF Bump

\* A step that changes nothing keeps the attempt.
LEMMA Stutter ==
  ASSUME NEW c, Coherent(c)
  PROVE  Keeps(c, c)
BY DEF Keeps

LEMMA BeginAttemptOpens ==
  ASSUME NEW c \in ConnectionAttemptLifecycle, c.failed_attempt = None, c.pending_retry = None,
         NEW id \in Devices
  PROVE  Opens(c, BeginAttempt(c, id))
<1> DEFINE t == [generation |-> c.generation + 1, id |-> id]
           d == BeginAttempt(c, id)
<1>1. t \in ConnectionAttemptToken /\ t # None /\ t.generation = c.generation + 1
  BY ConnectionAssumption DEF ConnectionAttemptLifecycle, ConnectionAttemptToken
<1>2. AttemptTimeout \in Nat \cup {None} /\ AttemptTimeout # None
  BY ConnectionAssumption, SMT DEF AttemptTimeout
<1>3. /\ c.generation + 1 \in Nat
      /\ Bump(c.revision) \in 0 .. RevisionModulus - 1 /\ Bump(c.revision) # c.revision
  BY BumpType DEF ConnectionAttemptLifecycle
<1>4. d \in ConnectionAttemptLifecycle
  BY <1>1, <1>2, <1>3, Zenon DEF BeginAttempt, ConnectionAttemptLifecycle, Readiness, Transport
<1>5. /\ d.generation = c.generation + 1 /\ d.token = t /\ d.deadline = AttemptTimeout
      /\ d.readiness = "Pending" /\ d.failed_attempt = None /\ d.pending_retry = None
      /\ d.revision = Bump(c.revision)
  BY SMT DEF BeginAttempt, ConnectionAttemptLifecycle
<1> HIDE DEF t, d
<1> QED
  BY <1>1, <1>2, <1>3, <1>4, <1>5, Zenon DEF Opens, Coherent, d

LEMMA BeginOpens ==
  ASSUME NEW c, Coherent(c), NEW id \in Devices
  PROVE  Opens(c, Begin(c, id))
<1> DEFINE b == [c EXCEPT !.retry_scope = "InitialIdentification",
                          !.retry_attempt = 0,
                          !.failed_attempt = None,
                          !.pending_retry = None]
<1>1. c \in ConnectionAttemptLifecycle /\ 0 \in 0 .. RetryAttemptMax
  BY ConnectionAssumption DEF Coherent
<1>2. b \in ConnectionAttemptLifecycle
  BY <1>1, Zenon DEF ConnectionAttemptLifecycle, RetryScope
<1>3. /\ b.failed_attempt = None /\ b.pending_retry = None
      /\ b.generation = c.generation /\ b.revision = c.revision
  BY <1>1, SMT DEF ConnectionAttemptLifecycle
<1>4. Begin(c, id) = BeginAttempt(b, id)
  BY Zenon DEF Begin
<1> HIDE DEF b
<1> QED
  BY <1>2, <1>3, <1>4, BeginAttemptOpens, Zenon DEF Opens

\* The values the calls below store in the record have the record's types.
LEMMA StoredTypes ==
  ASSUME NEW c \in ConnectionAttemptLifecycle
  PROVE  /\ c.generation + 1 \in Nat /\ c.retry_token + 1 \in Nat
         /\ 0 \in 0 .. RetryAttemptMax
         /\ NextRetryAttempt(c) \in 0 .. RetryAttemptMax
         /\ NextRetryAttempt(c) \in Nat /\ NextRetryAttempt(c) >= 1
         /\ Bump(c.revision) \in 0 .. RevisionModulus - 1
         /\ Bump(c.revision) # c.revision /\ Bump(Bump(c.revision)) # c.revision
BY BumpType, ConnectionAssumption DEF ConnectionAttemptLifecycle, NextRetryAttempt, Min2

LEMMA DisconnectKeeps ==
  ASSUME NEW c \in ConnectionAttemptLifecycle
  PROVE  Keeps(c, Disconnect(c))
<1> DEFINE d == Disconnect(c)
<1>1. d \in ConnectionAttemptLifecycle
  BY StoredTypes, Zenon DEF Disconnect, ConnectionAttemptLifecycle, Readiness, Transport, RetryScope
<1>2. /\ d.failed_attempt = None /\ d.pending_retry = None /\ d.deadline = None
      /\ d.token = None /\ d.readiness = "Disconnected"
      /\ d.generation = c.generation + 1 /\ d.revision = Bump(c.revision)
  BY SMT DEF Disconnect, ConnectionAttemptLifecycle
<1> HIDE DEF d
<1> QED
  BY <1>1, <1>2, StoredTypes, Zenon DEF Keeps, Coherent, d

LEMMA ExhaustRetriesKeeps ==
  ASSUME NEW c, Coherent(c), NEW t \in ConnectionAttemptToken, MayRequestRetry(c, t)
  PROVE  Keeps(c, ExhaustRetries(c, t))
<1> DEFINE f == [c EXCEPT !.failed_attempt = t, !.retry_attempt = NextRetryAttempt(c)]
           d == ExhaustRetries(c, t)
<1>1. c \in ConnectionAttemptLifecycle
  BY DEF Coherent
<1>2. f \in ConnectionAttemptLifecycle
  BY <1>1, StoredTypes, Zenon DEF ConnectionAttemptLifecycle
<1>3. /\ f.failed_attempt = t /\ f.pending_retry = c.pending_retry /\ f.token = c.token
      /\ f.generation = c.generation /\ f.revision = c.revision /\ f.deadline = c.deadline
      /\ f.readiness = c.readiness /\ f.transport = c.transport
  BY <1>1, SMT DEF ConnectionAttemptLifecycle
<1>4. t # None /\ c.pending_retry = None
  BY ConnectionAssumption DEF MayRequestRetry, ConnectionAttemptToken
<1>5. CASE IsCurrent(c, t)
  <2>1. d = [f EXCEPT !.generation = @ + 1, !.revision = Bump(@), !.token = None,
                      !.deadline = None, !.readiness = "Failed", !.transport = "Disconnected"]
    BY <1>5, Zenon DEF ExhaustRetries
  <2> HIDE DEF d, f
  <2>2. f.generation + 1 \in Nat /\ Bump(f.revision) \in 0 .. RevisionModulus - 1
    BY <1>2, StoredTypes
  <2>3. d \in ConnectionAttemptLifecycle
    BY <1>2, <2>1, <2>2, Zenon DEF ConnectionAttemptLifecycle, Readiness, Transport
  <2>4. /\ d.failed_attempt = t /\ d.pending_retry = None /\ d.deadline = None
        /\ d.token = None /\ d.readiness = "Failed" /\ d.transport = "Disconnected"
        /\ d.generation = c.generation + 1 /\ d.revision = Bump(c.revision)
    BY <1>2, <1>3, <1>4, <2>1, SMT DEF ConnectionAttemptLifecycle
  <2> QED
    BY <1>1, <1>4, <2>3, <2>4, StoredTypes, Zenon DEF Keeps, Coherent, d
<1>6. CASE ~ IsCurrent(c, t)
  <2>1. d = f
    BY <1>6, Zenon DEF ExhaustRetries
  <2>2. c.failed_attempt = t
    BY <1>6 DEF MayRequestRetry
  <2> HIDE DEF d, f
  <2> QED
    BY <1>2, <1>3, <1>4, <2>1, <2>2, Zenon DEF Keeps, Coherent, Published, d
<1> QED
  BY <1>5, <1>6

LEMMA ScheduleRetryKeeps ==
  ASSUME NEW c, Coherent(c), NEW t \in ConnectionAttemptToken, MayRequestRetry(c, t),
         NEW jitter \in Nat
  PROVE  Keeps(c, ScheduleRetry(c, t, jitter))
<1> DEFINE r == [token |-> c.retry_token + 1, attempt |-> NextRetryAttempt(c),
                 deadline |-> RetryDelay(NextRetryAttempt(c), jitter), id |-> t.id]
           f == [c EXCEPT !.failed_attempt = t,
                          !.retry_attempt = NextRetryAttempt(c),
                          !.retry_token = c.retry_token + 1,
                          !.pending_retry = r]
           d == ScheduleRetry(c, t, jitter)
<1>1. c \in ConnectionAttemptLifecycle
  BY DEF Coherent
<1>2. RetryDelay(NextRetryAttempt(c), jitter) \in Nat /\ t.id \in Devices /\ t # None
  <2>1. NextRetryAttempt(c) \in Nat /\ NextRetryAttempt(c) >= 1
    BY <1>1, StoredTypes
  <2>2. RetryDelay(NextRetryAttempt(c), jitter) \in Nat
    BY <2>1, RetryDelayType, Zenon
  <2> QED
    BY <2>2, ConnectionAssumption DEF ConnectionAttemptToken
<1>3. r \in ConnectionRetry /\ r.id = t.id /\ r.token = c.retry_token + 1
        /\ r.attempt = NextRetryAttempt(c)
  BY <1>1, <1>2, StoredTypes DEF ConnectionRetry
<1> HIDE DEF r
<1>4. f \in ConnectionAttemptLifecycle
  BY <1>1, <1>3, StoredTypes, Zenon DEF ConnectionAttemptLifecycle
<1>5. /\ f.failed_attempt = t /\ f.pending_retry = r /\ f.token = c.token
      /\ f.retry_token = c.retry_token + 1 /\ f.retry_attempt = NextRetryAttempt(c)
      /\ f.generation = c.generation /\ f.revision = c.revision /\ f.deadline = c.deadline
      /\ f.readiness = c.readiness /\ f.transport = c.transport
  BY <1>1, SMT DEF ConnectionAttemptLifecycle
<1>6. CASE IsCurrent(c, t)
  <2>1. d = [f EXCEPT !.deadline = None, !.readiness = "Failed",
                      !.transport = "Disconnected", !.revision = Bump(@)]
    BY <1>6, Zenon DEF ScheduleRetry, r
  <2> HIDE DEF d, f
  <2>2. Bump(f.revision) \in 0 .. RevisionModulus - 1
    BY <1>4, StoredTypes
  <2>3. d \in ConnectionAttemptLifecycle
    BY <1>4, <2>1, <2>2, Zenon DEF ConnectionAttemptLifecycle, Readiness, Transport
  <2>4. /\ d.failed_attempt = t /\ d.pending_retry = r /\ d.deadline = None
        /\ d.retry_token = c.retry_token + 1 /\ d.retry_attempt = NextRetryAttempt(c)
        /\ d.token = t /\ d.readiness = "Failed" /\ d.transport = "Disconnected"
        /\ d.generation = c.generation /\ d.revision = Bump(c.revision)
    BY <1>4, <1>5, <1>6, <2>1, SMT DEF ConnectionAttemptLifecycle, IsCurrent
  <2> QED
    BY <1>1, <1>2, <1>3, <1>6, <2>3, <2>4, StoredTypes, Zenon DEF Keeps, Coherent, IsCurrent, d
<1>7. CASE ~ IsCurrent(c, t)
  <2>1. d = f
    BY <1>7, Zenon DEF ScheduleRetry, r
  <2>2. c.failed_attempt = t
    BY <1>7 DEF MayRequestRetry
  <2> HIDE DEF d, f
  <2> QED
    BY <1>2, <1>3, <1>4, <1>5, <2>1, <2>2, Zenon DEF Keeps, Coherent, Published, d
<1> QED
  BY <1>6, <1>7

LEMMA RequestRetryKeeps ==
  ASSUME NEW c, Coherent(c), NEW t \in ConnectionAttemptToken, NEW jitter \in Nat
  PROVE  Keeps(c, RequestRetry(c, t, jitter))
BY Stutter, ExhaustRetriesKeeps, ScheduleRetryKeeps, Zenon DEF RequestRetry

LEMMA AdmitRetryOpens ==
  ASSUME NEW c, Coherent(c), NEW r, RetryIsDue(c, r)
  PROVE  Opens(c, AdmitRetry(c, r))
<1> DEFINE b == [c EXCEPT !.pending_retry = None, !.failed_attempt = None]
<1>1. c \in ConnectionAttemptLifecycle /\ c.pending_retry.id \in Devices
  BY DEF Coherent, RetryIsDue, ConnectionAttemptLifecycle, ConnectionRetry
<1>2. b \in ConnectionAttemptLifecycle
  BY <1>1, Zenon DEF ConnectionAttemptLifecycle
<1>3. /\ b.failed_attempt = None /\ b.pending_retry = None
      /\ b.generation = c.generation /\ b.revision = c.revision
  BY <1>1, SMT DEF ConnectionAttemptLifecycle
<1>4. AdmitRetry(c, r) = BeginAttempt(b, c.pending_retry.id)
  BY Zenon DEF AdmitRetry
<1> HIDE DEF b
<1> QED
  BY <1>1, <1>2, <1>3, <1>4, BeginAttemptOpens, Zenon DEF Opens

LEMMA CancelRetryKeeps ==
  ASSUME NEW c, Coherent(c), NEW r
  PROVE  Keeps(c, CancelRetry(c, r))
<1> DEFINE d == [c EXCEPT !.pending_retry = None, !.retry_attempt = 0, !.failed_attempt = None]
<1>1. c \in ConnectionAttemptLifecycle
  BY DEF Coherent
<1>2. d \in ConnectionAttemptLifecycle
  BY <1>1, StoredTypes, Zenon DEF ConnectionAttemptLifecycle
<1>3. /\ d.failed_attempt = None /\ d.pending_retry = None /\ d.retry_attempt = 0
      /\ d.token = c.token /\ d.generation = c.generation /\ d.revision = c.revision
      /\ d.deadline = c.deadline /\ d.readiness = c.readiness /\ d.transport = c.transport
      /\ d.retry_scope = c.retry_scope
  BY <1>1, SMT DEF ConnectionAttemptLifecycle
<1> HIDE DEF d
<1>4. Keeps(c, d)
  BY <1>2, <1>3, Zenon DEF Keeps, Coherent, Published
<1>5. CancelRetry(c, r) = d \/ CancelRetry(c, r) = c
  BY Zenon DEF CancelRetry, d
<1> QED
  BY <1>4, <1>5, Stutter, Zenon

\* A verdict on a pending attempt; the transport may just have been marked down.
LEMMA FinishDetectionKeeps ==
  ASSUME NEW c, Coherent(c), NEW t, NEW verified \in BOOLEAN
  PROVE  Keeps(c, FinishDetection(c, t, verified))
<1> DEFINE e == [c EXCEPT !.readiness = "Verified",
                          !.retry_scope = "EstablishedConnection",
                          !.retry_attempt = 0,
                          !.failed_attempt = None,
                          !.pending_retry = None,
                          !.deadline = None,
                          !.revision = Bump(@)]
           n == [c EXCEPT !.readiness = "RecordOnly", !.deadline = None, !.revision = Bump(@)]
<1>1. c \in ConnectionAttemptLifecycle
  BY DEF Coherent
<1>2. e \in ConnectionAttemptLifecycle /\ n \in ConnectionAttemptLifecycle
  BY <1>1, StoredTypes, Zenon DEF ConnectionAttemptLifecycle, Readiness, RetryScope
<1>3. /\ e.token = c.token /\ e.generation = c.generation /\ e.revision = Bump(c.revision)
      /\ e.readiness = "Verified" /\ e.deadline = None /\ e.transport = c.transport
      /\ e.retry_scope = "EstablishedConnection" /\ e.retry_attempt = 0
      /\ e.failed_attempt = None /\ e.pending_retry = None
  BY <1>1, SMT DEF ConnectionAttemptLifecycle
<1>4. /\ n.token = c.token /\ n.generation = c.generation /\ n.revision = Bump(c.revision)
      /\ n.readiness = "RecordOnly" /\ n.deadline = None
      /\ n.failed_attempt = c.failed_attempt /\ n.pending_retry = c.pending_retry
  BY <1>1, SMT DEF ConnectionAttemptLifecycle
<1>5. \/ FinishDetection(c, t, verified) = c
      \/ /\ c.readiness = "Pending"
         /\ \/ c.transport = "Connected" /\ FinishDetection(c, t, verified) = e
            \/ FinishDetection(c, t, verified) = n
  BY Zenon DEF FinishDetection, MayFinishDetection
<1> HIDE DEF e, n
<1>6. c.readiness = "Pending" => c.failed_attempt = None /\ c.pending_retry = None /\ c.token # None
  BY DEF Coherent
<1>7. ASSUME c.readiness = "Pending", c.transport = "Connected" PROVE Keeps(c, e)
  BY <1>1, <1>2, <1>3, <1>6, <1>7, StoredTypes, Zenon DEF Keeps, Coherent
<1>8. ASSUME c.readiness = "Pending" PROVE Keeps(c, n)
  BY <1>1, <1>2, <1>4, <1>6, <1>8, StoredTypes, Zenon DEF Keeps, Coherent
<1> QED
  BY <1>5, <1>7, <1>8, Stutter, Zenon

LEMMA ExpireKeeps ==
  ASSUME NEW c, Coherent(c), NEW t
  PROVE  Keeps(c, Expire(c, t))
BY FinishDetectionKeeps, Stutter, Zenon DEF Expire

LEMMA ConnectedKeeps ==
  ASSUME NEW c, Coherent(c), NEW t
  PROVE  Keeps(c, Connected(c, t))
<1> DEFINE d == [c EXCEPT !.transport = "Connected", !.revision = Bump(@)]
<1>1. c \in ConnectionAttemptLifecycle
  BY DEF Coherent
<1>2. d \in ConnectionAttemptLifecycle
  BY <1>1, StoredTypes, Zenon DEF ConnectionAttemptLifecycle, Transport
<1>3. /\ d.token = c.token /\ d.generation = c.generation /\ d.revision = Bump(c.revision)
      /\ d.readiness = c.readiness /\ d.deadline = c.deadline /\ d.transport = "Connected"
      /\ d.failed_attempt = c.failed_attempt /\ d.pending_retry = c.pending_retry
  BY <1>1, SMT DEF ConnectionAttemptLifecycle
<1>4. \/ Connected(c, t) = c
      \/ Connected(c, t) = d /\ c.transport = "Connecting"
  BY Zenon DEF Connected
<1> HIDE DEF d
<1>5. c.transport = "Connecting" => /\ c.failed_attempt = None /\ c.pending_retry = None
                                    /\ c.readiness # "Verified"
  BY DEF Coherent
<1>6. ASSUME c.transport = "Connecting" PROVE Keeps(c, d)
  BY <1>1, <1>2, <1>3, <1>5, <1>6, StoredTypes, Zenon DEF Keeps, Coherent
<1> QED
  BY <1>4, <1>6, Stutter, Zenon

LEMMA ConflictKeeps ==
  ASSUME NEW c, Coherent(c), NEW t
  PROVE  Keeps(c, Conflict(c, t))
<1> DEFINE d == [c EXCEPT !.generation = @ + 1, !.revision = Bump(@), !.token = None,
                          !.deadline = None, !.readiness = "Conflicted",
                          !.transport = "Disconnected"]
<1>1. c \in ConnectionAttemptLifecycle
  BY DEF Coherent
<1>2. d \in ConnectionAttemptLifecycle
  BY <1>1, StoredTypes, Zenon DEF ConnectionAttemptLifecycle, Readiness, Transport
<1>3. /\ d.token = None /\ d.generation = c.generation + 1 /\ d.revision = Bump(c.revision)
      /\ d.readiness = "Conflicted" /\ d.deadline = None
      /\ d.failed_attempt = c.failed_attempt /\ d.pending_retry = c.pending_retry
  BY <1>1, SMT DEF ConnectionAttemptLifecycle
<1>4. \/ Conflict(c, t) = c
      \/ Conflict(c, t) = d /\ c.readiness = "Verified"
  BY Zenon DEF Conflict
<1> HIDE DEF d
<1>5. c.readiness = "Verified" => /\ c.failed_attempt = None /\ c.pending_retry = None
                                  /\ c.token # None
  BY DEF Coherent
<1>6. ASSUME c.readiness = "Verified" PROVE Keeps(c, d)
  BY <1>1, <1>2, <1>3, <1>5, <1>6, StoredTypes, Zenon DEF Keeps, Coherent
<1> QED
  BY <1>4, <1>6, Stutter, Zenon

\* A verified transport is retired for recovery; LinkDown has marked it down before.
LEMMA LostTransportKeeps ==
  ASSUME NEW c \in ConnectionAttemptLifecycle, NEW t \in ConnectionAttemptToken
  PROVE  LET d == [Disconnect(c) EXCEPT !.retry_scope = "EstablishedConnection",
                                        !.failed_attempt = t,
                                        !.readiness = "Failed"]
         IN  /\ Coherent(d) /\ d.token = None
             /\ d.generation = c.generation + 1 /\ d.revision = Bump(c.revision)
<1> DEFINE e == Disconnect(c)
           d == [e EXCEPT !.retry_scope = "EstablishedConnection",
                          !.failed_attempt = t,
                          !.readiness = "Failed"]
<1>1. e \in ConnectionAttemptLifecycle
  BY DisconnectKeeps DEF Keeps, Coherent
<1>2. /\ e.pending_retry = None /\ e.deadline = None /\ e.token = None
      /\ e.transport = "Disconnected"
      /\ e.generation = c.generation + 1 /\ e.revision = Bump(c.revision)
  BY SMT DEF Disconnect, ConnectionAttemptLifecycle
<1> HIDE DEF e
<1>3. d \in ConnectionAttemptLifecycle
  BY <1>1, Zenon DEF ConnectionAttemptLifecycle, Readiness, RetryScope
<1>4. /\ d.pending_retry = None /\ d.deadline = None /\ d.token = None
      /\ d.transport = "Disconnected" /\ d.readiness = "Failed" /\ d.failed_attempt = t
      /\ d.generation = c.generation + 1 /\ d.revision = Bump(c.revision)
  BY <1>1, <1>2, SMT DEF ConnectionAttemptLifecycle
<1> HIDE DEF d
<1>5. Coherent(d)
  BY <1>3, <1>4, Zenon DEF Coherent
<1> QED
  BY <1>4, <1>5, Zenon DEF d, e

LEMMA TransportFailedKeeps ==
  ASSUME NEW c, Coherent(c), NEW t \in ConnectionAttemptToken
  PROVE  Keeps(c, TransportFailed(c, t))
<1> DEFINE d == [Disconnect(c) EXCEPT !.retry_scope = "EstablishedConnection",
                                      !.failed_attempt = t,
                                      !.readiness = "Failed"]
<1>1. c \in ConnectionAttemptLifecycle
  BY DEF Coherent
<1>2. /\ Coherent(d) /\ d.token = None
      /\ d.generation = c.generation + 1 /\ d.revision = Bump(c.revision)
  BY <1>1, LostTransportKeeps, Zenon
<1>3. \/ TransportFailed(c, t) = FinishDetection(c, t, FALSE)
      \/ TransportFailed(c, t) = d /\ c.readiness = "Verified"
      \/ TransportFailed(c, t) = c
  BY DEF TransportFailed
<1> HIDE DEF d
<1>4. ASSUME c.readiness = "Verified" PROVE Keeps(c, d)
  BY <1>1, <1>2, <1>4, StoredTypes, Zenon DEF Keeps, Coherent
<1> QED
  BY <1>3, <1>4, FinishDetectionKeeps, Stutter, Zenon

LEMMA LinkDownKeeps ==
  ASSUME NEW c, Coherent(c), NEW t \in ConnectionAttemptToken
  PROVE  Keeps(c, LinkDown(c, t))
<1> DEFINE m == [c EXCEPT !.transport = "Disconnected", !.revision = Bump(@)]
           d == TransportFailed(m, t)
<1>1. c \in ConnectionAttemptLifecycle
  BY DEF Coherent
<1>2. m \in ConnectionAttemptLifecycle
  BY <1>1, StoredTypes, Zenon DEF ConnectionAttemptLifecycle, Transport
<1>3. /\ m.token = c.token /\ m.generation = c.generation /\ m.revision = Bump(c.revision)
      /\ m.readiness = c.readiness /\ m.deadline = c.deadline /\ m.transport = "Disconnected"
      /\ m.failed_attempt = c.failed_attempt /\ m.pending_retry = c.pending_retry
      /\ m.retry_token = c.retry_token /\ m.retry_attempt = c.retry_attempt
  BY <1>1, SMT DEF ConnectionAttemptLifecycle
<1>4. \/ LinkDown(c, t) = c
      \/ LinkDown(c, t) = d /\ IsCurrent(c, t)
  BY Zenon DEF LinkDown
<1> HIDE DEF m
<1>5. CASE IsCurrent(c, t) /\ c.readiness = "Verified"
  <2> DEFINE l == [Disconnect(m) EXCEPT !.retry_scope = "EstablishedConnection",
                                        !.failed_attempt = t,
                                        !.readiness = "Failed"]
  <2>1. d = l
    BY <1>3, <1>5 DEF TransportFailed, IsCurrent
  <2>2. /\ Coherent(l) /\ l.token = None
        /\ l.generation = m.generation + 1 /\ l.revision = Bump(m.revision)
    BY <1>2, LostTransportKeeps, Zenon
  <2> HIDE DEF l, d
  <2>3. Bump(Bump(c.revision)) # c.revision
    BY <1>1, StoredTypes, Zenon
  <2>4. Keeps(c, l)
    BY <1>3, <1>5, <2>2, <2>3, Zenon DEF Keeps, IsCurrent
  <2> QED
    BY <1>4, <2>1, <2>4, Stutter, Zenon
<1>6. CASE ~ (IsCurrent(c, t) /\ c.readiness = "Verified")
  <2>1. IsCurrent(c, t) => Keeps(c, m) /\ Coherent(m)
    BY <1>1, <1>2, <1>3, <1>6, StoredTypes, Zenon DEF Keeps, Coherent
  <2>2. IsCurrent(c, t) => \/ d = FinishDetection(m, t, FALSE) /\ c.readiness = "Pending"
                           \/ d = m
    BY <1>3, <1>6 DEF TransportFailed, IsCurrent
  <2>3. ASSUME IsCurrent(c, t), c.readiness = "Pending"
        PROVE  /\ FinishDetection(m, t, FALSE).revision = Bump(m.revision)
               /\ FinishDetection(m, t, FALSE).token = c.token
               /\ FinishDetection(m, t, FALSE).generation = c.generation
    BY <1>2, <1>3, <2>3
    DEF FinishDetection, MayFinishDetection, IsCurrent, ConnectionAttemptLifecycle
  <2>4. IsCurrent(c, t) => Keeps(m, FinishDetection(m, t, FALSE))
    BY <2>1, FinishDetectionKeeps, Zenon
  <2> HIDE DEF d
  <2>5. ASSUME IsCurrent(c, t), d = FinishDetection(m, t, FALSE), c.readiness = "Pending"
        PROVE  Keeps(c, d)
    BY <1>1, <1>3, <2>3, <2>4, <2>5, StoredTypes, Zenon DEF Keeps
  <2> QED
    BY <1>4, <2>1, <2>2, <2>5, Stutter, Zenon
<1> QED
  BY <1>5, <1>6

LEMMA ElapseKeeps ==
  ASSUME NEW c, Coherent(c)
  PROVE  Keeps(c, Elapse(c))
<1> DEFINE r == IF c.pending_retry = None THEN None
                ELSE [c.pending_retry EXCEPT !.deadline = 0]
           n == IF c.deadline = None THEN None ELSE 0
           d == [c EXCEPT !.deadline = n, !.pending_retry = r]
<1>1. c \in ConnectionAttemptLifecycle
  BY DEF Coherent
<1>2. /\ n \in Nat \cup {None} /\ (n = None <=> c.deadline = None)
      /\ r \in ConnectionRetry \cup {None} /\ (r = None <=> c.pending_retry = None)
  BY <1>1, ConnectionAssumption DEF ConnectionAttemptLifecycle, ConnectionRetry
<1>3. r # None => /\ r.id = c.pending_retry.id /\ r.token = c.pending_retry.token
                  /\ r.attempt = c.pending_retry.attempt
  BY <1>1, ConnectionAssumption DEF ConnectionAttemptLifecycle, ConnectionRetry
<1>4. Elapse(c) = d
  BY Zenon DEF Elapse
<1> HIDE DEF n, r
<1>5. d \in ConnectionAttemptLifecycle
  BY <1>1, <1>2, Zenon DEF ConnectionAttemptLifecycle
<1>6. /\ d.token = c.token /\ d.generation = c.generation /\ d.revision = c.revision
      /\ d.readiness = c.readiness /\ d.transport = c.transport
      /\ d.deadline = n /\ d.pending_retry = r /\ d.failed_attempt = c.failed_attempt
      /\ d.retry_token = c.retry_token /\ d.retry_attempt = c.retry_attempt
      /\ d.retry_scope = c.retry_scope
  BY <1>1, SMT DEF ConnectionAttemptLifecycle
<1> HIDE DEF d
<1>7. Coherent(d)
  BY <1>2, <1>3, <1>5, <1>6, Zenon DEF Coherent
<1>8. Published(d) = Published(c)
  BY <1>2, <1>6, Zenon DEF Published
<1> QED
  BY <1>4, <1>6, <1>7, <1>8, Zenon DEF Keeps

-----------------------------------------------------------------------------

\* The inductive invariant: the owner is coherent, and generations order the tokens.
IInv ==
  /\ Coherent(conn)
  /\ issued \subseteq ConnectionAttemptToken
  /\ admitted \in Nat
  /\ terminating \in ConnectionAttemptToken \cup {None}
  /\ GenerationIdentifiesAttempt

LEMMA InitIInv == Init => IInv
<1> SUFFICES ASSUME Init PROVE IInv
  OBVIOUS
<1>1. DefaultLifecycle \in ConnectionAttemptLifecycle
  BY ConnectionAssumption
  DEF DefaultLifecycle, ConnectionAttemptLifecycle, Readiness, Transport, RetryScope
<1>2. Coherent(DefaultLifecycle) /\ DefaultLifecycle.token = None
  BY <1>1 DEF Coherent, DefaultLifecycle
<1> QED
  BY <1>2 DEF Init, IInv, GenerationIdentifiesAttempt

\* Every action opens an attempt with a fresh token or keeps the current one.
LEMMA NextCases ==
  ASSUME IInv, Next
  PROVE  \/ Opens(conn, conn') /\ issued' = issued \cup {conn'.token}
         \/ Keeps(conn, conn') /\ issued' = issued
<1> USE DEF IInv
<1>1. CASE \E id \in Devices : begin_connection_attempt(id)
  BY <1>1, BeginOpens, Zenon DEF begin_connection_attempt
<1>2. CASE disconnect_connection_attempt
  BY <1>2, DisconnectKeeps, Zenon DEF disconnect_connection_attempt, Coherent
<1>3. CASE \E t \in issued, jitter \in Jitters : request_connection_retry(t, jitter)
  BY <1>3, RequestRetryKeeps, LifecycleAssumption, Zenon DEF request_connection_retry
<1>4. CASE \E r \in 1 .. conn.retry_token : admit_connection_retry(r)
  BY <1>4, AdmitRetryOpens, Zenon DEF admit_connection_retry
<1>5. CASE \E r \in 1 .. conn.retry_token : cancel_connection_retry(r)
  BY <1>5, CancelRetryKeeps, Zenon DEF cancel_connection_retry
<1>6. CASE \E t \in issued : connection_link_established(t)
  BY <1>6, ConnectedKeeps, Zenon DEF connection_link_established
<1>7. CASE \E t \in issued : connection_link_down(t)
  BY <1>7, LinkDownKeeps, Zenon DEF connection_link_down
<1>8. CASE \E t \in issued : connection_transport_failed(t)
  BY <1>8, TransportFailedKeeps, Zenon DEF connection_transport_failed
<1>9. CASE \E t \in issued : expire_connection_attempt(t)
  BY <1>9, ExpireKeeps, Zenon DEF expire_connection_attempt
<1>10. CASE \E t \in issued, verified \in BOOLEAN : finish_detection(t, verified)
  BY <1>10, FinishDetectionKeeps, Zenon DEF finish_detection
<1>11. CASE \E t \in issued : protocol_conflict(t)
  BY <1>11, ConflictKeeps, Zenon DEF protocol_conflict
<1>12. CASE \E t \in issued : handleDisconnect(t)
  BY <1>12, LinkDownKeeps, Zenon DEF handleDisconnect
<1>13. CASE TimePasses
  BY <1>13, ElapseKeeps, Zenon DEF TimePasses
<1>14. CASE \E jitter \in Jitters : scheduleReconnect(jitter)
  <2>1. PICK jitter \in Jitters : scheduleReconnect(jitter)
    BY <1>14
  <2>2. terminating \in ConnectionAttemptToken /\ jitter \in Nat
    BY <2>1, LifecycleAssumption DEF scheduleReconnect
  <2> QED
    BY <2>1, <2>2, RequestRetryKeeps, Zenon DEF scheduleReconnect
<1>15. CASE terminationEnds
  BY <1>15, Stutter, Zenon DEF terminationEnds
<1> QED
  BY <1>1, <1>2, <1>3, <1>4, <1>5, <1>6, <1>7, <1>8, <1>9, <1>10, <1>11, <1>12, <1>13,
    <1>14, <1>15 DEF Next, Call

\* The history counter and the handler's token stay well typed.
LEMMA HistoryType ==
  ASSUME IInv, Next
  PROVE  admitted' \in Nat /\ terminating' \in ConnectionAttemptToken \cup {None}
BY DEF IInv, Next, Call, handleDisconnect, scheduleReconnect, terminationEnds, begin_connection_attempt, disconnect_connection_attempt,
  request_connection_retry, admit_connection_retry, cancel_connection_retry,
  connection_link_established, connection_link_down, connection_transport_failed,
  expire_connection_attempt, finish_detection, protocol_conflict, TimePasses

\* The part of a step the invariant and the action properties follow from.
LEMMA Step ==
  ASSUME IInv, [Next]_vars
  PROVE  /\ IInv'
         /\ \A t \in issued : t # conn.token => t # conn'.token
         /\ (conn.token # None /\ conn'.token = conn.token /\ conn.readiness # "Pending")
              => conn'.readiness \in {conn.readiness, "Failed"}
         /\ Published(conn') # Published(conn) => conn'.revision # conn.revision
         /\ conn'.token # conn.token => conn'.generation > conn.generation
<1>1. /\ conn \in ConnectionAttemptLifecycle /\ conn.generation \in Nat
      /\ \A t \in issued : t.generation \in Nat /\ t # None
  BY ConnectionAssumption DEF IInv, Coherent, ConnectionAttemptLifecycle, ConnectionAttemptToken
<1>2. CASE Opens(conn, conn') /\ issued' = issued \cup {conn'.token} /\ Next
  <2>1. /\ conn'.token \in ConnectionAttemptToken /\ conn'.token # None
        /\ conn'.token.generation = conn'.generation
        /\ conn'.generation = conn.generation + 1 /\ conn'.revision # conn.revision
    BY <1>2 DEF Opens, Coherent, ConnectionAttemptLifecycle
  <2>2. \A t \in issued : t.generation # conn'.token.generation /\ t # conn'.token
    BY <1>1, <2>1 DEF IInv, GenerationIdentifiesAttempt
  <2>3. GenerationIdentifiesAttempt'
    BY <1>1, <1>2, <2>1, <2>2 DEF IInv, GenerationIdentifiesAttempt
  <2>4. conn'.token # conn.token
    BY <2>1, <2>2 DEF IInv, GenerationIdentifiesAttempt
  <2>5. IInv'
    BY <1>2, <2>1, <2>3, HistoryType DEF IInv, Opens
  <2> QED
    BY <1>1, <2>1, <2>2, <2>4, <2>5
<1>3. CASE /\ Keeps(conn, conn') /\ issued' = issued /\ admitted' \in Nat
           /\ terminating' \in ConnectionAttemptToken \cup {None}
  <2>1. /\ Coherent(conn')
        /\ \/ conn'.token = conn.token /\ conn'.generation = conn.generation
           \/ conn'.token = None /\ conn'.generation = conn.generation + 1
    BY <1>3 DEF Keeps
  <2>2. GenerationIdentifiesAttempt'
    BY <1>1, <1>3, <2>1 DEF IInv, GenerationIdentifiesAttempt
  <2>3. IInv'
    BY <1>3, <2>1, <2>2 DEF IInv
  <2>4. \A t \in issued : t # conn.token => t # conn'.token
    BY <1>1, <2>1
  <2>5. conn'.token # conn.token => conn'.generation > conn.generation
    BY <1>1, <2>1
  <2> QED
    BY <1>3, <2>3, <2>4, <2>5, Zenon DEF Keeps
<1>4. CASE UNCHANGED vars
  <2>1. /\ Keeps(conn, conn') /\ issued' = issued /\ admitted' \in Nat
        /\ terminating' \in ConnectionAttemptToken \cup {None}
    BY <1>4, Stutter, Zenon DEF vars, IInv
  <2> QED
    BY <1>3, <2>1
<1> QED
  BY <1>2, <1>3, <1>4, NextCases, HistoryType

\* Every reachable state satisfies the inductive invariant: the attempt owner is coherent and
\* the tokens it issued are ordered by generation, whatever late callbacks native code makes.
THEOREM InvariantHolds == Spec => []IInv
<1>1. IInv /\ [Next]_vars => IInv'
  BY Step
<1> QED
  BY <1>1, InitIInv, PTL DEF Spec

LEMMA IInvImplies ==
  ASSUME IInv
  PROVE  /\ TypeOK /\ GenerationIdentifiesAttempt /\ RetryOwnsFailedAttempt
         /\ VerifiedIsLive /\ DeadlineGuardsIdentification
BY Zenon DEF IInv, Coherent, TypeOK, RetryOwnsFailedAttempt, VerifiedIsLive,
  DeadlineGuardsIdentification

\* The attempt owner and the tokens it issued are always well typed.
THEOREM TypeCorrect == Spec => []TypeOK
BY InvariantHolds, IInvImplies, PTL

\* No two attempts share a generation and the published generation names the current
\* attempt, for any number of attempts, retries and stale callbacks.
THEOREM GenerationsIdentifyAttempts == Spec => []GenerationIdentifiesAttempt
BY InvariantHolds, IInvImplies, PTL

\* A reconnect timer never coexists with a live attempt.
THEOREM RetryIsExclusive == Spec => []RetryOwnsFailedAttempt
BY InvariantHolds, IInvImplies, PTL

\* Verified is published only for a connected attempt that owes no retry.
THEOREM VerifiedAttemptsAreLive == Spec => []VerifiedIsLive
BY InvariantHolds, IInvImplies, PTL

\* The expiry deadline is armed exactly while identification is pending.
THEOREM DeadlineIsExact == Spec => []DeadlineGuardsIdentification
BY InvariantHolds, IInvImplies, PTL

\* A replaced or invalidated attempt never becomes current again.
THEOREM RetiredForEver == Spec => RetiredTokenStaysRetired
<1>1. IInv /\ [Next]_vars => [\A t \in issued : t # conn.token => t # conn'.token]_vars
  BY Step
<1> QED
  BY <1>1, InvariantHolds, PTL DEF Spec, RetiredTokenStaysRetired

\* Within an attempt the verdict of identification is never reopened.
THEOREM VerdictsAreFinal == Spec => VerdictIsFinal
<1>1. IInv /\ [Next]_vars =>
        [(conn.token # None /\ conn'.token = conn.token /\ conn.readiness # "Pending")
           => conn'.readiness \in {conn.readiness, "Failed"}]_vars
  BY Step
<1> QED
  BY <1>1, InvariantHolds, PTL DEF Spec, VerdictIsFinal

\* Every published change is numbered.
THEOREM NumberedChanges == Spec => ChangesAreNumbered
<1>1. IInv /\ [Next]_vars =>
        [/\ Published(conn') # Published(conn) => conn'.revision # conn.revision
         /\ conn'.token # conn.token => conn'.generation > conn.generation]_vars
  BY Step
<1> QED
  BY <1>1, InvariantHolds, PTL DEF Spec, ChangesAreNumbered

LEMMA TokenStep ==
  ASSUME IInv, [Next]_vars
  PROVE  [Tokens!Next]_<<conn.generation, conn.token>>
<1>1. CASE Opens(conn, conn')
  <2>1. /\ conn'.token \in ConnectionAttemptToken
        /\ conn'.token.generation = conn'.generation
        /\ conn'.generation = conn.generation + 1
    BY <1>1 DEF Opens, Coherent, ConnectionAttemptLifecycle
  <2>2. PICK id \in Devices :
          conn'.token = [generation |-> conn'.token.generation, id |-> id]
    BY <2>1 DEF ConnectionAttemptToken
  <2>3. Tokens!Issue(id)
    BY <2>1, <2>2 DEF Tokens!Issue
  <2> QED
    BY <2>3 DEF Tokens!Next
<1>2. CASE Keeps(conn, conn')
  BY <1>2 DEF Keeps, Tokens!Next, Tokens!Retire
<1>3. CASE UNCHANGED vars
  BY <1>3 DEF vars
<1> QED
  BY <1>1, <1>2, <1>3, NextCases

\* The attempt owner implements AttemptTokens, on which the other owners of the session
\* rely: every call of connection_attempt.rs issues a token of the next generation, retires
\* the current one together with its generation, or leaves both alone.
THEOREM TokensAreImplemented == Spec => ImplementsTokens
<1>1. Init => Tokens!Init
  BY DEF Init, DefaultLifecycle, Tokens!Init
<1>2. IInv /\ [Next]_vars => [Tokens!Next]_<<conn.generation, conn.token>>
  BY TokenStep
<1> QED
  BY <1>1, <1>2, InvariantHolds, PTL DEF Spec, ImplementsTokens, Tokens!Spec

-----------------------------------------------------------------------------

\* The retry counter counts the retries admitted so far and the one whose timer is pending.
Budget(c, n) ==
  c.retry_scope = "InitialIdentification" =>
    /\ n <= c.retry_attempt /\ n <= InitialRetryLimit
    /\ c.pending_retry # None => n < c.retry_attempt /\ c.retry_attempt <= InitialRetryLimit

\* Calls that neither schedule nor admit a retry leave its counters alone or start over.
LEMMA BudgetKept ==
  ASSUME NEW c, Coherent(c), NEW n \in Nat, Budget(c, n), NEW t \in ConnectionAttemptToken
  PROVE  /\ Budget(Connected(c, t), n)
         /\ Budget(LinkDown(c, t), n)
         /\ Budget(TransportFailed(c, t), n)
         /\ Budget(Expire(c, t), n)
         /\ Budget(FinishDetection(c, t, FALSE), n)
         /\ Budget(Conflict(c, t), n)
         /\ Budget(Elapse(c), n)
<1>1. c \in ConnectionAttemptLifecycle
  BY DEF Coherent
<1>2. Budget(Connected(c, t), n)
  BY <1>1 DEF Connected, Budget, ConnectionAttemptLifecycle
<1>3. ASSUME NEW e \in ConnectionAttemptLifecycle, Budget(e, n)
      PROVE  Budget(FinishDetection(e, t, FALSE), n)
  BY <1>3 DEF FinishDetection, Budget, ConnectionAttemptLifecycle
<1>4. ASSUME NEW e \in ConnectionAttemptLifecycle, Budget(e, n)
      PROVE  Budget(TransportFailed(e, t), n)
  <2>1. Budget([Disconnect(e) EXCEPT !.retry_scope = "EstablishedConnection",
                                     !.failed_attempt = t,
                                     !.readiness = "Failed"], n)
    <3>1. Disconnect(e) \in ConnectionAttemptLifecycle
      BY DisconnectKeeps DEF Keeps, Coherent
    <3> QED
      BY <3>1 DEF Budget, ConnectionAttemptLifecycle
  <2> QED
    BY <1>3, <1>4, <2>1, Zenon DEF TransportFailed
<1>5. Budget(LinkDown(c, t), n)
  <2> DEFINE m == [c EXCEPT !.transport = "Disconnected", !.revision = Bump(@)]
  <2>1. m \in ConnectionAttemptLifecycle
    BY <1>1, StoredTypes, Zenon DEF ConnectionAttemptLifecycle, Transport
  <2>2. Budget(m, n)
    BY <1>1 DEF Budget, ConnectionAttemptLifecycle
  <2> HIDE DEF m
  <2> QED
    BY <1>4, <2>1, <2>2, Zenon DEF LinkDown, m
<1>6. Budget(Expire(c, t), n)
  BY <1>1, <1>3, Zenon DEF Expire
<1>7. Budget(Conflict(c, t), n)
  BY <1>1 DEF Conflict, Budget, ConnectionAttemptLifecycle
<1>8. Budget(Elapse(c), n)
  BY <1>1 DEF Elapse, Budget, ConnectionAttemptLifecycle
<1> QED
  BY <1>1, <1>2, <1>3, <1>4, <1>5, <1>6, <1>7, <1>8

LEMMA BudgetStep ==
  ASSUME IInv, Budget(conn, admitted), [Next]_vars
  PROVE  Budget(conn', admitted')
<1>1. /\ Coherent(conn) /\ conn \in ConnectionAttemptLifecycle /\ admitted \in Nat
      /\ issued \subseteq ConnectionAttemptToken
  BY DEF IInv, Coherent
<1>2. CASE \E id \in Devices : begin_connection_attempt(id)
  BY <1>1, <1>2 DEF begin_connection_attempt, Begin, BeginAttempt, Budget, InitialRetryLimit,
    ConnectionAttemptLifecycle
<1>3. CASE disconnect_connection_attempt
  BY <1>1, <1>3 DEF disconnect_connection_attempt, Disconnect, Budget, InitialRetryLimit,
    ConnectionAttemptLifecycle
<1>4. ASSUME NEW t, NEW jitter, MayRequestRetry(conn, t),
             conn' = RequestRetry(conn, t, jitter), admitted' = admitted
      PROVE  Budget(conn', admitted')
  <2>1. /\ conn'.retry_scope = conn.retry_scope /\ conn'.retry_attempt = NextRetryAttempt(conn)
        /\ \/ RetryExhausted(conn) /\ conn'.pending_retry = None
           \/ ~ RetryExhausted(conn)
    BY <1>1, <1>4 DEF RequestRetry, MayRequestRetry, ExhaustRetries, ScheduleRetry,
      ConnectionAttemptLifecycle
  <2> QED
    BY <1>1, <1>4, <2>1, ConnectionAssumption DEF RetryExhausted, NextRetryAttempt, Min2, Budget,
      InitialRetryLimit, ConnectionAttemptLifecycle
<1>5. CASE \E r \in 1 .. conn.retry_token : admit_connection_retry(r)
  BY <1>1, <1>5 DEF admit_connection_retry, RetryIsDue, AdmitRetry, BeginAttempt, Budget,
    InitialRetryLimit, ConnectionAttemptLifecycle
<1>6. CASE \E r \in 1 .. conn.retry_token : cancel_connection_retry(r)
  BY <1>1, <1>6 DEF cancel_connection_retry, CancelRetry, Budget, InitialRetryLimit,
    ConnectionAttemptLifecycle
<1>7. CASE \E t \in issued, verified \in BOOLEAN : finish_detection(t, verified)
  <2>1. PICK t \in issued, verified \in BOOLEAN : finish_detection(t, verified)
    BY <1>7
  <2>2. CASE verified /\ MayFinishDetection(conn, t, verified)
    BY <1>1, <2>1, <2>2 DEF finish_detection, FinishDetection, Budget, ConnectionAttemptLifecycle
  <2>3. CASE ~ (verified /\ MayFinishDetection(conn, t, verified))
    <3>1. admitted' = admitted /\ (conn' = conn \/ conn' = FinishDetection(conn, t, FALSE))
      BY <2>1, <2>3 DEF finish_detection, FinishDetection
    <3> QED
      BY <1>1, <3>1, BudgetKept
  <2> QED
    BY <2>2, <2>3
<1>8. CASE \E t \in issued : \/ connection_link_established(t) \/ connection_link_down(t)
                             \/ connection_transport_failed(t) \/ expire_connection_attempt(t)
                             \/ protocol_conflict(t)
  BY <1>1, <1>8, BudgetKept, Zenon DEF connection_link_established, connection_link_down,
    connection_transport_failed, expire_connection_attempt, protocol_conflict
<1>9. CASE TimePasses
  BY <1>1, <1>9 DEF TimePasses, Elapse, Budget, ConnectionAttemptLifecycle
<1>10. CASE UNCHANGED vars
  BY <1>10 DEF vars
<1>11. CASE \E t \in issued, jitter \in Jitters : request_connection_retry(t, jitter)
  BY <1>4, <1>11, Zenon DEF request_connection_retry
<1>12. CASE \E jitter \in Jitters : scheduleReconnect(jitter)
  <2>1. PICK jitter \in Jitters : scheduleReconnect(jitter)
    BY <1>12
  <2>2. CASE MayRequestRetry(conn, terminating)
    BY <1>4, <2>1, <2>2, Zenon DEF scheduleReconnect
  <2>3. CASE ~ MayRequestRetry(conn, terminating)
    BY <2>1, <2>3 DEF scheduleReconnect, RequestRetry
  <2> QED
    BY <2>2, <2>3
<1>13. CASE \E t \in issued : handleDisconnect(t)
  BY <1>1, <1>13, BudgetKept, Zenon DEF handleDisconnect
<1>14. CASE terminationEnds
  BY <1>14 DEF terminationEnds
<1> QED
  BY <1>2, <1>3, <1>5, <1>6, <1>7, <1>8, <1>9, <1>10, <1>11, <1>12, <1>13, <1>14
  DEF Next, Call

\* A device that was never verified is reconnected at most three times in a row.
THEOREM InitialRetriesBounded == Spec => []InitialRetriesAreBounded
<1>1. Init => Budget(conn, admitted)
  BY DEF Init, DefaultLifecycle, Budget, InitialRetryLimit
<1>2. IInv /\ Budget(conn, admitted) /\ [Next]_vars => Budget(conn, admitted)'
  BY BudgetStep
<1>3. Budget(conn, admitted) => InitialRetriesAreBounded
  BY DEF Budget, InitialRetriesAreBounded
<1> QED
  BY <1>1, <1>2, <1>3, InvariantHolds, PTL DEF Spec
=============================================================================
