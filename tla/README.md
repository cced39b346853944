# CutOut in TLA+

TLA+ models of the parts of CutOut where asynchronous callbacks, timers, threads and process
death meet shared state. The models are translated from the Rust reducers and from the Swift
code that drives them. TLC checks them on small instances, and TLAPS proves most of their safety
properties for every value of the constants: all those of connections, captures, rides on screen, the
ride marker and phone drive, and two of ride recording.

## The system

CutOut connects a phone to electric unicycles and VESC boards. Rust owns the state: reducers in
`cutout-core`, `cutout-application` and `cutout-protocols` decide, and the native apps carry out
what they decide through `cutout-mobile-ffi`. Native work is asynchronous. Its results come back
later, in any order, perhaps after what they belong to has been replaced. The reducers therefore
number things (connection generations, capture generations, request ids, gesture generations,
operation ids) and ignore results that carry an old number. Most properties here say that this works.

| Part | Role | Modules |
| --- | --- | --- |
| Connection attempts | one attempt at a time; identification deadline, retries | `ConnectionAttempt`, `ConnectionLifecycle` |
| Ride session, Live Activity | logical ride, its activity on screen, one platform worker | `RideSession`, `ActivityQueue`, `RideActivity` |
| Ride marker | what a relaunched app restores the ride from | `MarkerWriter` |
| Phone drive | throttle and brake by touch, sent as timed motor writes | `DriveInput`, `PhoneDriveControl`, `PhoneDrive` |
| Captures | recording of Bluetooth traffic, saved and finalized in the background | `CaptureLifecycle`, `CaptureSession` |
| Ride recording | durable ride commands and route points, restored after a failure | `RideRecorder`, `RideRecording` |
| Charging spots | an outbox and a cached directory of community charging spots, and their server | `ChargingStore`, `CommunityServer`, `ChargingSync` |

They meet as follows. A capture borrows or opens a connection attempt. Phone drive works inside a
verified attempt. The ride's marker is written by the marker writer after the ride changes. Ride
recording is told of verified connections and writes through the same database worker as the marker.
Charging uses the same database, with passes behind a gate of their own.
`PROJECT.json` lists all 34 parts of the repository, with the reason for each one left out.

## How the modules are built

An *operator module* (`ConnectionAttempt`, `RideSession`, `ActivityQueue`, `DriveInput`,
`PhoneDriveControl`, `CaptureLifecycle`, `RideRecorder`, `ChargingStore`, `CommunityServer`) has one
operator per Rust method or database transaction, on a record with the fields of the Rust struct or
the tables. A *state machine module* has the variables, one action per handler, and
the properties. A handler that awaits is one action per stretch between awaits. Operators named
`Op_WhatItDoesWrong` are faulty variants of `Op`; nothing uses them in the specifications.

- **`ConnectionLifecycle`**: `conn` is the lifecycle record; `issued` remembers the tokens handed
  out. Every operation may be called with any issued token, which is how late and repeated
  callbacks are modelled. The revision wraps at `RevisionModulus`; the deadline counts down.
  The disconnect handler of the Apple session core, the only one that asks for a retry, is followed
  through: `handleDisconnect` reports the link down, then `scheduleReconnect` asks or
  `terminationEnds` returns early, with no other call of the serial queue between.
- **`AttemptTokens`** is what the connection promises others: tokens are new, and retired for ever.
  `ConnectionLifecycle` implements it, and `CaptureSession` uses it in place of the connection.
- **`RideActivity`**: requests get numbers and reach the actor in any order. The worker is suspended
  in the activity manager's calls. A crash keeps the activities and the durable marker only.
  `PersistMarker` is atomic because the writer has a single command in flight (`MarkerWriter`).
- **`MarkerWriter`**: the Rust write state, the native polling task, `load`, and the database worker
  with rejected commands, stops and restarts. **`MarkerRegister`** is its abstract specification:
  storage moves only towards the latest intent.
- **`PhoneDrive`**: the session, the transport's timer, the native write queue with its priorities,
  and a settings sheet on another thread. A tick of `now` stands for 50 ms. The handover to
  CoreBluetooth is a step of its own after the last check, so the sheet can come between. `late`
  remembers that the last step delivered a contact too late.
- **`CaptureSession`**: saves suspended before and after their flush, consumed writers that deliver
  a receipt later, the reconnect timer and the link. Only manual captures are admitted
  (`diagnostic_consent.rs`). `Starting` does not outlive one handler.
- **`RideRecording`**: `app` is the recording service in memory, `db` the stored rides, `core` the
  mobile core with its barriers, `ops` the two-phase commands under way, `token` what the rider's
  screen shows. A command is prepared, queued, executed by the worker and finished in separate
  steps, and its reply, its owner thread, the worker or the process can be lost between any two; the
  thread of an admission may also fail to be spawned after its request was queued. Outcomes of
  location writes leave the owner by a poll or by a checkpoint, in the order of `returned`. `lost`
  remembers that an admission lost its thread.
- **`ChargingSync`**: `db` is the phone's tables, `srv` the server, `task` the pass that holds the
  gate. A pass is one action per await and can be given up at each of them; the request that was
  under way goes to `net` and may still arrive, the database call goes to `lingering` and still
  runs. Moderators and another contributor change the server; a deletion of the account proceeds
  through its fence, its request and its clean-up. `issued`, `decided`, `redrawn` (operations behind
  one whose review drew their spot again) and `unsent` (spots whose withdrawal a deletion of the
  account took out of the outbox) are history.

## Runs

| Run | Distinct states | What it shows |
| --- | --- | --- |
| `connection` | 90,094 | A retry belongs to the failed attempt; initial retries are bounded; verdicts are final; `AttemptTokens` is implemented; identification ends; what the disconnect callback of an established connection leaves is retried. |
| `ride_activity` | 1,598,680 | Cleanup of an ending ride is always owed and only for that ride; what the app believes to be on screen is on screen; rides do not overlap; an ended ride stays ended. |
| `ride_liveness` | 26,976 | Ending terminates and an ended ride is forgotten. |
| `marker` | 545,468 | Committed means durable; loads see earlier intents and return; the older preference outlives its import; `MarkerRegister` is implemented; the latest intent is stored. |
| `drive` | 406,964 | A Setpoint is handed over only for a held contact; the end of a hold owes a neutral, which finds room, is not replaced, and is sent or retired; a silent hold ends. |
| `capture` | 214,911 | Writer and slot agree; receipts match claims; a save closes only its link; a recording is not displaced; saves resolve and no claim to a receipt is kept for good. |
| `recording` | 3,315,192 | A lease belongs to a live command; memory and store agree whenever the core takes commands, unless an admission lost its thread; route points shown are stored, and outcomes are returned in order; a command applies to the state the rider saw; no barrier outlives its command. |
| `charging` | 3,761,954 | What the rider asks for happens once; the directory converges to the server; a deleted account stays deleted; a waiting draft is drawn over only by the rider's review of an older operation. |
| `ride_stop_race`, `ride_disconnect_race`, `drive_late_contact`, `recording_stop_fence` | | Counterexamples; see Findings. |

### Bounds

- `connection`: two devices, so an attempt can be replaced by one for another device. Five
  generations and four retry tokens reach the exhausted budget of three retries and one retry past
  it. Revision modulus 3 and counter maximum 4 make the wrap and the saturation happen.
- `ride_activity`: three requests give a start, one that overtakes it, and an end around both. Two
  wheels let a ride replace another, and one crash gives a second process. The liveness instance
  has one wheel, no crash, and an end that does not throw, as ActivityKit's does not. So it says that
  the marker of an ended ride leaves storage while the process lives, and nothing of a relaunch before.
- `marker`: one marker and its removal already give A, B, A while a write is in flight. Three
  requests, two faults, one crash.
- `drive`: a queue of one place makes every write compete; two actions and two budgets show a stale
  one; four events and two ticks cover press, silence, release and a sheet; three write numbers let
  them run out. The same instance serves the safety and the liveness properties. The order of writes
  needs a queue of two and is not asked of this instance; it is proved (`OrderIsKept`).
- `capture`: three captures, so that two finalizations overlap a third; five generations, three saves.
- `recording`: two vehicles, four commands, two rides, two route points of which both can wait for
  their reply, one connection and one fault. Four commands give a start, a pause or a stop, a second
  start and a restore around the fault.
- `charging`: one spot of the rider, and operations of the rider and spots of another contributor up to
  three together, with one more operation that a review may add. So a save can be acknowledged, an edit
  blocked, a later edit wait behind it, and the blocked one be reviewed; or two operations meet another
  contributor's spot. Moderators and others act up to the third change of the server, one late
  request or database call is under way at a time. One upload per pass, pages of one entry and an outbox of two
  make every limit matter: a conflict is explained over several pages, and a pass ends with work
  left. One content in two is refused by the server.

These are small instances. Outside them, only what is proved below is established.

### Fairness

- `connection`: time passes, the current expiry and retry timers fire, and a disconnect handler that
  has begun runs to its end, which is one turn of the Bluetooth queue. No callback of the device is
  fair, and no request for a retry is assumed other than the one this handler makes.
- `ride_liveness`: the Swift runtime resumes the worker, and the marker is written in the end
  (`MarkerSettles` of the marker run).
- `marker`: the task and the load are resumed, the worker takes commands, time passes. Faults and
  requests are finitely many. This excludes requests that re-arm the backoff for ever.
- `drive`: time passes, due timers fire, a handler that has begun continues, and
  CoreBluetooth becomes ready again.
- `capture`: flushes end, suspended saves resume, consumed writers complete. That the receipt of a
  completed writer then finds its claim is what `ClaimsAreSettled` asks.
- `recording` and `charging` assume none. `BarriersAreServed` is the safety form of the question
  whether the core can close for ever: a raised barrier has a command that will lift it. That the
  charging outbox empties is not claimed; see the first observation on charging below.

## Proofs

`ConnectionLifecycleProofs` assumes only `ConnectionAssumption` on the constants. Its inductive
invariant `IInv` strengthens the properties by `Coherent(conn)`: the current token carries the
current generation; a failed attempt goes with readiness Failed and no other current token; a
pending retry is for that attempt, under the newest retry token; a verified attempt is connected
with a clean retry state. It adds that issued tokens are ordered by generation. Without `Coherent`,
a retry could be admitted from a state in which it does not belong to the failed attempt. Proved:
type correctness, `GenerationIdentifiesAttempt`, `RetryOwnsFailedAttempt`, `VerifiedIsLive`,
`DeadlineGuardsIdentification`, `RetiredTokenStaysRetired`, `VerdictIsFinal`, `ChangesAreNumbered`,
bounds of the retry delay, and the refinement `ImplementsTokens`. `InitialRetriesAreBounded` needs
a further invariant on the retry budget.

`CaptureSessionProofs` proves type correctness, `WriterHoldsSlot`, `ReceiptsMatchClaims`,
`SavingHasItsCall`, `RecordingIsNotDisplaced`, `SaveClosesOnlyItsLink` and `StagesAdvance`. Its
`IInv` says that the current capture is the newest, pending completions are older, a held writer
opened the bound transport, a capture is Saving exactly while a suspended call holds its finish
token, and an armed timer of the current generation means no peripheral and no writer.

`RideRecordingProofs` proves `LeaseOwnsCommand` and `CommandAppliesToSeenState` from
`RecordingInv`, the conjunction of `AppShape(app)`, `TokenSees(token, app)` and `OpsInv(ops, app)`. A
lease is freed only by the live operation that holds it, and two operations never hold the same one;
without that part, finishing one command could free the lease of another. A token of the current
generation shows the current life of the ride; without it, a token kept from before a restore could
be taken for a current one. The proof assumes of the constants only that `None` is not a number, and
covers every set of vehicles and every number of commands and faults.

`MarkerWriterProofs` proves `CommittedIsDurable`, `LoadSeesEarlierIntents`, `PreferenceOutlivesImport`,
type correctness and the refinement `ImplementsRegister`, for any markers and any number of requests,
faults and crashes. Its `IInv` says what the Rust state knows of storage. The command in flight
carries the intent admitted under its number and, while it is queued, no older one than storage holds,
so its commit cannot undo a newer write. An answer of ok means that storage holds its marker, and
until that answer the acknowledged marker is the one in storage. Without the last part, an
acknowledged marker that equals the latest request (A, B, A) could report Committed while storage
holds B. It also says how far a load has come, since a load reads only after it has waited.

`PhoneDriveControlProofs` and `PhoneDriveProofs` prove `SetpointIsHeld`, `WritesKeepTheirOrder`,
`NeutralFindsRoom`, `EndOfHoldOwesNeutral` and `NeutralIsSettled`: every safety property of the `drive`
run and the order of writes, for a queue of any capacity, any regions, budgets and windows, and any
number of events. The first module shows, operation by operation, that the session stays `Coherent` (a held gesture is a contact
that has not been lifted, the pending write carries the newest number) and that it only `Goes`
forward: numbers grow, and a retired write stays retired. The invariant `DInv` of the second adds the
native side: every motor write that left Rust is in the queue, in the hand of the transport or on the
wire, never in two of them, and no two have the same number. Without the last part
`NeutralFindsRoom` does not follow: it is what excludes a queue full of neutrals. The queue
drops expired writes with a loop (`Unexpired`); what that loop returns is proved by the least-number
principle over its index.

`RideActivityProofs` proves `CleanupMatchesRide`, `ScreenIsKnown`, `EndedStaysEnded`,
`RidesDoNotOverlap` and type correctness, for any number of requests in any order and any number of
crashes. `AInv` says of each suspension of the worker what the ride may be meanwhile: during a start
and during a cleanup no activity of the ride is on screen, an end is for the current ride, which
is ending or has ended, and a ride whose activity is ending has its cleanup queued or with the worker.
While the recovery of a persisted ride waits, the worker cannot come to a start or an end (`Harmless`),
which the fences of the work queue provide; otherwise the recovery could replace the ride of a call under
way. Between suspensions a handler passes through states in which the ride is ending and no cleanup is
queued yet; the lemmas know of them only `Frame`, the part of the invariant that holds throughout.

Some properties of connections and captures, among them `DeadlineGuardsIdentification`, and the type
correctness of connections, captures, the marker and rides are proved and are not among the properties
of a run. The type invariant of `PhoneDrive` is stated for the reader; `DInv` holds most of it.

Model-checked only:

- `AgreesWithStore`, `RouteIsStored`, `OutcomesInOrder` and `BarriersAreServed` of ride recording.
- Everything about charging.
- All liveness, because the prover handles neither fairness nor ENABLED.

The induction theorems of the library take an operator as a parameter, which the installed provers
cannot instantiate. Induction over data is done with the least element of a set of counterexamples
instead (lemma `LeastNumber`).

## Findings

1. `ride_stop_race`: an end that finds no live ride queues no terminal work, so a start already on
   its way begins the ride after it. The comment at `LiveActivityRideLifecycle.swift:247` says the
   barrier covers this hop.
2. `ride_disconnect_race`: a presentation already taken by the worker reconnects the ride with
   telemetry from before the loss, against what the test at `ride_activity_work.rs:584` is named for.
3. `drive_late_contact`: a contact delivered too late cancels the hold with a neutral whose deadline
   has passed, and the same call retires it unsent. The comment at `phone_drive.rs:449` says the
   neutral is retained. `EndOfHoldOwesNeutral` holds with this case excepted: the call that delivers
   a contact too late, and only when the last input is a whole submission window old.
4. `recording_stop_fence`: while a Stop waits for the music fence, the core refuses the packets of
   the connection the ride has joined. The comment at `cutout-mobile-ffi/src/lib.rs:10809` and the
   test at `lib.rs:29066` say that admission stays open.

### Observations

Cases met while the properties were stated. No run of their own checks them; the properties
are worded so that they hold with these cases in the model.

Connections:

- The comment at `connection_lifecycle.rs:226` says that "a verified connection keeps recovering until
  explicitly disconnected or replaced". `request_retry` would allow it, but the app asks only from
  `scheduleReconnect` (`CutoutSessionCore.swift:2565`), after a disconnect callback. A connection lost by
  `connection_transport_failed` (a failed subscription or session, lines 2178, 2406 and 3726) is retired
  and not retried, nor is one lost when Bluetooth is switched off (line 3513).
  `LostConnectionIsRetried` therefore speaks of the disconnect callback only.

Ride recording:

- The lost thread of a lifecycle command closes the core until a restore ("A lost worker may have
  committed", `fail_lifecycle_settlement`). The lost thread of an admission does not:
  `complete_verified_connection_admission` (`lib.rs:10927`) clears the barrier, and so does a thread that
  cannot be spawned (`lib.rs:10868`), while the queued request still commits. Without its exception
  `AgreesWithStore` fails after seven steps: memory has no ride and the store an active one. A further
  start then leaves two open rides in the store.
- `checkpoint` runs on a detached task (`RideMapState.swift:1613`) and its outcomes are published after
  the await (`CutoutSessionRideMapRecorder.swift:141`), so a later batch that a poll returned meanwhile
  can be published first, and a cancelled task publishes none. `OutcomesInOrder` is about the order in which
  the recording owner returns outcomes, not about what the native side makes of it.

Charging:

- A create whose response was lost can stop for good. If an older operation is refused with a
  conflict first, the pages that explain the conflict insert the created spot as a row of the
  directory. The replayed acknowledgment of the create then violates `remote_id TEXT UNIQUE`
  (`storage/charging.rs:42`) on every pass. The test
  `committed_create_with_lost_response_retries_after_reopen` has no older operation.
- A withdrawn spot can come back to the map before its withdrawal is sent: a moderator hides it,
  which replaces the local status, and restores it. The comment at `storage/charging/sync.rs:750`
  calls a local withdrawal a tombstone. And a withdrawal that the deletion of the account removed
  from the outbox leaves the spot, which the server keeps publishing, off this phone's map, which
  `DirectoryConverges` excepts for exactly these spots.
- A review of an older operation draws over a later draft. An edit is blocked by a moderator's
  correction, the rider edits again, and then keeps the local version of the blocked edit:
  `RebaseKeepingLocal` (`storage/charging/sync.rs:1133`) writes the draft saved with the conflict into
  the row, and the map shows the older content while the newer edit waits. So does the replacement of a
  blocked withdrawal with a later edit behind it. `DraftIsShown` excepts the edits behind such a review.
- An acknowledgment that carries a later state of the spot than the operation made lets the next
  pending edit take that state as its base without a review.

These are traces of the models, read back against the code; none was reproduced on a device.

## Not modelled, and the plan

Byte formats, SQL, drawing, floating-point estimates and file formats are left out: tests and fuzz
targets suit them better.

Limits inside the modelled parts:

- Ride recording: moving time, music observations, the settlement of inactive rides and telemetry
  are left out. The vehicle of a start is a free choice. The route in memory is not cut at
  `MAX_LIVE_ROUTE_POINTS` (4096), where the code drops its oldest points. The branches of
  `FinishStart` and `FinishTransition` that answer RecoveryRequired defensively are in the model and are never reached.
- Charging: votes, verification, reports, quotas, revocation, registration and the expiry of
  deletion receipts. A vote advances a spot's change sequence and never its body or revision; a
  quota refuses a request, as a lost one does. A failed vote lookup ends a pass, as any network
  error does. Calls with an outdated local revision are refused and left out.
- Android has clients of its own. Its capture client reports a failed finalization
  (`AndroidDiagnosticCaptureClient.kt:494`) in a state that refuses the report.

The rest of the plan, in order:

1. Votes and verification in `ChargingSync`; capture submission, which shares the account deletion.
2. The capture writer and the database worker under captures and ride recording.
3. Device settings and actions inside a verified attempt, composed with phone drive, which they
   exclude; the Android capture client as a second environment of `CaptureLifecycle`.
4. Music (on `AttemptTokens`), accessory lighting, alarms, cameras, the desktop bridge.
5. Proofs: `AgreesWithStore` and the other properties of ride recording; charging.
