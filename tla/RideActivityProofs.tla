------------------------- MODULE RideActivityProofs -------------------------
(***************************************************************************)
(* The ride on an iPhone for any number of requests, wheels and crashes.   *)
(*                                                                         *)
(* The invariant says of each suspension of the worker what the ride may   *)
(* be meanwhile.  A call of end is for the current ride; during a call of  *)
(* start and during a cleanup no activity of the ride is on screen; and an *)
(* ending ride has its cleanup with the worker or in the queue.  Fences    *)
(* keep the recovery of a persisted ride from meeting any of these.        *)
(***************************************************************************)
EXTENDS RideActivity, TLAPS

Identities == RideSessionIdentity \cup {None}

Apps ==
  [ride : RideSessionLifecycle, queue : WorkState, inactive : BOOLEAN, shown : BOOLEAN,
   timing : Nat \cup {None}, payload : Operations \cup {None}, worker : Workers \cup {None},
   flushing : SUBSET Nat, manager : BOOLEAN, desired : [value : Identities] \cup {None},
   launch_marker : Identities]

\* The identities of the sessions minted so far, m of them.
Minted(i, m) == i # None => i.session < m

Visible(r) == r.activity \in {"Active", "Stale"}

\* A ride by itself, when m sessions have been minted.
RideKnows(r, m) ==
  /\ r \in RideSessionLifecycle
  /\ r.reason # None <=> r.phase \in {"Ending", "Ended"}
  /\ IsLive(r) => r.identity # None
  /\ r.phase = "Idle" => r.identity = None
  /\ Visible(r) => AcceptsUpdates(r)
  /\ r.pending_identity # None => r.phase = "Ending" /\ r.reason = "ReplacedByNewSession"
  /\ Minted(r.identity, m) /\ Minted(r.pending_identity, m)

OperationKnows(op) ==
  /\ op.kind = "Reconcile" => op.platform # None
  /\ op.kind = "Recover" => op.identity # None
  /\ op.kind = "EndIfNeeded" => op.reason # None

\* No presentation and no end has been accepted in this process.
Untouched(q) == q.latest_presentation_request_id = 0 /\ q.latest_terminal_request_id = 0

RecoveryWaits(s) == s.payload # None /\ s.payload.kind = "Recover"

\* What process memory knows at any suspension, and in the course of a call: s, when m
\* sessions have been minted and the activities acts are on screen.
Frame(s, m, acts) ==
  /\ s \in Apps
  /\ RideKnows(s.ride, m)
  /\ s.worker = None <=> s.queue.in_flight_request_id = None
  /\ s.queue.terminal # None =>
       /\ s.worker # None /\ s.queue.latest_terminal_request_id # 0
       /\ s.ride.phase \in {"Ending", "Ended"} /\ s.ride.pending_identity = None
       /\ s.queue.terminal.identity = s.ride.identity
  /\ s.payload # None =>
       /\ s.worker # None /\ OperationKnows(s.payload)
       /\ s.payload.request = s.queue.pending_presentation_request_id
  /\ RecoveryWaits(s) => s.queue.terminal = None /\ ~Visible(s.ride)
  /\ Visible(s.ride) => acts = {s.ride.identity}
  /\ s.inactive => acts = {}
  /\ Untouched(s.queue) =>
       /\ s.ride.phase = "Idle"
       /\ s.payload # None => s.payload.kind = "Project"
  /\ s.desired # None => Minted(s.desired.value, m)
  /\ Minted(s.launch_marker, m)

\* The ride waits for the end of its activity.
Ends(r) == r.phase = "Ending" /\ r.activity = "Ending"

\* A worker that cannot come to a call of start or end without a further request.
Harmless(w) ==
  \/ w = None
  \/ w.stage \in {"update", "return"}
  \/ (w.stage = "dispatch" /\ (w.op = None \/ w.op.kind = "Project"))

\* What the ride may be while the worker w is suspended.
WorkerKnows(r, w) ==
  /\ w.stage = "dispatch" /\ w.op # None =>
       /\ OperationKnows(w.op)
       /\ w.op.kind = "Recover" => ~Visible(r)
  /\ w.stage \in {"start", "cleanup"} => ~Visible(r)
  /\ w.stage = "end" => w.identity = r.identity /\ r.phase \in {"Ending", "Ended"}

Suspended(s) ==
  /\ s.worker # None => WorkerKnows(s.ride, s.worker)
  /\ Ends(s.ride) => \/ s.queue.terminal # None
                     \/ s.worker # None /\ s.worker.stage = "end"
  /\ Untouched(s.queue) \/ RecoveryWaits(s) => Harmless(s.worker)

Knows(s, m, acts) == Frame(s, m, acts) /\ Suspended(s)

AInv ==
  /\ minted \in Nat /\ crashes \in Nat
  /\ Knows(app, minted, activities)
  /\ durable \in Identities /\ Minted(durable, minted)

-----------------------------------------------------------------------------
(* The ride. *)

\* A call that neither starts nor ends the ride.
Evolves(r, t) ==
  /\ t \in RideSessionLifecycle
  /\ t.identity = r.identity /\ t.pending_identity = r.pending_identity /\ t.reason = r.reason
  /\ \/ t.phase = r.phase
     \/ AcceptsUpdates(r) /\ AcceptsUpdates(t)
  /\ \/ t.activity = r.activity
     \/ Visible(r) /\ Visible(t)

\* No value of these types stands for None.
LEMMA NoneIsNothing ==
  /\ None \notin Nat /\ None \notin Platforms /\ None \notin RideSessionIdentity
  /\ None \notin Operations /\ None \notin Workers /\ None \notin Terminal
  /\ None \notin [value : Identities] /\ None \notin EndReasons
BY RideAssumption, ActivityAssumption DEF RideSessionIdentity, Identities

\* The fields of an effect.
LEMMA EffectFields ==
  /\ \A kind, identity : /\ Effect(kind, identity).kind = kind
                        /\ Effect(kind, identity).identity = identity
  /\ NoEffect.kind = "None" /\ NoEffect.identity = None
BY DEF Effect, NoEffect

\* A ride that evolves knows what it knew.
LEMMA EvolvesKnows ==
  ASSUME NEW r, NEW t, NEW m, RideKnows(r, m), Evolves(r, t)
  PROVE  RideKnows(t, m) /\ (Ends(t) <=> Ends(r)) /\ (Visible(t) <=> Visible(r))
BY DEF RideKnows, Evolves, IsLive, AcceptsUpdates, Visible, Ends

\* Calls that evolve the ride compose.
LEMMA EvolvesTransitive ==
  ASSUME NEW r, NEW t, NEW u, Evolves(r, t), Evolves(t, u)
  PROVE  Evolves(r, u)
BY DEF Evolves, AcceptsUpdates, Visible

\* The effects that only ask for an update of the activity.
Updates(e) == e.kind \in {"None", "UpdateActivity", "MarkActivityStale"}

\* RideSessionLifecycle::telemetry_observed
LEMMA TelemetryFacts ==
  ASSUME NEW r \in RideSessionLifecycle, NEW at \in Nat \cup {None}
  PROVE  Evolves(r, TelemetryObserved(r, at).state) /\ Updates(TelemetryObserved(r, at).effect)
<1> DEFINE a == IF r.activity \in {"Active", "Stale"} THEN "Active" ELSE r.activity
           t == [r EXCEPT !.last_telemetry_at = at, !.phase = "Active", !.activity = a]
<1>1. CASE r.identity = None \/ ~AcceptsUpdates(r)
  BY <1>1 DEF TelemetryObserved, Ignore, Decide, NoEffect, Effect, Updates, Evolves
<1>2. CASE ~(r.identity = None \/ ~AcceptsUpdates(r))
  <2>1. /\ TelemetryObserved(r, at).state = t
        /\ TelemetryObserved(r, at).effect.kind \in {"None", "UpdateActivity"}
    BY <1>2 DEF TelemetryObserved, Decide, NoEffect, Effect
  <2>2. a \in ActivityProjections
    BY DEF RideSessionLifecycle, ActivityProjections
  <2>3. t \in RideSessionLifecycle
    BY <2>2, ZenonT(40) DEF RideSessionLifecycle, RideSessionPhases
  <2>4. /\ t.phase = "Active" /\ t.activity = a /\ t.identity = r.identity
        /\ t.pending_identity = r.pending_identity /\ t.reason = r.reason
    BY DEF RideSessionLifecycle
  <2> HIDE DEF t
  <2>5. Evolves(r, t)
    BY <1>2, <2>3, <2>4 DEF Evolves, AcceptsUpdates, Visible
  <2> QED
    BY <2>1, <2>5 DEF Updates
<1> QED
  BY <1>1, <1>2

\* RideSessionLifecycle::freshness_checked
LEMMA FreshnessFacts ==
  ASSUME NEW r \in RideSessionLifecycle, NEW late
  PROVE  Evolves(r, FreshnessChecked(r, late).state) /\ Updates(FreshnessChecked(r, late).effect)
<1> DEFINE a == IF r.activity = "Active" THEN "Stale" ELSE r.activity
           t == [r EXCEPT !.phase = "Stale", !.activity = a]
<1>1. CASE FreshnessChecked(r, late) = Ignore(r)
  BY <1>1 DEF Ignore, Decide, NoEffect, Effect, Updates, Evolves
<1>2. CASE FreshnessChecked(r, late) # Ignore(r)
  <2>1. /\ FreshnessChecked(r, late).state = t /\ AcceptsUpdates(r)
        /\ FreshnessChecked(r, late).effect.kind \in {"None", "MarkActivityStale"}
    BY <1>2 DEF FreshnessChecked, Decide, NoEffect, Effect
  <2>2. a \in ActivityProjections
    BY DEF RideSessionLifecycle, ActivityProjections
  <2>3. t \in RideSessionLifecycle
    BY <2>2, ZenonT(40) DEF RideSessionLifecycle, RideSessionPhases
  <2>4. /\ t.phase = "Stale" /\ t.activity = a /\ t.identity = r.identity
        /\ t.pending_identity = r.pending_identity /\ t.reason = r.reason
    BY DEF RideSessionLifecycle
  <2> HIDE DEF t
  <2>5. Evolves(r, t)
    BY <2>1, <2>3, <2>4 DEF Evolves, AcceptsUpdates, Visible
  <2> QED
    BY <2>1, <2>5 DEF Updates
<1> QED
  BY <1>1, <1>2

\* RideSessionLifecycle::bluetooth_connected, bluetooth_disconnected, and the scene changes
LEMMA SceneFacts ==
  ASSUME NEW r \in RideSessionLifecycle, NEW at \in Nat
  PROVE  /\ Evolves(r, BluetoothConnected(r).state)
         /\ Evolves(r, BluetoothDisconnected(r, at).state)
         /\ Evolves(r, AppBackgrounded(r).state)
         /\ Evolves(r, AppForegrounded(r).state)
<1>1. Evolves(r, r)
  BY DEF Evolves
<1>2. Evolves(r, BluetoothConnected(r).state)
  <2> DEFINE t == [r EXCEPT !.phase = "Active"]
  <2>1. t \in RideSessionLifecycle
    BY DEF RideSessionLifecycle, RideSessionPhases
  <2>2. /\ t.phase = "Active" /\ t.activity = r.activity /\ t.identity = r.identity
        /\ t.pending_identity = r.pending_identity /\ t.reason = r.reason
    BY DEF RideSessionLifecycle
  <2>3. \/ BluetoothConnected(r).state = r
        \/ BluetoothConnected(r).state = t /\ r.phase \in {"Reconnecting", "Stale"}
    BY DEF BluetoothConnected, Ignore, Decide
  <2> HIDE DEF t
  <2> QED
    BY <1>1, <2>1, <2>2, <2>3 DEF Evolves, AcceptsUpdates
<1>3. Evolves(r, BluetoothDisconnected(r, at).state)
  <2> DEFINE a == IF r.activity \in {"Active", "Stale"} THEN "Stale" ELSE r.activity
             l == IF r.last_telemetry_at = None THEN at ELSE r.last_telemetry_at
             t == [r EXCEPT !.phase = "Reconnecting", !.last_telemetry_at = l, !.activity = a]
  <2>1. a \in ActivityProjections /\ l \in Nat \cup {None}
    BY DEF RideSessionLifecycle, ActivityProjections
  <2>2. t \in RideSessionLifecycle
    BY <2>1, ZenonT(40) DEF RideSessionLifecycle, RideSessionPhases
  <2>3. /\ t.phase = "Reconnecting" /\ t.activity = a /\ t.identity = r.identity
        /\ t.pending_identity = r.pending_identity /\ t.reason = r.reason
    BY DEF RideSessionLifecycle
  <2>4. \/ BluetoothDisconnected(r, at).state = r
        \/ BluetoothDisconnected(r, at).state = t /\ AcceptsUpdates(r)
    BY DEF BluetoothDisconnected, Ignore, Decide
  <2> HIDE DEF t
  <2> QED
    BY <1>1, <2>2, <2>3, <2>4 DEF Evolves, AcceptsUpdates, Visible
<1>4. ASSUME NEW p \in {"Foreground", "Background"}
      PROVE  Evolves(r, [r EXCEPT !.app_presence = p])
  BY DEF Evolves, RideSessionLifecycle
<1>5. Evolves(r, AppBackgrounded(r).state)
  BY <1>1, <1>4 DEF AppBackgrounded, Ignore, Decide
<1>6. Evolves(r, AppForegrounded(r).state)
  BY <1>4 DEF AppForegrounded, Ignore, Decide
<1> QED
  BY <1>2, <1>3, <1>5, <1>6

\* A ride that has only been started, on an identity that has been minted.
LEMMA BeginFacts ==
  ASSUME NEW m, NEW i \in RideSessionIdentity, Minted(i, m),
         NEW p \in {"Foreground", "Background"}, NEW phase \in {"Starting", "Reconnecting"},
         NEW a \in {"Starting", "Unavailable"}
  PROVE  LET t == RideOn(phase, i, a, p)
         IN  /\ RideKnows(t, m) /\ t.identity = i /\ t.pending_identity = None
             /\ t.activity = a /\ t.phase = phase /\ ~Visible(t) /\ ~Ends(t)
<1> DEFINE t == RideOn(phase, i, a, p)
<1>1. t \in RideSessionLifecycle
  BY DEF RideOn, RideSessionLifecycle, RideSessionPhases, ActivityProjections
<1>2. /\ t.identity = i /\ t.pending_identity = None /\ t.reason = None
      /\ t.activity = a /\ t.phase = phase
  BY DEF RideOn
<1>3. i # None
  BY NoneIsNothing
<1> HIDE DEF t
<1>4. RideKnows(t, m) /\ ~Visible(t) /\ ~Ends(t)
  BY <1>1, <1>2, <1>3 DEF RideKnows, IsLive, Visible, Ends, Minted
<1> QED
  BY <1>2, <1>4 DEF t

\* RideSessionLifecycle::start, with an identity no ride has had
LEMMA StartFacts ==
  ASSUME NEW r, NEW m \in Nat, RideKnows(r, m), NEW i \in RideSessionIdentity, i.session = m
  PROVE  LET t == Start(r, i).state
             e == Start(r, i).effect
         IN  /\ RideKnows(t, m + 1)
             /\ \/ /\ ~IsLive(r) /\ t.identity = i /\ t.identity # r.identity
                   /\ ~Visible(t) /\ ~Ends(t) /\ e = Effect("StartActivity", i)
                \/ /\ IsLive(r) /\ t.identity = r.identity /\ t.phase = "Ending" /\ ~Visible(t)
                   /\ e = Effect("EndActivity", r.identity)
<1>1. /\ r \in RideSessionLifecycle /\ r.app_presence \in {"Foreground", "Background"}
      /\ r.identity # None => r.identity \in RideSessionIdentity
  BY DEF RideKnows, RideSessionLifecycle
<1>2. /\ r.identity # None => r.identity.session \in Nat /\ r.identity.session < m
      /\ r.identity # i /\ i # None
  BY <1>1, NoneIsNothing DEF RideKnows, Minted, RideSessionIdentity
<1>3. Minted(i, m + 1) /\ Minted(r.identity, m + 1)
  BY <1>2 DEF Minted
<1>4. CASE ~IsLive(r)
  <2> DEFINE t == RideOn("Starting", i, "Starting", r.app_presence)
  <2>1. Start(r, i).state = t /\ Start(r, i).effect = Effect("StartActivity", i)
    BY <1>4 DEF Start, Begin, Decide
  <2>2. RideKnows(t, m + 1) /\ t.identity = i /\ ~Visible(t) /\ ~Ends(t)
    BY <1>1, <1>3, BeginFacts
  <2> HIDE DEF t
  <2> QED
    BY <1>2, <1>4, <2>1, <2>2
<1>5. CASE IsLive(r)
  <2> DEFINE t == [r EXCEPT !.phase = "Ending", !.reason = "ReplacedByNewSession",
                            !.pending_identity = i, !.activity = "Ending"]
  <2>1. Start(r, i).state = t /\ Start(r, i).effect = Effect("EndActivity", r.identity)
    BY <1>2, <1>5 DEF Start, Decide
  <2>2. t \in RideSessionLifecycle
    BY <1>1, Zenon DEF RideSessionLifecycle, RideSessionPhases, EndReasons, ActivityProjections
  <2>3. /\ t.phase = "Ending" /\ t.reason = "ReplacedByNewSession" /\ t.pending_identity = i
        /\ t.activity = "Ending" /\ t.identity = r.identity
    BY <1>1 DEF RideSessionLifecycle
  <2> HIDE DEF t
  <2>4. t.reason # None
    BY <2>3, NoneIsNothing DEF EndReasons
  <2>5. RideKnows(t, m + 1)
    BY <1>3, <1>5, <2>2, <2>3, <2>4 DEF RideKnows, IsLive, Visible
  <2> QED
    BY <1>5, <2>1, <2>3, <2>5 DEF Visible
<1> QED
  BY <1>4, <1>5

\* The reasons for which a ride is asked to end.
Asked == {"UserDisconnect", "UserStop", "ReconnectExhausted", "UnrecoverableSessionFailure"}

\* RideSessionLifecycle::end: an effect when the activity must go, and none when it is gone
\* or going.
LEMMA EndFacts ==
  ASSUME NEW r, NEW m, RideKnows(r, m), NEW reason \in Asked
  PROVE  LET t == End(r, reason).state
             e == End(r, reason).effect
         IN  /\ RideKnows(t, m) /\ t.identity = r.identity /\ ~Visible(t)
             /\ t.phase \in {"Ending", "Ended"} /\ (r.phase = "Ended" => t.phase = "Ended")
             /\ t.pending_identity \in {r.pending_identity, None}
             /\ \/ /\ e = Effect("EndActivity", r.identity) /\ IsLive(r)
                   /\ t.phase = "Ending" /\ t.pending_identity = None
                \/ e = NoEffect /\ (Ends(t) => Ends(r))
<1> DEFINE t == End(r, reason).state
           e == End(r, reason).effect
           x == [r EXCEPT !.phase = "Ended", !.reason = reason, !.activity = "Ended"]
           y == [r EXCEPT !.activity = "Ending"]
           z == [r EXCEPT !.phase = "Ending", !.reason = reason,
                          !.pending_identity = None, !.activity = "Ending"]
<1>1. r \in RideSessionLifecycle /\ reason \in EndReasons /\ reason # "ReplacedByNewSession"
  BY DEF RideKnows, Asked, EndReasons
<1>2. x \in RideSessionLifecycle /\ y \in RideSessionLifecycle /\ z \in RideSessionLifecycle
  BY <1>1, ZenonT(40) DEF RideSessionLifecycle, RideSessionPhases, ActivityProjections
<1>3. /\ x.phase = "Ended" /\ x.reason = reason /\ x.activity = "Ended"
      /\ x.identity = r.identity /\ x.pending_identity = r.pending_identity
      /\ y.phase = r.phase /\ y.reason = r.reason /\ y.activity = "Ending"
      /\ y.identity = r.identity /\ y.pending_identity = r.pending_identity
      /\ z.phase = "Ending" /\ z.reason = reason /\ z.activity = "Ending"
      /\ z.identity = r.identity /\ z.pending_identity = None
  BY <1>1 DEF RideSessionLifecycle
<1>4. reason # None
  BY <1>1, NoneIsNothing
<1>5. \/ r.identity = None /\ t = x /\ e = NoEffect
      \/ /\ r.identity # None /\ r.phase = "Ending" /\ r.reason = reason
         /\ t = y /\ e = Effect("EndActivity", r.identity)
      \/ /\ r.identity # None /\ r.phase \in {"Ending", "Ended"}
         /\ t = r /\ e = NoEffect
      \/ /\ r.identity # None /\ IsLive(r) /\ r.phase # "Ending"
         /\ t = z /\ e = Effect("EndActivity", r.identity)
  <2>1. r.identity # None /\ ~IsLive(r) => r.phase = "Ended"
    BY DEF RideKnows, IsLive
  <2> QED
    BY <2>1 DEF End, Ignore, Decide
<1> SUFFICES /\ RideKnows(t, m) /\ t.identity = r.identity /\ ~Visible(t)
             /\ t.phase \in {"Ending", "Ended"} /\ (r.phase = "Ended" => t.phase = "Ended")
             /\ t.pending_identity \in {r.pending_identity, None}
             /\ \/ /\ e = Effect("EndActivity", r.identity) /\ IsLive(r)
                   /\ t.phase = "Ending" /\ t.pending_identity = None
                \/ e = NoEffect /\ (Ends(t) => Ends(r))
  OBVIOUS
<1> HIDE DEF t, e, x, y, z
<1>6. CASE r.identity = None /\ t = x /\ e = NoEffect
  <2>1. ~IsLive(r) /\ r.pending_identity = None
    BY <1>6 DEF RideKnows, IsLive
  <2> QED
    BY <1>2, <1>3, <1>4, <1>6, <2>1 DEF RideKnows, IsLive, Visible, Ends
<1>7. CASE /\ r.identity # None /\ r.phase = "Ending" /\ r.reason = reason
           /\ t = y /\ e = Effect("EndActivity", r.identity)
  BY <1>1, <1>2, <1>3, <1>4, <1>7 DEF RideKnows, IsLive, Visible
<1>8. CASE r.identity # None /\ r.phase \in {"Ending", "Ended"} /\ t = r /\ e = NoEffect
  BY <1>8 DEF RideKnows, Visible, AcceptsUpdates
<1>9. CASE /\ r.identity # None /\ IsLive(r) /\ r.phase # "Ending"
           /\ t = z /\ e = Effect("EndActivity", r.identity)
  BY <1>1, <1>2, <1>3, <1>4, <1>9 DEF RideKnows, IsLive, Visible, Minted
<1> QED
  BY <1>5, <1>6, <1>7, <1>8, <1>9

\* RideSessionLifecycle::activity_started
LEMMA StartedFacts ==
  ASSUME NEW r, NEW m, RideKnows(r, m), NEW i
  PROVE  LET t == ActivityStarted(r, i).state
         IN  /\ RideKnows(t, m)
             /\ t.identity = r.identity /\ t.pending_identity = r.pending_identity
             /\ \/ t.phase = r.phase
                \/ AcceptsUpdates(r) /\ AcceptsUpdates(t)
             /\ Ends(t) => Ends(r)
             /\ Visible(t) => Visible(r) \/ r.identity = i
<1> DEFINE t == ActivityStarted(r, i).state
           p == IF r.phase = "Starting" THEN "Active" ELSE r.phase
           x == [r EXCEPT !.phase = p, !.activity = "Active"]
<1>1. r \in RideSessionLifecycle /\ p \in RideSessionPhases
  BY DEF RideKnows, RideSessionLifecycle, RideSessionPhases
<1>2. \/ t = r
      \/ t = x /\ r.identity = i /\ AcceptsUpdates(r)
  BY DEF ActivityStarted, Ignore, Decide
<1>3. x \in RideSessionLifecycle
  BY <1>1, Zenon DEF RideSessionLifecycle, ActivityProjections
<1>4. /\ x.phase = p /\ x.activity = "Active" /\ x.reason = r.reason
      /\ x.identity = r.identity /\ x.pending_identity = r.pending_identity
  BY <1>1 DEF RideSessionLifecycle
<1> HIDE DEF t, x
<1>5. CASE t = r
  BY <1>5 DEF t
<1>6. CASE t = x /\ r.identity = i /\ AcceptsUpdates(r)
  <2>1. AcceptsUpdates(x) /\ IsLive(x) /\ IsLive(r) /\ x.phase # "Ending" /\ r.phase # "Ending"
    BY <1>4, <1>6 DEF AcceptsUpdates, IsLive
  <2>2. RideKnows(x, m)
    BY <1>3, <1>4, <1>6, <2>1, Zenon DEF RideKnows, AcceptsUpdates
  <2> QED
    BY <1>4, <1>6, <2>1, <2>2 DEF Ends, t
<1> QED
  BY <1>2, <1>5, <1>6

\* RideSessionLifecycle::activity_unavailable
LEMMA UnavailableFacts ==
  ASSUME NEW r, NEW m, RideKnows(r, m), NEW i
  PROVE  LET t == ActivityUnavailable(r, i).state
         IN  /\ RideKnows(t, m)
             /\ t.identity = r.identity /\ t.pending_identity = r.pending_identity
             /\ t.phase = r.phase
             /\ Ends(t) => Ends(r) /\ r.identity # i
             /\ Visible(t) => Visible(r) /\ r.identity # i
<1> DEFINE t == ActivityUnavailable(r, i).state
           x == [r EXCEPT !.activity = "Unavailable"]
<1>1. r \in RideSessionLifecycle
  BY DEF RideKnows
<1>2. \/ t = r /\ ~(r.identity = i /\ IsLive(r))
      \/ t = x
  BY DEF ActivityUnavailable, Ignore, Decide
<1>3. x \in RideSessionLifecycle
  BY <1>1 DEF RideSessionLifecycle, ActivityProjections
<1>4. /\ x.phase = r.phase /\ x.activity = "Unavailable" /\ x.reason = r.reason
      /\ x.identity = r.identity /\ x.pending_identity = r.pending_identity
  BY <1>1 DEF RideSessionLifecycle
<1> HIDE DEF t, x
<1>5. CASE t = r /\ ~(r.identity = i /\ IsLive(r))
  BY <1>5 DEF t, RideKnows, Ends, Visible, IsLive, AcceptsUpdates
<1>6. CASE t = x
  BY <1>3, <1>4, <1>6, Zenon DEF RideKnows, Ends, Visible, IsLive, AcceptsUpdates, t
<1> QED
  BY <1>2, <1>5, <1>6

\* RideSessionLifecycle::activity_ended, for the ride that is ending: it has ended, or gives
\* way to its successor.
LEMMA EndedFacts ==
  ASSUME NEW r, NEW m, RideKnows(r, m), r.phase \in {"Ending", "Ended"}
  PROVE  LET t == ActivityEnded(r, r.identity).state
             e == ActivityEnded(r, r.identity).effect
         IN  /\ RideKnows(t, m) /\ ~Visible(t) /\ ~Ends(t)
             /\ \/ /\ t.identity = r.identity /\ t.phase = "Ended" /\ t.pending_identity = None
                   /\ e = NoEffect
                \/ /\ r.phase = "Ending" /\ r.pending_identity # None
                   /\ t.identity \in RideSessionIdentity /\ e = Effect("StartActivity", t.identity)
<1> DEFINE t == ActivityEnded(r, r.identity).state
           e == ActivityEnded(r, r.identity).effect
           b == RideOn("Starting", r.pending_identity, "Starting", r.app_presence)
           x == [r EXCEPT !.phase = "Ended", !.activity = "Ended"]
<1>1. /\ r \in RideSessionLifecycle /\ r.app_presence \in {"Foreground", "Background"}
      /\ r.pending_identity # None => r.pending_identity \in RideSessionIdentity
      /\ Minted(r.pending_identity, m)
  BY DEF RideKnows, RideSessionLifecycle
<1>2. \/ r.phase = "Ended" /\ t = r /\ e = NoEffect
      \/ /\ r.phase = "Ending" /\ r.pending_identity # None
         /\ t = b /\ e = Effect("StartActivity", r.pending_identity)
      \/ r.phase = "Ending" /\ r.pending_identity = None /\ t = x /\ e = NoEffect
  BY DEF ActivityEnded, Ignore, Decide, Begin
<1>3. x \in RideSessionLifecycle
  BY <1>1, Zenon DEF RideSessionLifecycle, RideSessionPhases, ActivityProjections
<1>4. /\ x.phase = "Ended" /\ x.activity = "Ended" /\ x.reason = r.reason
      /\ x.identity = r.identity /\ x.pending_identity = r.pending_identity
  BY <1>1 DEF RideSessionLifecycle
<1>5. r.pending_identity # None =>
        RideKnows(b, m) /\ ~Visible(b) /\ ~Ends(b) /\ b.identity = r.pending_identity
  BY <1>1, BeginFacts
<1> HIDE DEF t, e, b, x
<1>6. CASE r.phase = "Ended" /\ t = r /\ e = NoEffect
  BY <1>6 DEF t, e, RideKnows, Visible, AcceptsUpdates, Ends
<1>7. CASE /\ r.phase = "Ending" /\ r.pending_identity # None
           /\ t = b /\ e = Effect("StartActivity", r.pending_identity)
  BY <1>1, <1>5, <1>7 DEF t, e
<1>8. CASE r.phase = "Ending" /\ r.pending_identity = None /\ t = x /\ e = NoEffect
  BY <1>3, <1>4, <1>8, Zenon DEF t, e, RideKnows, Visible, IsLive, Ends
<1> QED
  BY <1>2, <1>6, <1>7, <1>8

\* recover_ride_session_marker, when no ride is live
LEMMA RecoverFacts ==
  ASSUME NEW r, NEW m, RideKnows(r, m), r.phase = "Idle", NEW i \in RideSessionIdentity,
         Minted(i, m), NEW restored
  PROVE  LET t == RecoverRideSessionMarker(r, i, restored).state
         IN  RideKnows(t, m) /\ ~Visible(t) /\ ~Ends(t) /\ t.identity = i /\ i # r.identity
<1>1. r.app_presence \in {"Foreground", "Background"} /\ r.identity = None /\ Marker(r) = None
  BY DEF RideKnows, RideSessionLifecycle, Marker
<1>2. \/ RecoverRideSessionMarker(r, i, restored).state =
           RideOn("Starting", i, "Starting", r.app_presence)
      \/ RecoverRideSessionMarker(r, i, restored).state =
           RideOn("Reconnecting", i, "Unavailable", r.app_presence)
  BY <1>1 DEF RecoverRideSessionMarker, Recover, Begin, Ignore, Decide
<1>3. i # None
  BY NoneIsNothing, Zenon
<1> QED
  BY <1>1, <1>2, <1>3, BeginFacts

-----------------------------------------------------------------------------
(* Steps of the coordinator's code. *)

\* Two states of the queue with the same work and the same fences.
SameWork(q, p) ==
  /\ p \in WorkState
  /\ p.in_flight_request_id = q.in_flight_request_id
  /\ p.pending_presentation_request_id = q.pending_presentation_request_id
  /\ p.terminal = q.terminal
  /\ p.latest_presentation_request_id = q.latest_presentation_request_id
  /\ p.latest_terminal_request_id = q.latest_terminal_request_id

\* Memory that differs in the ride and in what the ride is remembered by.
SameRest(s, t) ==
  /\ t \in Apps
  /\ t.queue = s.queue /\ t.payload = s.payload /\ t.worker = s.worker
  /\ t.inactive = s.inactive /\ t.launch_marker = s.launch_marker
  /\ t.shown = s.shown /\ t.timing = s.timing /\ t.manager = s.manager

\* A ride that evolves, and a queue that notes something about it, change nothing else.
LEMMA FrameEvolves ==
  ASSUME NEW s, NEW t \in Apps, NEW m, NEW acts, Frame(s, m, acts),
         Evolves(s.ride, t.ride), SameWork(s.queue, t.queue), t.payload = s.payload,
         t.worker = s.worker, t.inactive = s.inactive, t.launch_marker = s.launch_marker,
         t.desired # None => Minted(t.desired.value, m)
  PROVE  /\ Frame(t, m, acts)
         /\ Untouched(t.queue) <=> Untouched(s.queue)
         /\ RecoveryWaits(t) <=> RecoveryWaits(s)
<1>1. RideKnows(t.ride, m) /\ (Visible(t.ride) <=> Visible(s.ride))
  BY EvolvesKnows DEF Frame
<1>2. Untouched(t.queue) <=> Untouched(s.queue)
  BY DEF SameWork, Untouched
<1>3. RecoveryWaits(t) <=> RecoveryWaits(s)
  BY DEF RecoveryWaits
<1>4. /\ t.ride.identity = s.ride.identity
      /\ t.ride.pending_identity = s.ride.pending_identity
      /\ s.ride.phase \in {"Ending", "Ended", "Idle"} => t.ride.phase = s.ride.phase
  BY DEF Evolves, AcceptsUpdates
<1> QED
  BY <1>1, <1>2, <1>3, <1>4, Zenon DEF Frame, SameWork

\* reduce
LEMMA ReduceFacts ==
  ASSUME NEW s \in Apps, NEW d, NEW m, RideKnows(d.state, m),
         s.desired # None => Minted(s.desired.value, m)
  PROVE  LET t == Reduce(s, d)
         IN  /\ SameRest(s, t) /\ t.ride = d.state
             /\ t.desired # None => Minted(t.desired.value, m)
<1> DEFINE i == IF Marker(d.state) # None THEN Intent(Marker(d.state))
                ELSE IF MayClearMarker(d.state) THEN Intent(None)
                ELSE s.desired
           t == [s EXCEPT !.ride = d.state, !.desired = i]
<1>1. Reduce(s, d) = t
  BY DEF Reduce
<1>2. /\ d.state \in RideSessionLifecycle
      /\ Marker(d.state) \in Identities /\ Minted(Marker(d.state), m)
  BY DEF RideKnows, Marker, RideSessionLifecycle, Identities, Minted
<1>3. \A x \in Identities :
        Intent(x) \in [value : Identities] /\ Intent(x) # None /\ Intent(x).value = x
  BY NoneIsNothing DEF Intent
<1>4. i \in [value : Identities] \cup {None} /\ (i # None => Minted(i.value, m))
  BY <1>2, <1>3 DEF Apps, Identities, Minted
<1> HIDE DEF i
<1>5. t \in Apps
  BY <1>2, <1>4, Zenon DEF Apps
<1>6. t.ride = d.state /\ t.desired = i
  BY DEF Apps
<1>7. SameRest(s, t)
  BY <1>5 DEF Apps, SameRest
<1> HIDE DEF t
<1> QED
  BY <1>1, <1>4, <1>6, <1>7

\* The reducer evolves the ride.
LEMMA ReduceEvolves ==
  ASSUME NEW s, NEW m, NEW acts, Frame(s, m, acts), NEW d, Evolves(s.ride, d.state)
  PROVE  LET t == Reduce(s, d)
         IN  Frame(t, m, acts) /\ SameRest(s, t) /\ t.ride = d.state
<1> DEFINE t == Reduce(s, d)
<1>1. s \in Apps /\ RideKnows(s.ride, m) /\ (s.desired # None => Minted(s.desired.value, m))
  BY DEF Frame
<1>2. RideKnows(d.state, m)
  BY <1>1, EvolvesKnows, Zenon
<1>3. SameRest(s, t) /\ t.ride = d.state /\ (t.desired # None => Minted(t.desired.value, m))
  BY <1>1, <1>2, ReduceFacts, Zenon
<1> HIDE DEF t
<1>4. SameWork(s.queue, t.queue)
  BY <1>1, <1>3, Zenon DEF SameWork, SameRest, Apps
<1>5. Frame(t, m, acts)
  BY <1>3, <1>4, FrameEvolves DEF SameRest
<1> QED
  BY <1>3, <1>5, Zenon DEF t

Times == Nat \cup {None}
Waits == {"start", "update", "end", "cleanup", "return"}

\* Membership of the constants that the stages are built from.
LEMMA WaitsFacts ==
  /\ "start" \in Waits /\ "update" \in Waits /\ "end" \in Waits /\ "cleanup" \in Waits
  /\ "return" \in Waits /\ None \in Times /\ None \in Identities
BY DEF Waits, Times, Identities

\* The worker suspends.
LEMMA AwaitKnows ==
  ASSUME NEW s, NEW m, NEW acts, Frame(s, m, acts), s.worker # None, NEW stage \in Waits,
         NEW identity \in Identities, NEW snapshot \in BOOLEAN, NEW timing \in Times,
         NEW start \in Times,
         stage \in {"start", "cleanup"} => ~Visible(s.ride),
         stage = "end" => identity = s.ride.identity /\ s.ride.phase \in {"Ending", "Ended"},
         Ends(s.ride) => s.queue.terminal # None \/ stage = "end",
         stage \in {"update", "return"} \/ ~(Untouched(s.queue) \/ RecoveryWaits(s))
  PROVE  LET t == Await(s, stage, identity, snapshot, timing, start)
         IN  Knows(t, m, acts) /\ t.ride = s.ride
<1> DEFINE w == [s.worker EXCEPT !.stage = stage, !.op = None, !.identity = identity,
                                 !.snapshot = snapshot, !.timing = timing, !.start = start]
           t == [s EXCEPT !.worker = w]
<1>1. Await(s, stage, identity, snapshot, timing, start) = t
  BY Zenon DEF Await
<1>2. s \in Apps /\ s.worker \in Workers
  BY DEF Frame, Apps
<1>3. w \in Workers /\ w.stage = stage /\ w.identity = identity
  BY <1>2, ZenonT(40) DEF Workers, Waits, Identities, Times
<1>4. w # None
  BY <1>3, NoneIsNothing
<1> HIDE DEF w
<1>5. t \in Apps /\ t.worker = w /\ t.desired = s.desired /\ t.ride = s.ride
  BY <1>2, <1>3 DEF Apps
<1>6. /\ t.queue = s.queue /\ t.payload = s.payload /\ t.inactive = s.inactive
      /\ t.launch_marker = s.launch_marker
  BY <1>2 DEF Apps
<1> HIDE DEF t
<1>7. Untouched(t.queue) = Untouched(s.queue) /\ RecoveryWaits(t) = RecoveryWaits(s)
  BY <1>6 DEF RecoveryWaits
<1>8. Frame(t, m, acts)
  BY <1>4, <1>5, <1>6, <1>7 DEF Frame
<1>9. WorkerKnows(t.ride, t.worker)
  BY <1>3, <1>5 DEF WorkerKnows, Waits
<1>10. Harmless(w) \/ ~(Untouched(t.queue) \/ RecoveryWaits(t))
  BY <1>3, <1>7 DEF Harmless
<1>11. Suspended(t)
  BY <1>3, <1>4, <1>5, <1>6, <1>9, <1>10 DEF Suspended
<1> QED
  BY <1>1, <1>5, <1>8, <1>11 DEF Knows

\* ActivityWorkQueue::finish_work
LEMMA FinishWorkFacts ==
  ASSUME NEW q \in WorkState
  PROVE  LET p == FinishWork(q)
         IN  /\ p \in WorkState /\ p.terminal = None
             /\ p.latest_presentation_request_id = q.latest_presentation_request_id
             /\ p.latest_terminal_request_id = q.latest_terminal_request_id
             /\ q.terminal # None =>
                  /\ p.in_flight_request_id = q.terminal.request_id
                  /\ p.in_flight_request_id \in Nat
                  /\ p.pending_presentation_request_id = q.pending_presentation_request_id
             /\ q.terminal = None => p.in_flight_request_id = NextPresentation(q)
<1>1. NextPresentation(q) \in Nat \cup {None} /\ q.terminal \in Terminal \cup {None}
  BY DEF NextPresentation, WorkState
<1>2. CASE q.terminal # None
  <2> DEFINE i == q.terminal.request_id
             p == [q EXCEPT !.terminal = None, !.in_flight_request_id = i]
  <2>1. FinishWork(q) = p
    BY <1>2 DEF FinishWork
  <2>2. i \in Nat
    BY <1>1, <1>2 DEF Terminal
  <2> HIDE DEF i
  <2>3. p \in WorkState
    BY <2>2, Zenon DEF WorkState
  <2>4. /\ p.terminal = None /\ p.in_flight_request_id = i
        /\ p.latest_presentation_request_id = q.latest_presentation_request_id
        /\ p.latest_terminal_request_id = q.latest_terminal_request_id
        /\ p.pending_presentation_request_id = q.pending_presentation_request_id
    BY DEF WorkState
  <2> HIDE DEF p
  <2> QED
    BY <1>2, <2>1, <2>2, <2>3, <2>4 DEF i
<1>3. CASE q.terminal = None
  <2> DEFINE i == NextPresentation(q)
             p == [q EXCEPT !.pending_presentation_request_id = None, !.in_flight_request_id = i]
  <2>1. FinishWork(q) = p
    BY <1>3 DEF FinishWork
  <2>2. i \in Nat \cup {None}
    BY <1>1
  <2> HIDE DEF i
  <2>3. p \in WorkState
    BY <2>2, Zenon DEF WorkState
  <2>4. /\ p.terminal = None /\ p.in_flight_request_id = i
        /\ p.latest_presentation_request_id = q.latest_presentation_request_id
        /\ p.latest_terminal_request_id = q.latest_terminal_request_id
    BY <1>3 DEF WorkState
  <2> HIDE DEF p
  <2> QED
    BY <1>3, <2>1, <2>3, <2>4 DEF i
<1> QED
  BY <1>2, <1>3

\* A worker that has been handed its request.
LEMMA WorkerFacts ==
  ASSUME NEW id \in Nat, NEW terminal \in BOOLEAN, NEW op \in Operations \cup {None}
  PROVE  LET w == Worker(id, terminal, op)
         IN  w \in Workers /\ w # None /\ w.stage = "dispatch" /\ w.op = op
<1>1. Worker(id, terminal, op) \in Workers
  BY DEF Worker, Workers
<1>2. Worker(id, terminal, op).stage = "dispatch" /\ Worker(id, terminal, op).op = op
  BY Zenon DEF Worker
<1> QED
  BY <1>1, <1>2, NoneIsNothing

\* One turn of drainPlatformWork: an ending ride gets its cleanup before anything else.
LEMMA DrainKnows ==
  ASSUME NEW s, NEW m, NEW acts, Frame(s, m, acts), s.worker # None,
         Ends(s.ride) => s.queue.terminal # None
  PROVE  Knows(Drain(s), m, acts) /\ Drain(s).ride = s.ride
<1> DEFINE q == s.queue
           p == FinishWork(q)
           id == NextPresentation(q)
           mine == s.payload # None /\ s.payload.request = id
<1>1. s \in Apps /\ q \in WorkState /\ s.shown \in BOOLEAN
      /\ s.payload \in Operations \cup {None} /\ s.ride \in RideSessionLifecycle
  BY DEF Frame, Apps
<1>2. /\ p \in WorkState /\ p.terminal = None
      /\ p.latest_presentation_request_id = q.latest_presentation_request_id
      /\ p.latest_terminal_request_id = q.latest_terminal_request_id
      /\ q.terminal # None =>
           /\ p.in_flight_request_id = q.terminal.request_id
           /\ p.in_flight_request_id \in Nat
           /\ p.pending_presentation_request_id = q.pending_presentation_request_id
      /\ q.terminal = None => p.in_flight_request_id = id
  BY <1>1, FinishWorkFacts
<1>3. id \in Nat \cup {None} /\ (id # None => id = q.pending_presentation_request_id)
  BY <1>1 DEF NextPresentation, WorkState
<1> HIDE DEF p, id
<1>4. CASE q.terminal # None
  <2> DEFINE w == Worker(q.terminal.request_id, TRUE, None)
             f == [s EXCEPT !.queue = p]
             t == [f EXCEPT !.worker = w]
  <2>1. Drain(s) = Await(t, "end", q.terminal.identity, s.shown, None, None)
    BY <1>4 DEF Drain, p
  <2>2. q.terminal.request_id \in Nat /\ q.terminal.request_id # None
    BY <1>2, <1>4, NoneIsNothing
  <2>3. w \in Workers /\ w # None
    BY <2>2, WorkerFacts, Zenon
  <2> HIDE DEF w
  <2>4. f \in Apps
    BY <1>1, <1>2 DEF Apps
  <2>5. t \in Apps
    BY <2>3, <2>4, Zenon DEF Apps
  <2>6. /\ t.queue = p /\ t.worker = w /\ t.ride = s.ride /\ t.payload = s.payload
        /\ t.inactive = s.inactive /\ t.launch_marker = s.launch_marker /\ t.desired = s.desired
    BY <1>1, Zenon DEF Apps
  <2> HIDE DEF t
  <2>7. ~Untouched(t.queue) /\ ~RecoveryWaits(t)
    BY <1>2, <1>4, <2>6, Zenon DEF Frame, Untouched, RecoveryWaits
  <2>8. Frame(t, m, acts)
    BY <1>2, <1>4, <2>2, <2>3, <2>5, <2>6, <2>7, Zenon DEF Frame
  <2>9. /\ q.terminal.identity = t.ride.identity /\ t.ride.phase \in {"Ending", "Ended"}
        /\ q.terminal.identity \in Identities
    BY <1>1, <1>4, <2>6, Zenon DEF Frame, RideSessionLifecycle, Identities
  <2>10. Knows(Drain(s), m, acts) /\ Drain(s).ride = t.ride
    <3>1. t.worker # None
      BY <2>3, <2>6
    <3> QED
      BY <1>1, <2>1, <2>7, <2>8, <2>9, <3>1, AwaitKnows, WaitsFacts
  <2> QED
    BY <2>6, <2>10
<1>5. CASE q.terminal = None /\ id = None
  <2> DEFINE f == [s EXCEPT !.queue = p]
             t == [f EXCEPT !.worker = None, !.payload = None]
  <2>1. Drain(s) = t
    BY <1>5 DEF Drain, p, id
  <2>2. t \in Apps
    BY <1>1, <1>2, ZenonT(40) DEF Apps
  <2>3. /\ t.queue = p /\ t.worker = None /\ t.ride = s.ride /\ t.payload = None
        /\ t.inactive = s.inactive /\ t.launch_marker = s.launch_marker /\ t.desired = s.desired
    BY <1>1 DEF Apps
  <2> HIDE DEF t
  <2>4. Frame(t, m, acts)
    BY <1>2, <1>5, <2>2, <2>3 DEF Frame, Untouched, RecoveryWaits
  <2>5. Suspended(t)
    BY <1>5, <2>3 DEF Suspended, Harmless
  <2> QED
    BY <2>1, <2>3, <2>4, <2>5 DEF Knows
<1>6. CASE q.terminal = None /\ id # None
  <2> DEFINE op == IF mine THEN s.payload ELSE None
             w == Worker(id, FALSE, op)
             f == [s EXCEPT !.queue = p]
             rest == IF mine THEN None ELSE s.payload
             t == [f EXCEPT !.worker = w, !.payload = rest]
  <2>1. Drain(s) = t
    BY <1>1, <1>6, Zenon DEF Drain, p, id, Apps
  <2>2. s.payload # None => mine
    BY <1>3, <1>6 DEF Frame
  <2>3. rest = None /\ op = s.payload /\ op \in Operations \cup {None}
    BY <1>1, <2>2
  <2> HIDE DEF op, rest
  <2>4. w \in Workers /\ w # None /\ w.stage = "dispatch" /\ w.op = op
    BY <1>3, <1>6, <2>3, WorkerFacts, Zenon
  <2> HIDE DEF w
  <2>5. f \in Apps
    BY <1>1, <1>2 DEF Apps
  <2>6. t \in Apps
    BY <2>3, <2>4, <2>5, Zenon DEF Apps
  <2>7. /\ t.queue = p /\ t.worker = w /\ t.ride = s.ride /\ t.payload = None
        /\ t.inactive = s.inactive /\ t.launch_marker = s.launch_marker /\ t.desired = s.desired
    BY <1>1, <2>3 DEF Apps
  <2> HIDE DEF t
  <2>8. Untouched(t.queue) = Untouched(q) /\ ~RecoveryWaits(t)
    BY <1>2, <2>7, Zenon DEF Untouched, RecoveryWaits
  <2>9. Frame(t, m, acts)
    BY <1>2, <1>6, <2>4, <2>6, <2>7, <2>8, Zenon DEF Frame
  <2>10. WorkerKnows(t.ride, w)
    BY <2>3, <2>4, <2>7, Zenon DEF WorkerKnows, Frame, RecoveryWaits
  <2>11. Untouched(q) => Harmless(w)
    BY <2>3, <2>4 DEF Harmless, Frame
  <2>12. Suspended(t)
    BY <1>6, <2>7, <2>8, <2>10, <2>11, Zenon DEF Suspended
  <2> QED
    BY <2>1, <2>7, <2>9, <2>12 DEF Knows
<1> QED
  BY <1>4, <1>5, <1>6, Zenon

\* A closure hops back.
LEMMA ReturnKnows ==
  ASSUME NEW s, NEW m, NEW acts, Frame(s, m, acts), s.worker # None,
         Ends(s.ride) => s.queue.terminal # None
  PROVE  Knows(Return(s), m, acts) /\ Return(s).ride = s.ride
<1>1. CASE s.worker.terminal
  BY <1>1, DrainKnows DEF Return
<1>2. CASE ~s.worker.terminal
  <2>1. Return(s) = Await(s, "return", None, FALSE, None, None)
    BY <1>2, Zenon DEF Return
  <2>2. ASSUME NEW b \in BOOLEAN
        PROVE  LET t == Await(s, "return", None, b, None, None)
               IN  Knows(t, m, acts) /\ t.ride = s.ride
    BY AwaitKnows, WaitsFacts
  <2>3. LET t == Await(s, "return", None, FALSE, None, None)
        IN  Knows(t, m, acts) /\ t.ride = s.ride
    BY <2>2, Zenon
  <2> QED
    BY <2>1, <2>3, Zenon
<1> QED
  BY <1>1, <1>2

\* ActivityWorkQueue::note_session_start
LEMMA NoteFacts ==
  ASSUME NEW q \in WorkState, NEW id \in Nat, NEW i \in RideSessionIdentity
  PROVE  SameWork(q, NoteSessionStart(q, id, i))
<1> DEFINE k == Max2(q.latest_session_request_id, id)
           x == [q EXCEPT !.pending_start_platform = None, !.latest_session_identity = i]
           y == [q EXCEPT !.latest_session_request_id = k, !.latest_session_identity = i]
<1>1. k \in Nat
  BY DEF Max2, WorkState
<1>2. NoteSessionStart(q, id, i) \in {q, x, y}
  BY DEF NoteSessionStart
<1> HIDE DEF k
<1>3. x \in WorkState /\ y \in WorkState
  BY <1>1, ZenonT(40) DEF WorkState
<1>4. SameWork(q, q) /\ SameWork(q, x) /\ SameWork(q, y)
  BY <1>3 DEF SameWork, WorkState
<1> HIDE DEF x, y
<1> QED
  BY <1>2, <1>4

\* Telemetry and its freshness, as execute reports them to the reducer.
LEMMA ObserveKnows ==
  ASSUME NEW s, NEW m, NEW acts, Frame(s, m, acts), NEW at \in Times, NEW late
  PROVE  LET t == Observe(s, at, late)
         IN  Frame(t, m, acts) /\ SameRest(s, t) /\ Evolves(s.ride, t.ride)
<1> DEFINE x == TelemetryObserved(s.ride, at)
           u == Reduce(s, x)
           y == FreshnessChecked(u.ride, late)
           t == Reduce(u, y)
<1>1. Observe(s, at, late) = t
  BY DEF Observe
<1>2. s.ride \in RideSessionLifecycle
  BY DEF Frame, Apps
<1>3. Evolves(s.ride, x.state)
  BY <1>2, TelemetryFacts DEF Times
<1> HIDE DEF x
<1>4. Frame(u, m, acts) /\ SameRest(s, u) /\ u.ride = x.state
  BY <1>3, ReduceEvolves, Zenon
<1> HIDE DEF u
<1>5. Evolves(u.ride, y.state)
  BY <1>3, <1>4, FreshnessFacts, Zenon DEF Evolves
<1> HIDE DEF y
<1>6. Frame(t, m, acts) /\ SameRest(u, t) /\ t.ride = y.state
  BY <1>4, <1>5, ReduceEvolves
<1> HIDE DEF t
<1>7. Evolves(s.ride, t.ride)
  BY <1>3, <1>4, <1>5, <1>6, EvolvesTransitive, Zenon
<1>8. SameRest(s, t)
  BY <1>4, <1>6, Zenon DEF SameRest
<1> QED
  BY <1>1, <1>6, <1>7, <1>8

\* Touched: a request that starts or ends rides has been accepted, and no recovery waits.
Touched(s) == ~(Untouched(s.queue) \/ RecoveryWaits(s))

\* execute up to its call of the manager.
LEMMA ExecuteKnows ==
  ASSUME NEW s, NEW m, NEW acts, Frame(s, m, acts), s.worker # None, NEW e,
         NEW snapshot \in BOOLEAN, NEW timing \in Times, NEW start \in Times, NEW late,
         e.identity \in Identities,
         e.kind = "StartActivity" =>
           e.identity \in RideSessionIdentity /\ ~Visible(s.ride) /\ Touched(s),
         e.kind = "EndActivity" =>
           /\ e.identity = s.ride.identity /\ s.ride.phase \in {"Ending", "Ended"}
           /\ Touched(s),
         Ends(s.ride) => s.queue.terminal # None \/ e.kind = "EndActivity"
  PROVE  LET t == Execute(s, e, snapshot, timing, start, late)
         IN  Knows(t, m, acts) /\ Evolves(s.ride, t.ride)
<1> DEFINE t == Execute(s, e, snapshot, timing, start, late)
           p == NoteSessionStart(s.queue, start, e.identity)
           noted == IF start = None THEN s ELSE [s EXCEPT !.queue = p]
           observed == IF timing = None THEN noted ELSE Observe(noted, timing, late)
<1>1. /\ s \in Apps /\ s.queue \in WorkState /\ s.ride \in RideSessionLifecycle
      /\ Evolves(s.ride, s.ride)
  BY Zenon DEF Frame, Apps, Evolves
<1>2. CASE e.kind = "StartActivity"
  <2>1. /\ Frame(noted, m, acts) /\ noted.worker = s.worker /\ noted.ride = s.ride
        /\ noted.queue.terminal = s.queue.terminal /\ Touched(noted)
    <3>1. CASE start = None
      BY <1>2, <3>1, Zenon
    <3>2. CASE start # None
      <4> DEFINE u == [s EXCEPT !.queue = p]
      <4>1. SameWork(s.queue, p) /\ p \in WorkState
        BY <1>1, <1>2, <3>2, NoteFacts, Zenon DEF Times, SameWork
      <4> HIDE DEF p
      <4>2. u \in Apps
        BY <1>1, <4>1 DEF Apps
      <4>3. /\ u.queue = p /\ u.worker = s.worker /\ u.ride = s.ride /\ u.payload = s.payload
            /\ u.inactive = s.inactive /\ u.launch_marker = s.launch_marker
            /\ u.desired = s.desired
        BY <1>1 DEF Apps
      <4>4. noted = u
        BY <3>2, Zenon
      <4> HIDE DEF u, noted
      <4>5. /\ Frame(u, m, acts)
            /\ Untouched(u.queue) <=> Untouched(s.queue)
            /\ RecoveryWaits(u) <=> RecoveryWaits(s)
        BY <1>1, <4>1, <4>2, <4>3, FrameEvolves DEF Frame
      <4> QED
        BY <1>2, <4>1, <4>3, <4>4, <4>5, Zenon DEF Touched, SameWork
    <3> QED
      BY <3>1, <3>2
  <2> HIDE DEF noted
  <2>2. Ends(s.ride) => s.queue.terminal # None
    BY <1>2
  <2>3. CASE snapshot
    <3>1. t = Await(observed, "start", e.identity, snapshot, timing, start)
      BY <1>2, <2>3 DEF Execute, noted
    <3>2. Frame(observed, m, acts) /\ SameRest(noted, observed) /\ Evolves(s.ride, observed.ride)
      <4>1. CASE timing = None
        BY <1>1, <2>1, <4>1, Zenon DEF SameRest, Frame
      <4>2. CASE timing # None
        BY <2>1, <4>2, ObserveKnows, Zenon
      <4> QED
        BY <4>1, <4>2, Zenon
    <3> HIDE DEF observed, t
    <3>3. /\ observed.worker # None /\ ~Visible(observed.ride)
          /\ Ends(observed.ride) => observed.queue.terminal # None
      BY <1>2, <2>1, <2>2, <3>2, EvolvesKnows DEF SameRest, Frame
    <3>4. ~(Untouched(observed.queue) \/ RecoveryWaits(observed))
      BY <2>1, <3>2, Zenon DEF SameRest, Touched, RecoveryWaits
    <3>5. Knows(t, m, acts) /\ t.ride = observed.ride
      BY <3>1, <3>2, <3>3, <3>4, AwaitKnows, WaitsFacts
    <3> QED
      BY <3>2, <3>5, Zenon DEF t
  <2>4. CASE ~snapshot
    <3>1. t = Return(noted)
      BY <1>2, <2>4, Zenon DEF Execute, noted
    <3>2. Knows(Return(noted), m, acts) /\ Return(noted).ride = noted.ride
      BY <2>1, <2>2, ReturnKnows, Zenon
    <3> QED
      BY <1>1, <2>1, <3>1, <3>2
  <2> QED
    BY <2>3, <2>4, Zenon
<1>3. CASE e.kind = "EndActivity"
  <2>1. t = Await(s, "end", e.identity, snapshot, timing, start)
    BY <1>3, Zenon DEF Execute
  <2> HIDE DEF t
  <2>2. Knows(t, m, acts) /\ t.ride = s.ride
    BY <1>3, <2>1, AwaitKnows, WaitsFacts DEF Touched
  <2> QED
    BY <1>1, <2>2 DEF t
<1>4. CASE e.kind \notin {"StartActivity", "EndActivity"}
  <2>1. \/ t = Await(s, "update", e.identity, snapshot, timing, start)
        \/ t = Return(s)
    BY <1>4, Zenon DEF Execute
  <2> HIDE DEF t
  <2>2. ASSUME t = Await(s, "update", e.identity, snapshot, timing, start)
        PROVE  Knows(t, m, acts) /\ t.ride = s.ride
    BY <1>4, <2>2, AwaitKnows, WaitsFacts
  <2>3. ASSUME t = Return(s)
        PROVE  Knows(t, m, acts) /\ t.ride = s.ride
    BY <1>4, <2>3, ReturnKnows
  <2> QED
    BY <1>1, <2>1, <2>2, <2>3 DEF t
<1> QED
  BY <1>2, <1>3, <1>4, Zenon

-----------------------------------------------------------------------------
(* Requests. *)

\* What a step that is neither a relaunch nor the end of an activity does to the ride: a
\* new ride follows only one that is no longer live, and an ended ride stays ended.
RideSteps(r, t) ==
  \/ t.identity = r.identity /\ (r.phase = "Ended" => t.phase = "Ended")
  \/ ~IsLive(r) /\ t.identity # r.identity

\* A ride that evolves takes a step that the action properties allow.
LEMMA EvolvesSteps ==
  ASSUME NEW r, NEW t, Evolves(r, t)
  PROVE  RideSteps(r, t)
BY DEF Evolves, RideSteps, AcceptsUpdates

\* A later fence: what was accepted stays accepted.
Advances(q, p) ==
  /\ p \in WorkState
  /\ p.in_flight_request_id = q.in_flight_request_id /\ p.terminal = q.terminal
  /\ Untouched(p) => Untouched(q)
  /\ q.latest_terminal_request_id # 0 => p.latest_terminal_request_id # 0

\* Memory that has taken a request in: the work in hand is the same, and the waiting
\* closure is the same or gone.
Takes(s, t) ==
  /\ t \in Apps
  /\ t.worker = s.worker /\ t.inactive = s.inactive /\ t.launch_marker = s.launch_marker
  /\ Advances(s.queue, t.queue)
  /\ \/ t.payload = None
     \/ /\ t.payload = s.payload
        /\ t.queue.pending_presentation_request_id = s.queue.pending_presentation_request_id

\* A request that neither starts nor ends the ride keeps what memory knows.
LEMMA TakesKnows ==
  ASSUME NEW s, NEW t, NEW m, NEW acts, Knows(s, m, acts), Takes(s, t),
         Evolves(s.ride, t.ride), t.desired # None => Minted(t.desired.value, m)
  PROVE  Knows(t, m, acts)
<1>1. /\ RideKnows(t.ride, m) /\ (Visible(t.ride) <=> Visible(s.ride))
      /\ (Ends(t.ride) <=> Ends(s.ride))
  BY EvolvesKnows, Zenon DEF Knows, Frame
<1>2. /\ t.ride.identity = s.ride.identity
      /\ t.ride.pending_identity = s.ride.pending_identity
      /\ s.ride.phase \in {"Ending", "Ended", "Idle"} => t.ride.phase = s.ride.phase
  BY Zenon DEF Evolves, AcceptsUpdates
<1>3. RecoveryWaits(t) => RecoveryWaits(s)
  BY Zenon DEF RecoveryWaits, Takes
<1>4. Frame(t, m, acts)
  BY <1>1, <1>2, <1>3, Zenon DEF Knows, Frame, Takes, Advances
<1>5. s.worker # None => WorkerKnows(t.ride, s.worker)
  BY <1>1, <1>2, Zenon DEF Knows, Suspended, WorkerKnows
<1>6. Suspended(t)
  BY <1>1, <1>3, <1>5, Zenon DEF Knows, Suspended, Takes, Advances
<1> QED
  BY <1>4, <1>6, Zenon DEF Knows

\* The queue and the payload after an admission.
LEMMA EnqueueFacts ==
  ASSUME NEW q \in WorkState, NEW p \in WorkState, NEW id \in Nat,
         p.in_flight_request_id = q.in_flight_request_id, p.terminal = q.terminal,
         p.latest_presentation_request_id = q.latest_presentation_request_id,
         p.latest_terminal_request_id = q.latest_terminal_request_id
  PROVE  LET e == EnqueuePresentation(p, id)
         IN  /\ e \in WorkState /\ e.terminal = q.terminal
             /\ e.latest_presentation_request_id = q.latest_presentation_request_id
             /\ e.latest_terminal_request_id = q.latest_terminal_request_id
             /\ e.in_flight_request_id # None
             /\ q.in_flight_request_id # None => e.pending_presentation_request_id = id
<1> DEFINE e == EnqueuePresentation(p, id)
<1>1. e \in WorkState
  BY DEF EnqueuePresentation, WorkState
<1>2. /\ e.terminal = q.terminal
      /\ e.latest_presentation_request_id = q.latest_presentation_request_id
      /\ e.latest_terminal_request_id = q.latest_terminal_request_id
      /\ q.in_flight_request_id # None => e.pending_presentation_request_id = id
  BY DEF EnqueuePresentation, WorkState
<1>3. e.in_flight_request_id # None
  BY NoneIsNothing DEF EnqueuePresentation, WorkState
<1> QED
  BY <1>1, <1>2, <1>3, Zenon

\* A closure admitted to the worker, or left waiting in place of an older one.  u is s
\* without the closure that waits in it.
LEMMA AdmitKnows ==
  ASSUME NEW s \in Apps, NEW u, NEW m, NEW acts, Knows(u, m, acts),
         u = [s EXCEPT !.payload = None], s.payload # None => s.worker # None,
         NEW op \in Operations, OperationKnows(op), NEW p \in WorkState,
         p.in_flight_request_id = s.queue.in_flight_request_id, p.terminal = s.queue.terminal,
         p.latest_presentation_request_id = s.queue.latest_presentation_request_id,
         p.latest_terminal_request_id = s.queue.latest_terminal_request_id,
         Untouched(s.queue) => op.kind = "Project",
         op.kind = "Recover" =>
           s.queue.terminal = None /\ ~Visible(s.ride) /\ Harmless(s.worker)
  PROVE  LET t == Admit(s, op, EnqueuePresentation(p, op.request))
         IN  Knows(t, m, acts) /\ t.ride = s.ride
<1> DEFINE e == EnqueuePresentation(p, op.request)
           w == Worker(op.request, FALSE, op)
           x == [s EXCEPT !.queue = e, !.worker = w]
           y == [s EXCEPT !.queue = e, !.payload = op]
           t == Admit(s, op, e)
<1>1. s.queue \in WorkState /\ op.request \in Nat /\ op # None
  BY NoneIsNothing DEF Apps, Operations
<1>2. /\ e \in WorkState /\ e.terminal = s.queue.terminal
      /\ e.latest_presentation_request_id = s.queue.latest_presentation_request_id
      /\ e.latest_terminal_request_id = s.queue.latest_terminal_request_id
      /\ e.in_flight_request_id # None
      /\ s.queue.in_flight_request_id # None => e.pending_presentation_request_id = op.request
  BY <1>1, EnqueueFacts
<1>3. w \in Workers /\ w # None /\ w.stage = "dispatch" /\ w.op = op
  <2>1. ASSUME NEW b \in BOOLEAN
        PROVE  LET v == Worker(op.request, b, op)
               IN  v \in Workers /\ v # None /\ v.stage = "dispatch" /\ v.op = op
    BY <1>1, WorkerFacts
  <2> QED
    BY <2>1, Zenon
<1>4. /\ u.ride = s.ride /\ u.queue = s.queue /\ u.payload = None /\ u.worker = s.worker
      /\ u.inactive = s.inactive /\ u.launch_marker = s.launch_marker /\ u.desired = s.desired
  BY DEF Apps
<1> HIDE DEF e, w
<1>5. x \in Apps /\ y \in Apps
  BY <1>2, <1>3, Zenon DEF Apps
<1>6. /\ x.ride = s.ride /\ x.queue = e /\ x.payload = s.payload /\ x.worker = w
      /\ x.inactive = s.inactive /\ x.launch_marker = s.launch_marker /\ x.desired = s.desired
  BY DEF Apps
<1>7. /\ y.ride = s.ride /\ y.queue = e /\ y.payload = op /\ y.worker = s.worker
      /\ y.inactive = s.inactive /\ y.launch_marker = s.launch_marker /\ y.desired = s.desired
  BY DEF Apps
<1>8. Untouched(e) <=> Untouched(s.queue)
  BY <1>2 DEF Untouched
<1>9. \/ t = x /\ s.queue.in_flight_request_id = None
      \/ t = y /\ s.queue.in_flight_request_id # None
  BY DEF Admit, w
<1> HIDE DEF x, y, t
<1>10. CASE s.queue.in_flight_request_id = None
  <2>1. s.worker = None /\ s.payload = None /\ s.queue.terminal = None /\ ~Ends(s.ride)
    BY <1>4, <1>10, Zenon DEF Knows, Frame, Suspended
  <2>2. Frame(x, m, acts) /\ ~RecoveryWaits(x)
    BY <1>2, <1>3, <1>4, <1>5, <1>6, <1>8, <2>1, ZenonT(40) DEF Knows, Frame, RecoveryWaits
  <2>3. WorkerKnows(x.ride, w)
    BY <1>3, <1>6 DEF WorkerKnows
  <2>4. Suspended(x)
    BY <1>3, <1>6, <1>8, <2>1, <2>2, <2>3, Zenon DEF Suspended, Harmless
  <2> QED
    BY <1>6, <1>9, <1>10, <2>2, <2>4, Zenon DEF Knows, t, e
<1>11. CASE s.queue.in_flight_request_id # None
  <2>1. s.worker # None
    BY <1>4, <1>11 DEF Knows, Frame
  <2>2. RecoveryWaits(y) <=> op.kind = "Recover"
    BY <1>1, <1>7, Zenon DEF RecoveryWaits
  <2>3. Frame(y, m, acts)
    BY <1>1, <1>2, <1>4, <1>5, <1>7, <1>8, <1>11, <2>1, <2>2 DEF Knows, Frame
  <2>4. Suspended(y)
    BY <1>2, <1>4, <1>7, <1>8, <2>1, <2>2 DEF Knows, Suspended
  <2> QED
    BY <1>7, <1>9, <1>11, <2>3, <2>4 DEF Knows, t, e
<1> QED
  BY <1>10, <1>11

\* Memory without the closure that waits in it.
LEMMA DropKnows ==
  ASSUME NEW s, NEW m, NEW acts, Knows(s, m, acts)
  PROVE  LET u == [s EXCEPT !.payload = None]
         IN  Knows(u, m, acts) /\ s \in Apps /\ (s.payload # None => s.worker # None)
<1> DEFINE u == [s EXCEPT !.payload = None]
<1>1. s \in Apps /\ (s.payload # None => s.worker # None)
  BY DEF Knows, Frame
<1>2. u \in Apps
  BY <1>1 DEF Apps
<1>3. /\ u.ride = s.ride /\ u.queue = s.queue /\ u.payload = None /\ u.worker = s.worker
      /\ u.inactive = s.inactive /\ u.launch_marker = s.launch_marker /\ u.desired = s.desired
  BY <1>1, Zenon DEF Apps
<1> HIDE DEF u
<1>4. Takes(s, u)
  BY <1>1, <1>2, <1>3, Zenon DEF Takes, Advances, Apps
<1>5. Evolves(s.ride, u.ride) /\ (u.desired # None => Minted(u.desired.value, m))
  BY <1>1, <1>3, Zenon DEF Knows, Frame, Evolves, Apps
<1>6. Knows(u, m, acts)
  BY <1>4, <1>5, TakesKnows, Zenon
<1> QED
  BY <1>1, <1>6, Zenon DEF u

\* enqueuePresentation
LEMMA EnqueueOperationKnows ==
  ASSUME NEW s, NEW m, NEW acts, Knows(s, m, acts), NEW op \in Operations,
         OperationKnows(op), Untouched(s.queue) => op.kind = "Project",
         op.kind = "Recover" =>
           s.queue.terminal = None /\ ~Visible(s.ride) /\ Harmless(s.worker)
  PROVE  Knows(EnqueueOperation(s, op), m, acts) /\ EnqueueOperation(s, op).ride = s.ride
<1>1. CASE MayEnqueuePresentation(s.queue, op.request)
  <2> DEFINE u == [s EXCEPT !.payload = None]
  <2>1. Knows(u, m, acts) /\ s \in Apps /\ (s.payload # None => s.worker # None)
    BY DropKnows
  <2>2. s.queue \in WorkState
    BY <2>1 DEF Apps
  <2> HIDE DEF u
  <2>3. LET t == Admit(s, op, EnqueuePresentation(s.queue, op.request))
        IN  Knows(t, m, acts) /\ t.ride = s.ride
    BY <2>1, <2>2, AdmitKnows, ZenonT(40) DEF u
  <2> QED
    BY <1>1, <2>3 DEF EnqueueOperation
<1>2. CASE ~MayEnqueuePresentation(s.queue, op.request)
  BY <1>2 DEF EnqueueOperation
<1> QED
  BY <1>1, <1>2, Zenon

\* A projection of the current ride.
LEMMA ProjectOperation ==
  ASSUME NEW id \in Nat
  PROVE  LET op == Operation("Project", id)
         IN  op \in Operations /\ OperationKnows(op) /\ op.kind = "Project" /\ op.request = id
<1> DEFINE op == Operation("Project", id)
<1>1. op.kind = "Project" /\ op.request = id
  BY Zenon DEF Operation
<1>2. op \in Operations
  BY DEF Operation, Operations
<1>3. OperationKnows(op)
  BY <1>1 DEF OperationKnows
<1> QED
  BY <1>1, <1>2, <1>3, Zenon

\* enqueueProjection, for memory that knows, or whose waiting closure gives way to it.
LEMMA EnqueueProjectionKnows ==
  ASSUME NEW s \in Apps, NEW m, NEW acts, NEW u, Knows(u, m, acts),
         u = [s EXCEPT !.payload = None], s.payload # None => s.worker # None,
         NEW id \in Nat, Knows(s, m, acts) \/ MayEnqueueProjection(s.queue, id)
  PROVE  LET t == EnqueueProjectionOperation(s, id)
         IN  Knows(t, m, acts) /\ t.ride = s.ride
<1>1. CASE MayEnqueueProjection(s.queue, id)
  <2> DEFINE op == Operation("Project", id)
             p == [s.queue EXCEPT !.latest_request_id = id]
  <2>1. op \in Operations /\ OperationKnows(op) /\ op.kind = "Project" /\ op.request = id
    BY ProjectOperation
  <2>2. s.queue \in WorkState
    BY DEF Apps
  <2>3. p \in WorkState
    BY <2>2 DEF WorkState
  <2>4. /\ p.in_flight_request_id = s.queue.in_flight_request_id
        /\ p.terminal = s.queue.terminal
        /\ p.latest_presentation_request_id = s.queue.latest_presentation_request_id
        /\ p.latest_terminal_request_id = s.queue.latest_terminal_request_id
    BY <2>2 DEF WorkState
  <2>5. EnqueueProjectionOperation(s, id) = Admit(s, op, EnqueuePresentation(p, op.request))
    BY <1>1, <2>1, Zenon DEF EnqueueProjectionOperation, EnqueueProjection
  <2> HIDE DEF op, p
  <2>6. LET t == Admit(s, op, EnqueuePresentation(p, op.request))
        IN  Knows(t, m, acts) /\ t.ride = s.ride
    BY <2>1, <2>3, <2>4, AdmitKnows
  <2> QED
    BY <2>5, <2>6
<1>2. CASE ~MayEnqueueProjection(s.queue, id)
  BY <1>2 DEF EnqueueProjectionOperation
<1> QED
  BY <1>1, <1>2

\* The same where the snapshot may be the one last shown.
LEMMA ProjectionIfNeededKnows ==
  ASSUME NEW s, NEW m, NEW acts, Knows(s, m, acts), NEW id \in Nat, NEW differs
  PROVE  LET t == EnqueueProjectionIfNeeded(s, id, differs)
         IN  Knows(t, m, acts) /\ t.ride = s.ride
<1> DEFINE u == [s EXCEPT !.payload = None]
<1>1. Knows(u, m, acts) /\ s \in Apps /\ (s.payload # None => s.worker # None)
  BY DropKnows
<1> HIDE DEF u
<1>2. LET t == EnqueueProjectionOperation(s, id)
      IN  Knows(t, m, acts) /\ t.ride = s.ride
  BY <1>1, EnqueueProjectionKnows, Zenon DEF u
<1> QED
  BY <1>2 DEF EnqueueProjectionIfNeeded

\* End, reduced: the ride is no longer visible, and the worker's suspension still fits it.
LEMMA ReduceEndKnows ==
  ASSUME NEW s, NEW m, NEW acts, Frame(s, m, acts), ~Untouched(s.queue), NEW reason \in Asked
  PROVE  LET d == End(s.ride, reason)
             t == Reduce(s, d)
         IN  /\ Frame(t, m, acts) /\ SameRest(s, t) /\ t.ride = d.state
             /\ Suspended(s) /\ d.effect.kind # "EndActivity" => Suspended(t)
             /\ Suspended(s) /\ s.worker # None => WorkerKnows(t.ride, s.worker)
<1> DEFINE d == End(s.ride, reason)
           t == Reduce(s, d)
<1>1. /\ RideKnows(s.ride, m) /\ s \in Apps
      /\ s.desired # None => Minted(s.desired.value, m)
  BY Zenon DEF Frame
<1>2. /\ RideKnows(d.state, m) /\ d.state.identity = s.ride.identity /\ ~Visible(d.state)
      /\ d.state.phase \in {"Ending", "Ended"}
      /\ d.state.pending_identity \in {s.ride.pending_identity, None}
      /\ \/ d.effect = Effect("EndActivity", s.ride.identity)
         \/ Ends(d.state) => Ends(s.ride)
  BY <1>1, EndFacts, Zenon
<1> HIDE DEF d
<1>3. d.effect.kind # "EndActivity" => (Ends(d.state) => Ends(s.ride))
  BY <1>2 DEF Effect
<1>4. /\ SameRest(s, t) /\ t.ride = d.state
      /\ t.desired # None => Minted(t.desired.value, m)
  BY <1>1, <1>2, ReduceFacts, Zenon
<1> HIDE DEF t
<1>5. RecoveryWaits(t) <=> RecoveryWaits(s)
  BY <1>4, Zenon DEF RecoveryWaits, SameRest
<1>6. Frame(t, m, acts)
  BY <1>2, <1>4, <1>5, Zenon DEF Frame, SameRest
<1>7. Suspended(s) /\ s.worker # None => WorkerKnows(t.ride, s.worker)
  BY <1>2, <1>4, Zenon DEF Suspended, WorkerKnows
<1>8. Suspended(s) /\ d.effect.kind # "EndActivity" => Suspended(t)
  BY <1>3, <1>4, <1>5, <1>7, Zenon DEF Suspended, SameRest
<1> QED
  BY <1>4, <1>6, <1>7, <1>8, Zenon DEF d, t

\* The queue with other work.
LEMMA TerminalQueue ==
  ASSUME NEW p \in WorkState, NEW j \in Nat \cup {None}, NEW k \in Terminal \cup {None}
  PROVE  [p EXCEPT !.pending_presentation_request_id = None,
                   !.in_flight_request_id = j, !.terminal = k] \in WorkState
BY Zenon DEF WorkState

\* enqueueTerminal: the worker ends the activity at once, or the obligation waits for it.
LEMMA EnqueueTerminalKnows ==
  ASSUME NEW s, NEW m, NEW acts, Frame(s, m, acts), NEW id \in Nat, id # 0,
         s.queue.latest_terminal_request_id = id, NEW identity \in RideSessionIdentity,
         identity = s.ride.identity, s.ride.phase = "Ending", s.ride.pending_identity = None,
         ~Visible(s.ride), s.worker # None => WorkerKnows(s.ride, s.worker)
  PROVE  LET t == EnqueueTerminalWork(s, id, identity)
         IN  Knows(t, m, acts) /\ t.ride = s.ride
<1> DEFINE q == s.queue
           e == EnqueueTerminal(q, id, identity)
           t == EnqueueTerminalWork(s, id, identity)
<1>1. s \in Apps /\ q \in WorkState /\ s.shown \in BOOLEAN /\ MayEnqueueTerminal(q, id)
  BY Zenon DEF Frame, Apps, MayEnqueueTerminal
<1> DEFINE work == [request_id |-> id, identity |-> identity]
           i == IF q.in_flight_request_id = None THEN id ELSE q.in_flight_request_id
           o == IF q.in_flight_request_id # None /\ q.terminal = None THEN work ELSE q.terminal
           f == [q EXCEPT !.pending_presentation_request_id = None,
                          !.in_flight_request_id = i, !.terminal = o]
<1>2. work \in Terminal /\ work.identity = identity
  BY DEF Terminal
<1>3. e = f
  BY Zenon DEF EnqueueTerminal
<1>4. i \in Nat \cup {None} /\ o \in Terminal \cup {None}
  BY <1>1, <1>2, Zenon DEF WorkState
<1> HIDE DEF work
<1>5. /\ q.in_flight_request_id = None => i = id /\ o = q.terminal
      /\ q.in_flight_request_id # None =>
           /\ i = q.in_flight_request_id
           /\ o = IF q.terminal = None THEN work ELSE q.terminal
  OBVIOUS
<1> HIDE DEF e, i, o
<1>6. e \in WorkState
  BY <1>1, <1>3, <1>4, TerminalQueue, Zenon
<1>7. /\ e.latest_terminal_request_id = id /\ e.pending_presentation_request_id = None
      /\ e.in_flight_request_id = i /\ e.terminal = o
  BY <1>1, <1>3, Zenon DEF WorkState
<1>8. ~Untouched(e)
  BY <1>7 DEF Untouched
<1>9. CASE q.in_flight_request_id = None
  <2>1. s.worker = None /\ s.payload = None /\ q.terminal = None
    BY <1>9, Zenon DEF Frame
  <2>2. ASSUME NEW b \in BOOLEAN
        PROVE  LET v == [s EXCEPT !.queue = e, !.worker = Worker(id, b, None)]
                   x == Await(v, "end", identity, s.shown, None, None)
               IN  Knows(x, m, acts) /\ x.ride = s.ride
    <3> DEFINE w == Worker(id, b, None)
               v == [s EXCEPT !.queue = e, !.worker = w]
    <3>1. w \in Workers /\ w # None
      BY WorkerFacts
    <3> HIDE DEF w
    <3>2. v \in Apps
      BY <1>1, <1>6, <3>1, Zenon DEF Apps
    <3>3. /\ v.ride = s.ride /\ v.queue = e /\ v.payload = s.payload /\ v.worker = w
          /\ v.inactive = s.inactive /\ v.launch_marker = s.launch_marker
          /\ v.desired = s.desired
      BY <1>1 DEF Apps
    <3> HIDE DEF v
    <3>4. ~RecoveryWaits(v)
      BY <2>1, <3>3, Zenon DEF RecoveryWaits
    <3>5. id # None /\ identity \in Identities
      BY NoneIsNothing, Zenon DEF Identities
    <3>6. Frame(v, m, acts)
      BY <1>5, <1>7, <1>8, <1>9, <2>1, <3>1, <3>2, <3>3, <3>4, <3>5, Zenon DEF Frame
    <3>7. LET x == Await(v, "end", identity, s.shown, None, None)
          IN  Knows(x, m, acts) /\ x.ride = v.ride
      BY <1>1, <1>8, <3>1, <3>3, <3>4, <3>5, <3>6, AwaitKnows, WaitsFacts
    <3> QED
      BY <3>3, <3>7, Zenon DEF v, w
  <2>3. t = Await([[s EXCEPT !.queue = e] EXCEPT !.worker = Worker(id, TRUE, None)],
                  "end", identity, s.shown, None, None)
    BY <1>1, <1>9, Zenon DEF EnqueueTerminalWork, e
  <2>4. [[s EXCEPT !.queue = e] EXCEPT !.worker = Worker(id, TRUE, None)]
          = [s EXCEPT !.queue = e, !.worker = Worker(id, TRUE, None)]
    BY Zenon
  <2> QED
    BY <2>2, <2>3, <2>4, Zenon
<1>10. CASE q.in_flight_request_id # None
  <2> DEFINE y == [s EXCEPT !.queue = e, !.payload = None]
  <2>1. /\ s.worker # None
        /\ s.payload # None => s.payload.request = q.pending_presentation_request_id
    BY <1>10 DEF Frame
  <2>2. t = y
    BY <1>1, <1>10, <2>1, Zenon DEF EnqueueTerminalWork, e, Apps
  <2>3. y \in Apps
    BY <1>1, <1>6, ZenonT(40) DEF Apps
  <2>4. /\ y.ride = s.ride /\ y.queue = e /\ y.payload = None /\ y.worker = s.worker
        /\ y.inactive = s.inactive /\ y.launch_marker = s.launch_marker
        /\ y.desired = s.desired
    BY <1>1 DEF Apps
  <2> HIDE DEF y
  <2>5. e.terminal # None /\ e.terminal.identity = s.ride.identity
    BY <1>2, <1>5, <1>7, <1>10, NoneIsNothing, Zenon DEF Frame
  <2>6. ~RecoveryWaits(y)
    BY <2>4, Zenon DEF RecoveryWaits
  <2>7. Frame(y, m, acts)
    BY <1>5, <1>7, <1>8, <1>10, <2>1, <2>3, <2>4, <2>5, <2>6, Zenon DEF Frame
  <2>8. Suspended(y)
    BY <1>8, <2>4, <2>5, <2>6, Zenon DEF Suspended
  <2> QED
    BY <2>2, <2>4, <2>7, <2>8, Zenon DEF Knows
<1> QED
  BY <1>9, <1>10, Zenon

\* A request to end the ride: its cleanup is scheduled in the same step.
LEMMA EndRequestKnows ==
  ASSUME NEW s, NEW m, NEW acts, Knows(s, m, acts), NEW id \in Nat, id # 0,
         s.queue.latest_terminal_request_id = id, NEW reason \in Asked
  PROVE  LET d == End(s.ride, reason)
             u == Reduce(s, d)
             t == EnqueueTerminalWork(u, id, d.effect.identity)
         IN  /\ RideSteps(s.ride, d.state)
             /\ u.ride = d.state /\ SameRest(s, u)
             /\ d.effect.kind = "EndActivity" => Knows(t, m, acts) /\ t.ride = d.state
             /\ d.effect.kind # "EndActivity" => Knows(u, m, acts)
<1> DEFINE d == End(s.ride, reason)
           u == Reduce(s, d)
           t == EnqueueTerminalWork(u, id, d.effect.identity)
<1>1. Frame(s, m, acts) /\ Suspended(s) /\ RideKnows(s.ride, m) /\ ~Untouched(s.queue)
  BY Zenon DEF Knows, Frame, Untouched
<1>2. /\ RideKnows(d.state, m) /\ d.state.identity = s.ride.identity /\ ~Visible(d.state)
      /\ s.ride.phase = "Ended" => d.state.phase = "Ended"
      /\ \/ /\ d.effect = Effect("EndActivity", s.ride.identity) /\ IsLive(s.ride)
            /\ d.state.phase = "Ending" /\ d.state.pending_identity = None
         \/ d.effect = NoEffect
  BY <1>1, EndFacts, Zenon
<1>3. /\ Frame(u, m, acts) /\ SameRest(s, u) /\ u.ride = d.state
      /\ d.effect.kind # "EndActivity" => Suspended(u)
      /\ s.worker # None => WorkerKnows(u.ride, s.worker)
  BY <1>1, ReduceEndKnows, Zenon
<1> HIDE DEF d, u
<1>4. RideSteps(s.ride, d.state)
  BY <1>2, Zenon DEF RideSteps
<1>5. CASE d.effect.kind = "EndActivity"
  <2>1. d.effect = Effect("EndActivity", s.ride.identity)
    BY <1>2, <1>5, EffectFields, Zenon
  <2>2. d.effect.identity = s.ride.identity
    BY <2>1, EffectFields
  <2>3. d.effect # NoEffect
    BY <1>5, EffectFields, Zenon
  <2>4. s.ride.identity \in RideSessionIdentity
    BY <1>1, <1>2, <2>3, Zenon DEF RideKnows, RideSessionLifecycle
  <2>5. /\ u.ride.phase = "Ending" /\ u.ride.pending_identity = None /\ ~Visible(u.ride)
        /\ u.ride.identity = s.ride.identity
        /\ u.queue.latest_terminal_request_id = id
        /\ u.worker # None => WorkerKnows(u.ride, u.worker)
    BY <1>2, <1>3, <2>3, Zenon DEF SameRest
  <2>6. Knows(t, m, acts) /\ t.ride = u.ride
    BY <1>3, <2>2, <2>4, <2>5, EnqueueTerminalKnows, Zenon
  <2> QED
    BY <1>3, <1>4, <1>5, <2>6, Zenon DEF d, u
<1>6. CASE d.effect.kind # "EndActivity"
  BY <1>3, <1>4, <1>6 DEF Knows, d, u
<1> QED
  BY <1>5, <1>6, Zenon

-----------------------------------------------------------------------------
(* One step of the system at a time. *)

\* A step that changes only the memory of the process has to keep Knows.
LEMMA AppStep ==
  ASSUME AInv, OnlyApp, Knows(app', minted, activities)
  PROVE  AInv'
BY DEF AInv, OnlyApp

\* A request has a number of its own.
LEMMA RequestFacts ==
  ASSUME NEW id \in Requests
  PROVE  /\ id \in Nat /\ id # 0
         /\ \A at \in ReceiptTimes(id) : at \in Nat
BY ActivityAssumption DEF Requests, ReceiptTimes

\* The queue once an end is accepted.
LEMMA AcceptTerminalFacts ==
  ASSUME NEW q \in WorkState, NEW id \in Nat, id # 0
  PROVE  LET t == AcceptTerminal(q, id)
         IN  /\ Advances(q, t) /\ t.latest_terminal_request_id = id
             /\ t.pending_presentation_request_id = q.pending_presentation_request_id
<1> DEFINE n == Max2(q.latest_request_id, id)
           t == AcceptTerminal(q, id)
<1>1. n \in Nat
  BY DEF Max2, WorkState
<1>2. t = [q EXCEPT !.latest_terminal_request_id = id, !.pending_start_platform = None,
                    !.latest_request_id = n]
  BY DEF AcceptTerminal
<1> HIDE DEF n
<1>3. t \in WorkState
  BY <1>1, <1>2, ZenonT(40) DEF WorkState
<1>4. /\ t.in_flight_request_id = q.in_flight_request_id /\ t.terminal = q.terminal
      /\ t.latest_presentation_request_id = q.latest_presentation_request_id
      /\ t.latest_terminal_request_id = id
      /\ t.pending_presentation_request_id = q.pending_presentation_request_id
  BY <1>2 DEF WorkState
<1> HIDE DEF t
<1>5. Advances(q, t)
  BY <1>3, <1>4 DEF Advances, Untouched
<1> QED
  BY <1>4, <1>5, Zenon DEF t

\* The queue once the recovery of a ride is accepted.
LEMMA AcceptRequestFacts ==
  ASSUME NEW q \in WorkState, NEW id \in Nat, id # 0
  PROVE  LET a == AcceptRequest(q, id)
         IN  /\ Advances(q, a) /\ a.latest_presentation_request_id = id
             /\ a.pending_presentation_request_id = q.pending_presentation_request_id
             /\ a.latest_terminal_request_id = q.latest_terminal_request_id
<1> DEFINE a == AcceptRequest(q, id)
<1>1. a \in WorkState
  BY Zenon DEF AcceptRequest, WorkState
<1>2. /\ a.in_flight_request_id = q.in_flight_request_id /\ a.terminal = q.terminal
      /\ a.latest_presentation_request_id = id
      /\ a.latest_terminal_request_id = q.latest_terminal_request_id
      /\ a.pending_presentation_request_id = q.pending_presentation_request_id
  BY DEF AcceptRequest, WorkState
<1> HIDE DEF a
<1>3. Advances(q, a)
  BY <1>1, <1>2 DEF Advances, Untouched
<1> QED
  BY <1>2, <1>3 DEF a

\* The queue with other fences of a session.
LEMMA SessionQueue ==
  ASSUME NEW p \in WorkState, NEW n \in Nat, NEW f \in Platforms, NEW k \in Nat
  PROVE  /\ [p EXCEPT !.latest_session_request_id = n, !.pending_start_platform = f,
                      !.disconnected_at = None, !.latest_telemetry_at = k] \in WorkState
         /\ [p EXCEPT !.latest_telemetry_at = k] \in WorkState
<1>1. [p EXCEPT !.latest_session_request_id = n, !.pending_start_platform = f,
                !.disconnected_at = None, !.latest_telemetry_at = k] \in WorkState
  BY Zenon DEF WorkState
<1>2. [p EXCEPT !.latest_telemetry_at = k] \in WorkState
  BY DEF WorkState
<1> QED
  BY <1>1, <1>2

\* The queue once a presentation is accepted.
LEMMA AcceptFacts ==
  ASSUME NEW q \in WorkState, NEW id \in Nat, id # 0, NEW platform \in Platforms, NEW r,
         NEW at \in Nat
  PROVE  LET p == AcceptPresentation(q, id, platform, r, at)
         IN  /\ Advances(q, p) /\ p.latest_presentation_request_id = id
             /\ p.pending_presentation_request_id = q.pending_presentation_request_id
<1> DEFINE a == AcceptRequest(q, id)
           j == IF a.latest_telemetry_at = None THEN at ELSE Max2(a.latest_telemetry_at, at)
           b == [a EXCEPT !.latest_session_request_id = id, !.pending_start_platform = platform,
                          !.disconnected_at = None, !.latest_telemetry_at = at]
           c == [a EXCEPT !.latest_telemetry_at = j]
<1>1. /\ Advances(q, a) /\ a.latest_presentation_request_id = id /\ a \in WorkState
      /\ a.pending_presentation_request_id = q.pending_presentation_request_id
      /\ a.latest_terminal_request_id = q.latest_terminal_request_id
  BY AcceptRequestFacts, Zenon DEF Advances
<1> HIDE DEF a
<1>2. j \in Nat
  BY <1>1 DEF Max2, WorkState
<1> HIDE DEF j
<1>3. b \in WorkState /\ c \in WorkState
  BY <1>1, <1>2, SessionQueue, Zenon
<1>4. /\ b.in_flight_request_id = a.in_flight_request_id /\ b.terminal = a.terminal
      /\ b.latest_presentation_request_id = a.latest_presentation_request_id
      /\ b.latest_terminal_request_id = a.latest_terminal_request_id
      /\ b.pending_presentation_request_id = a.pending_presentation_request_id
  BY <1>1 DEF WorkState
<1>5. /\ c.in_flight_request_id = a.in_flight_request_id /\ c.terminal = a.terminal
      /\ c.latest_presentation_request_id = a.latest_presentation_request_id
      /\ c.latest_terminal_request_id = a.latest_terminal_request_id
      /\ c.pending_presentation_request_id = a.pending_presentation_request_id
  BY <1>1 DEF WorkState
<1>6. AcceptPresentation(q, id, platform, r, at) \in {b, c}
  BY Zenon DEF AcceptPresentation, a, j
<1> HIDE DEF b, c
<1>7. Advances(q, b) /\ Advances(q, c)
  BY <1>1, <1>3, <1>4, <1>5 DEF Advances, Untouched
<1> QED
  BY <1>1, <1>4, <1>5, <1>6, <1>7, Zenon

\* The same for the requests of the scene and of the transport.
LEMMA AcceptSceneFacts ==
  ASSUME NEW q \in WorkState, NEW id \in Nat
  PROVE  /\ Advances(q, AcceptBackground(q, id)) /\ Advances(q, AcceptForeground(q, id))
         /\ AcceptBackground(q, id).pending_presentation_request_id
              = q.pending_presentation_request_id
         /\ AcceptForeground(q, id).pending_presentation_request_id
              = q.pending_presentation_request_id
         /\ Advances(q, AcceptDisconnected(q, id, id))
         /\ MayEnqueueProjection(AcceptDisconnected(q, id, id), id)
<1> DEFINE n == Max2(q.latest_scene_request_id, id)
           b == [q EXCEPT !.latest_background_request_id = id, !.latest_scene_request_id = n]
           f == AcceptForeground(q, id)
           d == AcceptDisconnected(q, id, id)
<1>1. n \in Nat
  BY DEF Max2, WorkState
<1>2. AcceptBackground(q, id) = b
  BY DEF AcceptBackground
<1> HIDE DEF n
<1>3. b \in WorkState
  BY <1>1, Zenon DEF WorkState
<1>4. f \in WorkState
  BY DEF AcceptForeground, WorkState
<1>5. d \in WorkState
  BY Zenon DEF AcceptDisconnected, WorkState
<1>6. /\ b.in_flight_request_id = q.in_flight_request_id /\ b.terminal = q.terminal
      /\ b.latest_presentation_request_id = q.latest_presentation_request_id
      /\ b.latest_terminal_request_id = q.latest_terminal_request_id
      /\ b.pending_presentation_request_id = q.pending_presentation_request_id
  BY DEF WorkState
<1>7. /\ f.in_flight_request_id = q.in_flight_request_id /\ f.terminal = q.terminal
      /\ f.latest_presentation_request_id = q.latest_presentation_request_id
      /\ f.latest_terminal_request_id = q.latest_terminal_request_id
      /\ f.pending_presentation_request_id = q.pending_presentation_request_id
  BY DEF AcceptForeground, WorkState
<1>8. /\ d.in_flight_request_id = q.in_flight_request_id /\ d.terminal = q.terminal
      /\ d.latest_presentation_request_id = q.latest_presentation_request_id
      /\ d.latest_terminal_request_id = q.latest_terminal_request_id
      /\ d.latest_transport_request_id = id
  BY Zenon DEF AcceptDisconnected, WorkState
<1> HIDE DEF b, f, d
<1>9. Advances(q, b) /\ Advances(q, f) /\ Advances(q, d)
  BY <1>3, <1>4, <1>5, <1>6, <1>7, <1>8, Zenon DEF Advances, Untouched
<1>10. MayEnqueueProjection(d, id)
  BY <1>8, Zenon DEF MayEnqueueProjection
<1> QED
  BY <1>2, <1>6, <1>7, <1>9, <1>10, Zenon DEF f, d

\* Memory with a request taken in.
LEMMA TakesFacts ==
  ASSUME NEW s, NEW m, NEW acts, Knows(s, m, acts), NEW t \in Apps, t.ride = s.ride,
         Advances(s.queue, t.queue), t.payload = s.payload,
         t.queue.pending_presentation_request_id = s.queue.pending_presentation_request_id,
         t.worker = s.worker, t.inactive = s.inactive, t.launch_marker = s.launch_marker,
         t.desired = s.desired
  PROVE  Knows(t, m, acts)
<1>1. Takes(s, t) /\ Evolves(s.ride, t.ride)
  BY Zenon DEF Takes, Apps, Evolves
<1>2. t.desired # None => Minted(t.desired.value, m)
  BY Zenon DEF Knows, Frame
<1> QED
  BY <1>1, <1>2, TakesKnows, Zenon

\* What the invariant says of the current memory, for the lemmas below.
LEMMA NoStep ==
  ASSUME AInv
  PROVE  /\ Knows(app, minted, activities) /\ app.queue \in WorkState /\ app \in Apps
         /\ app.ride \in RideSessionLifecycle /\ RideKnows(app.ride, minted)
         /\ RideSteps(app.ride, app.ride) /\ minted \in Nat
BY Zenon DEF AInv, Knows, Frame, Apps, RideSteps

\* LiveActivityRideLifecycleCoordinator.reconcile: telemetry of a wheel asks for a presentation.
LEMMA ReconcileKept ==
  ASSUME AInv, NEW id \in Requests, NEW platform \in Platforms, NEW at \in ReceiptTimes(id),
         Reconcile(id, platform, at)
  PROVE  AInv' /\ RideSteps(app.ride, app'.ride)
<1> DEFINE p == AcceptPresentation(app.queue, id, platform, app.ride, at)
           s == [app EXCEPT !.queue = p, !.timing = at]
           op == [Operation("Reconcile", id) EXCEPT !.platform = platform, !.timing = at]
<1>1. id \in Nat /\ id # 0 /\ at \in Nat
  BY RequestFacts, Zenon
<1>2. /\ Advances(app.queue, p) /\ p.latest_presentation_request_id = id
      /\ p.pending_presentation_request_id = app.queue.pending_presentation_request_id
  BY <1>1, NoStep, AcceptFacts
<1>3. OnlyApp /\ app' \in {app, EnqueueOperation(s, op)}
  BY DEF Reconcile
<1> HIDE DEF p
<1>4. s \in Apps
  BY <1>1, <1>2, NoStep, Zenon DEF Apps, Advances
<1>5. /\ s.ride = app.ride /\ s.queue = p /\ s.payload = app.payload
      /\ s.worker = app.worker /\ s.inactive = app.inactive
      /\ s.launch_marker = app.launch_marker /\ s.desired = app.desired
  BY NoStep, Zenon DEF Apps
<1> HIDE DEF s
<1>6. Knows(s, minted, activities) /\ s.ride = app.ride /\ s.queue = p
  BY <1>2, <1>4, <1>5, NoStep, TakesFacts, Zenon
<1>7. op \in Operations
  BY <1>1, Zenon DEF Operation, Operations
<1>8. op.kind = "Reconcile" /\ op.platform = platform
  BY DEF Operation
<1>9. OperationKnows(op)
  BY <1>8, NoneIsNothing, Zenon DEF OperationKnows
<1> HIDE DEF op
<1>10. ~Untouched(s.queue)
  BY <1>1, <1>2, <1>6, Zenon DEF Untouched
<1>11. LET t == EnqueueOperation(s, op)
       IN  Knows(t, minted, activities) /\ t.ride = s.ride
  BY <1>6, <1>7, <1>8, <1>9, <1>10, EnqueueOperationKnows, Zenon
<1> QED
  BY <1>3, <1>6, <1>11, NoStep, AppStep, Zenon

\* An end is accepted.
LEMMA TerminalAccepted ==
  ASSUME AInv, NEW id \in Requests
  PROVE  LET s == [app EXCEPT !.queue = AcceptTerminal(app.queue, id)]
         IN  /\ Knows(s, minted, activities) /\ s.ride = app.ride
             /\ s.queue.latest_terminal_request_id = id
<1> DEFINE p == AcceptTerminal(app.queue, id)
           s == [app EXCEPT !.queue = p]
<1>1. id \in Nat /\ id # 0
  BY RequestFacts, Zenon
<1>2. /\ Advances(app.queue, p) /\ p.latest_terminal_request_id = id
      /\ p.pending_presentation_request_id = app.queue.pending_presentation_request_id
  BY <1>1, NoStep, AcceptTerminalFacts, Zenon
<1> HIDE DEF p
<1>3. s \in Apps
  BY <1>2, NoStep DEF Apps, Advances
<1>4. /\ s.ride = app.ride /\ s.queue = p /\ s.payload = app.payload
      /\ s.worker = app.worker /\ s.inactive = app.inactive
      /\ s.launch_marker = app.launch_marker /\ s.desired = app.desired
  BY NoStep DEF Apps
<1> HIDE DEF s
<1>5. Knows(s, minted, activities)
  BY <1>2, <1>3, <1>4, NoStep, TakesFacts, Zenon
<1> QED
  BY <1>2, <1>4, <1>5, Zenon DEF p, s

\* end: the rider ends the ride, or a reconciliation whose ride should not be active.
LEMMA EndRideKept ==
  ASSUME AInv, NEW id \in Requests, NEW reason \in {"UserDisconnect", "UserStop"},
         EndRide(id, reason)
  PROVE  AInv' /\ RideSteps(app.ride, app'.ride)
<1> DEFINE s == [app EXCEPT !.queue = AcceptTerminal(app.queue, id)]
           d == End(s.ride, reason)
           u == Reduce(s, d)
           t == EnqueueTerminalWork(u, id, d.effect.identity)
           op == [Operation("EndIfNeeded", id) EXCEPT !.reason = reason]
           v == EnqueueOperation(u, op)
<1>1. id \in Nat /\ id # 0 /\ reason \in Asked
  BY RequestFacts DEF Asked
<1>2. /\ Knows(s, minted, activities) /\ s.ride = app.ride
      /\ s.queue.latest_terminal_request_id = id
  BY TerminalAccepted
<1>3. OnlyApp /\ app' \in {app, RequestEnd(s, id, reason)}
  BY DEF EndRide
<1> HIDE DEF s
<1>4. /\ d.effect.kind = "EndActivity" => RequestEnd(s, id, reason) = t
      /\ d.effect.kind # "EndActivity" => RequestEnd(s, id, reason) \in {u, v}
  BY Zenon DEF RequestEnd
<1>5. /\ RideSteps(s.ride, d.state) /\ u.ride = d.state /\ SameRest(s, u)
      /\ d.effect.kind = "EndActivity" => Knows(t, minted, activities) /\ t.ride = d.state
      /\ d.effect.kind # "EndActivity" => Knows(u, minted, activities)
  BY <1>1, <1>2, EndRequestKnows, ZenonT(40)
<1>6. op \in Operations
  BY <1>1, Zenon DEF Operation, Operations
<1>7. op.kind = "EndIfNeeded" /\ op.reason = reason
  BY DEF Operation
<1>8. OperationKnows(op)
  BY <1>7, NoneIsNothing, Zenon DEF OperationKnows, EndReasons
<1> HIDE DEF d, u, t, op
<1>9. ~Untouched(u.queue)
  BY <1>1, <1>2, <1>5, Zenon DEF Untouched, SameRest
<1>10. d.effect.kind # "EndActivity" => Knows(v, minted, activities) /\ v.ride = u.ride
  BY <1>5, <1>6, <1>7, <1>8, <1>9, EnqueueOperationKnows, Zenon
<1> HIDE DEF v
<1> QED
  BY <1>2, <1>3, <1>4, <1>5, <1>10, NoStep, AppStep, Zenon

\* reconnectExhausted, unrecoverableSessionFailure
LEMMA TerminateKept ==
  ASSUME AInv, NEW id \in Requests,
         NEW reason \in {"ReconnectExhausted", "UnrecoverableSessionFailure"},
         Terminate(id, reason)
  PROVE  AInv' /\ RideSteps(app.ride, app'.ride)
<1> DEFINE s == [app EXCEPT !.queue = AcceptTerminal(app.queue, id)]
           d == End(s.ride, reason)
           u == Reduce(s, d)
           t == EnqueueTerminalWork(u, id, d.effect.identity)
<1>1. id \in Nat /\ id # 0 /\ reason \in Asked
  BY RequestFacts DEF Asked
<1>2. /\ Knows(s, minted, activities) /\ s.ride = app.ride
      /\ s.queue.latest_terminal_request_id = id
  BY TerminalAccepted
<1>3. /\ OnlyApp
      /\ \/ app' = app
         \/ d.effect.kind = "EndActivity" /\ app' = t
         \/ d.effect.kind # "EndActivity" /\ app' = u
  BY <1>2, Zenon DEF Terminate
<1> HIDE DEF s
<1>4. /\ RideSteps(s.ride, d.state) /\ u.ride = d.state
      /\ d.effect.kind = "EndActivity" => Knows(t, minted, activities) /\ t.ride = d.state
      /\ d.effect.kind # "EndActivity" => Knows(u, minted, activities)
  BY <1>1, <1>2, EndRequestKnows, ZenonT(40)
<1> HIDE DEF d, u, t
<1> QED
  BY <1>2, <1>3, <1>4, NoStep, AppStep, Zenon

\* A request taken in, and the ride evolved by it.  The closure that waits may have to give
\* way: u is without it.
LEMMA RequestKnows ==
  ASSUME AInv, NEW p, Advances(app.queue, p), NEW d, Evolves(app.ride, d.state)
  PROVE  LET s == [app EXCEPT !.queue = p]
             t == Reduce(s, d)
             u == [t EXCEPT !.payload = None]
         IN  /\ t \in Apps /\ t.ride = d.state /\ t.queue = p
             /\ t.payload = app.payload /\ t.worker = app.worker
             /\ Knows(u, minted, activities)
             /\ p.pending_presentation_request_id = app.queue.pending_presentation_request_id
                => Knows(s, minted, activities) /\ Knows(t, minted, activities)
<1> DEFINE s == [app EXCEPT !.queue = p]
           t == Reduce(s, d)
           u == [t EXCEPT !.payload = None]
<1>1. /\ app \in Apps /\ RideKnows(app.ride, minted)
      /\ app.desired # None => Minted(app.desired.value, minted)
  BY Zenon DEF AInv, Knows, Frame
<1>2. s \in Apps
  BY <1>1 DEF Apps, Advances
<1>3. /\ s.ride = app.ride /\ s.queue = p /\ s.payload = app.payload /\ s.worker = app.worker
      /\ s.inactive = app.inactive /\ s.launch_marker = app.launch_marker
      /\ s.desired = app.desired
  BY <1>1, Zenon DEF Apps
<1> HIDE DEF s
<1>4. RideKnows(d.state, minted)
  BY <1>1, EvolvesKnows
<1>5. /\ SameRest(s, t) /\ t.ride = d.state
      /\ t.desired # None => Minted(t.desired.value, minted)
  BY <1>1, <1>2, <1>3, <1>4, ReduceFacts, Zenon
<1> HIDE DEF t
<1>6. t \in Apps
  BY <1>5 DEF SameRest
<1>7. u \in Apps
  BY <1>6 DEF Apps
<1>8. /\ u.ride = t.ride /\ u.queue = t.queue /\ u.payload = None /\ u.worker = t.worker
      /\ u.inactive = t.inactive /\ u.launch_marker = t.launch_marker
      /\ u.desired = t.desired
  BY <1>6 DEF Apps
<1> HIDE DEF u
<1>9. Takes(app, u)
  BY <1>3, <1>5, <1>7, <1>8, Zenon DEF Takes, SameRest
<1>10. Knows(u, minted, activities)
  BY <1>5, <1>8, <1>9, TakesKnows, NoStep, Zenon
<1>11. ASSUME p.pending_presentation_request_id = app.queue.pending_presentation_request_id
       PROVE  Knows(s, minted, activities) /\ Knows(t, minted, activities)
  <2>1. Knows(s, minted, activities)
    BY <1>2, <1>3, <1>11, TakesFacts, NoStep, Zenon
  <2>2. Takes(app, t)
    BY <1>3, <1>5, <1>11, Zenon DEF Takes, SameRest
  <2>3. Knows(t, minted, activities)
    BY <1>5, <2>2, TakesKnows, NoStep, Zenon
  <2> QED
    BY <2>1, <2>3
<1> QED
  BY <1>3, <1>5, <1>6, <1>10, <1>11, Zenon DEF SameRest, s, t, u

\* transportDisconnected: the link of the current ride is lost.
LEMMA TransportDisconnectedKept ==
  ASSUME AInv, NEW id \in Requests, TransportDisconnected(id)
  PROVE  AInv' /\ RideSteps(app.ride, app'.ride)
<1> DEFINE p == AcceptDisconnected(app.queue, id, id)
           d == BluetoothDisconnected(app.ride, id)
           s == [app EXCEPT !.queue = p]
           t == Reduce(s, d)
           u == [t EXCEPT !.payload = None]
           x == EnqueueProjectionOperation(t, id)
<1>1. id \in Nat
  BY RequestFacts, Zenon
<1>2. Advances(app.queue, p) /\ MayEnqueueProjection(p, id)
  BY <1>1, NoStep, AcceptSceneFacts, Zenon
<1>3. Evolves(app.ride, d.state)
  BY <1>1, NoStep, SceneFacts, Zenon
<1>4. OnlyApp /\ app' \in {app, x}
  BY DEF TransportDisconnected
<1> HIDE DEF p, d
<1>5. /\ t \in Apps /\ t.ride = d.state /\ t.queue = p
      /\ t.payload = app.payload /\ t.worker = app.worker
      /\ Knows(u, minted, activities)
  BY <1>2, <1>3, RequestKnows, ZenonT(40)
<1> HIDE DEF s, t
<1>6. u = [t EXCEPT !.payload = None]
  BY Zenon
<1> HIDE DEF u
<1>7. t.payload # None => t.worker # None
  BY <1>5 DEF AInv, Knows, Frame
<1>8. Knows(x, minted, activities) /\ x.ride = t.ride
  BY <1>1, <1>2, <1>5, <1>6, <1>7, EnqueueProjectionKnows, Zenon
<1> HIDE DEF x
<1> QED
  BY <1>3, <1>4, <1>5, <1>8, EvolvesSteps, NoStep, AppStep, Zenon

\* The actor leaves the call for the capture flush, or comes back from it.
LEMMA FlushingKnows ==
  ASSUME NEW s, NEW m, NEW acts, Knows(s, m, acts), NEW f \in SUBSET Nat
  PROVE  LET t == [s EXCEPT !.flushing = f]
         IN  Knows(t, m, acts) /\ t.ride = s.ride
<1> DEFINE t == [s EXCEPT !.flushing = f]
<1>1. s \in Apps
  BY DEF Knows, Frame
<1>2. t \in Apps
  BY <1>1 DEF Apps
<1>3. /\ t.ride = s.ride /\ t.queue = s.queue /\ t.payload = s.payload /\ t.worker = s.worker
      /\ t.inactive = s.inactive /\ t.launch_marker = s.launch_marker /\ t.desired = s.desired
  BY <1>1, Zenon DEF Apps
<1> HIDE DEF t
<1>4. Advances(s.queue, t.queue)
  BY <1>1, <1>3 DEF Advances, Apps
<1>5. Knows(t, m, acts)
  BY <1>2, <1>3, <1>4, TakesFacts, Zenon
<1> QED
  BY <1>3, <1>5, Zenon DEF t

\* appDidEnterBackground, while requests are on their way.
LEMMA EnterBackgroundKept ==
  ASSUME AInv, NEW id \in Requests, NEW differs \in BOOLEAN, EnterBackground(id, differs)
  PROVE  AInv' /\ RideSteps(app.ride, app'.ride)
<1> DEFINE p == AcceptBackground(app.queue, id)
           d == AppBackgrounded(app.ride)
           s == [app EXCEPT !.queue = p]
           t == Reduce(s, d)
           f == t.flushing \cup {id}
           x == [t EXCEPT !.flushing = f]
           y == EnqueueProjectionIfNeeded(t, id, differs)
<1>1. id \in Nat
  BY RequestFacts
<1>2. /\ Advances(app.queue, p)
      /\ p.pending_presentation_request_id = app.queue.pending_presentation_request_id
  BY <1>1, NoStep, AcceptSceneFacts, Zenon
<1>3. Evolves(app.ride, d.state)
  BY <1>1, NoStep, SceneFacts, Zenon
<1>4. OnlyApp /\ app' \in {app, s, x, y}
  BY DEF EnterBackground
<1> HIDE DEF p, d
<1>5. s.ride = app.ride
  BY NoStep DEF Apps
<1>6. /\ t \in Apps /\ t.ride = d.state
      /\ Knows(s, minted, activities) /\ Knows(t, minted, activities)
  BY <1>2, <1>3, RequestKnows, ZenonT(40)
<1> HIDE DEF s, t
<1>7. f \in SUBSET Nat
  BY <1>1, <1>6 DEF Apps
<1> HIDE DEF f
<1>8. Knows(x, minted, activities) /\ x.ride = t.ride
  BY <1>6, <1>7, FlushingKnows
<1>9. Knows(y, minted, activities) /\ y.ride = t.ride
  BY <1>1, <1>6, ProjectionIfNeededKnows
<1> HIDE DEF x, y
<1> QED
  BY <1>3, <1>4, <1>5, <1>6, <1>8, <1>9, EvolvesSteps, NoStep, AppStep, Zenon

\* The flush that the background waits for has completed.
LEMMA FlushCompletesKept ==
  ASSUME AInv, NEW id \in Requests, NEW differs \in BOOLEAN, FlushCompletes(id, differs)
  PROVE  AInv' /\ RideSteps(app.ride, app'.ride)
<1> DEFINE f == app.flushing \ {id}
           x == [app EXCEPT !.flushing = f]
           y == EnqueueProjectionIfNeeded(x, id, differs)
<1>1. id \in Nat
  BY RequestFacts
<1>2. f \in SUBSET Nat
  BY NoStep DEF Apps
<1>3. OnlyApp /\ app' = y
  BY DEF FlushCompletes
<1> HIDE DEF f
<1>4. Knows(x, minted, activities) /\ x.ride = app.ride
  BY <1>2, FlushingKnows, NoStep, Zenon
<1> HIDE DEF x
<1>5. Knows(y, minted, activities) /\ y.ride = x.ride
  BY <1>1, <1>4, ProjectionIfNeededKnows, Zenon
<1> HIDE DEF y
<1> QED
  BY <1>3, <1>4, <1>5, NoStep, AppStep

\* appDidBecomeActive
LEMMA BecomeActiveKept ==
  ASSUME AInv, NEW id \in Requests, NEW differs \in BOOLEAN, BecomeActive(id, differs)
  PROVE  AInv' /\ RideSteps(app.ride, app'.ride)
<1> DEFINE p == AcceptForeground(app.queue, id)
           d == AppForegrounded(app.ride)
           s == [app EXCEPT !.queue = p]
           t == Reduce(s, d)
           y == EnqueueProjectionIfNeeded(t, id, differs)
<1>1. id \in Nat
  BY RequestFacts
<1>2. /\ Advances(app.queue, p)
      /\ p.pending_presentation_request_id = app.queue.pending_presentation_request_id
  BY <1>1, NoStep, AcceptSceneFacts, Zenon
<1>3. Evolves(app.ride, d.state)
  BY <1>1, NoStep, SceneFacts, Zenon
<1>4. OnlyApp /\ app' \in {app, y}
  BY DEF BecomeActive
<1> HIDE DEF p, d
<1>5. t.ride = d.state /\ Knows(t, minted, activities)
  BY <1>2, <1>3, RequestKnows, ZenonT(40)
<1> HIDE DEF s, t
<1>6. Knows(y, minted, activities) /\ y.ride = t.ride
  BY <1>1, <1>5, ProjectionIfNeededKnows
<1> HIDE DEF y
<1> QED
  BY <1>3, <1>4, <1>5, <1>6, EvolvesSteps, NoStep, AppStep, Zenon

\* The marker read at launch is adopted before anything else has touched the ride.
LEMMA RecoverKept ==
  ASSUME AInv, NEW restored, NEW at \in ReceiptTimes(1), RecoverPersistedRide(restored, at)
  PROVE  AInv' /\ RideSteps(app.ride, app'.ride)
<1> DEFINE i == app.launch_marker
           p == AcceptRequest(app.queue, 1)
           d == RecoverRideSessionMarker(app.ride, i, restored)
           s == [app EXCEPT !.queue = p]
           t == Reduce(s, d)
           u == [t EXCEPT !.timing = at]
           op == [Operation("Recover", 1) EXCEPT !.identity = i, !.timing = at]
           x == EnqueueOperation(u, op)
<1>1. at \in Nat
  BY DEF ReceiptTimes
<1>2. CASE ~AcceptsRequest(app.queue, 1)
  BY <1>2, NoStep, AppStep DEF RecoverPersistedRide
<1>3. CASE AcceptsRequest(app.queue, 1)
  <2>1. OnlyApp /\ app' \in {t, x} /\ i # None
    BY <1>3, Zenon DEF RecoverPersistedRide
  <2>2. Untouched(app.queue)
    BY <1>3, NoStep DEF AcceptsRequest, Untouched, WorkState
  <2>3. /\ app.ride.phase = "Idle" /\ app.queue.terminal = None /\ Harmless(app.worker)
        /\ app.payload # None => app.payload.kind = "Project"
        /\ Minted(i, minted)
        /\ app.desired # None => Minted(app.desired.value, minted)
    BY <2>2, Zenon DEF AInv, Knows, Frame, Suspended, Untouched
  <2>4. i \in RideSessionIdentity
    BY <2>1, NoStep, Zenon DEF Apps, Identities
  <2>5. /\ Advances(app.queue, p) /\ p.latest_presentation_request_id = 1
        /\ p.pending_presentation_request_id = app.queue.pending_presentation_request_id
    <3>1. 1 \in Nat /\ 1 # 0
      OBVIOUS
    <3> QED
      BY <3>1, NoStep, AcceptRequestFacts, Zenon
  <2>6. /\ RideKnows(d.state, minted) /\ ~Visible(d.state) /\ ~Ends(d.state)
        /\ d.state.identity = i /\ i # app.ride.identity
    BY <2>3, <2>4, NoStep, RecoverFacts
  <2>7. op \in Operations
    BY <1>1, <2>4, Zenon DEF Operation, Operations
  <2>8. op.kind = "Recover" /\ op.identity = i
    BY DEF Operation
  <2>9. OperationKnows(op)
    BY <2>1, <2>8 DEF OperationKnows
  <2> HIDE DEF i, p, d, op
  <2>10. s \in Apps
    BY <2>5, NoStep DEF Apps, Advances
  <2>11. /\ s.ride = app.ride /\ s.queue = p /\ s.payload = app.payload
         /\ s.worker = app.worker /\ s.inactive = app.inactive
         /\ s.launch_marker = app.launch_marker /\ s.desired = app.desired
    BY NoStep DEF Apps
  <2> HIDE DEF s
  <2>12. /\ SameRest(s, t) /\ t.ride = d.state
         /\ t.desired # None => Minted(t.desired.value, minted)
    BY <2>3, <2>6, <2>10, <2>11, ReduceFacts, Zenon
  <2> HIDE DEF t
  <2>13. /\ t.worker = app.worker /\ t.queue = p /\ t.payload = app.payload /\ t \in Apps
         /\ t.inactive = app.inactive /\ t.launch_marker = app.launch_marker
    BY <2>11, <2>12 DEF SameRest
  <2>14. ~Untouched(t.queue) /\ ~RecoveryWaits(t) /\ t.queue.terminal = None
    BY <2>3, <2>5, <2>13 DEF Untouched, RecoveryWaits, Advances
  <2>15. Frame(t, minted, activities)
    BY <2>5, <2>6, <2>12, <2>13, <2>14, Zenon DEF AInv, Knows, Frame, Advances
  <2>16. t.worker # None => WorkerKnows(t.ride, t.worker)
    BY <2>3, <2>6, <2>12, <2>13, Zenon DEF WorkerKnows, Harmless, OperationKnows
  <2>17. Knows(t, minted, activities)
    BY <2>6, <2>12, <2>14, <2>15, <2>16, Zenon DEF Knows, Suspended
  <2>18. u \in Apps
    BY <1>1, <2>13 DEF Apps
  <2>19. /\ u.ride = t.ride /\ u.queue = t.queue /\ u.payload = t.payload
         /\ u.worker = t.worker /\ u.inactive = t.inactive
         /\ u.launch_marker = t.launch_marker /\ u.desired = t.desired
    BY <2>13, Zenon DEF Apps
  <2> HIDE DEF u
  <2>20. Advances(t.queue, u.queue)
    BY <2>5, <2>13, <2>19 DEF Advances
  <2>21. Knows(u, minted, activities)
    BY <2>17, <2>18, <2>19, <2>20, TakesFacts, Zenon
  <2>22. Knows(x, minted, activities) /\ x.ride = u.ride
    BY <2>3, <2>6, <2>7, <2>8, <2>9, <2>12, <2>13, <2>14, <2>19, <2>21,
       EnqueueOperationKnows, Zenon
  <2> HIDE DEF x
  <2>23. RideSteps(app.ride, d.state)
    BY <2>3, <2>6, Zenon DEF RideSteps, IsLive
  <2> QED
    BY <2>1, <2>12, <2>17, <2>19, <2>22, <2>23, AppStep, Zenon
<1> QED
  BY <1>2, <1>3

\* The closure of a unit of work returns, and the worker drains the queue.
LEMMA ClosureReturnsKept ==
  ASSUME AInv, ClosureReturns
  PROVE  AInv' /\ RideSteps(app.ride, app'.ride)
<1>1. OnlyApp /\ app' = Drain(app) /\ app.worker # None /\ app.worker.stage = "return"
  BY Zenon DEF ClosureReturns, At
<1>2. Frame(app, minted, activities) /\ (Ends(app.ride) => app.queue.terminal # None)
  BY <1>1, Zenon DEF AInv, Knows, Suspended
<1>3. Knows(Drain(app), minted, activities) /\ Drain(app).ride = app.ride
  BY <1>1, <1>2, DrainKnows, Zenon
<1> QED
  BY <1>1, <1>3, NoStep, AppStep, Zenon

\* A call of the manager returns and leaves the activities acts on screen.
LEMMA ManagerStep ==
  ASSUME AInv, UNCHANGED <<durable, minted, crashes>>, Knows(app', minted, activities')
  PROVE  AInv'
BY Zenon DEF AInv

\* Fields of the presentation, set by a call of the manager.
LEMMA PresentationFrame ==
  ASSUME NEW s, NEW m, NEW acts, Frame(s, m, acts), NEW t \in Apps, NEW after,
         t.ride = s.ride, t.queue = s.queue, t.payload = s.payload, t.worker = s.worker,
         t.launch_marker = s.launch_marker, t.desired = s.desired,
         Visible(s.ride) => after = {s.ride.identity}, t.inactive => after = {}
  PROVE  Frame(t, m, after)
<1>1. RecoveryWaits(t) <=> RecoveryWaits(s)
  BY Zenon DEF RecoveryWaits
<1> QED
  BY <1>1, Zenon DEF Frame

\* The manager returns from update or from marking the activity stale.
LEMMA ManagerUpdatesKept ==
  ASSUME AInv, ManagerUpdates
  PROVE  AInv' /\ RideSteps(app.ride, app'.ride)
<1> DEFINE b == app.shown \/ app.manager
           t == [app EXCEPT !.shown = b]
<1>1. OnlyApp /\ app' = Return(t) /\ app.worker # None /\ app.worker.stage = "update"
  BY Zenon DEF ManagerUpdates, At
<1>2. Frame(app, minted, activities) /\ (Ends(app.ride) => app.queue.terminal # None)
  BY <1>1, Zenon DEF AInv, Knows, Suspended
<1>3. b \in BOOLEAN
  OBVIOUS
<1> HIDE DEF b
<1>4. t \in Apps
  BY <1>3, NoStep, Zenon DEF Apps
<1>5. /\ t.ride = app.ride /\ t.queue = app.queue /\ t.payload = app.payload
      /\ t.worker = app.worker /\ t.inactive = app.inactive
      /\ t.launch_marker = app.launch_marker /\ t.desired = app.desired
  BY NoStep, Zenon DEF Apps
<1> HIDE DEF t
<1>6. Visible(app.ride) => activities = {app.ride.identity}
  BY <1>2, Zenon DEF Frame
<1>7. t.inactive => activities = {}
  BY <1>2, <1>5, Zenon DEF Frame
<1>8. Frame(t, minted, activities)
  BY <1>2, <1>4, <1>5, <1>6, <1>7, PresentationFrame, Zenon
<1>9. Knows(Return(t), minted, activities) /\ Return(t).ride = t.ride
  BY <1>1, <1>2, <1>5, <1>8, ReturnKnows, Zenon
<1> QED
  BY <1>1, <1>5, <1>9, NoStep, AppStep, Zenon

\* reduce, for a callback about the activity: the ride stays the same, and an ending ride
\* ending or ended.
LEMMA CallbackFrame ==
  ASSUME NEW s, NEW m, NEW acts, Frame(s, m, acts), NEW d, RideKnows(d.state, m),
         d.state.identity = s.ride.identity,
         d.state.pending_identity \in {s.ride.pending_identity, None},
         s.ride.phase \in {"Ending", "Ended"} => d.state.phase \in {"Ending", "Ended"},
         ~(Untouched(s.queue) \/ RecoveryWaits(s)),
         Visible(d.state) => acts = {s.ride.identity}
  PROVE  LET t == Reduce(s, d)
         IN  Frame(t, m, acts) /\ SameRest(s, t) /\ t.ride = d.state
<1> DEFINE t == Reduce(s, d)
<1>1. s \in Apps /\ (s.desired # None => Minted(s.desired.value, m))
  BY Zenon DEF Frame
<1>2. SameRest(s, t) /\ t.ride = d.state /\ (t.desired # None => Minted(t.desired.value, m))
  BY <1>1, ReduceFacts, Zenon
<1> HIDE DEF t
<1>3. ~RecoveryWaits(t) /\ ~Untouched(t.queue)
  BY <1>2, Zenon DEF RecoveryWaits, SameRest
<1>4. Frame(t, m, acts)
  BY <1>2, <1>3, Zenon DEF Frame, SameRest
<1> QED
  BY <1>2, <1>4, Zenon DEF t

\* What is known of memory while the worker calls the manager to start or to end an activity.
LEMMA CallFacts ==
  ASSUME AInv, app.worker # None, app.worker.stage \in {"start", "end", "cleanup"}
  PROVE  /\ Frame(app, minted, activities) /\ Touched(app) /\ ~Visible(app.ride)
         /\ app.worker.stage # "end" => (Ends(app.ride) => app.queue.terminal # None)
         /\ app.worker.stage = "end" =>
              /\ app.worker.identity = app.ride.identity
              /\ app.ride.phase \in {"Ending", "Ended"}
<1>1. /\ Frame(app, minted, activities) /\ WorkerKnows(app.ride, app.worker)
      /\ RideKnows(app.ride, minted)
      /\ Ends(app.ride) => app.queue.terminal # None \/ app.worker.stage = "end"
  BY Zenon DEF AInv, Knows, Suspended, Frame
<1>2. Touched(app)
  BY Zenon DEF AInv, Knows, Suspended, Harmless, Touched
<1>3. ~Visible(app.ride)
  BY <1>1, Zenon DEF WorkerKnows, RideKnows, AcceptsUpdates
<1> QED
  BY <1>1, <1>2, <1>3, ZenonT(40) DEF WorkerKnows

\* The manager has put the activity of the ride on screen.
LEMMA ManagerStartsKept ==
  ASSUME AInv, ManagerStarts
  PROVE  AInv' /\ RideSteps(app.ride, app'.ride)
<1> DEFINE i == app.worker.identity
           s == [app EXCEPT !.inactive = FALSE, !.shown = TRUE, !.manager = TRUE]
           d == ActivityStarted(app.ride, i)
           t == Reduce(s, d)
<1>1. /\ app' = Return(t) /\ activities' = {i} /\ UNCHANGED <<durable, minted, crashes>>
      /\ app.worker # None /\ app.worker.stage = "start"
  BY DEF ManagerStarts, OnlyActivities, At
<1>2. /\ Frame(app, minted, activities) /\ Touched(app) /\ ~Visible(app.ride)
      /\ Ends(app.ride) => app.queue.terminal # None
  BY <1>1, CallFacts, Zenon
<1>3. s \in Apps
  BY NoStep, Zenon DEF Apps
<1>4. /\ s.ride = app.ride /\ s.queue = app.queue /\ s.payload = app.payload
      /\ s.worker = app.worker /\ s.inactive = FALSE
      /\ s.launch_marker = app.launch_marker /\ s.desired = app.desired
  BY NoStep, Zenon DEF Apps
<1> HIDE DEF s, i
<1>5. Frame(s, minted, {i})
  BY <1>2, <1>3, <1>4, PresentationFrame, Zenon
<1>6. /\ RideKnows(d.state, minted) /\ d.state.identity = app.ride.identity
      /\ d.state.pending_identity = app.ride.pending_identity
      /\ \/ d.state.phase = app.ride.phase
         \/ AcceptsUpdates(app.ride) /\ AcceptsUpdates(d.state)
      /\ Ends(d.state) => Ends(app.ride)
      /\ Visible(d.state) => Visible(app.ride) \/ app.ride.identity = i
  BY NoStep, StartedFacts, Zenon
<1> HIDE DEF d
<1>7. /\ app.ride.phase \in {"Ending", "Ended"} => d.state.phase = app.ride.phase
      /\ ~(Untouched(s.queue) \/ RecoveryWaits(s))
  BY <1>2, <1>4, <1>6, Zenon DEF AcceptsUpdates, Touched, RecoveryWaits
<1>8. Frame(t, minted, {i}) /\ SameRest(s, t) /\ t.ride = d.state
  BY <1>2, <1>4, <1>5, <1>6, <1>7, CallbackFrame, ZenonT(40)
<1> HIDE DEF t
<1>9. Knows(Return(t), minted, {i}) /\ Return(t).ride = t.ride
  BY <1>1, <1>2, <1>4, <1>6, <1>8, ReturnKnows, Zenon DEF SameRest
<1>10. RideSteps(app.ride, d.state)
  BY <1>6, <1>7 DEF RideSteps
<1> QED
  BY <1>1, <1>8, <1>9, <1>10, ManagerStep, Zenon

\* The manager could not start an activity.
LEMMA ManagerStartFailsKept ==
  ASSUME AInv, ManagerStartFails
  PROVE  AInv' /\ RideSteps(app.ride, app'.ride)
<1> DEFINE d == ActivityUnavailable(app.ride, app.worker.identity)
<1>1. /\ \E held \in {app.manager, FALSE} :
           app' = Return(Reduce([app EXCEPT !.shown = FALSE, !.manager = held], d))
      /\ activities' \in {activities, {}} /\ UNCHANGED <<durable, minted, crashes>>
      /\ app.worker # None /\ app.worker.stage = "start"
  BY DEF ManagerStartFails, OnlyActivities, At
<1>2. PICK held \in {app.manager, FALSE} :
        app' = Return(Reduce([app EXCEPT !.shown = FALSE, !.manager = held], d))
  BY <1>1, Zenon
<1> DEFINE s == [app EXCEPT !.shown = FALSE, !.manager = held]
           t == Reduce(s, d)
           acts == activities'
<1>3. /\ Frame(app, minted, activities) /\ Touched(app) /\ ~Visible(app.ride)
      /\ Ends(app.ride) => app.queue.terminal # None
  BY <1>1, CallFacts
<1>4. held \in BOOLEAN
  BY NoStep, Zenon DEF Apps
<1>5. s \in Apps
  BY <1>4, NoStep, Zenon DEF Apps
<1>6. /\ s.ride = app.ride /\ s.queue = app.queue /\ s.payload = app.payload
      /\ s.worker = app.worker /\ s.inactive = app.inactive
      /\ s.launch_marker = app.launch_marker /\ s.desired = app.desired
  BY NoStep DEF Apps
<1>7. app' = Return(t)
  BY <1>2, Zenon
<1>8. s.inactive => acts = {}
  BY <1>1, <1>3, <1>6, Zenon DEF Frame
<1> HIDE DEF s, acts
<1>9. Frame(s, minted, acts)
  BY <1>3, <1>5, <1>6, <1>8, PresentationFrame, Zenon
<1>10. /\ RideKnows(d.state, minted) /\ d.state.identity = app.ride.identity
       /\ d.state.pending_identity = app.ride.pending_identity
       /\ d.state.phase = app.ride.phase
       /\ Ends(d.state) => Ends(app.ride)
       /\ Visible(d.state) => Visible(app.ride)
  BY NoStep, UnavailableFacts, Zenon
<1> HIDE DEF d
<1>11. ~(Untouched(s.queue) \/ RecoveryWaits(s))
  BY <1>3, <1>6, Zenon DEF Touched, RecoveryWaits
<1>12. Frame(t, minted, acts) /\ SameRest(s, t) /\ t.ride = d.state
  BY <1>3, <1>6, <1>9, <1>10, <1>11, CallbackFrame, Zenon
<1> HIDE DEF t
<1>13. Knows(Return(t), minted, acts) /\ Return(t).ride = t.ride
  BY <1>1, <1>3, <1>6, <1>10, <1>12, ReturnKnows, Zenon DEF SameRest
<1>14. RideSteps(app.ride, d.state)
  BY <1>10 DEF RideSteps
<1> QED
  BY <1>1, <1>7, <1>12, <1>13, <1>14, ManagerStep, Zenon DEF acts

\* The one step in which a live ride gives way to its successor.
HandsOver == At("end") /\ app.ride.phase = "Ending" /\ activities' = {}

\* The manager has removed the activity: the ride ends, or hands over to the next one.
LEMMA ManagerEndsKept ==
  ASSUME AInv, ManagerEnds
  PROVE  AInv' /\ (RideSteps(app.ride, app'.ride) \/ HandsOver)
<1> DEFINE w == app.worker
           s == [app EXCEPT !.shown = FALSE, !.inactive = TRUE, !.manager = FALSE]
           d == ActivityEnded(app.ride, w.identity)
           t == Reduce(s, d)
<1>1. /\ activities' = {} /\ UNCHANGED <<durable, minted, crashes>>
      /\ w # None /\ w.stage \in {"end", "cleanup"}
      /\ \/ w.stage = "cleanup" /\ app' = Return(s)
         \/ /\ w.stage = "end"
            /\ \E late \in BOOLEAN :
                 app' = Execute(t, d.effect, w.snapshot, w.timing, w.start, late)
  BY Zenon DEF ManagerEnds, OnlyActivities, At
<1>2. /\ Frame(app, minted, activities) /\ Touched(app) /\ ~Visible(app.ride)
      /\ w.stage # "end" => (Ends(app.ride) => app.queue.terminal # None)
      /\ w.stage = "end" =>
           w.identity = app.ride.identity /\ app.ride.phase \in {"Ending", "Ended"}
  BY <1>1, CallFacts, Zenon
<1>3. s \in Apps
  BY NoStep, Zenon DEF Apps
<1>4. /\ s.ride = app.ride /\ s.queue = app.queue /\ s.payload = app.payload
      /\ s.worker = app.worker /\ s.launch_marker = app.launch_marker
      /\ s.desired = app.desired
  BY NoStep, Zenon DEF Apps
<1> HIDE DEF s
<1>5. Frame(s, minted, {}) /\ Touched(s)
  BY <1>2, <1>3, <1>4, PresentationFrame, Zenon DEF Touched, RecoveryWaits
<1>6. CASE w.stage = "cleanup"
  <2>1. Knows(Return(s), minted, {}) /\ Return(s).ride = s.ride
    BY <1>1, <1>2, <1>4, <1>5, <1>6, ReturnKnows, Zenon
  <2> QED
    BY <1>1, <1>4, <1>6, <2>1, ManagerStep, NoStep, Zenon
<1>7. CASE w.stage = "end"
  <2>1. PICK late \in BOOLEAN :
          app' = Execute(t, d.effect, w.snapshot, w.timing, w.start, late)
    BY <1>1, <1>7, Zenon
  <2>2. w \in Workers
    BY <1>1, NoStep, Zenon DEF Apps
  <2>3. w.snapshot \in BOOLEAN /\ w.timing \in Times /\ w.start \in Times
    BY <2>2, Zenon DEF Workers, Times
  <2>4. d = ActivityEnded(app.ride, app.ride.identity)
    BY <1>2, <1>7, Zenon
  <2>5. /\ RideKnows(d.state, minted) /\ ~Visible(d.state) /\ ~Ends(d.state)
        /\ \/ /\ d.state.identity = app.ride.identity /\ d.state.phase = "Ended"
              /\ d.state.pending_identity = None /\ d.effect = NoEffect
           \/ /\ app.ride.phase = "Ending" /\ app.ride.pending_identity # None
              /\ d.state.identity \in RideSessionIdentity
              /\ d.effect = Effect("StartActivity", d.state.identity)
    BY <1>2, <1>7, <2>4, NoStep, EndedFacts
  <2> HIDE DEF d, w
  <2>6. /\ SameRest(s, t) /\ t.ride = d.state
        /\ t.desired # None => Minted(t.desired.value, minted)
    BY <1>2, <1>3, <1>4, <2>5, ReduceFacts, Zenon DEF Frame
  <2> HIDE DEF t
  <2>7. /\ ~RecoveryWaits(t) /\ ~Untouched(t.queue) /\ t.worker = app.worker
        /\ t.queue = app.queue
    BY <1>4, <1>5, <2>6 DEF Touched, RecoveryWaits, SameRest
  <2>8. t.queue.terminal # None =>
          d.state.identity = app.ride.identity /\ d.state.phase = "Ended"
          /\ d.state.pending_identity = None
    BY <1>2, <2>5, <2>7, Zenon DEF Frame
  <2>9. Frame(t, minted, {})
    BY <1>4, <1>5, <2>5, <2>6, <2>7, <2>8, Zenon DEF Frame, SameRest
  <2>10. /\ d.effect.identity \in Identities
         /\ d.effect.kind = "StartActivity" => d.effect.identity \in RideSessionIdentity
         /\ d.effect.kind # "EndActivity"
    BY <2>5 DEF Effect, NoEffect, Identities
  <2>11. /\ Knows(app', minted, {})
         /\ Evolves(t.ride, app'.ride)
    BY <1>1, <2>1, <2>3, <2>5, <2>6, <2>7, <2>9, <2>10, ExecuteKnows, Zenon DEF Touched, w
  <2>12. RideSteps(app.ride, app'.ride) \/ HandsOver
    BY <1>1, <1>7, <2>5, <2>6, <2>11, Zenon DEF RideSteps, Evolves, AcceptsUpdates, HandsOver, At, w
  <2> QED
    BY <1>1, <2>11, <2>12, ManagerStep, Zenon
<1> QED
  BY <1>1, <1>6, <1>7, Zenon

\* The manager failed to end the activity.
LEMMA ManagerEndFailsKept ==
  ASSUME AInv, ManagerEndFails
  PROVE  AInv' /\ RideSteps(app.ride, app'.ride)
<1> DEFINE d == ActivityUnavailable(app.ride, app.worker.identity)
           t == Reduce(app, d)
<1>1. /\ OnlyApp /\ app.worker # None
      /\ \/ app.worker.stage = "end" /\ app' = Return(t)
         \/ app.worker.stage = "cleanup" /\ app' = Return(app)
  BY DEF ManagerEndFails, At
<1>2. /\ Frame(app, minted, activities) /\ Touched(app) /\ ~Visible(app.ride)
      /\ app.worker.stage # "end" => (Ends(app.ride) => app.queue.terminal # None)
      /\ app.worker.stage = "end" => app.worker.identity = app.ride.identity
  BY <1>1, CallFacts, Zenon
<1>3. CASE app.worker.stage = "end"
  <2>1. /\ RideKnows(d.state, minted) /\ d.state.identity = app.ride.identity
        /\ d.state.pending_identity = app.ride.pending_identity
        /\ d.state.phase = app.ride.phase
        /\ Ends(d.state) => app.ride.identity # app.worker.identity
        /\ Visible(d.state) => Visible(app.ride)
    BY NoStep, UnavailableFacts, ZenonT(40)
  <2> HIDE DEF d
  <2>2. Frame(t, minted, activities) /\ SameRest(app, t) /\ t.ride = d.state
    BY <1>2, <2>1, CallbackFrame, Zenon DEF Touched
  <2> HIDE DEF t
  <2>3. Knows(Return(t), minted, activities) /\ Return(t).ride = t.ride
    BY <1>1, <1>2, <1>3, <2>1, <2>2, ReturnKnows, Zenon DEF SameRest
  <2>4. RideSteps(app.ride, d.state)
    BY <2>1, Zenon DEF RideSteps
  <2> QED
    BY <1>1, <1>3, <2>2, <2>3, <2>4, AppStep, Zenon
<1>4. CASE app.worker.stage = "cleanup"
  <2>1. Knows(Return(app), minted, activities) /\ Return(app).ride = app.ride
    BY <1>1, <1>2, <1>4, ReturnKnows, Zenon
  <2> QED
    BY <1>1, <1>4, <2>1, AppStep, NoStep, Zenon
<1> QED
  BY <1>1, <1>3, <1>4, Zenon

\* The newest marker becomes durable.
LEMMA PersistMarkerKept ==
  ASSUME AInv, PersistMarker
  PROVE  AInv' /\ RideSteps(app.ride, app'.ride)
<1>1. app.desired \in [value : Identities] /\ Minted(app.desired.value, minted)
  BY Zenon DEF AInv, Knows, Frame, Apps, PersistMarker
<1>2. durable' \in Identities /\ Minted(durable', minted)
  BY <1>1, Zenon DEF PersistMarker
<1>3. UNCHANGED <<app, activities, minted, crashes>>
  BY Zenon DEF PersistMarker
<1> QED
  BY <1>2, <1>3, NoStep, Zenon DEF AInv

\* A new process knows the marker it reads, and nothing of what is on screen.
LEMMA LaunchKnows ==
  ASSUME NEW i \in Identities, NEW m, Minted(i, m), NEW acts
  PROVE  Knows(Launch(i), m, acts)
<1> DEFINE s == Launch(i)
<1>1. DefaultRide \in RideSessionLifecycle
  BY Zenon DEF DefaultRide, RideSessionLifecycle, RideSessionPhases, ActivityProjections
<1>2. DefaultQueue \in WorkState
  BY Zenon DEF DefaultQueue, WorkState
<1>3. /\ DefaultRide.phase = "Idle" /\ DefaultRide.reason = None
      /\ DefaultRide.identity = None /\ DefaultRide.pending_identity = None
      /\ DefaultRide.activity = "Absent"
  BY Zenon DEF DefaultRide
<1>4. DefaultQueue.in_flight_request_id = None /\ DefaultQueue.terminal = None
  BY Zenon DEF DefaultQueue
<1>5. RideKnows(DefaultRide, m) /\ ~Visible(DefaultRide) /\ ~Ends(DefaultRide)
  BY <1>1, <1>3, Zenon DEF RideKnows, IsLive, Visible, Minted, Ends
<1>6. s \in Apps
  BY <1>1, <1>2, Zenon DEF Launch, Apps
<1>7. /\ s.ride = DefaultRide /\ s.queue = DefaultQueue /\ s.payload = None
      /\ s.worker = None /\ s.inactive = FALSE /\ s.desired = None /\ s.launch_marker = i
  BY Zenon DEF Launch
<1> HIDE DEF s
<1>8. ~RecoveryWaits(s)
  BY <1>7 DEF RecoveryWaits
<1>9. Frame(s, m, acts)
  BY <1>3, <1>4, <1>5, <1>6, <1>7, <1>8, Zenon DEF Frame
<1>10. Suspended(s)
  BY <1>5, <1>7, Zenon DEF Suspended, Harmless
<1> QED
  BY <1>9, <1>10, Zenon DEF Knows, s

\* The process dies; what is durable and what is on screen outlive it.
LEMMA CrashKept ==
  ASSUME AInv, Crash
  PROVE  AInv'
<1>1. Knows(Launch(durable), minted, activities)
  BY LaunchKnows, Zenon DEF AInv
<1> QED
  BY <1>1 DEF AInv, Crash

\* The first launch.
LEMMA InitAInv ==
  ASSUME Init
  PROVE  AInv
<1>1. Knows(Launch(None), 0, {})
  BY LaunchKnows, Zenon DEF Identities, Minted
<1> QED
  BY <1>1 DEF Init, AInv, Identities, Minted

\* A further session is minted.
LEMMA FrameMinted ==
  ASSUME NEW s, NEW m \in Nat, NEW acts, Frame(s, m, acts)
  PROVE  Frame(s, m + 1, acts)
<1>1. ASSUME NEW i \in Identities, Minted(i, m)
      PROVE  Minted(i, m + 1)
  BY <1>1 DEF Minted, Identities, RideSessionIdentity
<1>2. /\ s.ride.identity \in Identities /\ s.ride.pending_identity \in Identities
      /\ s.launch_marker \in Identities
      /\ s.desired # None => s.desired.value \in Identities
  BY Zenon DEF Frame, Apps, RideSessionLifecycle, Identities
<1>3. RideKnows(s.ride, m + 1)
  BY <1>1, <1>2, Zenon DEF Frame, RideKnows
<1>4. /\ Minted(s.launch_marker, m + 1)
      /\ s.desired # None => Minted(s.desired.value, m + 1)
  BY <1>1, <1>2, Zenon DEF Frame
<1> QED
  BY <1>3, <1>4, Zenon DEF Frame

\* The effects of telemetry, of its freshness and of a projection are about the ride.
LEMMA UpdateFacts ==
  ASSUME NEW r \in RideSessionLifecycle, NEW at, NEW late
  PROVE  /\ TelemetryObserved(r, at).effect.identity \in Identities
         /\ FreshnessChecked(r, late).effect.identity \in Identities
         /\ BackgroundProjection(r).identity \in Identities /\ Updates(BackgroundProjection(r))
<1>1. r.identity \in Identities /\ None \in Identities
  BY DEF RideSessionLifecycle, Identities
<1>2. TelemetryObserved(r, at).effect.identity \in Identities
  BY <1>1, Zenon DEF TelemetryObserved, Decide, Ignore, Effect, NoEffect
<1>3. FreshnessChecked(r, late).effect.identity \in Identities
  BY <1>1, Zenon DEF FreshnessChecked, Decide, Ignore, Effect, NoEffect
<1>4. BackgroundProjection(r).identity \in Identities /\ Updates(BackgroundProjection(r))
  BY <1>1 DEF BackgroundProjection, Effect, NoEffect, Updates
<1> QED
  BY <1>2, <1>3, <1>4, Zenon

\* execute with an effect that only updates the activity.
LEMMA ExecuteUpdate ==
  ASSUME NEW s, NEW m, NEW acts, Frame(s, m, acts), s.worker # None, NEW e, Updates(e),
         e.identity \in Identities, NEW timing \in Times, NEW late,
         Ends(s.ride) => s.queue.terminal # None
  PROVE  LET t == Execute(s, e, TRUE, timing, None, late)
         IN  Knows(t, m, acts) /\ Evolves(s.ride, t.ride)
<1>1. e.kind # "StartActivity" /\ e.kind # "EndActivity"
  BY Zenon DEF Updates
<1>2. ASSUME NEW b \in BOOLEAN
      PROVE  LET t == Execute(s, e, b, timing, None, late)
             IN  Knows(t, m, acts) /\ Evolves(s.ride, t.ride)
  BY <1>1, ExecuteKnows, WaitsFacts, Zenon
<1> QED
  BY <1>2, Zenon

\* projectCurrentLifecycle
LEMMA ProjectKnows ==
  ASSUME NEW s, NEW m, NEW acts, Frame(s, m, acts), s.worker # None, NEW late,
         Ends(s.ride) => s.queue.terminal # None
  PROVE  LET t == ProjectCurrentLifecycle(s, late)
         IN  Knows(t, m, acts) /\ Evolves(s.ride, t.ride)
<1> DEFINE x == TelemetryObserved(s.ride, s.timing)
           r == IF s.timing # None /\ AdmitsTelemetry(s.ride, s.timing)
                THEN Reduce(s, x) ELSE s
           y == FreshnessChecked(r.ride, late)
           c == IF s.timing = None THEN s ELSE Reduce(r, y)
           e == BackgroundProjection(c.ride)
           t == Execute(c, e, TRUE, s.timing, None, late)
<1>1. ProjectCurrentLifecycle(s, late) = t
  BY Zenon DEF ProjectCurrentLifecycle
<1>2. s.ride \in RideSessionLifecycle /\ s.timing \in Times /\ s \in Apps
  BY Zenon DEF Frame, Apps, Times
<1>3. Evolves(s.ride, s.ride) /\ SameRest(s, s)
  BY <1>2, Zenon DEF Evolves, SameRest
<1>4. Evolves(s.ride, x.state)
  BY <1>2, TelemetryFacts, Zenon DEF Times
<1> HIDE DEF x
<1>5. Frame(Reduce(s, x), m, acts) /\ SameRest(s, Reduce(s, x)) /\ Reduce(s, x).ride = x.state
  BY <1>4, ReduceEvolves, Zenon
<1>6. Frame(r, m, acts) /\ SameRest(s, r) /\ Evolves(s.ride, r.ride)
  BY <1>3, <1>4, <1>5, Zenon
<1> HIDE DEF r
<1>7. Evolves(r.ride, y.state)
  BY <1>6, FreshnessFacts, Zenon DEF Evolves
<1> HIDE DEF y
<1>8. /\ Frame(Reduce(r, y), m, acts) /\ SameRest(r, Reduce(r, y))
      /\ Reduce(r, y).ride = y.state
  BY <1>6, <1>7, ReduceEvolves, Zenon
<1>9. SameRest(s, Reduce(r, y)) /\ Evolves(s.ride, Reduce(r, y).ride)
  BY <1>6, <1>7, <1>8, EvolvesTransitive, Zenon DEF SameRest
<1>10. Frame(c, m, acts) /\ SameRest(s, c) /\ Evolves(s.ride, c.ride)
  BY <1>3, <1>8, <1>9, Zenon
<1> HIDE DEF c
<1>11. e.identity \in Identities /\ Updates(e)
  BY <1>10, UpdateFacts, Zenon DEF Evolves
<1>12. Ends(c.ride) => c.queue.terminal # None
  BY <1>10, EvolvesKnows, Zenon DEF SameRest, Frame
<1> HIDE DEF e
<1>13. Knows(t, m, acts) /\ Evolves(c.ride, t.ride)
  BY <1>2, <1>10, <1>11, <1>12, ExecuteUpdate, Zenon DEF SameRest
<1> HIDE DEF t
<1> QED
  BY <1>1, <1>10, <1>13, EvolvesTransitive, Zenon

\* endIfNeeded
LEMMA EndIfNeededKnows ==
  ASSUME NEW s, NEW m, NEW acts, Frame(s, m, acts), s.worker # None, Touched(s),
         Ends(s.ride) => s.queue.terminal # None, NEW reason \in Asked
  PROVE  LET t == EndIfNeeded(s, reason)
         IN  Knows(t, m, acts) /\ RideSteps(s.ride, t.ride)
<1> DEFINE d == End(s.ride, reason)
           known == s.shown \/ s.ride.identity # None
           r == IF known THEN Reduce(s, d) ELSE s
           n == [r EXCEPT !.shown = FALSE]
           t == EndIfNeeded(s, reason)
<1>1. RideKnows(s.ride, m) /\ s \in Apps /\ ~Untouched(s.queue)
  BY Zenon DEF Frame, Touched
<1>2. /\ RideKnows(d.state, m) /\ d.state.identity = s.ride.identity /\ ~Visible(d.state)
      /\ d.state.phase \in {"Ending", "Ended"}
      /\ s.ride.phase = "Ended" => d.state.phase = "Ended"
      /\ \/ d.effect = Effect("EndActivity", s.ride.identity)
         \/ d.effect = NoEffect /\ (Ends(d.state) => Ends(s.ride))
  BY <1>1, EndFacts, Zenon
<1>3. Frame(Reduce(s, d), m, acts) /\ SameRest(s, Reduce(s, d)) /\ Reduce(s, d).ride = d.state
  BY <1>1, ReduceEndKnows, Zenon
<1>4. d.effect # NoEffect =>
        /\ d.effect.kind = "EndActivity" /\ d.effect.identity = s.ride.identity
        /\ d.effect.identity \in Identities
  <2>1. s.ride.identity \in Identities
    BY <1>1, Zenon DEF RideKnows, RideSessionLifecycle, Identities
  <2> QED
    BY <1>2, <2>1, EffectFields
<1>5. \/ known /\ d.effect # NoEffect /\ t = Execute(r, d.effect, s.shown, None, None, FALSE)
      \/ (~known \/ d.effect = NoEffect) /\ t = Return(n)
      \/ (~known \/ d.effect = NoEffect) /\ t = Await(r, "cleanup", None, FALSE, None, None)
  BY Zenon DEF EndIfNeeded
<1>6. s.shown \in BOOLEAN /\ SameRest(s, s)
  BY <1>1, Zenon DEF Apps, SameRest
<1>7. ~known => ~Visible(s.ride)
  BY <1>1, Zenon DEF RideKnows, AcceptsUpdates, IsLive
<1> HIDE DEF d, known
<1>8. Frame(r, m, acts) /\ SameRest(s, r) /\ r.ride = IF known THEN d.state ELSE s.ride
  BY <1>3, <1>6, Zenon
<1> HIDE DEF r
<1>9. Touched(r) /\ ~Visible(r.ride) /\ r.worker # None
  BY <1>2, <1>7, <1>8, Zenon DEF Touched, RecoveryWaits, SameRest
<1>10. RideSteps(s.ride, r.ride)
  BY <1>2, <1>8, Zenon DEF RideSteps
<1>11. ~known \/ d.effect = NoEffect => (Ends(r.ride) => r.queue.terminal # None)
  BY <1>2, <1>8 DEF SameRest, Effect, NoEffect
<1> HIDE DEF t
<1>12. CASE known /\ d.effect # NoEffect
  <2>1. t = Execute(r, d.effect, s.shown, None, None, FALSE)
    BY <1>5, <1>12, Zenon
  <2>2. r.ride.identity = s.ride.identity /\ r.ride.phase \in {"Ending", "Ended"}
    BY <1>2, <1>8, <1>12, Zenon
  <2>3. Knows(t, m, acts) /\ Evolves(r.ride, t.ride)
    BY <1>4, <1>6, <1>8, <1>9, <1>12, <2>1, <2>2, ExecuteKnows, WaitsFacts, Zenon
  <2> QED
    BY <1>10, <2>2, <2>3, Zenon DEF RideSteps, Evolves, AcceptsUpdates, t
<1>13. CASE ~known \/ d.effect = NoEffect
  <2>1. n \in Apps
    BY <1>8, Zenon DEF Apps, SameRest
  <2>2. /\ n.ride = r.ride /\ n.queue = r.queue /\ n.payload = r.payload
        /\ n.worker = r.worker /\ n.inactive = r.inactive
        /\ n.launch_marker = r.launch_marker /\ n.desired = r.desired
    BY <1>8, Zenon DEF Apps, SameRest
  <2> HIDE DEF n
  <2>3. n.inactive => acts = {}
    BY <1>8, <2>2, Zenon DEF Frame
  <2>4. Frame(n, m, acts)
    BY <1>8, <1>9, <2>1, <2>2, <2>3, PresentationFrame, Zenon
  <2>5. Knows(Return(n), m, acts) /\ Return(n).ride = n.ride
    BY <1>9, <1>11, <1>13, <2>2, <2>4, ReturnKnows, Zenon
  <2>6. ASSUME NEW b \in BOOLEAN
        PROVE  LET v == Await(r, "cleanup", None, b, None, None)
               IN  Knows(v, m, acts) /\ v.ride = r.ride
    BY <1>8, <1>9, <1>11, <1>13, AwaitKnows, WaitsFacts DEF Touched
  <2>7. \/ t = Return(n)
        \/ t = Await(r, "cleanup", None, FALSE, None, None)
    BY <1>5, <1>13, Zenon
  <2> QED
    BY <1>10, <2>2, <2>5, <2>6, <2>7, Zenon DEF t
<1> QED
  BY <1>12, <1>13, Zenon

\* performReconciliation where it neither starts a session nor resumes its start.
LEMMA ReconcileUpdates ==
  ASSUME NEW s, NEW m, NEW acts, Frame(s, m, acts), s.worker # None, NEW at \in Times,
         NEW late, NEW differs, Ends(s.ride) => s.queue.terminal # None
  PROVE  LET connected == IF s.ride.phase = "Reconnecting"
                          THEN BluetoothConnected(s.ride).state ELSE s.ride
             observed == TelemetryObserved(connected, at)
             checked == FreshnessChecked(observed.state, late)
             effect == IF checked.effect = NoEffect THEN observed.effect ELSE checked.effect
             t == Execute(Reduce(s, checked), IF differs THEN effect ELSE NoEffect,
                          TRUE, at, None, late)
         IN  Knows(t, m, acts) /\ Evolves(s.ride, t.ride)
<1> DEFINE c == IF s.ride.phase = "Reconnecting" THEN BluetoothConnected(s.ride).state
                ELSE s.ride
           o == TelemetryObserved(c, at)
           k == FreshnessChecked(o.state, late)
           f == IF k.effect = NoEffect THEN o.effect ELSE k.effect
           e == IF differs THEN f ELSE NoEffect
           u == Reduce(s, k)
           t == Execute(u, e, TRUE, at, None, late)
<1>1. s.ride \in RideSessionLifecycle
  BY DEF Frame, Apps
<1>2. Evolves(s.ride, s.ride) /\ 0 \in Nat
  BY <1>1 DEF Evolves
<1>3. Evolves(s.ride, BluetoothConnected(s.ride).state)
  BY <1>1, <1>2, SceneFacts, Zenon
<1>4. Evolves(s.ride, c) /\ c \in RideSessionLifecycle
  BY <1>2, <1>3, Zenon DEF Evolves
<1> HIDE DEF c
<1>5. /\ Evolves(c, o.state) /\ o.state \in RideSessionLifecycle
      /\ Updates(o.effect) /\ o.effect.identity \in Identities
  BY <1>4, TelemetryFacts, UpdateFacts, Zenon DEF Evolves, Times
<1> HIDE DEF o
<1>6. /\ Evolves(o.state, k.state)
      /\ Updates(k.effect) /\ k.effect.identity \in Identities
  BY <1>5, FreshnessFacts, UpdateFacts, Zenon
<1> HIDE DEF k
<1>7. Updates(NoEffect) /\ NoEffect.identity \in Identities
  BY Zenon DEF Updates, NoEffect, Effect, Identities
<1>8. Updates(e) /\ e.identity \in Identities
  BY <1>5, <1>6, <1>7, Zenon
<1> HIDE DEF e
<1>9. Evolves(s.ride, o.state)
  BY <1>4, <1>5, EvolvesTransitive, Zenon
<1>10. Evolves(s.ride, k.state)
  BY <1>6, <1>9, EvolvesTransitive, Zenon
<1>11. Frame(u, m, acts) /\ SameRest(s, u) /\ u.ride = k.state
  BY <1>10, ReduceEvolves, Zenon
<1> HIDE DEF u
<1>12. u.worker # None /\ (Ends(u.ride) => u.queue.terminal # None)
  BY <1>10, <1>11, EvolvesKnows, Zenon DEF SameRest, Frame
<1>13. Knows(t, m, acts) /\ Evolves(u.ride, t.ride)
  BY <1>8, <1>11, <1>12, ExecuteUpdate, Zenon
<1> HIDE DEF t
<1>14. Evolves(s.ride, t.ride)
  BY <1>10, <1>11, <1>13, EvolvesTransitive, Zenon
<1> QED
  BY <1>13, <1>14, Zenon DEF t, u, e, f, k, o, c

\* performReconciliation where it starts a session: a live ride ends first, and its
\* successor waits for the manager.
LEMMA ReconcileStarts ==
  ASSUME NEW s, NEW m \in Nat, NEW acts, Frame(s, m, acts), s.worker # None, Touched(s),
         s.queue.terminal = None, NEW i \in RideSessionIdentity, i.session = m,
         NEW at \in Times, NEW id \in Nat, NEW late
  PROVE  LET d == Start(s.ride, i)
             t == Execute(Reduce(s, d), d.effect, TRUE, at, id, late)
         IN  Knows(t, m + 1, acts) /\ RideSteps(s.ride, t.ride)
<1> DEFINE d == Start(s.ride, i)
           u == Reduce(s, d)
           t == Execute(u, d.effect, TRUE, at, id, late)
<1>1. Frame(s, m + 1, acts) /\ RideKnows(s.ride, m)
  BY FrameMinted, Zenon DEF Frame
<1>2. /\ RideKnows(d.state, m + 1) /\ ~Visible(d.state)
      /\ \/ /\ ~IsLive(s.ride) /\ d.state.identity = i /\ d.state.identity # s.ride.identity
            /\ ~Ends(d.state) /\ d.effect = Effect("StartActivity", i)
         \/ /\ IsLive(s.ride) /\ d.state.identity = s.ride.identity
            /\ d.state.phase = "Ending"
            /\ d.effect = Effect("EndActivity", s.ride.identity)
  BY <1>1, StartFacts, ZenonT(40)
<1> HIDE DEF d
<1>3. s \in Apps /\ (s.desired # None => Minted(s.desired.value, m + 1))
  BY <1>1, Zenon DEF Frame
<1>4. /\ SameRest(s, u) /\ u.ride = d.state
      /\ u.desired # None => Minted(u.desired.value, m + 1)
  BY <1>2, <1>3, ReduceFacts, Zenon
<1> HIDE DEF u
<1>5. Touched(u) /\ ~RecoveryWaits(u) /\ ~Untouched(u.queue)
  BY <1>4, Zenon DEF Touched, RecoveryWaits, SameRest
<1>6. Frame(u, m + 1, acts) /\ u.worker # None
  BY <1>1, <1>2, <1>4, <1>5, Zenon DEF Frame, SameRest
<1>7. /\ d.effect.identity \in Identities
      /\ d.effect.kind = "StartActivity" => d.effect.identity \in RideSessionIdentity
      /\ d.effect.kind = "EndActivity" =>
           d.effect.identity = d.state.identity /\ d.state.phase = "Ending"
      /\ Ends(d.state) => d.effect.kind = "EndActivity"
  <2>1. s.ride.identity \in Identities /\ i \in Identities
    BY <1>1, Zenon DEF RideKnows, RideSessionLifecycle, Identities
  <2>2. /\ \/ d.effect = Effect("StartActivity", i)
           \/ d.effect = Effect("EndActivity", s.ride.identity)
        /\ d.effect = Effect("StartActivity", i) => ~Ends(d.state)
    BY <1>2, EffectFields
  <2> QED
    BY <1>2, <2>1, <2>2, EffectFields
<1>8. at \in Times /\ id \in Times
  BY Zenon DEF Times
<1>9. ASSUME NEW b \in BOOLEAN
      PROVE  LET v == Execute(u, d.effect, b, at, id, late)
             IN  Knows(v, m + 1, acts) /\ Evolves(u.ride, v.ride)
  BY <1>2, <1>4, <1>5, <1>6, <1>7, <1>8, ExecuteKnows, ZenonT(40)
<1>10. Knows(t, m + 1, acts) /\ Evolves(u.ride, t.ride)
  BY <1>9, Zenon
<1> HIDE DEF t
<1>11. RideSteps(s.ride, t.ride)
  BY <1>2, <1>4, <1>10, Zenon DEF RideSteps, Evolves, IsLive
<1> QED
  BY <1>10, <1>11, Zenon DEF t, u, d

\* The worker takes up an admitted operation.
LEMMA DispatchKept ==
  ASSUME AInv, NEW late \in BOOLEAN, NEW differs \in BOOLEAN, Dispatch(late, differs)
  PROVE  AInv' /\ RideSteps(app.ride, app'.ride)
<1> DEFINE op == app.worker.op
           i == [platform |-> op.platform, session |-> minted]
<1>1. /\ app.worker # None /\ app.worker.stage = "dispatch"
      /\ UNCHANGED <<durable, activities, crashes>>
  BY Zenon DEF Dispatch, At
<1>2. /\ Frame(app, minted, activities) /\ (Ends(app.ride) => app.queue.terminal # None)
      /\ op # None => OperationKnows(op)
      /\ op # None /\ op.kind = "Recover" => ~Visible(app.ride)
      /\ op # None /\ op.kind # "Project" => Touched(app)
  BY <1>1, Zenon DEF AInv, Knows, Suspended, WorkerKnows, Harmless, Touched
<1>3. op \in Operations \cup {None}
  BY <1>1, NoStep, Zenon DEF Apps, Workers
<1>4. op # None =>
        /\ op.request \in Nat /\ op.timing \in Times /\ op.request \in Times
        /\ op.platform \in Platforms \cup {None} /\ op.identity \in Identities
        /\ op.reason \in {"UserDisconnect", "UserStop", None}
        /\ op.kind \in {"Reconcile", "Recover", "Project", "EndIfNeeded"}
  BY <1>3, Zenon DEF Operations, Times, Identities
<1>5. ASSUME minted' = minted, Knows(app', minted, activities), RideSteps(app.ride, app'.ride)
      PROVE  AInv' /\ RideSteps(app.ride, app'.ride)
  BY <1>1, <1>5, Zenon DEF AInv
<1>6. CASE op = None
  <2>1. app' = Return(app) /\ minted' = minted
    BY <1>6, Zenon DEF Dispatch
  <2>2. Knows(Return(app), minted, activities) /\ Return(app).ride = app.ride
    BY <1>1, <1>2, ReturnKnows, Zenon
  <2> QED
    BY <1>5, <2>1, <2>2, NoStep, Zenon
<1>7. CASE op # None /\ op.kind = "Recover"
  <2> DEFINE e == Effect("StartActivity", op.identity)
  <2>1. /\ app' = Execute(app, e, TRUE, op.timing, op.request, late) /\ minted' = minted
    BY <1>7, Zenon DEF Dispatch
  <2>2. e.kind = "StartActivity" /\ e.identity = op.identity
    BY Zenon DEF Effect
  <2>3. op.identity \in RideSessionIdentity /\ ~Visible(app.ride) /\ Touched(app)
    BY <1>2, <1>4, <1>7, Zenon DEF OperationKnows, Identities
  <2> HIDE DEF e, op
  <2>4. ASSUME NEW b \in BOOLEAN
        PROVE  LET v == Execute(app, e, b, op.timing, op.request, late)
               IN  Knows(v, minted, activities) /\ Evolves(app.ride, v.ride)
    BY <1>1, <1>2, <1>4, <1>7, <2>2, <2>3, ExecuteKnows, Zenon
  <2>5. Knows(app', minted, activities) /\ Evolves(app.ride, app'.ride)
    BY <2>1, <2>4, Zenon
  <2> QED
    BY <1>5, <2>1, <2>5, EvolvesSteps, Zenon
<1>8. CASE op # None /\ op.kind = "Project"
  <2>1. app' = ProjectCurrentLifecycle(app, late) /\ minted' = minted
    BY <1>8, Zenon DEF Dispatch
  <2>2. Knows(app', minted, activities) /\ Evolves(app.ride, app'.ride)
    BY <1>1, <1>2, <2>1, ProjectKnows, Zenon
  <2> QED
    BY <1>5, <2>1, <2>2, EvolvesSteps, Zenon
<1>9. CASE op # None /\ op.kind = "EndIfNeeded"
  <2>1. app' = EndIfNeeded(app, op.reason) /\ minted' = minted
    BY <1>9, Zenon DEF Dispatch
  <2>2. op.reason \in Asked
    BY <1>2, <1>4, <1>9, Zenon DEF OperationKnows, Asked
  <2> HIDE DEF op
  <2>3. Knows(app', minted, activities) /\ RideSteps(app.ride, app'.ride)
    BY <1>1, <1>2, <1>9, <2>1, <2>2, EndIfNeededKnows, Zenon
  <2> QED
    BY <1>5, <2>1, <2>3, Zenon
<1>10. CASE op # None /\ op.kind = "Reconcile"
  <2> DEFINE e == Effect("StartActivity", app.ride.identity)
             d == Start(app.ride, i)
             c == IF app.ride.phase = "Reconnecting"
                  THEN BluetoothConnected(app.ride).state ELSE app.ride
             o == TelemetryObserved(c, op.timing)
             k == FreshnessChecked(o.state, late)
             f == IF k.effect = NoEffect THEN o.effect ELSE k.effect
  <2>1. /\ app' = PerformReconciliation(app, op, i, late, differs)
        /\ minted' = IF Starts(app, op) THEN minted + 1 ELSE minted
    BY <1>10 DEF Dispatch
  <2>2. \/ Barred(app) /\ ~Starts(app, op) /\ app' = Return(app)
        \/ /\ RidesOn(app, op.platform) /\ PendingStart(app.ride) /\ ~Starts(app, op)
           /\ app' = Execute(app, e, TRUE, op.timing, op.request, late)
        \/ /\ Starts(app, op)
           /\ app' = Execute(Reduce(app, d), d.effect, TRUE, op.timing, op.request, late)
        \/ /\ ~Starts(app, op)
           /\ app' = Execute(Reduce(app, k), IF differs THEN f ELSE NoEffect,
                             TRUE, op.timing, None, late)
    BY <2>1, Zenon DEF PerformReconciliation, Starts
  <2>3. op.platform \in Platforms /\ Touched(app)
    BY <1>2, <1>4, <1>10, Zenon DEF OperationKnows
  <2>4. CASE Barred(app) /\ ~Starts(app, op) /\ app' = Return(app)
    <3>1. Knows(Return(app), minted, activities) /\ Return(app).ride = app.ride
      BY <1>1, <1>2, ReturnKnows, Zenon
    <3> QED
      BY <1>5, <2>1, <2>4, <3>1, NoStep, Zenon
  <2>5. CASE /\ RidesOn(app, op.platform) /\ PendingStart(app.ride) /\ ~Starts(app, op)
             /\ app' = Execute(app, e, TRUE, op.timing, op.request, late)
    <3>1. e.kind = "StartActivity" /\ e.identity = app.ride.identity
      BY Zenon DEF Effect
    <3>2. app.ride.identity \in RideSessionIdentity /\ ~Visible(app.ride)
      BY <2>5, NoStep, Zenon DEF PendingStart, RidesOn, RideSessionLifecycle, Visible
    <3>3. app.ride.identity \in Identities
      BY <3>2, Zenon DEF Identities
    <3> HIDE DEF e, op
    <3>4. ASSUME NEW b \in BOOLEAN
          PROVE  LET v == Execute(app, e, b, op.timing, op.request, late)
                 IN  Knows(v, minted, activities) /\ Evolves(app.ride, v.ride)
      BY <1>1, <1>2, <1>4, <1>10, <2>3, <3>1, <3>2, <3>3, ExecuteKnows, Zenon
    <3>5. Knows(app', minted, activities) /\ Evolves(app.ride, app'.ride)
      BY <2>5, <3>4, Zenon
    <3> QED
      BY <1>5, <2>1, <2>5, <3>5, EvolvesSteps, Zenon
  <2>6. CASE /\ Starts(app, op)
             /\ app' = Execute(Reduce(app, d), d.effect, TRUE, op.timing, op.request, late)
    <3>1. i \in RideSessionIdentity /\ i.session = minted
      BY <2>3, NoStep, Zenon DEF RideSessionIdentity
    <3>2. app.queue.terminal = None
      BY <2>6 DEF Starts, Barred
    <3> HIDE DEF op, i
    <3>3. Knows(app', minted + 1, activities) /\ RideSteps(app.ride, app'.ride)
      BY <1>1, <1>2, <1>4, <1>10, <2>3, <2>6, <3>1, <3>2, ReconcileStarts, NoStep, ZenonT(40)
    <3>4. minted + 1 \in Nat /\ durable \in Identities /\ Minted(durable, minted + 1)
      BY DEF AInv, Minted, Identities, RideSessionIdentity
    <3> QED
      BY <1>1, <2>1, <2>6, <3>3, <3>4, Zenon DEF AInv
  <2>7. CASE /\ ~Starts(app, op)
             /\ app' = Execute(Reduce(app, k), IF differs THEN f ELSE NoEffect,
                               TRUE, op.timing, None, late)
    <3>1. op.timing \in Times
      BY <1>4, <1>10, Zenon
    <3> HIDE DEF op
    <3>2. Knows(app', minted, activities) /\ Evolves(app.ride, app'.ride)
      BY <1>1, <1>2, <2>7, <3>1, ReconcileUpdates, ZenonT(40)
    <3> QED
      BY <1>5, <2>1, <2>7, <3>2, EvolvesSteps, Zenon
  <2> QED
    BY <2>2, <2>4, <2>5, <2>6, <2>7, Zenon
<1> QED
  BY <1>4, <1>6, <1>7, <1>8, <1>9, <1>10, Zenon

-----------------------------------------------------------------------------
(* The theorems. *)

\* What a step may do to the ride.
RideStep == Alive => RideSteps(app.ride, app'.ride) \/ HandsOver

\* Each answer of the manager.
LEMMA ManagerKept ==
  ASSUME AInv, ManagerReturns
  PROVE  AInv' /\ RideStep
BY ManagerStartsKept, ManagerStartFailsKept, ManagerUpdatesKept, ManagerEndsKept,
   ManagerEndFailsKept DEF ManagerReturns, RideStep

\* Every step keeps the invariant, and the ride steps as the action properties allow.
LEMMA NextKept ==
  ASSUME AInv, [Next]_vars
  PROVE  AInv' /\ RideStep
<1>1. CASE \E id \in Requests, platform \in Platforms :
             \E at \in ReceiptTimes(id) : Reconcile(id, platform, at)
  BY <1>1, ReconcileKept, Zenon DEF RideStep
<1>2. CASE \E id \in Requests, reason \in {"UserDisconnect", "UserStop"} :
             EndRide(id, reason)
  BY <1>2, EndRideKept, Zenon DEF RideStep
<1>3. CASE \E id \in Requests,
              reason \in {"ReconnectExhausted", "UnrecoverableSessionFailure"} :
             Terminate(id, reason)
  BY <1>3, TerminateKept, Zenon DEF RideStep
<1>4. CASE \E id \in Requests : TransportDisconnected(id)
  BY <1>4, TransportDisconnectedKept, Zenon DEF RideStep
<1>5. CASE \E id \in Requests, differs \in BOOLEAN :
             EnterBackground(id, differs) \/ BecomeActive(id, differs)
             \/ FlushCompletes(id, differs)
  BY <1>5, EnterBackgroundKept, BecomeActiveKept, FlushCompletesKept, Zenon DEF RideStep
<1>6. CASE \E restored \in Platforms \cup {None} :
             \E at \in ReceiptTimes(1) : RecoverPersistedRide(restored, at)
  BY <1>6, RecoverKept, Zenon DEF RideStep
<1>7. CASE WorkerStep
  BY <1>7, DispatchKept, ClosureReturnsKept, ManagerKept, Zenon DEF WorkerStep, RideStep
<1>8. CASE PersistMarker
  BY <1>8, PersistMarkerKept, Zenon DEF RideStep
<1>9. CASE Crash
  <2>1. ~Alive
    BY <1>9 DEF Crash, Alive, AInv
  <2> QED
    BY <1>9, <2>1, CrashKept, Zenon DEF RideStep
<1>10. CASE UNCHANGED vars
  BY <1>10, NoStep, Zenon DEF AInv, vars, RideStep
<1> QED
  BY <1>1, <1>2, <1>3, <1>4, <1>5, <1>6, <1>7, <1>8, <1>9, <1>10 DEF Next

(***************************************************************************)
(* At every suspension of the coordinator its memory fits the call it has  *)
(* made: cleanup is for the current ride, a start finds no activity of the *)
(* ride on screen, and a recovery finds the ride untouched.  For any       *)
(* number of requests in any order, with any number of crashes.            *)
(***************************************************************************)
THEOREM InvariantHolds == Spec => []AInv
<1>1. Init => AInv
  BY InitAInv
<1>2. AInv /\ [Next]_vars => AInv'
  BY NextKept
<1> QED
  BY <1>1, <1>2, PTL DEF Spec

\* The ride and the queue have their types, and the payloads of a phase are there exactly
\* in that phase, which in the Rust code the enums of the ride give.
THEOREM TypeCorrect == Spec => []TypeOK
<1>1. AInv => TypeOK
  BY ZenonT(40) DEF AInv, Knows, Frame, Apps, RideKnows, TypeOK, Identities
<1> QED
  BY <1>1, InvariantHolds, PTL

\* An ending ride always has its cleanup waiting or under way, and cleanup never runs for
\* a ride other than the current one: finish_work hands terminal work out first, and
\* enqueue_terminal drops no obligation.
THEOREM CleanupIsScheduled == Spec => []CleanupMatchesRide
<1>1. AInv => CleanupMatchesRide
  BY ZenonT(40)
     DEF AInv, Knows, Frame, Suspended, WorkerKnows, Ends, CleanupMatchesRide, Cleaning, At
<1> QED
  BY <1>1, InvariantHolds, PTL

\* An activity the ride believes in is the one ActivityKit shows, and an end that skips the
\* manager leaves nothing on screen, also after crashes.
THEOREM ScreenIsAsBelieved == Spec => []ScreenIsKnown
<1>1. AInv => ScreenIsKnown
  BY DEF AInv, Knows, Frame, Visible, ScreenIsKnown
<1> QED
  BY <1>1, InvariantHolds, PTL

\* No late callback, telemetry, disconnect or scene change revives an ended ride.
THEOREM NothingRevives == Spec => EndedStaysEnded
<1>1. AInv /\ [Next]_vars =>
        [/\ Alive
         /\ app.ride.phase = "Ended"
         /\ app'.ride.identity = app.ride.identity
         => app'.ride.phase = "Ended"]_vars
  <2> SUFFICES ASSUME AInv, [Next]_vars, Alive, app.ride.phase = "Ended",
                      app'.ride.identity = app.ride.identity
               PROVE  app'.ride.phase = "Ended"
    OBVIOUS
  <2> QED
    BY NextKept, Zenon DEF RideStep, RideSteps, HandsOver
<1> QED
  BY <1>1, InvariantHolds, PTL DEF Spec, EndedStaysEnded

\* A live ride is replaced only when the manager has acknowledged the end of its activity,
\* which RideSession's start leaves to activity_ended.
THEOREM RidesTakeTurns == Spec => RidesDoNotOverlap
<1>1. AInv /\ [Next]_vars =>
        [Alive /\ IsLive(app.ride) /\ app'.ride.identity # app.ride.identity
           => At("end") /\ activities' = {}]_vars
  <2> SUFFICES ASSUME AInv, [Next]_vars, Alive, IsLive(app.ride),
                      app'.ride.identity # app.ride.identity
               PROVE  At("end") /\ activities' = {}
    OBVIOUS
  <2> QED
    BY NextKept, Zenon DEF RideStep, RideSteps, HandsOver
<1> QED
  BY <1>1, InvariantHolds, PTL DEF Spec, RidesDoNotOverlap

=============================================================================
