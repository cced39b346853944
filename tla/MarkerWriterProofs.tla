------------------------- MODULE MarkerWriterProofs -------------------------
(***************************************************************************)
(* For any markers and any number of requests, faults and crashes: a       *)
(* committed marker is durable, storage never goes back to an older        *)
(* intent, load returns nothing older than what was asked before it, and   *)
(* the older preference outlives its import.                               *)
(*                                                                         *)
(* All four rest on what the Rust state knows of storage.  The command in  *)
(* flight carries an intent no older than the stored one, so its commit    *)
(* cannot undo a newer write; and until that command has been answered     *)
(* with success, the acknowledged marker is the one in storage.            *)
(***************************************************************************)
EXTENDS MarkerWriter, SequenceTheorems, TLAPS

Receipts == {"queued", "ok", "error"}

Flights == [marker : Intents, n : Nat, receipt : Receipts]

Delays == 0 .. RetryAfter

WriteState ==
  [desired : Intents \cup {None}, acknowledged : Intents \cup {None},
   in_flight : Flights \cup {None}, retry : Delays, failed : BOOLEAN]

\* What the state s knows of the intents rq, of which storage holds number st, d.
Knows(s, d, st, rq) ==
  /\ s.desired # None => s.desired = rq[Len(rq)]
  /\ s.desired = None => s.in_flight = None
  /\ s.in_flight # None =>
       /\ s.in_flight.n \in 1 .. Len(rq)
       /\ s.in_flight.marker = rq[s.in_flight.n]
       /\ s.in_flight.receipt = "queued" => st <= s.in_flight.n
       /\ s.in_flight.receipt = "ok" => d = s.in_flight.marker
  /\ s.acknowledged # None /\ (s.in_flight = None \/ s.in_flight.receipt # "ok")
       => d = s.acknowledged

\* Storage holds one of the intents of the app.
History(d, st, rq) ==
  /\ rq \in Seq(Intents)
  /\ st \in 1 .. Len(rq)
  /\ d = rq[st]

LoadStates ==
  [pc : {"start", "wait", "imported", "remove", "read", "done", "failed"},
   since : Nat, result : Nat \cup {None}]

\* How far a load has come.
LoadKnows(l, s, st, rq) ==
  /\ l.since <= Len(rq)
  /\ l.pc \in {"read", "remove"} => l.since <= st
  /\ l.pc = "done" => l.result \in Nat /\ l.since <= l.result
  /\ l.pc = "imported" => s.desired # None
  /\ l.pc = "remove" => s.acknowledged # None

IInv ==
  /\ state \in WriteState
  /\ older \in Intents \cup {None}
  /\ loading \in LoadStates
  /\ History(durable, stored, requested)
  /\ Knows(state, durable, stored, requested)
  /\ Status(state) = "Committed" => stored = Len(requested)
  /\ task # None => state.desired # None
  /\ LoadKnows(loading, state, stored, requested)

-----------------------------------------------------------------------------
\* None is no intent.
LEMMA NoneIsNoIntent == None \notin Intents
BY MarkerAssumption DEF Intents

\* None is no command in flight.
LEMMA NoneIsNoFlight == None \notin Flights
BY MarkerAssumption DEF Intents, Flights, Receipts

\* The delays a command sets.
LEMMA DelayRange == 0 \in Delays /\ RetryAfter \in Delays
BY MarkerAssumption DEF Delays

\* Settling a finished command records what storage now holds.
LEMMA SettleKnows ==
  ASSUME NEW s \in WriteState, NEW d, NEW st, NEW rq, Knows(s, d, st, rq),
         s.in_flight # None => s.in_flight.receipt # "queued"
  PROVE  /\ Settle(s) \in WriteState
         /\ Settle(s).in_flight = None
         /\ Settle(s).desired = s.desired
         /\ s.acknowledged # None => Settle(s).acknowledged # None
         /\ Knows(Settle(s), d, st, rq)
<1>1. CASE s.in_flight = None
  BY <1>1 DEF Settle
<1>2. CASE s.in_flight # None
  BY <1>2, NoneIsNoIntent, DelayRange DEF Settle, Knows, WriteState, Flights
<1> QED
  BY <1>1, <1>2

\* A poll keeps what is known, the latest intent and that one was acknowledged.
LEMMA PollKnows ==
  ASSUME NEW s \in WriteState, NEW d, NEW st, NEW rq, Knows(s, d, st, rq),
         History(d, st, rq), NEW accepted \in BOOLEAN
  PROVE  LET p == Poll(s, accepted, Len(rq))
         IN  /\ p \in WriteState
             /\ p.desired = s.desired
             /\ s.acknowledged # None => p.acknowledged # None
             /\ Knows(p, d, st, rq)
<1> DEFINE p == Poll(s, accepted, Len(rq))
           settled == Settle(s)
<1>1. CASE s.in_flight # None /\ s.in_flight.receipt = "queued"
  BY <1>1 DEF Poll
<1>2. CASE ~(s.in_flight # None /\ s.in_flight.receipt = "queued")
  <2>1. /\ settled \in WriteState /\ settled.in_flight = None
        /\ settled.desired = s.desired
        /\ s.acknowledged # None => settled.acknowledged # None
        /\ Knows(settled, d, st, rq)
    BY <1>2, SettleKnows
  <2>2. \/ p = settled
        \/ /\ settled.desired # None
           /\ p = [settled EXCEPT !.in_flight = InFlight(settled.desired, Len(rq))]
        \/ p = [settled EXCEPT !.failed = TRUE, !.retry = RetryAfter]
    BY <1>2 DEF Poll
  <2> HIDE DEF p, settled
  <2>3. CASE p = settled
    BY <2>1, <2>3 DEF p
  <2>4. CASE /\ settled.desired # None
             /\ p = [settled EXCEPT !.in_flight = InFlight(settled.desired, Len(rq))]
    <3>1. Len(rq) \in Nat /\ st \in 1 .. Len(rq)
      BY DEF History
    <3>2. InFlight(settled.desired, Len(rq)) \in Flights
      BY <2>1, <2>4, <3>1 DEF InFlight, Flights, Receipts, WriteState
    <3>3. /\ p \in WriteState /\ p.desired = settled.desired
          /\ p.acknowledged = settled.acknowledged
          /\ p.in_flight = InFlight(settled.desired, Len(rq))
      BY <2>1, <2>4, <3>2 DEF WriteState
    <3>4. Knows(p, d, st, rq)
      BY <2>1, <2>4, <3>1, <3>3 DEF Knows, InFlight
    <3> QED
      BY <2>1, <3>3, <3>4 DEF p
  <2>5. CASE p = [settled EXCEPT !.failed = TRUE, !.retry = RetryAfter]
    <3>1. p \in WriteState /\ Knows(p, d, st, rq)
      BY <2>1, <2>5, DelayRange DEF Knows, WriteState
    <3> QED
      BY <2>1, <2>5, <3>1 DEF p, WriteState
  <2> QED
    BY <2>2, <2>3, <2>4, <2>5
<1> QED
  BY <1>1, <1>2

\* A new intent leaves what is known of the older ones alone.
LEMMA IntentKnows ==
  ASSUME NEW s \in WriteState, NEW d, NEW st, NEW rq, Knows(s, d, st, rq),
         History(d, st, rq), NEW intent \in Intents,
         NEW t \in {Desire(s, intent), Import(s, intent)}
  PROVE  /\ t \in WriteState /\ t.desired = intent /\ t.acknowledged = s.acknowledged
         /\ Knows(t, d, st, Append(rq, intent))
         /\ History(d, st, Append(rq, intent))
<1> DEFINE more == Append(rq, intent)
<1>1. /\ more \in Seq(Intents) /\ Len(more) = Len(rq) + 1 /\ Len(rq) \in Nat
      /\ more[Len(more)] = intent
      /\ \A i \in 1 .. Len(rq) : more[i] = rq[i]
  BY DEF History
<1>2. /\ t \in WriteState /\ t.desired = intent /\ t.acknowledged = s.acknowledged
      /\ t.in_flight = s.in_flight
  <2>1. CASE t = Desire(s, intent)
    BY <2>1, DelayRange DEF Desire, WriteState
  <2>2. CASE t = Import(s, intent)
    BY <2>2 DEF Import, WriteState
  <2> QED
    BY <2>1, <2>2
<1> HIDE DEF more
<1>3. Knows(t, d, st, more)
  BY <1>1, <1>2, NoneIsNoIntent DEF Knows
<1>4. History(d, st, more)
  BY <1>1 DEF History
<1> QED
  BY <1>2, <1>3, <1>4 DEF more

\* A committed intent is what storage holds.
LEMMA CommittedIsKnown ==
  ASSUME NEW s, NEW d, NEW st, NEW rq, Knows(s, d, st, rq),
         Status(s) = "Committed", s.desired # None
  PROVE  /\ s.in_flight = None
         /\ s.acknowledged = s.desired
         /\ d = s.desired
         /\ d = rq[Len(rq)]
BY DEF Knows, Status

\* Without an intent there is nothing to commit.
LEMMA UnsettledHasIntent ==
  ASSUME NEW s, NEW d, NEW st, NEW rq, Knows(s, d, st, rq), Status(s) # "Committed"
  PROVE  s.desired # None
BY DEF Knows, Status

\* A poll and the history it leaves: storage is found to hold the latest intent, or it
\* stays where it was.
LEMMA PollTracks ==
  ASSUME NEW s \in WriteState, NEW d, NEW st, NEW rq, Knows(s, d, st, rq),
         History(d, st, rq), s.desired # None, NEW accepted \in BOOLEAN,
         NEW p, p = Poll(s, accepted, Len(rq)),
         NEW now, now = IF Status(p) = "Committed" /\ p.desired # None THEN Len(rq) ELSE st
  PROVE  /\ p \in WriteState
         /\ p.desired = s.desired
         /\ s.acknowledged # None => p.acknowledged # None
         /\ Status(p) = "Committed" => p.acknowledged # None /\ now = Len(rq)
         /\ Knows(p, d, now, rq)
         /\ History(d, now, rq)
         /\ \/ now = st
            \/ now = Len(rq) /\ st <= now /\ d = rq[Len(rq)]
<1>1. /\ p \in WriteState /\ p.desired = s.desired
      /\ s.acknowledged # None => p.acknowledged # None
      /\ Knows(p, d, st, rq)
  BY PollKnows
<1>2. Len(rq) \in Nat /\ st \in 1 .. Len(rq)
  BY DEF History
<1>3. CASE Status(p) = "Committed"
  <2>1. /\ p.in_flight = None /\ p.acknowledged = p.desired
        /\ d = p.desired /\ d = rq[Len(rq)]
    BY <1>1, <1>3, CommittedIsKnown
  <2>2. now = Len(rq)
    BY <1>1, <1>3
  <2>3. Knows(p, d, now, rq)
    BY <1>1, <2>1 DEF Knows
  <2>4. History(d, now, rq)
    BY <1>2, <2>1, <2>2 DEF History
  <2> QED
    BY <1>1, <1>2, <2>1, <2>2, <2>3, <2>4
<1>4. CASE Status(p) # "Committed"
  <2>1. now = st
    BY <1>4
  <2> QED
    BY <1>1, <1>4, <2>1
<1> QED
  BY <1>3, <1>4

-----------------------------------------------------------------------------
\* The writer starts with what storage holds as its only intent.
LEMMA InitIInv == Init => IInv
<1> SUFFICES ASSUME Init PROVE IInv
  OBVIOUS
<1>1. state \in WriteState /\ loading \in LoadStates
  BY DelayRange DEF Init, NoWrites, Idle, WriteState, LoadStates
<1>2. History(durable, stored, requested) /\ Len(requested) = 1
  BY DEF Init, History
<1>3. Knows(state, durable, stored, requested)
  BY DEF Init, NoWrites, Knows
<1> QED
  BY <1>1, <1>2, <1>3 DEF Init, IInv, LoadKnows, Idle, NoWrites

\* What request, the import and the task's poll have in common: the intents rq, polled on
\* the state s.
Polled(s, accepted) ==
  /\ state' = Poll(s, accepted, Len(requested'))
  /\ Track(state')
  /\ durable' = durable

\* A poll on a state with an intent re-establishes what is known of storage.
LEMMA PolledKnows ==
  ASSUME NEW s \in WriteState, NEW accepted \in BOOLEAN, s.desired # None,
         Knows(s, durable, stored, requested'), History(durable, stored, requested'),
         Polled(s, accepted)
  PROVE  /\ state' \in WriteState
         /\ state'.desired = s.desired
         /\ s.acknowledged # None => state'.acknowledged # None
         /\ Status(state') = "Committed" =>
              state'.acknowledged # None /\ stored' = Len(requested')
         /\ Knows(state', durable', stored', requested')
         /\ History(durable', stored', requested')
         /\ \/ stored' = stored
            \/ /\ stored' = Len(requested') /\ stored <= stored'
               /\ durable = requested'[Len(requested')]
BY PollTracks DEF Polled, Track

\* The state that request polls: the intent is its latest.
LEMMA RequestKnows ==
  ASSUME IInv, NEW intent \in Intents, NEW accepted \in BOOLEAN,
         RequestMarker(intent, accepted)
  PROVE  \E s \in WriteState :
           /\ s.desired = intent /\ s.acknowledged = state.acknowledged
           /\ Knows(s, durable, stored, requested')
           /\ History(durable, stored, requested')
           /\ Polled(s, accepted)
           /\ requested' \in {requested, Append(requested, intent)}
           /\ Admit(state')
<1>1. CASE state.desired # intent
  <2>1. requested' = Append(requested, intent)
    BY <1>1 DEF RequestMarker
  <2>2. Polled(Desire(state, intent), accepted) /\ Admit(state')
    BY <1>1 DEF RequestMarker, Admit, Polled
  <2>3. /\ Desire(state, intent) \in WriteState /\ Desire(state, intent).desired = intent
        /\ Desire(state, intent).acknowledged = state.acknowledged
        /\ Knows(Desire(state, intent), durable, stored, requested')
        /\ History(durable, stored, requested')
    BY <2>1, IntentKnows DEF IInv
  <2> QED
    BY <2>1, <2>2, <2>3
<1>2. CASE state.desired = intent
  <2>1. requested' = requested /\ Polled(state, accepted) /\ Admit(state')
    BY <1>2 DEF RequestMarker, Admit, Polled
  <2> QED
    BY <1>2, <2>1 DEF IInv
<1> QED
  BY <1>1, <1>2

\* The state that load polls when there is a preference to import.
LEMMA LoadImports ==
  ASSUME IInv, NEW accepted \in BOOLEAN, Load(accepted), older # None
  PROVE  \E s \in WriteState :
           /\ s.desired # None /\ s.acknowledged = state.acknowledged
           /\ Knows(s, durable, stored, requested')
           /\ History(durable, stored, requested')
           /\ Polled(s, accepted)
           /\ requested' \in {requested, Append(requested, older)}
           /\ Admit(state')
<1>0. older \in Intents
  BY DEF IInv
<1>1. CASE state.desired = None
  <2>1. requested' = Append(requested, older)
    BY <1>1 DEF Load
  <2>2. Polled(Import(state, older), accepted) /\ Admit(state')
    BY <1>1 DEF Load, Admit, Polled
  <2>3. /\ Import(state, older) \in WriteState /\ Import(state, older).desired = older
        /\ Import(state, older).acknowledged = state.acknowledged
        /\ Knows(Import(state, older), durable, stored, requested')
        /\ History(durable, stored, requested')
    BY <1>0, <2>1, IntentKnows DEF IInv
  <2> QED
    BY <2>1, <2>2, <2>3
<1>2. CASE state.desired # None
  <2>1. requested' = requested /\ Polled(state, accepted) /\ Admit(state')
    BY <1>2 DEF Load, Admit, Polled
  <2> QED
    BY <1>2, <2>1 DEF IInv
<1> QED
  BY <1>1, <1>2

\* A load keeps what it knows while the intents grow and storage moves forward.
LEMMA LoadKept ==
  ASSUME IInv, UNCHANGED loading, stored <= stored', Len(requested) <= Len(requested'),
         stored' \in Nat, Len(requested') \in Nat, Len(requested) \in Nat, stored \in Nat,
         state.desired # None => state'.desired # None,
         state.acknowledged # None => state'.acknowledged # None
  PROVE  loading' \in LoadStates /\ LoadKnows(loading', state', stored', requested')
BY DEF IInv, LoadKnows, LoadStates

\* A new intent adds one to the intents.
LEMMA IntentsGrow ==
  ASSUME IInv, NEW intent \in Intents, requested' \in {requested, Append(requested, intent)}
  PROVE  /\ Len(requested) \in Nat /\ Len(requested') \in Nat /\ stored \in Nat
         /\ stored <= Len(requested) /\ Len(requested) <= Len(requested')
BY DEF IInv, History

LEMMA RequestKeepsIInv ==
  ASSUME IInv, NEW intent \in Intents, NEW accepted \in BOOLEAN,
         RequestMarker(intent, accepted)
  PROVE  IInv' /\ stored <= stored'
<1>1. PICK s \in WriteState :
        /\ s.desired = intent /\ s.acknowledged = state.acknowledged
        /\ Knows(s, durable, stored, requested')
        /\ History(durable, stored, requested')
        /\ Polled(s, accepted)
        /\ requested' \in {requested, Append(requested, intent)}
        /\ Admit(state')
  BY RequestKnows
<1>2. s.desired # None
  BY <1>1, NoneIsNoIntent
<1>3. /\ state' \in WriteState /\ state'.desired = intent
      /\ state.acknowledged # None => state'.acknowledged # None
      /\ Status(state') = "Committed" => stored' = Len(requested')
      /\ Knows(state', durable', stored', requested')
      /\ History(durable', stored', requested')
      /\ stored' = stored \/ stored <= stored'
  BY <1>1, <1>2, PolledKnows
<1>4. /\ Len(requested) \in Nat /\ Len(requested') \in Nat /\ stored \in Nat
      /\ Len(requested) <= Len(requested')
  BY <1>1, IntentsGrow
<1>5. stored' \in Nat /\ stored <= stored'
  BY <1>3, <1>4 DEF History
<1>6. loading' \in LoadStates /\ LoadKnows(loading', state', stored', requested')
  BY <1>1, <1>2, <1>3, <1>4, <1>5, LoadKept DEF RequestMarker
<1>7. older' \in Intents \cup {None}
  BY <1>1 DEF Admit, IInv
<1> QED
  BY <1>1, <1>2, <1>3, <1>5, <1>6, <1>7 DEF IInv

LEMMA LoadKeepsIInv ==
  ASSUME IInv, NEW accepted \in BOOLEAN, Load(accepted)
  PROVE  IInv' /\ stored <= stored'
<1>1. CASE older = None
  <2>1. /\ UNCHANGED <<state, older, task, stored, durable, requested>>
        /\ loading' = [loading EXCEPT !.pc = "wait", !.since = Len(requested)]
    BY <1>1 DEF Load
  <2>2. Len(requested) \in Nat /\ stored \in Nat
    BY DEF IInv, History
  <2>3. loading' \in LoadStates /\ LoadKnows(loading', state', stored', requested')
    <3>1. /\ loading' \in LoadStates
          /\ loading'.pc = "wait" /\ loading'.since = Len(requested)
      BY <2>1, <2>2 DEF IInv, LoadStates
    <3> QED
      BY <2>1, <2>2, <3>1 DEF LoadKnows
  <2>4. Status(state') = Status(state)
    BY <2>1
  <2> QED
    BY <2>1, <2>2, <2>3, <2>4 DEF IInv
<1>2. CASE older # None
  <2>1. PICK s \in WriteState :
          /\ s.desired # None /\ s.acknowledged = state.acknowledged
          /\ Knows(s, durable, stored, requested')
          /\ History(durable, stored, requested')
          /\ Polled(s, accepted)
          /\ requested' \in {requested, Append(requested, older)}
          /\ Admit(state')
    BY <1>2, LoadImports
  <2>2. /\ state' \in WriteState /\ state'.desired # None
        /\ Status(state') = "Committed" => stored' = Len(requested')
        /\ Knows(state', durable', stored', requested')
        /\ History(durable', stored', requested')
        /\ stored' = stored \/ stored <= stored'
    BY <2>1, PolledKnows
  <2>3. Len(requested') \in Nat /\ stored \in Nat /\ stored' \in Nat /\ stored <= stored'
    <3>1. older \in Intents
      BY <1>2 DEF IInv
    <3>2. Len(requested') \in Nat /\ stored \in Nat
      BY <2>1, <3>1, IntentsGrow
    <3> QED
      BY <2>2, <3>2 DEF History
  <2>4. loading' = [loading EXCEPT !.pc = "imported", !.since = Len(requested')]
    BY <1>2 DEF Load
  <2>5. loading' \in LoadStates /\ LoadKnows(loading', state', stored', requested')
    <3>1. /\ loading' \in LoadStates
          /\ loading'.pc = "imported" /\ loading'.since = Len(requested')
      BY <2>3, <2>4 DEF IInv, LoadStates
    <3> QED
      BY <2>2, <2>3, <3>1 DEF LoadKnows
  <2>6. older' \in Intents \cup {None}
    BY <2>1 DEF Admit, IInv
  <2> QED
    BY <2>2, <2>3, <2>5, <2>6 DEF IInv
<1> QED
  BY <1>1, <1>2

LEMMA TaskPollsKeepsIInv ==
  ASSUME IInv, NEW accepted \in BOOLEAN, TaskPolls(accepted)
  PROVE  IInv' /\ stored <= stored'
<1>1. /\ state \in WriteState /\ state.desired # None /\ Polled(state, accepted)
      /\ Knows(state, durable, stored, requested')
      /\ History(durable, stored, requested')
      /\ UNCHANGED <<requested, loading, older>>
  BY DEF IInv, TaskPolls, TaskAt, Polled
<1>2. /\ state' \in WriteState /\ state'.desired # None
      /\ state.acknowledged # None => state'.acknowledged # None
      /\ Status(state') = "Committed" => stored' = Len(requested')
      /\ Knows(state', durable', stored', requested')
      /\ History(durable', stored', requested')
      /\ stored' = stored \/ stored <= stored'
  BY <1>1, PolledKnows
<1>3. Len(requested) \in Nat /\ stored \in Nat /\ stored' \in Nat /\ stored <= stored'
  BY <1>1, <1>2 DEF History
<1>4. loading' \in LoadStates /\ LoadKnows(loading', state', stored', requested')
  BY <1>1, <1>2, <1>3, LoadKept
<1> QED
  BY <1>1, <1>2, <1>3, <1>4 DEF IInv

\* The steps that leave storage, the intents and what the state knows of them alone.
LEMMA QuietStep ==
  ASSUME IInv, UNCHANGED <<durable, requested, stored>>,
         state' \in WriteState, state'.desired = state.desired,
         state'.acknowledged = state.acknowledged,
         state'.in_flight = state.in_flight,
         older' \in {older, None},
         task' # None => state.desired # None,
         loading' \in LoadStates, LoadKnows(loading', state, stored, requested)
  PROVE  IInv' /\ stored <= stored'
<1>1. Knows(state', durable', stored', requested')
  BY DEF IInv, Knows
<1>2. Status(state') = "Committed" => Status(state) = "Committed"
  BY DEF Status
<1>3. History(durable', stored', requested') /\ stored <= stored'
  BY DEF IInv, History
<1>4. LoadKnows(loading', state', stored', requested')
  BY DEF LoadKnows
<1> QED
  BY <1>1, <1>2, <1>3, <1>4 DEF IInv

LEMMA LoadWaitsKeepsIInv ==
  ASSUME IInv, LoadWaits
  PROVE  IInv' /\ stored <= stored'
<1>1. UNCHANGED <<state, durable, older, requested, stored>>
  BY DEF LoadWaits
<1>2. Len(requested) \in Nat /\ stored \in Nat /\ stored <= Len(requested)
  BY DEF IInv, History
<1>3. CASE Status(state) = "Committed"
  <2>1. /\ loading.pc \in {"wait", "imported"} /\ task' = task
        /\ loading' = [loading EXCEPT !.pc = IF @ = "wait" THEN "read" ELSE "remove"]
    BY <1>3 DEF LoadWaits
  <2>2. /\ loading' \in LoadStates /\ loading'.since = loading.since
        /\ loading'.pc \in {"read", "remove"}
        /\ loading'.pc = "remove" => loading.pc = "imported"
    BY <2>1 DEF IInv, LoadStates
  <2>3. loading.pc = "imported" => state.acknowledged # None
    BY <1>3, CommittedIsKnown DEF IInv, LoadKnows
  <2>4. LoadKnows(loading', state, stored, requested)
    BY <1>2, <1>3, <2>2, <2>3 DEF IInv, LoadKnows
  <2> QED
    BY <1>1, <2>1, <2>2, <2>4, QuietStep DEF IInv
<1>4. CASE Status(state) # "Committed"
  <2>1. loading' = loading
    BY <1>4 DEF LoadWaits
  <2>2. state.desired # None
    BY <1>4, UnsettledHasIntent DEF IInv
  <2> QED
    BY <1>1, <2>1, <2>2, QuietStep DEF IInv
<1> QED
  BY <1>3, <1>4

LEMMA LoadRemovesKeepsIInv ==
  ASSUME IInv, LoadRemovesPreference
  PROVE  IInv' /\ stored <= stored'
<1>1. /\ loading' \in LoadStates /\ loading.pc = "remove"
      /\ loading'.pc = "read" /\ loading'.since = loading.since
  BY DEF LoadRemovesPreference, IInv, LoadStates
<1>2. LoadKnows(loading', state, stored, requested)
  BY <1>1 DEF IInv, LoadKnows
<1> QED
  BY <1>1, <1>2, QuietStep DEF LoadRemovesPreference, IInv

LEMMA LoadReadsKeepsIInv ==
  ASSUME IInv, LoadReads
  PROVE  IInv' /\ stored <= stored'
<1>0. stored \in Nat
  BY DEF IInv, History
<1>1. \/ loading' = [loading EXCEPT !.pc = "done", !.result = stored]
      \/ loading' = [loading EXCEPT !.pc = "failed"]
  BY DEF LoadReads
<1>2. /\ loading' \in LoadStates /\ loading'.since = loading.since
      /\ loading'.pc \in {"done", "failed"}
      /\ loading'.pc = "done" => loading'.result = stored
  BY <1>0, <1>1 DEF IInv, LoadStates
<1>3. loading.pc = "read"
  BY DEF LoadReads
<1>4. LoadKnows(loading', state, stored, requested)
  BY <1>0, <1>2, <1>3 DEF IInv, LoadKnows
<1> QED
  BY <1>2, <1>4, QuietStep DEF LoadReads, IInv

LEMMA TaskKeepsIInv ==
  ASSUME IInv, TaskRecovers \/ TaskChecks
  PROVE  IInv' /\ stored <= stored'
<1>1. /\ UNCHANGED <<state, loading, durable, requested, stored>>
      /\ task # None /\ older' \in {older, None}
  BY DEF TaskRecovers, TaskChecks, TaskAt
<1> QED
  BY <1>1, QuietStep DEF IInv

LEMMA TickKeepsIInv ==
  ASSUME IInv, Tick
  PROVE  IInv' /\ stored <= stored'
<1>0. state.retry - 1 \in Delays
  BY MarkerAssumption DEF IInv, Tick, WriteState, Delays
<1>1. /\ state' \in WriteState /\ state'.desired = state.desired
      /\ state'.acknowledged = state.acknowledged /\ state'.in_flight = state.in_flight
  BY <1>0 DEF IInv, Tick, WriteState
<1> QED
  BY <1>1, QuietStep DEF IInv, Tick

\* The answer to a queued command.
LEMMA AnswerKeeps ==
  ASSUME IInv, Queued, NEW receipt \in Receipts, Answer(receipt)
  PROVE  /\ state' \in WriteState
         /\ state'.desired = state.desired /\ state'.acknowledged = state.acknowledged
         /\ state'.in_flight = [state.in_flight EXCEPT !.receipt = receipt]
         /\ Status(state') # "Committed"
         /\ state'.in_flight \in Flights /\ state'.in_flight # None
         /\ state'.in_flight.receipt = receipt
         /\ state'.in_flight.marker = state.in_flight.marker
         /\ state'.in_flight.n = state.in_flight.n
<1>1. state \in WriteState /\ state.in_flight \in Flights
  BY DEF IInv, Queued, WriteState
<1>2. [state.in_flight EXCEPT !.receipt = receipt] \in Flights
  BY <1>1 DEF Flights
<1>3. state' = [state EXCEPT !.in_flight = [state.in_flight EXCEPT !.receipt = receipt]]
  BY DEF Answer
<1>4. /\ state' \in WriteState
      /\ state'.desired = state.desired /\ state'.acknowledged = state.acknowledged
      /\ state'.in_flight = [state.in_flight EXCEPT !.receipt = receipt]
  BY <1>1, <1>2, <1>3 DEF WriteState
<1>5. state'.in_flight # None /\ Status(state') # "Committed"
  BY <1>2, <1>4, NoneIsNoFlight DEF Status
<1> QED
  BY <1>1, <1>2, <1>4, <1>5 DEF Flights

\* The command in flight is no older than what is stored: its commit moves storage forward.
LEMMA CommitKeepsIInv ==
  ASSUME IInv, WorkerCommits
  PROVE  IInv' /\ stored <= stored'
<1> DEFINE f == state.in_flight
<1>1. Queued /\ Answer("ok") /\ durable' = f.marker /\ stored' = f.n
      /\ UNCHANGED <<task, loading, older, requested>>
  BY DEF WorkerCommits
<1>2. /\ state' \in WriteState
      /\ state'.desired = state.desired /\ state'.acknowledged = state.acknowledged
      /\ Status(state') # "Committed"
      /\ state'.in_flight # None /\ state'.in_flight.receipt = "ok"
      /\ state'.in_flight.marker = f.marker /\ state'.in_flight.n = f.n
  BY <1>1, AnswerKeeps DEF Receipts
<1>3. /\ Len(requested) \in Nat /\ stored \in Nat /\ f # None
      /\ f.n \in 1 .. Len(requested) /\ f.marker = requested[f.n] /\ stored <= f.n
  BY <1>1 DEF IInv, History, Knows, Queued
<1>4. Knows(state', durable', stored', requested')
  BY <1>1, <1>2, <1>3 DEF IInv, Knows
<1>5. History(durable', stored', requested') /\ stored <= stored'
  BY <1>1, <1>3 DEF IInv, History
<1>6. loading' \in LoadStates /\ LoadKnows(loading', state', stored', requested')
  BY <1>1, <1>2, <1>3, <1>5, LoadKept
<1> QED
  BY <1>1, <1>2, <1>4, <1>5, <1>6 DEF IInv

\* A command that is refused, or lost with its worker, leaves storage as it was.
LEMMA FailureKeepsIInv ==
  ASSUME IInv, WorkerRejects \/ WorkerStops
  PROVE  IInv' /\ stored <= stored'
<1>1. UNCHANGED <<task, loading, durable, older, requested, stored>>
  BY DEF WorkerRejects, WorkerStops
<1>2. CASE Queued /\ Answer("error")
  <2>1. /\ state' \in WriteState
        /\ state'.desired = state.desired /\ state'.acknowledged = state.acknowledged
        /\ Status(state') # "Committed"
        /\ state'.in_flight # None /\ state'.in_flight.receipt = "error"
        /\ state'.in_flight.marker = state.in_flight.marker
        /\ state'.in_flight.n = state.in_flight.n
    BY <1>2, AnswerKeeps DEF Receipts
  <2>2. Knows(state', durable', stored', requested')
    BY <1>1, <1>2, <2>1 DEF IInv, Knows, Queued
  <2>3. History(durable', stored', requested') /\ stored <= stored'
    BY <1>1 DEF IInv, History
  <2>4. LoadKnows(loading', state', stored', requested')
    BY <1>1, <2>1 DEF IInv, LoadKnows
  <2> QED
    BY <1>1, <2>1, <2>2, <2>3, <2>4 DEF IInv
<1>3. CASE UNCHANGED state
  BY <1>1, <1>3, QuietStep DEF IInv
<1> QED
  BY <1>2, <1>3 DEF WorkerRejects, WorkerStops

\* A process death leaves the stored intents.
LEMMA CrashKeepsIInv ==
  ASSUME IInv, Crash
  PROVE  IInv'
<1>1. /\ state' = NoWrites /\ loading' = Idle /\ task' = None
      /\ requested' = SubSeq(requested, 1, stored)
      /\ UNCHANGED <<durable, older, stored>>
  BY DEF Crash
<1>2. requested \in Seq(Intents) /\ stored \in 1 .. Len(requested) /\ durable = requested[stored]
  BY DEF IInv, History
<1>3. /\ requested' \in Seq(Intents) /\ Len(requested') = stored
      /\ requested'[stored] = durable
  <2>1. \A i \in 1 .. stored : requested[i] \in Intents
    BY <1>2
  <2> QED
    BY <1>1, <1>2, <2>1, SubSeqProperties
<1>4. History(durable', stored', requested')
  BY <1>1, <1>2, <1>3 DEF History
<1>5. state' \in WriteState /\ Knows(state', durable', stored', requested')
  BY <1>1, DelayRange DEF NoWrites, WriteState, Knows
<1>6. loading' \in LoadStates /\ LoadKnows(loading', state', stored', requested')
  BY <1>1, <1>2, <1>3 DEF Idle, LoadStates, LoadKnows
<1> QED
  BY <1>1, <1>3, <1>4, <1>5, <1>6 DEF IInv

\* Every step keeps the invariant, and none but a process death moves storage back.
LEMMA NextKeepsIInv ==
  ASSUME IInv, [Next]_vars
  PROVE  IInv'
<1>1. CASE \E intent \in Intents, accepted \in BOOLEAN : RequestMarker(intent, accepted)
  BY <1>1, RequestKeepsIInv
<1>2. CASE LoadStep
  BY <1>2, LoadKeepsIInv, LoadWaitsKeepsIInv, LoadRemovesKeepsIInv, LoadReadsKeepsIInv
  DEF LoadStep
<1>3. CASE TaskStep
  BY <1>3, TaskKeepsIInv, TaskPollsKeepsIInv DEF TaskStep
<1>4. CASE WorkerCommits \/ WorkerRejects \/ WorkerStops
  BY <1>4, CommitKeepsIInv, FailureKeepsIInv
<1>5. CASE Tick
  BY <1>5, TickKeepsIInv
<1>6. CASE Crash
  BY <1>6, CrashKeepsIInv
<1>7. CASE UNCHANGED vars
  BY <1>7, QuietStep DEF vars, IInv
<1> QED
  BY <1>1, <1>2, <1>3, <1>4, <1>5, <1>6, <1>7 DEF Next

\* The inductive invariant holds in every behaviour of the writer: what MarkerWriteState
\* records of its commands is what the database holds.
THEOREM InvariantHolds == Spec => []IInv
BY InitIInv, NextKeepsIInv, PTL DEF Spec

\* The writer, storage and the history are well typed.
THEOREM TypeCorrect == Spec => []TypeOK
<1>1. IInv => TypeOK
  BY DEF IInv, TypeOK, WriteState, Delays, Flights, Receipts, History
<1> QED
  BY <1>1, InvariantHolds, PTL

\* A status of Committed means that the latest request is in storage.
THEOREM CommittedMarkerIsDurable == Spec => []CommittedIsDurable
<1>1. IInv => CommittedIsDurable
  BY CommittedIsKnown DEF IInv, CommittedIsDurable
<1> QED
  BY <1>1, InvariantHolds, PTL

\* load returns nothing older than the intents admitted before it began.
THEOREM LoadIsCurrent == Spec => []LoadSeesEarlierIntents
<1>1. IInv => LoadSeesEarlierIntents
  BY DEF IInv, LoadKnows, LoadSeesEarlierIntents, LoadStates
<1> QED
  BY <1>1, InvariantHolds, PTL

-----------------------------------------------------------------------------
\* An admitted intent is acknowledged before the preference goes.
LEMMA AdmitKeepsPreference ==
  ASSUME NEW s \in WriteState, NEW accepted \in BOOLEAN, s.desired # None,
         Knows(s, durable, stored, requested'), History(durable, stored, requested'),
         Polled(s, accepted), Admit(state'), older # None, older' = None
  PROVE  state'.acknowledged # None
<1>1. Status(state') = "Committed"
  BY DEF Admit
<1> QED
  BY <1>1, PolledKnows

\* The preference of the older app is removed only after storage has acknowledged an intent
\* of this process: by request, by load, or by the native task.
THEOREM PreferenceIsSafe == Spec => PreferenceOutlivesImport
<1>1. ASSUME IInv, [Next]_vars, older # None, older' = None
      PROVE  state'.acknowledged # None
  <2>1. CASE \E intent \in Intents, accepted \in BOOLEAN : RequestMarker(intent, accepted)
    <3>1. PICK intent \in Intents, accepted \in BOOLEAN : RequestMarker(intent, accepted)
      BY <2>1
    <3> QED
      BY <1>1, <3>1, RequestKnows, AdmitKeepsPreference, NoneIsNoIntent
  <2>2. CASE \E accepted \in BOOLEAN : Load(accepted)
    BY <1>1, <2>2, LoadImports, AdmitKeepsPreference
  <2>3. CASE LoadRemovesPreference
    BY <1>1, <2>3 DEF LoadRemovesPreference, IInv, LoadKnows
  <2>4. CASE TaskChecks
    <3>1. /\ state' = state /\ state.desired # None
          /\ Status(state) = "Committed" /\ Knows(state, durable, stored, requested)
      BY <1>1, <2>4 DEF TaskChecks, TaskAt, IInv
    <3> QED
      BY <3>1, CommittedIsKnown
  <2>5. CASE \/ LoadWaits \/ LoadReads \/ TaskRecovers
             \/ \E accepted \in BOOLEAN : TaskPolls(accepted)
    BY <1>1, <2>5 DEF LoadWaits, LoadReads, TaskRecovers, TaskPolls
  <2>6. CASE WorkerCommits \/ WorkerRejects \/ WorkerStops \/ Tick \/ Crash
    BY <1>1, <2>6 DEF WorkerCommits, WorkerRejects, WorkerStops, Tick, Crash
  <2>7. CASE UNCHANGED vars
    BY <1>1, <2>7 DEF vars
  <2> QED
    BY <1>1, <2>1, <2>2, <2>3, <2>4, <2>5, <2>6, <2>7 DEF Next, LoadStep, TaskStep
<1>2. IInv /\ [Next]_vars => [older # None /\ older' = None => state'.acknowledged # None]_vars
  BY <1>1
<1> QED
  BY <1>2, InvariantHolds, PTL DEF Spec, PreferenceOutlivesImport

-----------------------------------------------------------------------------
regvars == <<requested, stored, durable>>

\* A poll that finds the latest intent in storage is a Store of the register, and with a
\* new intent it is a Request.
LEMMA PolledIsRegister ==
  ASSUME IInv, NEW s \in WriteState, NEW accepted \in BOOLEAN, NEW intent \in Intents,
         s.desired # None,
         Knows(s, durable, stored, requested'), History(durable, stored, requested'),
         Polled(s, accepted), requested' \in {requested, Append(requested, intent)}
  PROVE  [Register!RegisterNext]_regvars
<1>1. /\ durable' = durable
      /\ \/ stored' = stored
         \/ /\ stored' = Len(requested') /\ stored <= stored'
            /\ durable = requested'[Len(requested')]
  BY PolledKnows DEF Polled
<1>2. requested \in Seq(Intents) /\ stored \in 1 .. Len(requested)
  BY DEF IInv, History
<1>3. CASE requested' = requested
  <2>1. CASE stored' = stored
    BY <1>1, <1>3, <2>1 DEF regvars
  <2>2. CASE stored' # stored
    <3>1. stored' \in stored + 1 .. Len(requested) /\ durable' = requested[stored']
      BY <1>1, <1>2, <1>3, <2>2
    <3> QED
      BY <1>3, <3>1 DEF Register!RegisterNext, Register!Store
  <2> QED
    BY <2>1, <2>2
<1>4. CASE requested' = Append(requested, intent)
  <2>1. requested'[Len(requested')] = intent
    BY <1>2, <1>4
  <2>2. Register!Request(intent)
    BY <1>1, <1>4, <2>1 DEF Register!Request
  <2> QED
    BY <2>2 DEF Register!RegisterNext
<1> QED
  BY <1>3, <1>4

\* Each step of the writer is a step of the register, or none.
LEMMA RegisterStep ==
  ASSUME IInv, [Next]_vars
  PROVE  [Register!RegisterNext]_regvars
<1>1. CASE \E intent \in Intents, accepted \in BOOLEAN : RequestMarker(intent, accepted)
  <2>1. PICK intent \in Intents, accepted \in BOOLEAN : RequestMarker(intent, accepted)
    BY <1>1
  <2> QED
    BY <2>1, RequestKnows, PolledIsRegister, NoneIsNoIntent
<1>2. CASE \E accepted \in BOOLEAN : Load(accepted)
  <2>1. PICK accepted \in BOOLEAN : Load(accepted)
    BY <1>2
  <2>2. CASE older = None
    BY <2>1, <2>2 DEF Load, regvars
  <2>3. CASE older # None
    <3>1. older \in Intents
      BY <2>3 DEF IInv
    <3> QED
      BY <2>1, <2>3, <3>1, LoadImports, PolledIsRegister
  <2> QED
    BY <2>2, <2>3
<1>3. CASE \E accepted \in BOOLEAN : TaskPolls(accepted)
  <2>1. PICK accepted \in BOOLEAN : TaskPolls(accepted)
    BY <1>3
  <2>2. /\ state \in WriteState /\ state.desired # None /\ Polled(state, accepted)
        /\ Knows(state, durable, stored, requested')
        /\ History(durable, stored, requested')
        /\ requested' = requested /\ state.desired \in Intents
    BY <2>1 DEF IInv, TaskPolls, TaskAt, Polled, WriteState
  <2> QED
    BY <2>2, PolledIsRegister
<1>4. CASE WorkerCommits
  <2> DEFINE f == state.in_flight
  <2>1. /\ Len(requested) \in Nat /\ stored \in Nat /\ durable = requested[stored]
        /\ f.n \in 1 .. Len(requested) /\ f.marker = requested[f.n] /\ stored <= f.n
    BY <1>4 DEF WorkerCommits, IInv, History, Knows, Queued
  <2>2. durable' = f.marker /\ stored' = f.n /\ requested' = requested
    BY <1>4 DEF WorkerCommits
  <2>3. CASE f.n = stored
    BY <2>1, <2>2, <2>3 DEF regvars
  <2>4. CASE f.n # stored
    <3>1. stored' \in stored + 1 .. Len(requested) /\ durable' = requested[stored']
      BY <2>1, <2>2, <2>4
    <3> QED
      BY <2>2, <3>1 DEF Register!RegisterNext, Register!Store
  <2> QED
    BY <2>3, <2>4
<1>5. CASE Crash
  BY <1>5 DEF Crash, Register!RegisterNext, Register!Forget
<1>6. CASE LoadWaits \/ LoadRemovesPreference \/ LoadReads \/ TaskRecovers \/ TaskChecks
  BY <1>6 DEF LoadWaits, LoadRemovesPreference, LoadReads, TaskRecovers, TaskChecks, regvars
<1>7. CASE WorkerRejects \/ WorkerStops \/ Tick
  BY <1>7 DEF WorkerRejects, WorkerStops, Tick, regvars
<1>8. CASE UNCHANGED vars
  BY <1>8 DEF vars, regvars
<1> QED
  BY <1>1, <1>2, <1>3, <1>4, <1>5, <1>6, <1>7, <1>8 DEF Next, LoadStep, TaskStep

\* The writer implements MarkerRegister: storage only ever moves to a newer intent of the
\* app, whatever commands are late, refused or lost, and a process death takes it back to
\* no older one.
THEOREM RegisterIsImplemented == Spec => ImplementsRegister
<1>1. Init => Register!RegisterInit
  BY DEF Init, Register!RegisterInit
<1>2. IInv /\ [Next]_vars => [Register!RegisterNext]_<<requested, stored, durable>>
  BY RegisterStep DEF regvars
<1> QED
  BY <1>1, <1>2, InvariantHolds, PTL DEF Spec, ImplementsRegister, Register!RegisterSpec
=============================================================================
