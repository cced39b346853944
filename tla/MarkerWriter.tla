---------------------------- MODULE MarkerWriter ----------------------------
(***************************************************************************)
(* The writer of the ride marker: the Rust state shared by every caller    *)
(* (src/crates/libcutout-persistence/src/ride_session_marker.rs), the one  *)
(* native polling task that drives it, and the import of the preference in *)
(* which an older app kept the marker (src/swift/CutoutMobile/Sources/     *)
(* CutoutMobile/RideSessionMarkerStore.swift).                             *)
(*                                                                         *)
(* The database worker takes a command from its queue, commits and answers *)
(* in one step; a worker that stops drops the commands it has queued, and  *)
(* a handle made for it can queue no more.                                 *)
(***************************************************************************)
EXTENDS Naturals, Sequences

CONSTANTS
  Markers,      \* marker contents
  Clear,        \* the intent to have no marker
  None,
  RetryAfter,   \* RETRY_AFTER_MS, in ticks
  MaxRequests,  \* bound: calls of request
  MaxFaults,    \* bound: rejected commands, full queues, failed reopenings, stopped workers
  MaxCrashes    \* bound: process deaths

ASSUME MarkerAssumption ==
  /\ Clear \notin Markers /\ None \notin Markers \cup {Clear}
  /\ None \notin [marker : Markers \cup {Clear}, n : Nat, receipt : {"queued", "ok", "error"}]
  /\ RetryAfter \in Nat /\ MaxRequests \in Nat /\ MaxFaults \in Nat /\ MaxCrashes \in Nat

Intents == Markers \cup {Clear}

VARIABLES
  state,      \* MarkerWriteState
  task,       \* the native polling task, or None
  loading,    \* load(): the app reads the marker at launch
  worker,     \* the database worker of this process: its number, and whether it runs
  durable,    \* the marker in storage, Clear when there is none
  older,      \* the preference of an older app, or None
  requested,  \* history: every intent, as in MarkerRegister
  stored,     \* history: the latest intent that storage has caught up with
  calls, faults, crashes

vars == <<state, task, loading, worker, durable, older, requested, stored, calls, faults,
          crashes>>

NoWrites ==
  [desired |-> None, acknowledged |-> None, in_flight |-> None, retry |-> 0, failed |-> FALSE]

Idle == [pc |-> "start", since |-> 0, result |-> None]

\* A command in the queue of a worker, and its receipt.  n: which request it carries.
InFlight(marker, n) == [marker |-> marker, n |-> n, receipt |-> "queued"]

\* MarkerWriteState::status
Status(s) ==
  IF s.in_flight # None THEN "Pending"
  ELSE IF s.desired \in {None, s.acknowledged} THEN "Committed"
  ELSE IF s.failed THEN "Retrying"
  ELSE "Pending"

Settle_AcknowledgesDesired(s) ==
  LET f == s.in_flight
  IN  IF f = None THEN s
      ELSE IF f.receipt = "ok"
      THEN [s EXCEPT !.in_flight = None, !.acknowledged = s.desired, !.failed = FALSE, !.retry = 0]
      ELSE IF s.desired = f.marker
      THEN [s EXCEPT !.in_flight = None, !.failed = TRUE, !.retry = RetryAfter]
      ELSE [s EXCEPT !.in_flight = None]

\* The receipt of a finished command.
Settle(s) ==
  LET f == s.in_flight
  IN  IF f = None THEN s
      ELSE IF f.receipt = "ok"
      THEN [s EXCEPT !.in_flight = None, !.acknowledged = f.marker, !.failed = FALSE, !.retry = 0]
      ELSE IF s.desired = f.marker
      THEN [s EXCEPT !.in_flight = None, !.failed = TRUE, !.retry = RetryAfter]
      ELSE [s EXCEPT !.in_flight = None]

\* MarkerWriteState::poll; n is the number of the latest request.
Poll(s, accepted, n) ==
  LET settled == Settle(s)
  IN  IF s.in_flight # None /\ s.in_flight.receipt = "queued" THEN s
      ELSE IF settled.desired \in {None, settled.acknowledged} \/ settled.retry > 0 THEN settled
      ELSE IF accepted THEN [settled EXCEPT !.in_flight = InFlight(settled.desired, n)]
      ELSE [settled EXCEPT !.failed = TRUE, !.retry = RetryAfter]

\* request and migrate before they poll.
Desire(s, intent) == [s EXCEPT !.desired = intent, !.retry = 0, !.failed = FALSE]
Import(s, intent) == [s EXCEPT !.desired = intent]

-----------------------------------------------------------------------------
Init ==
  /\ state = NoWrites
  /\ task = None
  /\ loading = Idle
  /\ worker = [number |-> 0, alive |-> TRUE]
  /\ durable \in Intents
  /\ older \in Intents \cup {None}
  /\ requested = <<durable>>
  /\ stored = 1
  /\ calls = 0
  /\ faults = 0
  /\ crashes = 0

Fault == faults < MaxFaults /\ faults' = faults + 1

\* try_send to the worker the handle was made for.
Queues(handle, accepted) ==
  IF worker.alive /\ worker.number = handle
  THEN IF accepted THEN UNCHANGED faults ELSE Fault
  ELSE ~accepted /\ UNCHANGED faults

\* History: an acknowledged intent is stored.
Track(s) ==
  stored' = IF Status(s) = "Committed" /\ s.desired # None THEN Len(requested') ELSE stored

NewTask == [pc |-> "recover", handle |-> 0]

Admit_RemovesAtOnce(s) ==
  /\ state' = s
  /\ Track(s)
  /\ older' = None
  /\ task' = IF Status(s) # "Committed" /\ task = None THEN NewTask ELSE task

\* Under the task lock: request and migrate remove the preference once the intent is
\* durable, and see to it that an intent that is not has a task.
Admit(s) ==
  /\ state' = s
  /\ Track(s)
  /\ older' = IF Status(s) = "Committed" THEN None ELSE older
  /\ task' = IF Status(s) # "Committed" /\ task = None THEN NewTask ELSE task

\* The callers use the handle the process opened; only the task follows the worker.
RequestMarker(intent, accepted) ==
  LET new == state.desired # intent
  IN  /\ calls < MaxRequests
      /\ calls' = calls + 1
      /\ requested' = IF new THEN Append(requested, intent) ELSE requested
      /\ Queues(0, accepted)
      /\ Admit(Poll(IF new THEN Desire(state, intent) ELSE state, accepted, Len(requested')))
      /\ UNCHANGED <<loading, worker, durable, crashes>>

Load_AlwaysImports(accepted) ==
  LET new == older # None /\ state.desired = None
  IN  /\ loading.pc = "start"
      /\ requested' = IF new THEN Append(requested, older) ELSE requested
      /\ loading' = [loading EXCEPT !.pc = IF older = None THEN "wait" ELSE "imported",
                                    !.since = Len(requested')]
      /\ IF older = None
         THEN UNCHANGED <<state, older, task, stored, faults>>
         ELSE /\ Queues(0, accepted)
              /\ Admit(Poll(Import(state, older),
                            accepted, Len(requested')))
      /\ UNCHANGED <<worker, durable, calls, crashes>>

\* load: import the older preference, if there is one and nothing has been asked yet.
Load(accepted) ==
  LET new == older # None /\ state.desired = None
  IN  /\ loading.pc = "start"
      /\ requested' = IF new THEN Append(requested, older) ELSE requested
      /\ loading' = [loading EXCEPT !.pc = IF older = None THEN "wait" ELSE "imported",
                                    !.since = Len(requested')]
      /\ IF older = None
         THEN UNCHANGED <<state, older, task, stored, faults>>
         ELSE /\ Queues(0, accepted)
              /\ Admit(Poll(IF new THEN Import(state, older) ELSE state,
                            accepted, Len(requested')))
      /\ UNCHANGED <<worker, durable, calls, crashes>>

LoadWaits_OnlyForImport ==
  /\ \/ loading.pc = "wait"
     \/ loading.pc = "imported" /\ task = None /\ Status(state) = "Committed"
  /\ loading' = [loading EXCEPT !.pc = IF @ = "wait" THEN "read" ELSE "remove"]
  /\ UNCHANGED <<state, task, worker, durable, older, requested, stored, faults, calls, crashes>>

\* waitForPersistence returns when it finds no task to wait for.
LoadWaits ==
  /\ loading.pc \in {"wait", "imported"}
  /\ task = None
  /\ IF Status(state) = "Committed"
     THEN /\ loading' = [loading EXCEPT !.pc = IF @ = "wait" THEN "read" ELSE "remove"]
          /\ task' = task
     ELSE /\ loading' = loading
          /\ task' = NewTask
  /\ UNCHANGED <<state, worker, durable, older, requested, stored, faults, calls, crashes>>

LoadRemovesPreference ==
  /\ loading.pc = "remove"
  /\ loading' = [loading EXCEPT !.pc = "read"]
  /\ older' = None
  /\ UNCHANGED <<state, task, worker, durable, requested, stored, faults, calls, crashes>>

\* A worker that has stopped is started again.
Running == IF worker.alive THEN worker ELSE [number |-> worker.number + 1, alive |-> TRUE]

LoadReads ==
  /\ loading.pc = "read"
  /\ \/ /\ loading' = [loading EXCEPT !.pc = "done", !.result = stored]
        /\ worker' = Running
        /\ UNCHANGED faults
     \/ /\ Fault
        /\ loading' = [loading EXCEPT !.pc = "failed"]
        /\ UNCHANGED worker
  /\ UNCHANGED <<state, task, durable, older, requested, stored, calls, crashes>>

(***************************************************************************)
(* The native task: restart the database worker if it has stopped, poll,   *)
(* and stop only when the status read under the task lock is Committed.    *)
(***************************************************************************)
TaskAt(pc) == task # None /\ task.pc = pc

TaskRecovers ==
  /\ TaskAt("recover")
  /\ \/ /\ worker' = Running
        /\ task' = [pc |-> "poll", handle |-> worker'.number]
        /\ UNCHANGED faults
     \/ /\ ~worker.alive
        /\ Fault
        /\ task' = [pc |-> "poll", handle |-> 0]
        /\ UNCHANGED worker
  /\ UNCHANGED <<state, loading, durable, older, requested, stored, calls, crashes>>

TaskPolls(accepted) ==
  /\ TaskAt("poll")
  /\ Queues(task.handle, accepted)
  /\ UNCHANGED requested
  /\ state' = Poll(state, accepted, Len(requested))
  /\ Track(state')
  /\ task' = [task EXCEPT !.pc = "check"]
  /\ UNCHANGED <<loading, worker, durable, older, calls, crashes>>

TaskChecks_StopsWhenIdle ==
  /\ TaskAt("check")
  /\ IF state.in_flight = None
     THEN /\ older' = IF Status(state) = "Committed" THEN None ELSE older
          /\ task' = None
     ELSE /\ older' = older
          /\ task' = NewTask
  /\ UNCHANGED <<state, loading, worker, durable, requested, stored, faults, calls, crashes>>

TaskChecks ==
  /\ TaskAt("check")
  /\ IF Status(state) = "Committed"
     THEN /\ older' = None
          /\ task' = None
     ELSE /\ older' = older
          /\ task' = NewTask
  /\ UNCHANGED <<state, loading, worker, durable, requested, stored, faults, calls, crashes>>

Answer(receipt) == state' = [state EXCEPT !.in_flight.receipt = receipt]

Queued == worker.alive /\ state.in_flight # None /\ state.in_flight.receipt = "queued"

WorkerCommits ==
  /\ Queued
  /\ durable' = state.in_flight.marker
  /\ stored' = state.in_flight.n
  /\ Answer("ok")
  /\ UNCHANGED <<task, loading, worker, older, requested, faults, calls, crashes>>

WorkerRejects ==
  /\ Queued
  /\ Fault
  /\ Answer("error")
  /\ UNCHANGED <<task, loading, worker, durable, older, requested, stored, calls, crashes>>

WorkerStops ==
  /\ worker.alive
  /\ Fault
  /\ worker' = [worker EXCEPT !.alive = FALSE]
  /\ IF Queued THEN Answer("error") ELSE UNCHANGED state
  /\ UNCHANGED <<task, loading, durable, older, requested, stored, calls, crashes>>

Tick ==
  /\ state.retry > 0
  /\ state' = [state EXCEPT !.retry = @ - 1]
  /\ UNCHANGED <<task, loading, worker, durable, older, requested, stored, faults, calls, crashes>>

Crash ==
  /\ crashes < MaxCrashes
  /\ crashes' = crashes + 1
  /\ state' = NoWrites
  /\ task' = None
  /\ loading' = Idle
  /\ worker' = [number |-> 0, alive |-> TRUE]
  /\ requested' = SubSeq(requested, 1, stored)
  /\ UNCHANGED <<durable, older, stored, faults, calls>>

LoadStep ==
  (\E accepted \in BOOLEAN : Load(accepted)) \/ LoadWaits \/ LoadRemovesPreference \/ LoadReads

TaskStep ==
  TaskRecovers \/ (\E accepted \in BOOLEAN : TaskPolls(accepted)) \/ TaskChecks

Next ==
  \/ \E intent \in Intents, accepted \in BOOLEAN : RequestMarker(intent, accepted)
  \/ LoadStep
  \/ TaskStep
  \/ WorkerCommits \/ WorkerRejects \/ WorkerStops
  \/ Tick
  \/ Crash

Spec == Init /\ [][Next]_vars

(***************************************************************************)
(* The Swift runtime resumes the task and the load, the database worker    *)
(* takes commands from its queue, and time passes.  Faults are finitely    *)
(* many: the task retries for as long as storage refuses.                  *)
(***************************************************************************)
FairSpec ==
  /\ Spec
  /\ WF_vars(TaskStep) /\ WF_vars(LoadStep) /\ WF_vars(WorkerCommits) /\ WF_vars(Tick)

-----------------------------------------------------------------------------
\* Every variable has its type.
TypeOK ==
  /\ state.desired \in Intents \cup {None} /\ state.acknowledged \in Intents \cup {None}
  /\ state.retry \in 0 .. RetryAfter /\ state.failed \in BOOLEAN
  /\ state.in_flight # None => /\ state.in_flight.marker \in Intents
                               /\ state.in_flight.receipt \in {"queued", "ok", "error"}
  /\ durable \in Intents /\ older \in Intents \cup {None}
  /\ requested \in Seq(Intents) /\ stored \in 1 .. Len(requested)

(***************************************************************************)
(* "Committed: the latest request is durable."  Also when the marker goes  *)
(* back to an acknowledged value while another is in flight, and when a    *)
(* stopped worker drops a command.                                         *)
(***************************************************************************)
CommittedIsDurable ==
  Status(state) = "Committed" /\ state.desired # None => durable = state.desired

(***************************************************************************)
(* The preference of the older app is removed only when storage has        *)
(* acknowledged an intent of this process, the imported one or a newer     *)
(* one: a crash during the import loses no marker.                         *)
(***************************************************************************)
PreferenceOutlivesImport ==
  [][older # None /\ older' = None => state'.acknowledged # None]_vars

(***************************************************************************)
(* load returns a marker at least as new as every intent admitted before   *)
(* it began, the imported preference included.                             *)
(***************************************************************************)
LoadSeesEarlierIntents == loading.pc = "done" => loading.result >= loading.since

Register == INSTANCE MarkerRegister

\* The writer implements the register: a late write never undoes a newer one.
ImplementsRegister == Register!RegisterSpec

\* The latest intent reaches storage, and load returns or throws: no stopped worker or
\* lost command leaves the one unwritten or the other waiting.
MarkerSettles ==
  /\ stored # Len(requested) ~> stored = Len(requested)
  /\ loading.pc = "start" ~> loading.pc \in {"done", "failed"}
=============================================================================
