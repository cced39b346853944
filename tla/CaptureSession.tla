--------------------------- MODULE CaptureSession ---------------------------
(***************************************************************************)
(* Captures as the iOS session core drives them                            *)
(* (src/swift/CutoutMobile/Sources/CutoutMobile/CutoutSessionCore.swift),  *)
(* together with the connection whose evidence they record.  Every         *)
(* handler runs on the serial Bluetooth queue and is one action.  Three    *)
(* things leave the queue and come back later, whatever happened between:  *)
(* a save, suspended before and after its flush; a consumed writer, which  *)
(* completes on a utility queue and then delivers one receipt; and the     *)
(* reconnect timer.                                                        *)
(*                                                                         *)
(* The connection owner is seen through AttemptTokens, which               *)
(* ConnectionLifecycle implements.  Only Manual captures are admitted      *)
(* (diagnostic_consent.rs).  A write outcome that fails is an action of    *)
(* its own after the handler that produced it.                             *)
(***************************************************************************)
EXTENDS CaptureLifecycle

CONSTANTS
  MaxCaptures,   \* bound: captures begun
  MaxLinks,      \* bound: connection generations
  MaxSaves       \* bound: save operations admitted

VARIABLES
  cap,              \* the CaptureSessionLifecycle
  writer,           \* generation whose writer the recorder holds, or None
  opened,           \* attempt that the capture of that writer opened, or None if borrowed
  saves,            \* suspended finishCapture calls
  finalizers,       \* generations of consumed writers that have not delivered a receipt
  link,             \* token of the current connection attempt
  linkGeneration,   \* its generation, advanced by retirement too
  peripheral,       \* state of the CoreBluetooth peripheral of the attempt
  retry             \* generation for which the reconnect timer is armed, or None

captureVars == <<cap, writer, opened, finalizers>>
linkVars == <<link, linkGeneration, peripheral, retry>>
vars == <<cap, writer, opened, saves, finalizers, link, linkGeneration, peripheral, retry>>

Link == INSTANCE AttemptTokens WITH generation <- linkGeneration, token <- link

Peripheral == {"disconnected", "connecting", "connected"}
Flush == {"Waiting", "Flushed", "NotFlushed"}
Save == [token : CaptureFinishToken, flush : Flush]

Init ==
  /\ cap = DefaultCapture
  /\ writer = None /\ opened = None
  /\ saves = {} /\ finalizers = {}
  /\ Link!Init
  /\ peripheral = "disconnected" /\ retry = None

KeepLink == UNCHANGED <<link, linkGeneration>>

\* Retirement of the attempt or not, as its readiness decides.
LoseLink == KeepLink \/ (link # None /\ linkGeneration < MaxLinks /\ Link!Retire)

-----------------------------------------------------------------------------
\* finishCaptureWriter, from the lifecycle c: retires the attempt and consumes the writer.
FinishCaptureWriter(c) ==
  /\ cap' = IF writer = None THEN c ELSE Retire(c, writer)
  /\ finalizers' = finalizers \cup ({writer} \ {None})
  /\ writer' = None
  /\ opened' = None

\* startCapture: the writer is not created, records, or fails on its first event.
StartCapture(binding, outcome) ==
  LET begun   == BeginWithTransport(cap, "Manual", binding)
      g       == begun.next_generation
      started == WriterStarted(begun, g)
  IN  /\ outcome # "NotStarted" => writer = None
      /\ cap' = IF outcome = "NotStarted" THEN WriterStartFailed(begun, g)
                ELSE IF outcome = "Recording" THEN started
                ELSE Retire(WriterFailed(started, g), g)
      /\ writer' = IF outcome = "Recording" THEN g ELSE writer
      /\ opened' = IF outcome = "Recording" THEN binding ELSE opened
      /\ finalizers' = IF outcome = "Failed" THEN finalizers \cup {g} ELSE finalizers

StartOutcome == {"NotStarted", "Recording", "Failed"}

startBorrowedManualCapture(outcome) ==
  /\ cap.next_generation < MaxCaptures
  /\ peripheral = "connected" /\ link # None
  /\ CanStart(cap)
  /\ StartCapture(None, outcome)
  /\ UNCHANGED <<saves, linkVars>>

\* A capture without a live link opens a record-only one and owns it.
connectRecordOnly(id, outcome) ==
  /\ cap.next_generation < MaxCaptures /\ linkGeneration < MaxLinks
  /\ peripheral = "disconnected"
  /\ CanStart(cap)
  /\ retry' = None
  /\ Link!Issue(id)
  /\ StartCapture(link', outcome)
  /\ peripheral' = IF outcome = "NotStarted" THEN peripheral ELSE "connecting"
  /\ UNCHANGED saves

connectForProtocolDetection(id) ==
  /\ linkGeneration < MaxLinks
  /\ CanPair(cap)
  /\ FinishCaptureWriter(cap)
  /\ retry' = None
  /\ Link!Issue(id)
  /\ peripheral' = "connecting"
  /\ UNCHANGED saves

didConnect ==
  /\ peripheral = "connecting"
  /\ peripheral' = "connected"
  /\ UNCHANGED <<captureVars, saves, link, linkGeneration, retry>>

\* A callback of a retired attempt changes nothing but the peripheral.
handleDisconnect ==
  /\ peripheral # "disconnected"
  /\ peripheral' = "disconnected"
  /\ \/ /\ link = None
        /\ UNCHANGED <<captureVars, link, linkGeneration, retry>>
     \/ /\ link # None
        /\ LoseLink
        /\ FinishCaptureWriter(cap)
        /\ retry' \in {retry, linkGeneration'}
  /\ UNCHANGED saves

\* setPhase(.failed) and a failed subscription; a protocol conflict also ends the capture.
connectionTransportFailed(ends) ==
  /\ linkGeneration < MaxLinks
  /\ link # None
  /\ Link!Retire
  /\ peripheral' \in {peripheral, "disconnected"}
  /\ IF ends THEN FinishCaptureWriter(cap) ELSE UNCHANGED captureVars
  /\ UNCHANGED <<saves, retry>>

\* Bluetooth is switched off: the capture is kept, the reconnect timer is not.
handleCentralState ==
  /\ LoseLink
  /\ peripheral' = "disconnected"
  /\ retry' = None
  /\ UNCHANGED <<captureVars, saves>>

disconnectAndScanOnBleQueue(c) ==
  /\ Link!Retire
  /\ peripheral' = "disconnected"
  /\ retry' = None
  /\ FinishCaptureWriter(c)

disconnectAndScan ==
  /\ linkGeneration < MaxLinks
  /\ disconnectAndScanOnBleQueue(cap)
  /\ UNCHANGED saves

\* The reconnect timer begins an attempt unless the generation moved since it was armed.
reconnectTimer(id) ==
  /\ linkGeneration < MaxLinks
  /\ retry # None
  /\ retry' = None
  /\ \/ /\ retry = linkGeneration
        /\ Link!Issue(id)
        /\ peripheral' = "connecting"
     \/ /\ retry # linkGeneration
        /\ KeepLink
        /\ UNCHANGED peripheral
  /\ UNCHANGED <<captureVars, saves>>

-----------------------------------------------------------------------------
\* A write or location outcome of the held writer is Failed.
failCaptureWrite ==
  /\ writer # None
  /\ At(cap, writer, {"Recording", "SaveFailed"})
  /\ FinishCaptureWriter(WriterFailed(cap, writer))
  /\ UNCHANGED <<saves, linkVars>>

\* publishCaptureProgress, when the status of the held writer is fatal.
publishFatalStatus ==
  /\ writer # None
  /\ cap' = WriterFailed(cap, writer)
  /\ UNCHANGED <<writer, opened, saves, finalizers, linkVars>>

\* finishCapture up to its await.
finishCapture ==
  /\ cap.next_operation < MaxSaves
  /\ writer # None
  /\ MayBeginFinish(cap, writer)
  /\ cap' = BeginFinish(cap, writer)
  /\ saves' = saves \cup {[token |-> cap'.finishing, flush |-> "Waiting"]}
  /\ UNCHANGED <<writer, opened, finalizers, linkVars>>

\* The flush applies to whichever writer the recorder holds by then.
flushCaptureOnBleQueue(s) ==
  /\ s.flush = "Waiting"
  /\ \E outcome \in (IF writer = None THEN {"Rejected"} ELSE {"Flushed", "Rejected", "Failed"}) :
       /\ cap' \in (IF outcome = "Failed" THEN {WriterFailed(cap, writer)}
                    ELSE IF outcome = "Rejected" /\ writer # None
                    THEN {cap, WriterFailed(cap, writer)} ELSE {cap})
       /\ saves' = (saves \ {s}) \cup
            {[s EXCEPT !.flush = IF outcome = "Flushed" THEN "Flushed" ELSE "NotFlushed"]}
  /\ UNCHANGED <<writer, opened, finalizers, linkVars>>

\* finishCapture after its await.
resumeFinishCapture(s) ==
  LET succeeded == s.flush = "Flushed"
      flushed   == FinishFlushWithTransport(cap, s.token, succeeded)
  IN  /\ s.flush # "Waiting"
      /\ saves' = saves \ {s}
      /\ \/ /\ ~ (AdmitsFlush(cap, s.token) /\ succeeded)
            /\ \/ cap' = flushed
               \/ writer # None /\ cap' = WriterFailed(flushed, writer)
            /\ UNCHANGED <<writer, opened, finalizers, linkVars>>
         \/ /\ AdmitsFlush(cap, s.token) /\ succeeded
            /\ ReleasesOwnedTransport(cap, link)
            /\ disconnectAndScanOnBleQueue(flushed)
         \/ /\ AdmitsFlush(cap, s.token) /\ succeeded
            /\ ~ ReleasesOwnedTransport(cap, link)
            /\ FinishCaptureWriter(flushed)
            /\ UNCHANGED linkVars

\* The receipt of a consumed writer, delivered once.
handleCaptureWriterCompletion(g, succeeded) ==
  /\ cap' = Complete(cap, g, succeeded)
  /\ finalizers' = finalizers \ {g}
  /\ UNCHANGED <<writer, opened, saves, linkVars>>

Next ==
  \/ \E outcome \in StartOutcome : startBorrowedManualCapture(outcome)
  \/ \E id \in Devices, outcome \in StartOutcome : connectRecordOnly(id, outcome)
  \/ \E id \in Devices : connectForProtocolDetection(id)
  \/ didConnect
  \/ handleDisconnect
  \/ \E ends \in BOOLEAN : connectionTransportFailed(ends)
  \/ handleCentralState
  \/ disconnectAndScan
  \/ \E id \in Devices : reconnectTimer(id)
  \/ failCaptureWrite
  \/ publishFatalStatus
  \/ finishCapture
  \/ \E s \in saves : flushCaptureOnBleQueue(s)
  \/ \E s \in saves : resumeFinishCapture(s)
  \/ \E g \in finalizers, succeeded \in BOOLEAN : handleCaptureWriterCompletion(g, succeeded)

Spec == Init /\ [][Next]_vars

(***************************************************************************)
(* Fairness.  The Bluetooth queue runs the work it was handed (the flush   *)
(* and the continuation of a save) and a consumed writer completes.        *)
(* Nothing is assumed of the user, the radio or the timers.                *)
(***************************************************************************)
Fairness ==
  /\ WF_vars(\E s \in saves : flushCaptureOnBleQueue(s))
  /\ WF_vars(\E s \in saves : resumeFinishCapture(s))
  /\ WF_vars(\E g \in finalizers, succeeded \in BOOLEAN :
               handleCaptureWriterCompletion(g, succeeded))

FairSpec == Spec /\ Fairness

-----------------------------------------------------------------------------
\* Type correctness of the capture owner and of what the native side holds.
TypeOK ==
  /\ cap \in CaptureSessionLifecycle
  /\ writer \in Nat \cup {None}
  /\ opened \in ConnectionAttemptToken \cup {None}
  /\ saves \subseteq Save
  /\ finalizers \subseteq Nat
  /\ link \in ConnectionAttemptToken \cup {None}
  /\ linkGeneration \in Nat
  /\ peripheral \in Peripheral
  /\ retry \in Nat \cup {None}

\* The session owner and the recorder agree between handlers: the recorder holds a writer
\* exactly when the current attempt reserves one, and it is the writer of that attempt.
\* No writer outlives its claim to the slot and no claim blocks the slot without a writer.
WriterHoldsSlot ==
  /\ writer # None => At(cap, writer, {"Recording", "Saving", "SaveFailed"})
  /\ ~ CanStart(cap) => writer = cap.current.generation

\* Every consumed writer is awaited by exactly one claim, the finalizing attempt or a
\* pending completion, and every claim has a writer that will answer it: complete() never
\* rejects a first receipt and nothing waits for a receipt that cannot come.
ReceiptsMatchClaims ==
  /\ finalizers = cap.pending_completions \cup
       (IF cap.current # None /\ cap.current.stage = "Finalizing"
        THEN {cap.current.generation} ELSE {})
  /\ cap.current # None => cap.current.generation \notin cap.pending_completions

\* A Saving attempt is always held by one suspended finishCapture call that will resolve
\* it, also when a failed save was retried or an older call is still suspended, and writer
\* health that arrives meanwhile does not take the save away from its call.
SavingHasItsCall ==
  /\ cap.finishing # None <=> (cap.current # None /\ cap.current.stage = "Saving")
  /\ cap.finishing # None => \E s \in saves : s.token = cap.finishing

\* Ending a save closes the link only if this very capture opened it: a borrowed link, or
\* one that replaced the capture's own, survives.
SaveClosesOnlyItsLink ==
  [][\A s \in saves : (s \notin saves' /\ s.flush # "Waiting" /\ link' # link)
       => (opened # None /\ link = opened)]_vars

\* A new connection attempt, by pairing or by a reconnect timer, never begins while a
\* writer is recording: neither displaces an explicit recording.
RecordingIsNotDisplaced ==
  [][link' \notin {link, None} => writer = None]_vars

StageSteps ==
  {<<"Starting", "Recording">>, <<"Starting", "Failed">>,
   <<"Recording", "Saving">>, <<"Recording", "SaveFailed">>, <<"Recording", "Finalizing">>,
   <<"Saving", "SaveFailed">>, <<"Saving", "Finalizing">>,
   <<"SaveFailed", "Saving">>, <<"SaveFailed", "Finalizing">>,
   <<"Finalizing", "Saved">>, <<"Finalizing", "Failed">>}

\* Within one attempt the stage only advances: a failed save is never shown as recording
\* again by healthy progress, and a terminal outcome is final.
StagesAdvance ==
  [][(cap.current # None /\ cap'.current # cap.current
        /\ cap'.current.generation = cap.current.generation)
       => <<cap.current.stage, cap'.current.stage>> \in StageSteps]_vars

\* Every save ends, by its flush, by retirement or by a failure.
SaveResolves ==
  (cap.current # None /\ cap.current.stage = "Saving")
    ~> ~ (cap.current # None /\ cap.current.stage = "Saving")

\* What the owner waits for: capture g is finalizing, or was when a newer one displaced it.
Awaited(g) == At(cap, g, {"Finalizing"}) \/ g \in cap.pending_completions

\* The owner never waits for good.  A finalizing capture is shown as saved or failed in the
\* end, and the claim of one that a newer capture displaced is settled too, although its
\* receipt then advances no stage: no displaced identity stays in pending_completions.
ClaimsAreSettled ==
  \A g \in 1 .. MaxCaptures : []<> ~ Awaited(g)
=============================================================================
