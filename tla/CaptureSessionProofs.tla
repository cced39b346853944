------------------------ MODULE CaptureSessionProofs ------------------------
(***************************************************************************)
(* Proofs about CaptureSession for every set of devices and every bound.   *)
(***************************************************************************)
EXTENDS CaptureSession, TLAPS

Finalizing(c) ==
  IF c.current # None /\ c.current.stage = "Finalizing" THEN {c.current.generation} ELSE {}

(***************************************************************************)
(* The capture half of the inductive invariant, on the lifecycle c, the    *)
(* held writer w, the link o its capture opened, the suspended saves S and *)
(* the consumed writers F.                                                 *)
(***************************************************************************)
CaptureInv(c, w, o, S, F) ==
  /\ c \in CaptureSessionLifecycle
  /\ w \in Nat \cup {None}
  /\ o \in ConnectionAttemptToken \cup {None}
  /\ S \subseteq Save
  /\ F = c.pending_completions \cup Finalizing(c)
  /\ c.current # None => /\ c.current.generation = c.next_generation
                         /\ c.current.origin = "Manual"
                         /\ c.current.stage # "Starting"
  /\ \A g \in c.pending_completions : g < c.next_generation
  /\ w # None => At(c, w, {"Recording", "Saving", "SaveFailed"}) /\ o = c.transport
  /\ ~ CanStart(c) => w = c.current.generation
  /\ c.finishing # None <=> (c.current # None /\ c.current.stage = "Saving")
  /\ c.finishing # None => /\ c.finishing.generation = c.current.generation
                           /\ \E s \in S : s.token = c.finishing

\* The link half: an armed reconnect timer that could still begin an attempt has a
\* disconnected peripheral and no writer beside it.
LinkInv(w) ==
  /\ link \in ConnectionAttemptToken \cup {None}
  /\ linkGeneration \in Nat
  /\ peripheral \in Peripheral
  /\ retry \in Nat \cup {None}
  /\ retry # None => retry <= linkGeneration
  /\ retry = linkGeneration => peripheral = "disconnected" /\ w = None

IInv == CaptureInv(cap, writer, opened, saves, finalizers) /\ LinkInv(writer)

-----------------------------------------------------------------------------
\* The current attempt c.current moved to the stage "to".
Staged(c, to) == [c.current EXCEPT !.stage = to]

LEMMA StagedType ==
  ASSUME NEW c, c \in CaptureSessionLifecycle, c.current # None, NEW to \in CaptureStage
  PROVE  /\ Staged(c, to) \in CaptureAttemptSnapshot
         /\ Staged(c, to) # None
         /\ Staged(c, to).generation = c.current.generation
         /\ Staged(c, to).origin = c.current.origin
         /\ Staged(c, to).stage = to
<1>1. c.current \in CaptureAttemptSnapshot
  BY DEF CaptureSessionLifecycle
<1>2. Staged(c, to) \in CaptureAttemptSnapshot
  BY <1>1, Zenon DEF Staged, CaptureAttemptSnapshot
<1>3. Staged(c, to) # None
  BY <1>2, CaptureAssumption, Zenon DEF CaptureAttemptSnapshot, CaptureOrigin, CaptureStage
<1>4. /\ Staged(c, to).generation = c.current.generation
      /\ Staged(c, to).origin = c.current.origin
      /\ Staged(c, to).stage = to
  BY <1>1, SMT DEF Staged, CaptureAttemptSnapshot
<1> QED
  BY <1>2, <1>3, <1>4, Zenon

\* finishCaptureWriter: the retired attempt awaits the receipt of the consumed writer.
LEMMA RetirePreserves ==
  ASSUME NEW c, NEW w, NEW o, NEW S, NEW F,
         CaptureInv(c, w, o, S, F), w # None
  PROVE  CaptureInv(Retire(c, w), None, None, S, F \cup {w})
<1> DEFINE d == Retire(c, w)
<1>1. /\ c \in CaptureSessionLifecycle /\ c.current # None /\ c.current.generation = w
      /\ c.current.stage \in {"Recording", "Saving", "SaveFailed"}
  BY Zenon DEF CaptureInv, At
<1>2. d = [c EXCEPT !.current = Staged(c, "Finalizing"), !.finishing = None]
  BY <1>1, SMT DEF Retire, At, Staged
<1>3. /\ Staged(c, "Finalizing") \in CaptureAttemptSnapshot
      /\ Staged(c, "Finalizing") # None
      /\ Staged(c, "Finalizing").generation = c.current.generation
      /\ Staged(c, "Finalizing").origin = c.current.origin
      /\ Staged(c, "Finalizing").stage = "Finalizing"
  <2>1. "Finalizing" \in CaptureStage
    BY DEF CaptureStage
  <2> QED
    BY <1>1, <2>1, StagedType, Zenon
<1>4. d \in CaptureSessionLifecycle
  BY <1>1, <1>2, <1>3, Zenon DEF CaptureSessionLifecycle
<1>5. /\ d.next_generation = c.next_generation
      /\ d.pending_completions = c.pending_completions
      /\ d.current = Staged(c, "Finalizing")
      /\ d.finishing = None
  BY <1>1, <1>2, SMT DEF CaptureSessionLifecycle
<1> HIDE DEF d
<1>6. CaptureInv(d, None, None, S, F \cup {w})
  BY <1>1, <1>3, <1>4, <1>5, SMT DEF CaptureInv, Finalizing, At, CanStart, ReservesWriter
<1> QED
  BY <1>6 DEF d

\* A failed write, flush or status: the writer keeps its slot.
LEMMA FailurePreserves ==
  ASSUME NEW c, NEW w, NEW o, NEW S, NEW F,
         CaptureInv(c, w, o, S, F), w # None
  PROVE  CaptureInv(WriterFailed(c, w), w, o, S, F)
<1> DEFINE d == WriterFailed(c, w)
           failed == Staged(c, "SaveFailed")
<1>1. c \in CaptureSessionLifecycle /\ c.current # None /\ c.current.generation = w
  BY Zenon DEF CaptureInv, At
<1>2. CASE ~ At(c, w, {"Recording", "SaveFailed"})
  BY <1>2, Zenon DEF WriterFailed
<1>3. CASE At(c, w, {"Recording", "SaveFailed"})
  <2>1. d = [c EXCEPT !.current = failed]
    BY <1>3, SMT DEF WriterFailed, Staged
  <2>2. "SaveFailed" \in CaptureStage
    BY DEF CaptureStage
  <2>3. /\ failed \in CaptureAttemptSnapshot /\ failed # None
        /\ failed.generation = c.current.generation
        /\ failed.origin = c.current.origin
        /\ failed.stage = "SaveFailed"
    BY <1>1, <2>2, StagedType, Zenon
  <2> HIDE DEF failed
  <2>4. d \in CaptureSessionLifecycle
    BY <1>1, <2>1, <2>3, Zenon DEF CaptureSessionLifecycle
  <2>5. /\ d.next_generation = c.next_generation
        /\ d.pending_completions = c.pending_completions
        /\ d.current = failed
        /\ d.finishing = c.finishing
        /\ d.transport = c.transport
    BY <1>1, <2>1, SMT DEF CaptureSessionLifecycle
  <2> HIDE DEF d
  <2>6. CaptureInv(d, w, o, S, F)
    BY <1>1, <1>3, <2>3, <2>4, <2>5, SMT
    DEF CaptureInv, Finalizing, At, CanStart, ReservesWriter
  <2> QED
    BY <2>6 DEF d
<1> QED
  BY <1>2, <1>3

\* finishCapture: the new save is suspended together with its token.
LEMMA BeginFinishPreserves ==
  ASSUME NEW c, NEW w, NEW o, NEW S, NEW F,
         CaptureInv(c, w, o, S, F), w # None, MayBeginFinish(c, w)
  PROVE  CaptureInv(BeginFinish(c, w), w, o,
                    S \cup {[token |-> BeginFinish(c, w).finishing, flush |-> "Waiting"]}, F)
<1> DEFINE d == BeginFinish(c, w)
           saving == Staged(c, "Saving")
           token == [generation |-> w, operation |-> c.next_operation + 1]
           T == S \cup {[token |-> d.finishing, flush |-> "Waiting"]}
<1>1. c \in CaptureSessionLifecycle /\ c.current # None /\ c.current.generation = w
  BY Zenon DEF CaptureInv, At
<1>2. d = [c EXCEPT !.next_operation = c.next_operation + 1,
                    !.current = saving, !.finishing = token]
  BY SMT DEF BeginFinish, Staged
<1>3. "Saving" \in CaptureStage
  BY DEF CaptureStage
<1>4. /\ saving \in CaptureAttemptSnapshot /\ saving # None
      /\ saving.generation = c.current.generation
      /\ saving.origin = c.current.origin
      /\ saving.stage = "Saving"
  BY <1>1, <1>3, StagedType, Zenon
<1>5. c.next_operation + 1 \in Nat /\ c.next_generation \in Nat /\ w \in Nat
  BY <1>1, SMT DEF CaptureSessionLifecycle, CaptureInv
<1>6. token \in CaptureFinishToken /\ token.generation = w
  BY <1>5, SMT DEF CaptureFinishToken
<1>7. token # None
  BY <1>6, CaptureAssumption, Zenon DEF CaptureFinishToken
<1> HIDE DEF saving, token
<1>8. d \in CaptureSessionLifecycle
  BY <1>1, <1>2, <1>4, <1>5, <1>6, Zenon DEF CaptureSessionLifecycle
<1>9. /\ d.next_generation = c.next_generation
      /\ d.pending_completions = c.pending_completions
      /\ d.current = saving
      /\ d.finishing = token
      /\ d.transport = c.transport
  BY <1>1, <1>2, SMT DEF CaptureSessionLifecycle
<1> HIDE DEF d
<1>10. [token |-> token, flush |-> "Waiting"] \in Save
  BY <1>6, SMT DEF Save, Flush
<1>11. T \subseteq Save /\ \E s \in T : s.token = token
  <2>1. [token |-> token, flush |-> "Waiting"].token = token
    BY SMT
  <2>2. S \subseteq Save
    BY Zenon DEF CaptureInv
  <2> QED
    BY <1>9, <1>10, <2>1, <2>2, Zenon
<1> HIDE DEF T
<1>12. c.current.stage \in {"Recording", "SaveFailed"}
  BY DEF MayBeginFinish, At
<1>13. CaptureInv(d, w, o, T, F)
  BY <1>1, <1>4, <1>6, <1>7, <1>8, <1>9, <1>11, <1>12, SMT
  DEF CaptureInv, Finalizing, At, CanStart, ReservesWriter
<1> QED
  BY <1>13 DEF d, T

\* A suspended save is flushed: its token stays suspended.
LEMMA FlushedSavePreserves ==
  ASSUME NEW c, NEW w, NEW o, NEW S, NEW F,
         CaptureInv(c, w, o, S, F), NEW s \in S, NEW flush \in Flush
  PROVE  CaptureInv(c, w, o, (S \ {s}) \cup {[s EXCEPT !.flush = flush]}, F)
<1> DEFINE t == [s EXCEPT !.flush = flush]
           T == (S \ {s}) \cup {t}
<1>1. S \subseteq Save
  BY Zenon DEF CaptureInv
<1>2. t \in Save
  BY <1>1, Zenon DEF Save
<1>3. t.token = s.token
  BY <1>1, SMT DEF Save
<1> HIDE DEF t
<1>4. T \subseteq Save
  BY <1>1, <1>2, Zenon
<1>5. c.finishing # None => \E r \in T : r.token = c.finishing
  BY <1>3, Zenon DEF CaptureInv
<1> HIDE DEF T
<1>6. CaptureInv(c, w, o, T, F)
  BY <1>4, <1>5, Zenon DEF CaptureInv
<1> QED
  BY <1>6 DEF T, t

\* finishCapture resumes with a stale token or a failed flush.
LEMMA RejectedSavePreserves ==
  ASSUME NEW c, NEW w, NEW o, NEW S, NEW F,
         CaptureInv(c, w, o, S, F), NEW s \in S, NEW succeeded \in BOOLEAN,
         ~ (AdmitsFlush(c, s.token) /\ succeeded)
  PROVE  CaptureInv(FinishFlushWithTransport(c, s.token, succeeded), w, o, S \ {s}, F)
<1> DEFINE d == FinishFlushWithTransport(c, s.token, succeeded)
           failed == Staged(c, "SaveFailed")
<1>1. c \in CaptureSessionLifecycle /\ S \ {s} \subseteq Save
  BY Zenon DEF CaptureInv
<1>2. CASE ~ AdmitsFlush(c, s.token)
  <2>1. d = c
    BY <1>2, Zenon DEF FinishFlushWithTransport, FinishFlush
  <2>2. c.finishing # None => s.token # c.finishing
    BY <1>2, SMT DEF AdmitsFlush, At, CaptureInv
  <2>3. c.finishing # None => \E r \in S \ {s} : r.token = c.finishing
    BY <2>2, Zenon DEF CaptureInv
  <2>4. CaptureInv(c, w, o, S \ {s}, F)
    BY <1>1, <2>3, Zenon DEF CaptureInv
  <2> QED
    BY <2>1, <2>4, Zenon
<1>3. CASE AdmitsFlush(c, s.token)
  <2>1. c.current # None /\ c.current.stage = "Saving" /\ ~ succeeded
    BY <1>3, SMT DEF AdmitsFlush, At
  <2>2. d = [c EXCEPT !.finishing = None, !.current = failed]
    BY <1>3, <2>1, SMT DEF FinishFlushWithTransport, FinishFlush, Staged
  <2>3. "SaveFailed" \in CaptureStage
    BY DEF CaptureStage
  <2>4. /\ failed \in CaptureAttemptSnapshot /\ failed # None
        /\ failed.generation = c.current.generation
        /\ failed.origin = c.current.origin
        /\ failed.stage = "SaveFailed"
    BY <1>1, <2>1, <2>3, StagedType, Zenon
  <2> HIDE DEF failed
  <2>5. d \in CaptureSessionLifecycle
    BY <1>1, <2>2, <2>4, Zenon DEF CaptureSessionLifecycle
  <2>6. /\ d.next_generation = c.next_generation
        /\ d.pending_completions = c.pending_completions
        /\ d.current = failed
        /\ d.finishing = None
        /\ d.transport = c.transport
    BY <1>1, <2>2, SMT DEF CaptureSessionLifecycle
  <2> HIDE DEF d
  <2>7. CaptureInv(d, w, o, S \ {s}, F)
    BY <1>1, <2>1, <2>4, <2>5, <2>6, SMT
    DEF CaptureInv, Finalizing, At, CanStart, ReservesWriter
  <2> QED
    BY <2>7 DEF d
<1> QED
  BY <1>2, <1>3

\* An accepted save holds the writer of the current attempt.
LEMMA AcceptedSaveHoldsWriter ==
  ASSUME NEW c, NEW w, NEW o, NEW S, NEW F,
         CaptureInv(c, w, o, S, F), NEW token, AdmitsFlush(c, token)
  PROVE  /\ c.current # None /\ c.current.stage = "Saving"
         /\ w # None /\ w = c.current.generation /\ c.transport = o
<1>1. /\ c \in CaptureSessionLifecycle /\ c.current # None
      /\ c.current.stage = "Saving"
  BY SMT DEF CaptureInv, AdmitsFlush, At
<1>2. ~ CanStart(c)
  BY <1>1, SMT DEF CanStart, ReservesWriter
<1>3. w = c.current.generation
  BY <1>2, Zenon DEF CaptureInv
<1>4. c.current.generation \in Nat
  BY <1>1, SMT DEF CaptureSessionLifecycle, CaptureAttemptSnapshot
<1>5. w # None
  BY <1>3, <1>4, CaptureAssumption, Zenon
<1> QED
  BY <1>1, <1>3, <1>5, Zenon DEF CaptureInv

\* finishCapture resumes with a successful flush: the writer is consumed.
LEMMA AcceptedSavePreserves ==
  ASSUME NEW c, NEW w, NEW o, NEW S, NEW F,
         CaptureInv(c, w, o, S, F), NEW s \in S, AdmitsFlush(c, s.token)
  PROVE  /\ CaptureInv(Retire(FinishFlushWithTransport(c, s.token, TRUE), w), None, None,
                       S \ {s}, F \cup {w})
         /\ Retire(FinishFlushWithTransport(c, s.token, TRUE), w).current.stage = "Finalizing"
<1> DEFINE d == FinishFlushWithTransport(c, s.token, TRUE)
           final == Staged(c, "Finalizing")
           m == [c EXCEPT !.finishing = None, !.current = final]
           e == Retire(d, w)
           last == Staged(d, "Finalizing")
<1>1. c \in CaptureSessionLifecycle
  BY Zenon DEF CaptureInv
<1>2. /\ c.current # None /\ c.current.stage = "Saving"
      /\ w # None /\ w = c.current.generation
  BY AcceptedSaveHoldsWriter, Zenon
<1>3. d = [m EXCEPT !.transport = None]
  BY SMT DEF FinishFlushWithTransport, FinishFlush, Staged
<1>4. "Finalizing" \in CaptureStage
  BY DEF CaptureStage
<1>5. /\ final \in CaptureAttemptSnapshot /\ final # None
      /\ final.generation = c.current.generation
      /\ final.origin = c.current.origin
      /\ final.stage = "Finalizing"
  BY <1>1, <1>2, <1>4, StagedType, Zenon
<1> HIDE DEF final
<1>6. d \in CaptureSessionLifecycle
  BY <1>1, <1>3, <1>5, Zenon DEF CaptureSessionLifecycle
<1>7. /\ d.next_generation = c.next_generation
      /\ d.pending_completions = c.pending_completions
      /\ d.current = final
  <2>1. m \in CaptureSessionLifecycle
    BY <1>1, <1>5, Zenon DEF CaptureSessionLifecycle
  <2>2. /\ m.next_generation = c.next_generation
        /\ m.pending_completions = c.pending_completions
        /\ m.current = final
    BY <1>1, SMT DEF CaptureSessionLifecycle
  <2> HIDE DEF m, d
  <2> QED
    BY <1>3, <2>1, <2>2, SMT DEF CaptureSessionLifecycle
<1> HIDE DEF d
<1>8. e = [d EXCEPT !.current = last, !.finishing = None]
  BY <1>2, <1>5, <1>7, SMT DEF Retire, At, Staged
<1>9. /\ last \in CaptureAttemptSnapshot /\ last # None
      /\ last.generation = c.current.generation
      /\ last.origin = c.current.origin
      /\ last.stage = "Finalizing"
  BY <1>4, <1>5, <1>6, <1>7, StagedType, Zenon
<1> HIDE DEF last
<1>10. e \in CaptureSessionLifecycle
  BY <1>6, <1>8, <1>9, Zenon DEF CaptureSessionLifecycle
<1>11. /\ e.next_generation = c.next_generation
       /\ e.pending_completions = c.pending_completions
       /\ e.current = last
       /\ e.finishing = None
  BY <1>6, <1>7, <1>8, SMT DEF CaptureSessionLifecycle
<1> HIDE DEF e
<1>12. S \ {s} \subseteq Save
  BY Zenon DEF CaptureInv
<1>13. CaptureInv(e, None, None, S \ {s}, F \cup {w})
  BY <1>1, <1>2, <1>9, <1>10, <1>11, <1>12, SMT
  DEF CaptureInv, Finalizing, At, CanStart, ReservesWriter
<1>14. e.current.stage = "Finalizing"
  BY <1>9, <1>11, Zenon
<1> QED
  BY <1>13, <1>14, Zenon DEF d, e

\* The receipt of a consumed writer answers its claim and no other.
LEMMA CompletePreserves ==
  ASSUME NEW c, NEW w, NEW o, NEW S, NEW F,
         CaptureInv(c, w, o, S, F), NEW g \in F, NEW succeeded \in BOOLEAN
  PROVE  CaptureInv(Complete(c, g, succeeded), w, o, S, F \ {g})
<1> DEFINE d == Complete(c, g, succeeded)
           to == IF succeeded THEN "Saved" ELSE "Failed"
           done == Staged(c, to)
<1>1. c \in CaptureSessionLifecycle
  BY Zenon DEF CaptureInv
<1>2. CASE At(c, g, {"Finalizing"})
  <2>1. /\ c.current # None /\ c.current.generation = g /\ c.current.stage = "Finalizing"
    BY <1>2, SMT DEF At
  <2>2. d = [c EXCEPT !.current = done]
    BY <1>2, SMT DEF Complete, Transition, Staged
  <2>3. to \in CaptureStage /\ to \in {"Saved", "Failed"}
    BY DEF CaptureStage
  <2> HIDE DEF to
  <2>4. /\ done \in CaptureAttemptSnapshot /\ done # None
        /\ done.generation = c.current.generation
        /\ done.origin = c.current.origin
        /\ done.stage = to
    BY <1>1, <2>1, <2>3, StagedType, Zenon
  <2> HIDE DEF done
  <2>5. d \in CaptureSessionLifecycle
    BY <1>1, <2>2, <2>4, Zenon DEF CaptureSessionLifecycle
  <2>6. /\ d.next_generation = c.next_generation
        /\ d.pending_completions = c.pending_completions
        /\ d.current = done
        /\ d.finishing = c.finishing
        /\ d.transport = c.transport
    BY <1>1, <2>2, SMT DEF CaptureSessionLifecycle
  <2> HIDE DEF d
  <2>7. g \notin c.pending_completions
    BY <1>1, <2>1, SMT DEF CaptureInv, CaptureSessionLifecycle
  <2>8. F \ {g} = d.pending_completions \cup Finalizing(d)
    <3>1. F = c.pending_completions \cup {g}
      BY <2>1, Zenon DEF CaptureInv, Finalizing
    <3>2. Finalizing(d) = {}
      BY <2>3, <2>4, <2>6, SMT DEF Finalizing
    <3> QED
      BY <2>6, <2>7, <3>1, <3>2, Zenon
  <2>9. CaptureInv(d, w, o, S, F \ {g})
    BY <1>1, <2>1, <2>3, <2>4, <2>5, <2>6, <2>8, SMT
    DEF CaptureInv, At, CanStart, ReservesWriter
  <2> QED
    BY <2>9 DEF d
<1>3. CASE ~ At(c, g, {"Finalizing"})
  <2>1. d = [c EXCEPT !.pending_completions = c.pending_completions \ {g}]
    BY <1>3, SMT DEF Complete
  <2>2. d \in CaptureSessionLifecycle
    BY <1>1, <2>1, Zenon DEF CaptureSessionLifecycle
  <2>3. /\ d.next_generation = c.next_generation
        /\ d.pending_completions = c.pending_completions \ {g}
        /\ d.current = c.current
        /\ d.finishing = c.finishing
        /\ d.transport = c.transport
    BY <1>1, <2>1, SMT DEF CaptureSessionLifecycle
  <2> HIDE DEF d
  <2>4. g \notin Finalizing(c)
    BY <1>3, SMT DEF Finalizing, At
  <2>5. F \ {g} = d.pending_completions \cup Finalizing(d)
    <3>1. Finalizing(d) = Finalizing(c)
      BY <2>3, Zenon DEF Finalizing
    <3>2. F = c.pending_completions \cup Finalizing(c)
      BY Zenon DEF CaptureInv
    <3> QED
      BY <2>3, <2>4, <3>1, <3>2, Zenon
  <2>6. CaptureInv(d, w, o, S, F \ {g})
    BY <2>2, <2>3, <2>5, SMT DEF CaptureInv, At, CanStart, ReservesWriter
  <2> QED
    BY <2>6 DEF d
<1> QED
  BY <1>2, <1>3

\* A slot that admits a start holds no writer.
LEMMA FreeSlotHasNoWriter ==
  ASSUME NEW c, NEW w, NEW o, NEW S, NEW F, CaptureInv(c, w, o, S, F), CanStart(c)
  PROVE  w = None
BY SMT DEF CaptureInv, CanStart, At, ReservesWriter

Reserved(c, n, p, a, b) ==
  [c EXCEPT !.next_generation = n, !.pending_completions = p,
            !.current = a, !.transport = b, !.finishing = None]

LEMMA ReservedFields ==
  ASSUME NEW c \in CaptureSessionLifecycle, NEW n, NEW p, NEW a, NEW b
  PROVE  /\ Reserved(c, n, p, a, b).next_generation = n
         /\ Reserved(c, n, p, a, b).current = a
         /\ Reserved(c, n, p, a, b).pending_completions = p
         /\ Reserved(c, n, p, a, b).transport = b
         /\ Reserved(c, n, p, a, b).finishing = None
BY SMT DEF CaptureSessionLifecycle, Reserved

\* The reserved attempt: a finalizing predecessor becomes a pending completion.
LEMMA BeginFields ==
  ASSUME NEW c, NEW w, NEW o, NEW S, NEW F, CaptureInv(c, w, o, S, F), CanStart(c),
         NEW binding \in ConnectionAttemptToken \cup {None},
         NEW d, d = BeginWithTransport(c, "Manual", binding)
  PROVE  /\ d \in CaptureSessionLifecycle
         /\ d.next_generation = c.next_generation + 1
         /\ d.current = [generation |-> c.next_generation + 1, origin |-> "Manual",
                         stage |-> "Starting"]
         /\ d.pending_completions = F
         /\ d.transport = binding
         /\ d.finishing = None
<1> DEFINE next == c.next_generation + 1
           pending == IF c.current # None /\ c.current.stage = "Finalizing"
                      THEN c.pending_completions \cup {c.current.generation}
                      ELSE c.pending_completions
           attempt == [generation |-> next, origin |-> "Manual", stage |-> "Starting"]
<1>1. c \in CaptureSessionLifecycle
  BY Zenon DEF CaptureInv
<1>2. next \in Nat
  BY <1>1, SMT DEF CaptureSessionLifecycle
<1>3. attempt \in CaptureAttemptSnapshot
  BY <1>2, SMT DEF CaptureAttemptSnapshot, CaptureOrigin, CaptureStage
<1>4. pending = F
  BY Zenon DEF CaptureInv, Finalizing
<1>5. pending \in SUBSET Nat
  BY <1>1, SMT DEF CaptureSessionLifecycle, CaptureAttemptSnapshot
<1>6. d = Reserved(c, next, pending, attempt, binding)
  BY SMT DEF BeginWithTransport, Reserved
<1> HIDE DEF next, pending, attempt
<1>7. d \in CaptureSessionLifecycle
  BY <1>1, <1>2, <1>3, <1>5, <1>6, Zenon DEF CaptureSessionLifecycle, Reserved
<1> DEFINE r == Reserved(c, next, pending, attempt, binding)
<1>8. /\ r.next_generation = next
      /\ r.current = attempt
      /\ r.pending_completions = pending
      /\ r.transport = binding
      /\ r.finishing = None
  BY <1>1, ReservedFields, SMT
<1> HIDE DEF r
<1>9. /\ d.next_generation = next
      /\ d.current = attempt
      /\ d.pending_completions = F
      /\ d.transport = binding
      /\ d.finishing = None
  BY <1>4, <1>6, <1>8, Zenon DEF r
<1> QED
  BY <1>7, <1>9, Zenon DEF next, attempt

\* The two answers of the writer constructor.
LEMMA StartedPreserves ==
  ASSUME NEW c, NEW w, NEW o, NEW S, NEW F, CaptureInv(c, w, o, S, F), CanStart(c),
         NEW binding \in ConnectionAttemptToken \cup {None},
         NEW begun, begun = BeginWithTransport(c, "Manual", binding)
  PROVE  /\ begun.next_generation \in Nat
         /\ CaptureInv(WriterStartFailed(begun, begun.next_generation), None, o, S, F)
         /\ CaptureInv(WriterStarted(begun, begun.next_generation),
                       begun.next_generation, binding, S, F)
<1> DEFINE g == begun.next_generation
<1>1. /\ begun \in CaptureSessionLifecycle
      /\ begun.current = [generation |-> g, origin |-> "Manual", stage |-> "Starting"]
      /\ g = c.next_generation + 1
      /\ begun.pending_completions = F
      /\ begun.transport = binding
      /\ begun.finishing = None
  <2>1. /\ begun \in CaptureSessionLifecycle
        /\ g = c.next_generation + 1
        /\ begun.current = [generation |-> c.next_generation + 1, origin |-> "Manual",
                            stage |-> "Starting"]
        /\ begun.pending_completions = F
        /\ begun.transport = binding
        /\ begun.finishing = None
    BY BeginFields DEF g
  <2> HIDE DEF g
  <2> QED
    BY <2>1, Zenon
<1>2. g \in Nat /\ c.next_generation \in Nat
  BY <1>1, SMT DEF CaptureInv, CaptureSessionLifecycle
<1>3. begun.current \in CaptureAttemptSnapshot
  BY <1>1, <1>2, SMT DEF CaptureAttemptSnapshot, CaptureOrigin, CaptureStage
<1>4. begun.current # None
  BY <1>3, CaptureAssumption, Zenon DEF CaptureAttemptSnapshot, CaptureOrigin, CaptureStage
<1>5. /\ begun.current.generation = g /\ begun.current.origin = "Manual"
      /\ begun.current.stage = "Starting"
  BY <1>1, SMT
<1>6. \A h \in F : h < g
  BY <1>1, <1>2, SMT DEF CaptureInv, Finalizing, CaptureSessionLifecycle
<1>7. S \subseteq Save /\ o \in ConnectionAttemptToken \cup {None}
  BY Zenon DEF CaptureInv
<1> HIDE DEF g
<1>8. ASSUME NEW to \in CaptureStage, NEW d,
             d = [begun EXCEPT !.current = Staged(begun, to)]
      PROVE  /\ d \in CaptureSessionLifecycle
             /\ d.next_generation = g
             /\ d.pending_completions = F
             /\ d.transport = binding
             /\ d.finishing = None
             /\ d.current # None /\ d.current.generation = g
             /\ d.current.origin = "Manual" /\ d.current.stage = to
  <2>1. /\ Staged(begun, to) \in CaptureAttemptSnapshot /\ Staged(begun, to) # None
        /\ Staged(begun, to).generation = g
        /\ Staged(begun, to).origin = "Manual"
        /\ Staged(begun, to).stage = to
    BY <1>1, <1>4, <1>5, StagedType, Zenon
  <2>2. d \in CaptureSessionLifecycle
    BY <1>1, <1>8, <2>1, Zenon DEF CaptureSessionLifecycle
  <2>3. /\ d.next_generation = begun.next_generation
        /\ d.pending_completions = begun.pending_completions
        /\ d.transport = begun.transport
        /\ d.finishing = begun.finishing
        /\ d.current = Staged(begun, to)
    BY <1>1, <1>8, SMT DEF CaptureSessionLifecycle
  <2> QED
    BY <1>1, <2>1, <2>2, <2>3, Zenon DEF g
<1>9. CaptureInv(WriterStartFailed(begun, g), None, o, S, F)
  <2> DEFINE d == WriterStartFailed(begun, g)
  <2>1. d = [begun EXCEPT !.current = Staged(begun, "Failed")]
    BY <1>4, <1>5, SMT DEF WriterStartFailed, Transition, At, Staged
  <2>2. "Failed" \in CaptureStage
    BY DEF CaptureStage
  <2> HIDE DEF d
  <2>3. /\ d \in CaptureSessionLifecycle
        /\ d.next_generation = g
        /\ d.pending_completions = F
        /\ d.transport = binding
        /\ d.finishing = None
        /\ d.current # None /\ d.current.generation = g
        /\ d.current.origin = "Manual" /\ d.current.stage = "Failed"
    BY <1>8, <2>1, <2>2, Zenon
  <2>4. CaptureInv(d, None, o, S, F)
    BY <1>6, <1>7, <2>3, SMT DEF CaptureInv, Finalizing, At, CanStart, ReservesWriter
  <2> QED
    BY <2>4 DEF d
<1>10. CaptureInv(WriterStarted(begun, g), g, binding, S, F)
  <2> DEFINE d == WriterStarted(begun, g)
  <2>1. d = [begun EXCEPT !.current = Staged(begun, "Recording")]
    BY <1>4, <1>5, SMT DEF WriterStarted, Transition, At, Staged
  <2>2. "Recording" \in CaptureStage
    BY DEF CaptureStage
  <2> HIDE DEF d
  <2>3. /\ d \in CaptureSessionLifecycle
        /\ d.next_generation = g
        /\ d.pending_completions = F
        /\ d.transport = binding
        /\ d.finishing = None
        /\ d.current # None /\ d.current.generation = g
        /\ d.current.origin = "Manual" /\ d.current.stage = "Recording"
    BY <1>8, <2>1, <2>2, Zenon
  <2>4. CaptureInv(d, g, binding, S, F)
    BY <1>2, <1>6, <1>7, <2>3, SMT DEF CaptureInv, Finalizing, At, CanStart, ReservesWriter
  <2> QED
    BY <2>4 DEF d
<1> QED
  BY <1>2, <1>9, <1>10 DEF g

-----------------------------------------------------------------------------
\* Without a writer, what its capture opened does not matter.
LEMMA OpenedIsFree ==
  ASSUME NEW c, NEW o, NEW x, NEW S, NEW F, CaptureInv(c, None, o, S, F),
         x \in ConnectionAttemptToken \cup {None}
  PROVE  CaptureInv(c, None, x, S, F)
BY Zenon DEF CaptureInv

LEMMA ConsumedPreserves ==
  ASSUME CaptureInv(cap, writer, opened, saves, finalizers), FinishCaptureWriter(cap)
  PROVE  CaptureInv(cap', writer', opened', saves, finalizers')
<1>1. CASE writer = None
  <2>1. /\ cap' = cap /\ writer' = None /\ opened' = None
        /\ finalizers' = finalizers
    BY <1>1 DEF FinishCaptureWriter
  <2>2. CaptureInv(cap, None, opened, saves, finalizers)
    BY <1>1, Zenon
  <2>3. CaptureInv(cap, None, None, saves, finalizers)
    BY <2>2, OpenedIsFree, Zenon
  <2> QED
    BY <2>1, <2>3, Zenon
<1>2. CASE writer # None
  <2>1. /\ cap' = Retire(cap, writer) /\ writer' = None /\ opened' = None
        /\ finalizers' = finalizers \cup {writer}
    BY <1>2 DEF FinishCaptureWriter
  <2>2. CaptureInv(Retire(cap, writer), None, None, saves, finalizers \cup {writer})
    BY <1>2, RetirePreserves, Zenon
  <2> QED
    BY <2>1, <2>2, Zenon
<1> QED
  BY <1>1, <1>2, Zenon

LEMMA StartPreserves ==
  ASSUME CaptureInv(cap, writer, opened, saves, finalizers), CanStart(cap),
         NEW binding \in ConnectionAttemptToken \cup {None},
         NEW outcome \in StartOutcome, StartCapture(binding, outcome)
  PROVE  CaptureInv(cap', writer', opened', saves, finalizers')
<1> DEFINE begun == BeginWithTransport(cap, "Manual", binding)
           g == begun.next_generation
           started == WriterStarted(begun, g)
<1>1. writer = None
  BY FreeSlotHasNoWriter, Zenon
<1>2. /\ g \in Nat
      /\ CaptureInv(WriterStartFailed(begun, g), None, opened, saves, finalizers)
      /\ CaptureInv(started, g, binding, saves, finalizers)
  BY StartedPreserves, Zenon
<1>3. /\ cap' = IF outcome = "NotStarted" THEN WriterStartFailed(begun, g)
                ELSE IF outcome = "Recording" THEN started
                ELSE Retire(WriterFailed(started, g), g)
      /\ writer' = IF outcome = "Recording" THEN g ELSE writer
      /\ opened' = IF outcome = "Recording" THEN binding ELSE opened
      /\ finalizers' = IF outcome = "Failed" THEN finalizers \cup {g} ELSE finalizers
  BY Zenon DEF StartCapture
<1>4. g # None
  BY <1>2, CaptureAssumption, Zenon
<1>5. opened \in ConnectionAttemptToken \cup {None}
  BY Zenon DEF CaptureInv
<1> HIDE DEF begun, g, started
<1>6. CASE outcome = "NotStarted"
  BY <1>1, <1>2, <1>3, <1>6, Zenon
<1>7. CASE outcome = "Recording"
  BY <1>2, <1>3, <1>7, Zenon
<1>8. CASE outcome = "Failed"
  <2>1. CaptureInv(WriterFailed(started, g), g, binding, saves, finalizers)
    BY <1>2, <1>4, FailurePreserves, Zenon
  <2>2. CaptureInv(Retire(WriterFailed(started, g), g), None, None, saves,
                   finalizers \cup {g})
    BY <1>4, <2>1, RetirePreserves, Zenon
  <2>3. CaptureInv(Retire(WriterFailed(started, g), g), None, opened, saves,
                   finalizers \cup {g})
    BY <1>5, <2>2, OpenedIsFree, Zenon
  <2> QED
    BY <1>1, <1>3, <1>8, <2>3, Zenon
<1> QED
  BY <1>6, <1>7, <1>8, Zenon DEF StartOutcome

-----------------------------------------------------------------------------
LEMMA IssuedToken ==
  ASSUME linkGeneration \in Nat, NEW id \in Devices, Link!Issue(id)
  PROVE  /\ link' \in ConnectionAttemptToken
         /\ link' # None
         /\ linkGeneration' = linkGeneration + 1 /\ linkGeneration' \in Nat
<1>1. /\ link' = [generation |-> linkGeneration + 1, id |-> id]
      /\ linkGeneration' = linkGeneration + 1
  BY DEF Link!Issue
<1>2. link' \in ConnectionAttemptToken
  BY <1>1, SMT DEF ConnectionAttemptToken
<1>3. link' # None
  BY <1>2, CaptureAssumption, Zenon DEF ConnectionAttemptToken
<1> QED
  BY <1>1, <1>2, <1>3

LEMMA LostLink ==
  ASSUME LinkInv(writer), LoseLink \/ Link!Retire
  PROVE  /\ link' \in ConnectionAttemptToken \cup {None}
         /\ linkGeneration' \in Nat
         /\ linkGeneration <= linkGeneration'
         /\ link' \in {link, None}
BY SMT DEF LinkInv, LoseLink, KeepLink, Link!Retire

LEMMA InitHolds == Init => IInv
<1> SUFFICES ASSUME Init PROVE IInv
  OBVIOUS
<1>1. /\ cap = DefaultCapture /\ writer = None /\ opened = None
      /\ saves = {} /\ finalizers = {} /\ link = None /\ linkGeneration = 0
      /\ peripheral = "disconnected" /\ retry = None
  BY DEF Init, Link!Init
<1>2. DefaultCapture \in CaptureSessionLifecycle
  BY SMT DEF DefaultCapture, CaptureSessionLifecycle
<1>3. /\ DefaultCapture.current = None /\ DefaultCapture.finishing = None
      /\ DefaultCapture.pending_completions = {}
  BY DEF DefaultCapture
<1>4. CaptureInv(DefaultCapture, None, None, {}, {})
  BY <1>2, <1>3, SMT DEF CaptureInv, Finalizing, CanStart
<1>5. LinkInv(writer)
  BY <1>1, CaptureAssumption, SMT DEF LinkInv, Peripheral
<1> QED
  BY <1>1, <1>4, <1>5, Zenon DEF IInv

\* The link half is untouched by a step that leaves the link alone and does not bring a
\* writer beside an armed timer.
LEMMA LinkUntouched ==
  ASSUME LinkInv(writer), UNCHANGED linkVars,
         writer' \in {writer, None} \/ retry # linkGeneration
  PROVE  LinkInv(writer)'
BY SMT DEF LinkInv, linkVars

LEMMA StartActionsPreserve ==
  ASSUME IInv, NEW outcome \in StartOutcome
  PROVE  /\ startBorrowedManualCapture(outcome) => IInv'
         /\ \A id \in Devices : connectRecordOnly(id, outcome) => IInv'
<1>0. CaptureInv(cap, writer, opened, saves, finalizers) /\ LinkInv(writer)
  BY Zenon DEF IInv
<1>1. ASSUME startBorrowedManualCapture(outcome) PROVE IInv'
  <2>1. /\ peripheral = "connected" /\ CanStart(cap) /\ StartCapture(None, outcome)
        /\ saves' = saves /\ UNCHANGED linkVars
    BY <1>1, Zenon DEF startBorrowedManualCapture, linkVars
  <2>2. CaptureInv(cap', writer', opened', saves, finalizers')
    BY <1>0, <2>1, StartPreserves, Zenon
  <2>3. retry # linkGeneration
    BY <1>0, <2>1 DEF LinkInv
  <2>4. LinkInv(writer)'
    BY <1>0, <2>1, <2>3, LinkUntouched, Zenon
  <2> QED
    BY <2>1, <2>2, <2>4, Zenon DEF IInv
<1>2. ASSUME NEW id \in Devices, connectRecordOnly(id, outcome) PROVE IInv'
  <2>1. /\ CanStart(cap) /\ StartCapture(link', outcome) /\ saves' = saves
        /\ retry' = None /\ Link!Issue(id)
        /\ peripheral = "disconnected"
        /\ peripheral' = IF outcome = "NotStarted" THEN peripheral ELSE "connecting"
    BY <1>2, Zenon DEF connectRecordOnly
  <2>2. linkGeneration \in Nat
    BY <1>0 DEF LinkInv
  <2>3. link' \in ConnectionAttemptToken /\ linkGeneration' \in Nat
    BY <2>1, <2>2, IssuedToken, Zenon
  <2>4. CaptureInv(cap', writer', opened', saves, finalizers')
    BY <1>0, <2>1, <2>3, StartPreserves, Zenon
  <2>5. LinkInv(writer)'
    BY <2>1, <2>3, CaptureAssumption, SMT DEF LinkInv, Peripheral
  <2> QED
    BY <2>1, <2>4, <2>5, Zenon DEF IInv
<1> QED
  BY <1>1, <1>2, Zenon

LEMMA LinkActionsPreserve ==
  ASSUME IInv
  PROVE  /\ \A id \in Devices : connectForProtocolDetection(id) => IInv'
         /\ didConnect => IInv'
         /\ handleDisconnect => IInv'
         /\ \A ends \in BOOLEAN : connectionTransportFailed(ends) => IInv'
         /\ handleCentralState => IInv'
         /\ disconnectAndScan => IInv'
         /\ \A id \in Devices : reconnectTimer(id) => IInv'
<1>0. CaptureInv(cap, writer, opened, saves, finalizers) /\ LinkInv(writer)
  BY Zenon DEF IInv
<1>a. linkGeneration \in Nat /\ peripheral \in Peripheral
  BY <1>0 DEF LinkInv
<1>b. ASSUME UNCHANGED <<captureVars, saves>>
      PROVE  CaptureInv(cap, writer, opened, saves, finalizers)'
  BY <1>0, <1>b, Zenon DEF captureVars
<1>c. ASSUME FinishCaptureWriter(cap), saves' = saves
      PROVE  CaptureInv(cap, writer, opened, saves, finalizers)' /\ writer' = None
  <2>1. CaptureInv(cap', writer', opened', saves, finalizers')
    BY <1>0, <1>c, ConsumedPreserves, Zenon
  <2> QED
    BY <1>c, <2>1, Zenon DEF FinishCaptureWriter
<1>1. ASSUME NEW id \in Devices, connectForProtocolDetection(id) PROVE IInv'
  <2>1. /\ FinishCaptureWriter(cap) /\ saves' = saves /\ retry' = None
        /\ Link!Issue(id) /\ peripheral' = "connecting"
    BY <1>1, Zenon DEF connectForProtocolDetection
  <2>2. link' \in ConnectionAttemptToken /\ linkGeneration' \in Nat
    BY <1>a, <2>1, IssuedToken, Zenon
  <2>3. LinkInv(writer)'
    BY <2>1, <2>2, CaptureAssumption, SMT DEF LinkInv, Peripheral
  <2> QED
    BY <1>c, <2>1, <2>3, Zenon DEF IInv
<1>2. ASSUME didConnect PROVE IInv'
  <2>1. LinkInv(writer)'
    BY <1>0, <1>2, SMT DEF LinkInv, didConnect, captureVars, Peripheral
  <2>2. UNCHANGED <<captureVars, saves>>
    BY <1>2 DEF didConnect
  <2> QED
    BY <1>b, <2>1, <2>2, Zenon DEF IInv
<1>3. ASSUME handleDisconnect PROVE IInv'
  <2>1. /\ saves' = saves /\ peripheral # "disconnected" /\ peripheral' = "disconnected"
    BY <1>3 DEF handleDisconnect
  <2>2. CASE UNCHANGED <<captureVars, link, linkGeneration, retry>>
    <3>1. LinkInv(writer)'
      BY <1>0, <2>1, <2>2, SMT DEF LinkInv, captureVars, Peripheral
    <3> QED
      BY <1>b, <2>1, <2>2, <3>1, Zenon DEF IInv
  <2>3. CASE LoseLink /\ FinishCaptureWriter(cap) /\ retry' \in {retry, linkGeneration'}
    <3>1. /\ link' \in ConnectionAttemptToken \cup {None} /\ linkGeneration' \in Nat
          /\ linkGeneration <= linkGeneration'
      BY <1>0, <2>3, LostLink, Zenon
    <3>2. writer' = None
      BY <2>3 DEF FinishCaptureWriter
    <3>3. LinkInv(writer)'
      BY <1>0, <2>1, <2>3, <3>1, <3>2, SMT DEF LinkInv, Peripheral
    <3> QED
      BY <1>c, <2>1, <2>3, <3>3, Zenon DEF IInv
  <2> QED
    BY <1>3, <2>2, <2>3, Zenon DEF handleDisconnect
<1>4. ASSUME NEW ends \in BOOLEAN, connectionTransportFailed(ends) PROVE IInv'
  <2>1. /\ saves' = saves /\ retry' = retry /\ link' = None
        /\ linkGeneration' = linkGeneration + 1
        /\ peripheral' \in {peripheral, "disconnected"}
        /\ FinishCaptureWriter(cap) \/ UNCHANGED captureVars
    BY <1>4 DEF connectionTransportFailed, Link!Retire
  <2>2. LinkInv(writer)'
    BY <1>0, <2>1, CaptureAssumption, SMT DEF LinkInv, Peripheral
  <2> QED
    BY <1>b, <1>c, <2>1, <2>2, Zenon DEF IInv
<1>5. ASSUME handleCentralState PROVE IInv'
  <2>1. /\ LoseLink /\ peripheral' = "disconnected" /\ retry' = None
        /\ UNCHANGED <<captureVars, saves>>
    BY <1>5, Zenon DEF handleCentralState
  <2>2. link' \in ConnectionAttemptToken \cup {None} /\ linkGeneration' \in Nat
    BY <1>0, <2>1, LostLink, Zenon
  <2>3. LinkInv(writer)'
    BY <2>1, <2>2, CaptureAssumption, SMT DEF LinkInv, Peripheral
  <2> QED
    BY <1>b, <2>1, <2>3, Zenon DEF IInv
<1>6. ASSUME disconnectAndScan PROVE IInv'
  <2>1. /\ Link!Retire /\ peripheral' = "disconnected" /\ retry' = None
        /\ FinishCaptureWriter(cap) /\ saves' = saves
    BY <1>6, Zenon DEF disconnectAndScan, disconnectAndScanOnBleQueue
  <2>2. link' \in ConnectionAttemptToken \cup {None} /\ linkGeneration' \in Nat
    BY <1>0, <2>1, LostLink, Zenon
  <2>3. LinkInv(writer)'
    BY <2>1, <2>2, CaptureAssumption, SMT DEF LinkInv, Peripheral
  <2> QED
    BY <1>c, <2>1, <2>3, Zenon DEF IInv
<1>7. ASSUME NEW id \in Devices, reconnectTimer(id) PROVE IInv'
  <2>1. retry' = None /\ UNCHANGED <<captureVars, saves>>
    BY <1>7 DEF reconnectTimer
  <2>2. CASE Link!Issue(id) /\ peripheral' = "connecting"
    <3>1. link' \in ConnectionAttemptToken /\ linkGeneration' \in Nat
      BY <1>a, <2>2, IssuedToken, Zenon
    <3> QED
      BY <2>1, <2>2, <3>1, <1>b, CaptureAssumption DEF IInv, LinkInv, Peripheral
  <2>3. CASE KeepLink /\ UNCHANGED peripheral
    <3>1. LinkInv(writer)'
      BY <1>0, <2>1, <2>3, CaptureAssumption, SMT DEF LinkInv, KeepLink
    <3> QED
      BY <1>b, <2>1, <3>1, Zenon DEF IInv
  <2> QED
    BY <1>7, <2>2, <2>3, Zenon DEF reconnectTimer
<1> QED
  BY <1>1, <1>2, <1>3, <1>4, <1>5, <1>6, <1>7, Zenon

LEMMA ResumePreserves ==
  ASSUME IInv, NEW s \in saves, resumeFinishCapture(s)
  PROVE  IInv'
<1> DEFINE succeeded == s.flush = "Flushed"
           flushed == FinishFlushWithTransport(cap, s.token, succeeded)
<1>0. CaptureInv(cap, writer, opened, saves, finalizers) /\ LinkInv(writer)
  BY Zenon DEF IInv
<1>1. saves' = saves \ {s}
  BY Zenon DEF resumeFinishCapture
<1>2. CASE /\ ~ (AdmitsFlush(cap, s.token) /\ succeeded)
           /\ cap' = flushed \/ (writer # None /\ cap' = WriterFailed(flushed, writer))
           /\ UNCHANGED <<writer, opened, finalizers, linkVars>>
  <2>1. CaptureInv(flushed, writer, opened, saves \ {s}, finalizers)
    <3>1. succeeded \in BOOLEAN
      OBVIOUS
    <3> HIDE DEF succeeded
    <3> QED
      BY <1>0, <1>2, <3>1, RejectedSavePreserves, Zenon
  <2> HIDE DEF flushed, succeeded
  <2>2. CaptureInv(cap', writer, opened, saves \ {s}, finalizers)
    BY <1>2, <2>1, FailurePreserves, Zenon
  <2>3. CaptureInv(cap, writer, opened, saves, finalizers)'
    BY <1>1, <1>2, <2>2, Zenon
  <2>4. LinkInv(writer)'
    BY <1>0, <1>2, LinkUntouched, Zenon DEF linkVars
  <2> QED
    BY <2>3, <2>4, Zenon DEF IInv
<1>3. CASE /\ AdmitsFlush(cap, s.token) /\ succeeded
           /\ FinishCaptureWriter(flushed)
           /\ \/ Link!Retire /\ peripheral' = "disconnected" /\ retry' = None
              \/ UNCHANGED linkVars
  <2>1. writer # None
    BY <1>0, <1>3, AcceptedSaveHoldsWriter, Zenon
  <2>2. flushed = FinishFlushWithTransport(cap, s.token, TRUE)
    BY <1>3, Zenon
  <2>3. CaptureInv(Retire(flushed, writer), None, None, saves \ {s},
                   finalizers \cup {writer})
    <3> HIDE DEF flushed, succeeded
    <3> QED
      BY <1>0, <1>3, <2>2, AcceptedSavePreserves, Zenon
  <2>4. /\ cap' = Retire(flushed, writer) /\ writer' = None /\ opened' = None
        /\ finalizers' = finalizers \cup {writer}
    <3> HIDE DEF flushed
    <3> QED
      BY <1>3, <2>1 DEF FinishCaptureWriter
  <2> HIDE DEF flushed, succeeded
  <2>5. CaptureInv(cap, writer, opened, saves, finalizers)'
    BY <1>1, <2>3, <2>4, Zenon
  <2>6. CASE Link!Retire /\ peripheral' = "disconnected" /\ retry' = None
    <3>1. link' \in ConnectionAttemptToken \cup {None} /\ linkGeneration' \in Nat
      BY <1>0, <2>6, LostLink, Zenon
    <3>2. LinkInv(writer)'
      BY <2>6, <3>1, CaptureAssumption, SMT DEF LinkInv, Peripheral
    <3> QED
      BY <2>5, <3>2, Zenon DEF IInv
  <2>7. CASE UNCHANGED linkVars
    <3>1. LinkInv(writer)'
      BY <1>0, <2>4, <2>7, LinkUntouched, Zenon
    <3> QED
      BY <2>5, <3>1, Zenon DEF IInv
  <2> QED
    BY <1>3, <2>6, <2>7, Zenon
<1> HIDE DEF flushed, succeeded
<1> QED
  BY <1>2, <1>3, Zenon DEF resumeFinishCapture, disconnectAndScanOnBleQueue, flushed, succeeded

LEMMA WriterActionsPreserve ==
  ASSUME IInv
  PROVE  /\ failCaptureWrite => IInv'
         /\ publishFatalStatus => IInv'
         /\ finishCapture => IInv'
         /\ \A s \in saves : flushCaptureOnBleQueue(s) => IInv'
         /\ \A g \in finalizers, succeeded \in BOOLEAN :
              handleCaptureWriterCompletion(g, succeeded) => IInv'
<1>0. CaptureInv(cap, writer, opened, saves, finalizers) /\ LinkInv(writer)
  BY Zenon DEF IInv
<1>a. ASSUME UNCHANGED linkVars, writer' \in {writer, None} PROVE LinkInv(writer)'
  BY <1>0, <1>a, LinkUntouched, Zenon
<1>1. ASSUME failCaptureWrite PROVE IInv'
  <2>1. writer # None /\ saves' = saves /\ UNCHANGED linkVars
    BY <1>1, Zenon DEF failCaptureWrite
  <2>2. /\ cap' = Retire(WriterFailed(cap, writer), writer)
        /\ writer' = None /\ opened' = None
        /\ finalizers' = finalizers \cup {writer}
    BY <1>1, <2>1 DEF failCaptureWrite, FinishCaptureWriter
  <2>3. CaptureInv(WriterFailed(cap, writer), writer, opened, saves, finalizers)
    BY <1>0, <2>1, FailurePreserves, Zenon
  <2>4. CaptureInv(Retire(WriterFailed(cap, writer), writer), None, None, saves,
                   finalizers \cup {writer})
    BY <2>1, <2>3, RetirePreserves, Zenon
  <2> QED
    BY <1>a, <2>1, <2>2, <2>4, Zenon DEF IInv
<1>2. ASSUME publishFatalStatus PROVE IInv'
  <2>1. /\ writer # None /\ cap' = WriterFailed(cap, writer)
        /\ writer' = writer /\ opened' = opened /\ saves' = saves
        /\ finalizers' = finalizers /\ UNCHANGED linkVars
    BY <1>2, Zenon DEF publishFatalStatus
  <2>2. CaptureInv(WriterFailed(cap, writer), writer, opened, saves, finalizers)
    BY <1>0, <2>1, FailurePreserves, Zenon
  <2> QED
    BY <1>a, <2>1, <2>2, Zenon DEF IInv
<1>3. ASSUME finishCapture PROVE IInv'
  <2>1. /\ writer # None /\ MayBeginFinish(cap, writer) /\ cap' = BeginFinish(cap, writer)
        /\ saves' = saves \cup {[token |-> cap'.finishing, flush |-> "Waiting"]}
        /\ writer' = writer /\ opened' = opened
        /\ finalizers' = finalizers /\ UNCHANGED linkVars
    BY <1>3, Zenon DEF finishCapture
  <2>2. CaptureInv(cap', writer, opened, saves', finalizers)
    BY <1>0, <2>1, BeginFinishPreserves, Zenon
  <2> QED
    BY <1>a, <2>1, <2>2, Zenon DEF IInv
<1>4. ASSUME NEW s \in saves, flushCaptureOnBleQueue(s) PROVE IInv'
  <2>1. PICK outcome \in {"Flushed", "Rejected", "Failed"} :
          /\ cap' \in {cap, WriterFailed(cap, writer)}
          /\ writer = None => cap' = cap
          /\ saves' = (saves \ {s}) \cup
               {[s EXCEPT !.flush = IF outcome = "Flushed" THEN "Flushed" ELSE "NotFlushed"]}
    BY <1>4 DEF flushCaptureOnBleQueue
  <2>2. /\ writer' = writer /\ opened' = opened
        /\ finalizers' = finalizers /\ UNCHANGED linkVars
    BY <1>4, Zenon DEF flushCaptureOnBleQueue
  <2>3. CaptureInv(cap', writer, opened, saves, finalizers)
    BY <1>0, <2>1, FailurePreserves, Zenon
  <2> DEFINE flush == IF outcome = "Flushed" THEN "Flushed" ELSE "NotFlushed"
  <2>4. flush \in Flush /\ saves' = (saves \ {s}) \cup {[s EXCEPT !.flush = flush]}
    BY <2>1, Zenon DEF Flush
  <2> HIDE DEF flush
  <2>5. CaptureInv(cap', writer, opened, saves', finalizers)
    BY <2>3, <2>4, FlushedSavePreserves, Zenon
  <2> QED
    BY <1>a, <2>2, <2>5, Zenon DEF IInv
<1>5. ASSUME NEW g \in finalizers, NEW succeeded \in BOOLEAN,
             handleCaptureWriterCompletion(g, succeeded)
      PROVE  IInv'
  <2>1. /\ cap' = Complete(cap, g, succeeded) /\ finalizers' = finalizers \ {g}
        /\ writer' = writer /\ opened' = opened /\ saves' = saves /\ UNCHANGED linkVars
    BY <1>5, Zenon DEF handleCaptureWriterCompletion
  <2>2. CaptureInv(Complete(cap, g, succeeded), writer, opened, saves, finalizers \ {g})
    BY <1>0, CompletePreserves, Zenon
  <2> QED
    BY <1>a, <2>1, <2>2, Zenon DEF IInv
<1> QED
  BY <1>1, <1>2, <1>3, <1>4, <1>5, Zenon

\* Every reachable state of the session core satisfies the inductive invariant: the capture
\* owner, the recorder, the suspended saves, the consumed writers and the reconnect timer
\* agree between any two handlers of the Bluetooth queue.
THEOREM InvariantHolds == Spec => []IInv
<1>1. Init => IInv
  BY InitHolds
<1>2. IInv /\ [Next]_vars => IInv'
  <2> SUFFICES ASSUME IInv, [Next]_vars PROVE IInv'
    OBVIOUS
  <2>1. CASE UNCHANGED vars
    <3>1. /\ cap' = cap /\ writer' = writer /\ opened' = opened /\ saves' = saves
          /\ finalizers' = finalizers /\ UNCHANGED linkVars
      BY <2>1, Zenon DEF vars, linkVars
    <3>2. LinkInv(writer)'
      BY <3>1, LinkUntouched, Zenon DEF IInv
    <3> QED
      BY <3>1, <3>2, Zenon DEF IInv
  <2>2. CASE Next
    BY <2>2, StartActionsPreserve, LinkActionsPreserve, WriterActionsPreserve, ResumePreserves,
       Zenon DEF Next
  <2> QED
    BY <2>1, <2>2, Zenon
<1> QED
  BY <1>1, <1>2, PTL DEF Spec

\* The records of the capture owner and what the recorder, the saves and the link hold keep
\* their types.
THEOREM TypeCorrect == Spec => []TypeOK
<1>1. IInv => TypeOK
  <2> SUFFICES ASSUME IInv PROVE TypeOK
    OBVIOUS
  <2>1. /\ cap \in CaptureSessionLifecycle /\ writer \in Nat \cup {None}
        /\ opened \in ConnectionAttemptToken \cup {None} /\ saves \subseteq Save
        /\ finalizers = cap.pending_completions \cup Finalizing(cap)
        /\ LinkInv(writer)
    BY Zenon DEF IInv, CaptureInv
  <2>2. finalizers \subseteq Nat
    BY <2>1, SMT DEF CaptureSessionLifecycle, CaptureAttemptSnapshot, Finalizing
  <2> QED
    BY <2>1, <2>2, Zenon DEF TypeOK, LinkInv
<1> QED
  BY <1>1, InvariantHolds, PTL

\* The recorder holds a writer exactly when the current attempt reserves one, in whatever
\* order saves, disconnections, failures and receipts are handled.
THEOREM SlotAndWriterAgree == Spec => []WriterHoldsSlot
<1>1. IInv => WriterHoldsSlot
  BY Zenon DEF IInv, CaptureInv, WriterHoldsSlot
<1> QED
  BY <1>1, InvariantHolds, PTL

\* Every consumed writer is awaited by exactly one claim and every claim has its writer.
THEOREM ReceiptsAreClaimed == Spec => []ReceiptsMatchClaims
<1>1. IInv => ReceiptsMatchClaims
  <2> SUFFICES ASSUME IInv PROVE ReceiptsMatchClaims
    OBVIOUS
  <2>1. /\ cap \in CaptureSessionLifecycle
        /\ finalizers = cap.pending_completions \cup Finalizing(cap)
        /\ cap.current # None => cap.current.generation = cap.next_generation
        /\ \A g \in cap.pending_completions : g < cap.next_generation
    BY Zenon DEF IInv, CaptureInv
  <2>2. cap.current # None => cap.current.generation \notin cap.pending_completions
    BY <2>1, SMT DEF CaptureSessionLifecycle
  <2> QED
    BY <2>1, <2>2, Zenon DEF ReceiptsMatchClaims, Finalizing
<1> QED
  BY <1>1, InvariantHolds, PTL

\* A Saving attempt is always held by a suspended finishCapture call.
THEOREM SavesAreHeld == Spec => []SavingHasItsCall
<1>1. IInv => SavingHasItsCall
  BY Zenon DEF IInv, CaptureInv, SavingHasItsCall
<1> QED
  BY <1>1, InvariantHolds, PTL

\* Neither pairing nor the reconnect timer begins an attempt while a writer is recording.
THEOREM RecordingsKeepTheLink == Spec => RecordingIsNotDisplaced
<1>1. ASSUME IInv, Next, link' \notin {link, None} PROVE writer = None
  <2>0. CaptureInv(cap, writer, opened, saves, finalizers) /\ LinkInv(writer)
    BY <1>1, Zenon DEF IInv
  <2>1. CASE CanStart(cap)
    BY <2>0, <2>1, FreeSlotHasNoWriter, Zenon
  <2>2. CASE CanPair(cap)
    BY <2>0, <2>2, SMT DEF CaptureInv, CanPair, At, ReservesWriter
  <2>3. CASE retry = linkGeneration
    BY <2>0, <2>3, Zenon DEF LinkInv
  <2>4. CASE LoseLink \/ Link!Retire \/ UNCHANGED linkVars \/ UNCHANGED link
    BY <1>1, <2>0, <2>4, LostLink, Zenon DEF linkVars
  <2> QED
    BY <1>1, <2>1, <2>2, <2>3, <2>4, Zenon
       DEF Next, startBorrowedManualCapture, connectRecordOnly, connectForProtocolDetection,
           didConnect, handleDisconnect, connectionTransportFailed, handleCentralState,
           disconnectAndScan, disconnectAndScanOnBleQueue, reconnectTimer, KeepLink,
           failCaptureWrite, publishFatalStatus, finishCapture, flushCaptureOnBleQueue,
           resumeFinishCapture, handleCaptureWriterCompletion
<1>2. IInv /\ [Next]_vars => [link' \notin {link, None} => writer = None]_vars
  BY <1>1, Zenon DEF vars
<1> QED
  BY <1>2, InvariantHolds, PTL DEF Spec, RecordingIsNotDisplaced

\* The end of a save closes the link only if the very capture that was saved opened it.
THEOREM SavesCloseTheirLink == Spec => SaveClosesOnlyItsLink
<1> DEFINE Closes == \A s \in saves : (s \notin saves' /\ s.flush # "Waiting" /\ link' # link)
                                      => (opened # None /\ link = opened)
<1>1. ASSUME IInv, Next PROVE Closes
  <2>0. CaptureInv(cap, writer, opened, saves, finalizers)
    BY <1>1, Zenon DEF IInv
  <2>1. CASE saves \subseteq saves' \/ link' = link
    BY <2>1, Zenon
  <2>2. ASSUME NEW s \in saves, resumeFinishCapture(s) PROVE Closes
    <3>1. CASE AdmitsFlush(cap, s.token) /\ ReleasesOwnedTransport(cap, link)
      <4>1. cap.transport = opened
        BY <2>0, <3>1, AcceptedSaveHoldsWriter, Zenon
      <4> QED
        BY <3>1, <4>1, Zenon DEF ReleasesOwnedTransport
    <3>2. CASE UNCHANGED linkVars
      BY <3>2, Zenon DEF linkVars
    <3> QED
      BY <2>2, <3>1, <3>2, Zenon DEF resumeFinishCapture
  <2>3. ASSUME NEW s \in saves, flushCaptureOnBleQueue(s) PROVE Closes
    BY <2>3, Zenon DEF flushCaptureOnBleQueue, linkVars
  <2>4. ASSUME finishCapture PROVE Closes
    BY <2>4, Zenon DEF finishCapture, linkVars
  <2> HIDE DEF Closes
  <2>5. saves' = saves => Closes
    BY <2>1
  <2> QED
    BY <1>1, <2>2, <2>3, <2>4, <2>5, Zenon
       DEF Next, startBorrowedManualCapture, connectRecordOnly, connectForProtocolDetection,
           didConnect, handleDisconnect, connectionTransportFailed, handleCentralState,
           disconnectAndScan, reconnectTimer, failCaptureWrite, publishFatalStatus,
           handleCaptureWriterCompletion
<1>2. IInv /\ [Next]_vars => [Closes]_vars
  BY <1>1, Zenon
<1> QED
  BY <1>2, InvariantHolds, PTL DEF Spec, SaveClosesOnlyItsLink

-----------------------------------------------------------------------------
\* From c to d the stage of the attempt stays or takes a permitted step.
Advances(c, d) ==
  (c.current # None /\ d.current # c.current /\ d.current.generation = c.current.generation)
    => <<c.current.stage, d.current.stage>> \in StageSteps

\* A writer whose attempt is retired: its attempt becomes Finalizing.
LEMMA RetireStage ==
  ASSUME NEW c, NEW w, NEW o, NEW S, NEW F, CaptureInv(c, w, o, S, F), w # None
  PROVE  /\ c.current.stage \in {"Recording", "Saving", "SaveFailed"}
         /\ Retire(c, w).current.generation = w
         /\ Retire(c, w).current.stage = "Finalizing"
<1>1. /\ c \in CaptureSessionLifecycle /\ c.current # None /\ c.current.generation = w
      /\ c.current.stage \in {"Recording", "Saving", "SaveFailed"}
  BY Zenon DEF CaptureInv, At
<1>2. Retire(c, w).current = Staged(c, "Finalizing")
  BY <1>1, SMT DEF Retire, At, Staged, CaptureSessionLifecycle
<1>3. "Finalizing" \in CaptureStage
  BY DEF CaptureStage
<1>4. /\ Staged(c, "Finalizing").generation = w
      /\ Staged(c, "Finalizing").stage = "Finalizing"
  BY <1>1, <1>3, StagedType, Zenon
<1> QED
  BY <1>1, <1>2, <1>4, Zenon

\* A failure reported for the held writer stops a recording and changes nothing else.
LEMMA FailureStage ==
  ASSUME NEW c, NEW w, NEW o, NEW S, NEW F, CaptureInv(c, w, o, S, F), w # None
  PROVE  \/ WriterFailed(c, w).current = c.current
         \/ /\ c.current.stage = "Recording"
            /\ WriterFailed(c, w).current.stage = "SaveFailed"
<1>1. /\ c \in CaptureSessionLifecycle /\ c.current # None /\ c.current.generation = w
      /\ c.current \in CaptureAttemptSnapshot
  BY Zenon DEF CaptureInv, At, CaptureSessionLifecycle
<1>2. CASE ~ At(c, w, {"Recording", "SaveFailed"})
  BY <1>2, Zenon DEF WriterFailed
<1>3. CASE At(c, w, {"Recording", "SaveFailed"})
  <2>1. WriterFailed(c, w).current = Staged(c, "SaveFailed")
    BY <1>1, <1>3, SMT DEF WriterFailed, Staged, CaptureSessionLifecycle
  <2>2. "SaveFailed" \in CaptureStage
    BY DEF CaptureStage
  <2>3. Staged(c, "SaveFailed").stage = "SaveFailed"
    BY <1>1, <2>2, StagedType, Zenon
  <2>4. c.current.stage = "SaveFailed" => Staged(c, "SaveFailed") = c.current
    BY <1>1, SMT DEF Staged, CaptureAttemptSnapshot
  <2> QED
    BY <1>3, <2>1, <2>3, <2>4, Zenon DEF At
<1> QED
  BY <1>2, <1>3, Zenon

\* A refused or failed flush: the save fails, or the call has lost its admission.
LEMMA RejectedSaveStage ==
  ASSUME NEW c, NEW w, NEW o, NEW S, NEW F, CaptureInv(c, w, o, S, F),
         NEW token, NEW succeeded \in BOOLEAN, ~ (AdmitsFlush(c, token) /\ succeeded)
  PROVE  \/ FinishFlushWithTransport(c, token, succeeded).current = c.current
         \/ /\ c.current.stage = "Saving"
            /\ FinishFlushWithTransport(c, token, succeeded).current.stage = "SaveFailed"
<1>1. CASE ~ AdmitsFlush(c, token)
  BY <1>1, Zenon DEF FinishFlushWithTransport, FinishFlush
<1>2. CASE AdmitsFlush(c, token)
  <2>1. /\ c.current # None /\ c.current.stage = "Saving" /\ ~ succeeded
        /\ c \in CaptureSessionLifecycle
    BY <1>2, SMT DEF AdmitsFlush, At, CaptureInv
  <2>2. FinishFlushWithTransport(c, token, succeeded).current = Staged(c, "SaveFailed")
    BY <1>2, <2>1, SMT DEF FinishFlushWithTransport, FinishFlush, Staged, CaptureSessionLifecycle
  <2>3. "SaveFailed" \in CaptureStage
    BY DEF CaptureStage
  <2>4. Staged(c, "SaveFailed").stage = "SaveFailed"
    BY <2>1, <2>3, StagedType, Zenon
  <2> QED
    BY <2>1, <2>2, <2>4, Zenon
<1> QED
  BY <1>1, <1>2, Zenon

LEMMA BeginFinishStage ==
  ASSUME NEW c, NEW w, c \in CaptureSessionLifecycle, MayBeginFinish(c, w)
  PROVE  /\ c.current.stage \in {"Recording", "SaveFailed"}
         /\ BeginFinish(c, w).current.stage = "Saving"
<1>1. c.current # None /\ c.current.stage \in {"Recording", "SaveFailed"}
  BY Zenon DEF MayBeginFinish, At
<1>2. BeginFinish(c, w).current = Staged(c, "Saving")
  BY SMT DEF BeginFinish, Staged, CaptureSessionLifecycle
<1>3. "Saving" \in CaptureStage
  BY DEF CaptureStage
<1>4. Staged(c, "Saving").stage = "Saving"
  BY <1>1, <1>3, StagedType, Zenon
<1> QED
  BY <1>1, <1>2, <1>4, Zenon

LEMMA CompleteStage ==
  ASSUME NEW c, NEW g, c \in CaptureSessionLifecycle, NEW succeeded \in BOOLEAN
  PROVE  \/ Complete(c, g, succeeded).current = c.current
         \/ /\ c.current.stage = "Finalizing"
            /\ Complete(c, g, succeeded).current.stage \in {"Saved", "Failed"}
<1> DEFINE to == IF succeeded THEN "Saved" ELSE "Failed"
<1>1. CASE ~ At(c, g, {"Finalizing"})
  BY <1>1, SMT DEF Complete, CaptureSessionLifecycle
<1>2. CASE At(c, g, {"Finalizing"})
  <2>1. c.current # None /\ c.current.stage = "Finalizing"
    BY <1>2, Zenon DEF At
  <2>2. to \in CaptureStage /\ to \in {"Saved", "Failed"}
    BY DEF CaptureStage
  <2>3. Complete(c, g, succeeded).current = Staged(c, to)
    BY <1>2, SMT DEF Complete, Transition, Staged, CaptureSessionLifecycle
  <2> HIDE DEF to
  <2>4. Staged(c, to).stage = to
    BY <2>1, <2>2, StagedType, Zenon
  <2> QED
    BY <2>1, <2>2, <2>3, <2>4, Zenon
<1> QED
  BY <1>1, <1>2, Zenon

\* A start is a new attempt.
LEMMA StartIsNewAttempt ==
  ASSUME CaptureInv(cap, writer, opened, saves, finalizers), CanStart(cap),
         NEW binding \in ConnectionAttemptToken \cup {None},
         NEW outcome \in StartOutcome, StartCapture(binding, outcome)
  PROVE  cap'.current.generation = cap.next_generation + 1
<1> DEFINE begun == BeginWithTransport(cap, "Manual", binding)
           g == begun.next_generation
           started == WriterStarted(begun, g)
<1>1. /\ begun \in CaptureSessionLifecycle
      /\ g = cap.next_generation + 1
      /\ begun.current = [generation |-> cap.next_generation + 1, origin |-> "Manual",
                          stage |-> "Starting"]
  BY BeginFields DEF g
<1>2. /\ g \in Nat /\ CaptureInv(started, g, binding, saves, finalizers)
  BY StartedPreserves, Zenon
<1>3. g # None
  BY <1>2, CaptureAssumption, Zenon
<1>4. cap' = IF outcome = "NotStarted" THEN WriterStartFailed(begun, g)
             ELSE IF outcome = "Recording" THEN started
             ELSE Retire(WriterFailed(started, g), g)
  BY Zenon DEF StartCapture
<1> HIDE DEF begun, g, started
<1>5. CASE outcome = "NotStarted"
  <2>1. begun.current.generation = g /\ begun.current.stage = "Starting"
    BY <1>1, SMT
  <2>2. begun.current \in CaptureAttemptSnapshot
    BY <1>1, <1>2, SMT DEF CaptureAttemptSnapshot, CaptureOrigin, CaptureStage
  <2>3. begun.current # None
    BY <2>2, CaptureAssumption, Zenon DEF CaptureAttemptSnapshot, CaptureOrigin, CaptureStage
  <2>4. WriterStartFailed(begun, g).current = Staged(begun, "Failed")
    BY <1>1, <2>1, <2>3, SMT
       DEF WriterStartFailed, Transition, At, Staged, CaptureSessionLifecycle
  <2>5. "Failed" \in CaptureStage
    BY DEF CaptureStage
  <2>6. Staged(begun, "Failed").generation = g
    BY <1>1, <2>1, <2>3, <2>5, StagedType, Zenon
  <2> QED
    BY <1>1, <1>4, <1>5, <2>4, <2>6, Zenon
<1>6. CASE outcome = "Recording"
  <2>1. started.current.generation = g
    BY <1>2, <1>3, Zenon DEF CaptureInv, At
  <2> QED
    BY <1>1, <1>4, <1>6, <2>1, Zenon
<1>7. CASE outcome = "Failed"
  <2>1. CaptureInv(WriterFailed(started, g), g, binding, saves, finalizers)
    BY <1>2, <1>3, FailurePreserves, Zenon
  <2>2. Retire(WriterFailed(started, g), g).current.generation = g
    BY <1>3, <2>1, RetireStage, Zenon
  <2> QED
    BY <1>1, <1>4, <1>7, <2>2, Zenon
<1> QED
  BY <1>5, <1>6, <1>7, Zenon DEF StartOutcome

\* Within one attempt the stage only advances: no handler shows a failed save as recording
\* again, revives a finalizing attempt or revises a terminal outcome.
THEOREM StagesOnlyAdvance == Spec => StagesAdvance
<1>1. ASSUME IInv, Next PROVE Advances(cap, cap')
  <2>0. CaptureInv(cap, writer, opened, saves, finalizers) /\ LinkInv(writer)
    BY <1>1, Zenon DEF IInv
  <2>a. cap \in CaptureSessionLifecycle /\ linkGeneration \in Nat
    BY <2>0, Zenon DEF CaptureInv, LinkInv
  <2>1. ASSUME NEW binding \in ConnectionAttemptToken \cup {None}, CanStart(cap),
               NEW outcome \in StartOutcome, StartCapture(binding, outcome)
        PROVE  Advances(cap, cap')
    <3>1. cap'.current.generation = cap.next_generation + 1
      BY <2>0, <2>1, StartIsNewAttempt, Zenon
    <3>2. cap.current # None => cap.current.generation = cap.next_generation
      BY <2>0, Zenon DEF CaptureInv
    <3>3. cap.next_generation \in Nat
      BY <2>a, SMT DEF CaptureSessionLifecycle
    <3>4. cap.current # None => cap'.current.generation # cap.current.generation
      BY <3>1, <3>2, <3>3, SMT
    <3> QED
      BY <3>4, Zenon DEF Advances
  <2>2. ASSUME FinishCaptureWriter(cap) PROVE Advances(cap, cap')
    <3>1. CASE writer = None
      BY <2>2, <3>1, Zenon DEF FinishCaptureWriter, Advances
    <3>2. CASE writer # None
      BY <2>0, <2>2, <3>2, RetireStage DEF FinishCaptureWriter, Advances, StageSteps
    <3> QED
      BY <3>1, <3>2, Zenon
  <2>3. ASSUME cap' = cap PROVE Advances(cap, cap')
    BY <2>3, Zenon DEF Advances
  <2>4. ASSUME writer # None, cap' = WriterFailed(cap, writer) PROVE Advances(cap, cap')
    BY <2>0, <2>4, FailureStage DEF Advances, StageSteps
  <2>5. ASSUME NEW outcome \in StartOutcome, startBorrowedManualCapture(outcome)
        PROVE  Advances(cap, cap')
    BY <2>1, <2>5, Zenon DEF startBorrowedManualCapture
  <2>6. ASSUME NEW id \in Devices, NEW outcome \in StartOutcome, connectRecordOnly(id, outcome)
        PROVE  Advances(cap, cap')
    <3>1. CanStart(cap) /\ StartCapture(link', outcome) /\ Link!Issue(id)
      BY <2>6, Zenon DEF connectRecordOnly
    <3>2. link' \in ConnectionAttemptToken
      BY <2>a, <3>1, IssuedToken, Zenon
    <3> QED
      BY <2>1, <3>1, <3>2, Zenon
  <2>7. ASSUME failCaptureWrite PROVE Advances(cap, cap')
    <3>1. writer # None /\ cap' = Retire(WriterFailed(cap, writer), writer)
      BY <2>7, Zenon DEF failCaptureWrite, FinishCaptureWriter
    <3>2. CaptureInv(WriterFailed(cap, writer), writer, opened, saves, finalizers)
      BY <2>0, <3>1, FailurePreserves, Zenon
    <3>3. /\ cap'.current.stage = "Finalizing"
          /\ cap.current.stage \in {"Recording", "Saving", "SaveFailed"}
      BY <2>0, <3>1, <3>2, RetireStage, Zenon
    <3> QED
      BY <3>3 DEF Advances, StageSteps
  <2>8. ASSUME finishCapture PROVE Advances(cap, cap')
    BY <2>a, <2>8, BeginFinishStage DEF finishCapture, Advances, StageSteps
  <2>9. ASSUME NEW s \in saves, resumeFinishCapture(s) PROVE Advances(cap, cap')
    <3> DEFINE succeeded == s.flush = "Flushed"
               flushed == FinishFlushWithTransport(cap, s.token, succeeded)
    <3>1. CASE AdmitsFlush(cap, s.token) /\ succeeded /\ FinishCaptureWriter(flushed)
      <4>1. writer # None /\ cap.current.stage = "Saving"
        BY <2>0, <3>1, AcceptedSaveHoldsWriter, Zenon
      <4>2. cap' = Retire(flushed, writer)
        BY <3>1, <4>1, Zenon DEF FinishCaptureWriter
      <4>3. flushed = FinishFlushWithTransport(cap, s.token, TRUE)
        BY <3>1, Zenon
      <4> HIDE DEF flushed, succeeded
      <4>4. Retire(flushed, writer).current.stage = "Finalizing"
        BY <2>0, <3>1, <4>3, AcceptedSavePreserves, Zenon
      <4> QED
        BY <4>1, <4>2, <4>4 DEF Advances, StageSteps
    <3>2. CASE /\ ~ (AdmitsFlush(cap, s.token) /\ succeeded)
               /\ cap' = flushed \/ (writer # None /\ cap' = WriterFailed(flushed, writer))
      <4>1. succeeded \in BOOLEAN
        OBVIOUS
      <4> HIDE DEF succeeded
      <4>2. \/ flushed.current = cap.current
            \/ cap.current.stage = "Saving" /\ flushed.current.stage = "SaveFailed"
        BY <2>0, <3>2, <4>1, RejectedSaveStage, Zenon
      <4>3. CaptureInv(flushed, writer, opened, saves \ {s}, finalizers)
        BY <2>0, <3>2, <4>1, RejectedSavePreserves, Zenon
      <4> HIDE DEF flushed
      <4>4. CASE cap' = flushed
        BY <4>2, <4>4 DEF Advances, StageSteps
      <4>5. CASE writer # None /\ cap' = WriterFailed(flushed, writer)
        <5>1. \/ cap'.current = flushed.current
              \/ flushed.current.stage = "Recording" /\ cap'.current.stage = "SaveFailed"
          BY <4>3, <4>5, FailureStage, Zenon
        <5> QED
          BY <4>2, <5>1 DEF Advances, StageSteps
      <4> QED
        BY <3>2, <4>4, <4>5, Zenon
    <3> HIDE DEF flushed, succeeded
    <3> QED
      BY <2>9, <3>1, <3>2, Zenon
         DEF resumeFinishCapture, disconnectAndScanOnBleQueue, flushed, succeeded
  <2>10. ASSUME NEW g \in finalizers, NEW succeeded \in BOOLEAN,
                handleCaptureWriterCompletion(g, succeeded)
         PROVE  Advances(cap, cap')
    BY <2>a, <2>10, CompleteStage DEF handleCaptureWriterCompletion, Advances, StageSteps
  <2>11. ASSUME NEW s \in saves, flushCaptureOnBleQueue(s) PROVE Advances(cap, cap')
    <3>1. cap' = cap \/ (writer # None /\ cap' = WriterFailed(cap, writer))
      BY <2>11 DEF flushCaptureOnBleQueue
    <3> QED
      BY <2>3, <2>4, <3>1, Zenon
  <2> QED
    BY <1>1, <2>2, <2>3, <2>4, <2>5, <2>6, <2>7, <2>8, <2>9, <2>10, <2>11, Zenon
       DEF Next, connectForProtocolDetection, didConnect, handleDisconnect,
           connectionTransportFailed, handleCentralState, disconnectAndScan,
           disconnectAndScanOnBleQueue, reconnectTimer, publishFatalStatus, captureVars
<1>2. IInv /\ [Next]_vars => [Advances(cap, cap')]_vars
  BY <1>1, Zenon
<1> QED
  BY <1>2, InvariantHolds, PTL DEF Spec, StagesAdvance, Advances
=============================================================================
