--------------------------- MODULE MarkerRegister ---------------------------
(***************************************************************************)
(* What the ride marker writer promises its caller: storage holds one of   *)
(* the intents of the app, and moves only towards the latest of them.  It  *)
(* may skip intents that were replaced before they were written.  A        *)
(* process death forgets the intents that were not stored.                 *)
(***************************************************************************)
EXTENDS Naturals, Sequences

CONSTANT Intents

VARIABLES
  requested,  \* the intents, oldest first; the first is what storage held at the start
  stored,     \* the latest of them that storage has caught up with
  durable     \* what storage holds

RegisterInit ==
  /\ durable \in Intents
  /\ requested = <<durable>>
  /\ stored = 1

\* An intent to store what is there already may count as stored at once.
Request(intent) ==
  /\ requested' = Append(requested, intent)
  /\ \/ stored' = stored
     \/ durable = intent /\ stored' = Len(requested')
  /\ UNCHANGED durable

Store ==
  /\ stored' \in stored + 1 .. Len(requested)
  /\ durable' = requested[stored']
  /\ UNCHANGED requested

Forget ==
  /\ requested' = SubSeq(requested, 1, stored)
  /\ UNCHANGED <<stored, durable>>

RegisterNext == (\E intent \in Intents : Request(intent)) \/ Store \/ Forget

RegisterSpec == RegisterInit /\ [][RegisterNext]_<<requested, stored, durable>>
=============================================================================
