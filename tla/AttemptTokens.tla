--------------------------- MODULE AttemptTokens ---------------------------
(***************************************************************************)
(* What the connection owner promises to the parts of the session that     *)
(* hold one of its tokens (captures, rides, phone drive): a token is       *)
(* replaced or withdrawn only together with the next generation, so a      *)
(* token that is no longer current never is again.  ConnectionLifecycle    *)
(* implements this specification; modules that need only the identity of   *)
(* the current attempt are written against it.                             *)
(***************************************************************************)
EXTENDS Naturals

CONSTANTS
  Devices,   \* platform identifiers of peripherals
  None       \* Option::None

VARIABLES
  generation,   \* ConnectionAttemptSnapshot::generation
  token         \* ConnectionAttemptSnapshot::token

\* A new attempt (begin, or an admitted retry).
Issue(id) ==
  /\ generation' = generation + 1
  /\ token' = [generation |-> generation + 1, id |-> id]

\* The attempt, if any, is retired (disconnect, conflict, lost or exhausted link).
Retire ==
  /\ generation' = generation + 1
  /\ token' = None

Init == generation = 0 /\ token = None

Next == (\E id \in Devices : Issue(id)) \/ Retire

Spec == Init /\ [][Next]_<<generation, token>>
=============================================================================
