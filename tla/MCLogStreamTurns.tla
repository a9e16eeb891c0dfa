-------------------------- MODULE MCLogStreamTurns --------------------------
(***************************************************************************)
(* LogStream for TLC, with a history of whether subscriptions have         *)
(* overlapped: a process that, like the Agent, opens one after the other   *)
(* is promised more than one whose subscriptions overlap.                  *)
(***************************************************************************)
EXTENDS MCLogStream

VARIABLE overlapped

TurnsInit == Init /\ overlapped = FALSE

TurnsNext == Next /\ overlapped' = (overlapped \/ Cardinality(Open') > 1)

TurnsSpec == TurnsInit /\ [][TurnsNext]_<<vars, overlapped>>

\* In a process with one subscription after the other each container has at
\* most one follow stream (README.md, alerts: "each running container has at
\* most one Caroline-side follow stream"), and the subscriber is attached to
\* every stream of the map, those that Refresh created included.
ServedInTurn == ~ overlapped => AtMostOneFollow /\ AttachedToAll
=============================================================================
