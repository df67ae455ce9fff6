-------------------------- MODULE MCSessionEngine --------------------------
(* Small instances of SessionEngine for TLC.                               *)
EXTENDS SessionEngine

CONSTANTS c1, h1

Bounds(crash, fault, hand, respawn) ==
  [k \in Outside |-> CASE k = "crash" -> crash [] k = "fault" -> fault
                       [] k = "hand" -> hand [] k = "respawn" -> respawn]

\* One of each.
AllBounds == Bounds(1, 1, 1, 1)
=============================================================================
