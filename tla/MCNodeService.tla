--------------------------- MODULE MCNodeService ----------------------------
(* Instances of NodeService for TLC. *)
EXTENDS NodeService, TLC

CONSTANTS a1, a2, k

\* Two logs of agents, created within one reading of the clock, and one log
\* of a child.
MCSource == a1 :> "agent" @@ a2 :> "agent" @@ k :> "child"
MCId == a1 :> 1 @@ a2 :> 1 @@ k :> 2

MCSourceChild == k :> "child"
MCIdChild == k :> 2
=============================================================================
