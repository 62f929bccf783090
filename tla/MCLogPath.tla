----------------------------- MODULE MCLogPath -----------------------------
(* Instances of LogPath for TLC. *)
EXTENDS LogPath, TLC

CONSTANTS x, y

\* One log from the bottom, one from a relay.
MCOrigin == x :> 0 @@ y :> 1
=============================================================================
