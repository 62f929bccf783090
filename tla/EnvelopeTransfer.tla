-------------------------- MODULE EnvelopeTransfer --------------------------
(***************************************************************************)
(* What a hop of the tree, or the whole way up, promises for the envelopes *)
(* it is handed, whatever streams, queues and retries carry them:          *)
(*                                                                         *)
(*   new -> held -> flying -> arrived                                      *)
(*            |        |                                                   *)
(*            +--------+----> lost                                         *)
(*                                                                         *)
(* An envelope that is held stays held until the transport took it; only   *)
(* a holder that shuts down abandons what it still holds.  What the        *)
(* transport took arrives at most once or is lost, with its connection or  *)
(* a process further up, and is never handed to the transport again.       *)
(***************************************************************************)

CONSTANT Envelopes

VARIABLES
  status,     \* where each envelope is in the picture above
  stopping    \* envelopes whose holder has been told to shut down

Status == {"new", "held", "flying", "arrived", "lost"}

TransferTypeOK ==
  /\ status \in [Envelopes -> Status]
  /\ stopping \subseteq Envelopes

In(place) == {e \in Envelopes : status[e] = place}

Become(S, place) ==
  status' = [e \in Envelopes |-> IF e \in S THEN place ELSE status[e]]

Init ==
  /\ status = [e \in Envelopes |-> "new"]
  /\ stopping = {}

\* The service hands over an envelope.
Accept(e) ==
  /\ status[e] = "new"
  /\ Become({e}, "held")
  /\ UNCHANGED stopping

\* The transport takes a held envelope.
Emit(e) ==
  /\ status[e] = "held"
  /\ Become({e}, "flying")
  /\ UNCHANGED stopping

\* The other side's handler runs on it.
Arrive(e) ==
  /\ status[e] = "flying"
  /\ Become({e}, "arrived")
  /\ UNCHANGED stopping

\* A connection dies with everything that was under way on it; a holder that
\* is told to stop, or was, drops what it holds.
Lose ==
  /\ stopping \subseteq stopping' /\ stopping' \subseteq Envelopes
  /\ \E S \in SUBSET (In("flying") \cup (In("held") \cap stopping')) :
       Become(S, "lost")

Next ==
  \/ Lose
  \/ \E e \in Envelopes : Accept(e) \/ Emit(e) \/ Arrive(e)

Spec == Init /\ [][Next]_<<status, stopping>>
=============================================================================
