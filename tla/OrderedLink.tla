----------------------------- MODULE OrderedLink -----------------------------
(***************************************************************************)
(* What the links from parents to their children promise, whatever         *)
(* streams, registries and buffers they are made of: a receiver gets what  *)
(* was sent to it while it was connected, in the order it was sent, each   *)
(* message at most once.  A send never waits: it skips the receivers that  *)
(* have no room.  A link that is cut loses the newest of what was under    *)
(* way on it, and one that comes back starts empty.                        *)
(***************************************************************************)
EXTENDS Integers, Sequences, Functions

CONSTANTS
  Receivers,
  Messages,
  Capacity     \* how much can be under way to one receiver

VARIABLES
  connected,   \* receivers that are sent to
  underway,    \* what has been sent to each and not received, in order
  received     \* what each has received, in order

LinkTypeOK ==
  /\ connected \subseteq Receivers
  /\ {underway, received} \subseteq [Receivers -> Seq(Messages)]
  /\ \A c \in Receivers : Len(underway[c]) <= Capacity

Init ==
  /\ connected = {}
  /\ underway = [c \in Receivers |-> <<>>]
  /\ received = [c \in Receivers |-> <<>>]

\* m goes to some connected receivers that have room and never had it.
Send(m) ==
  /\ \E S \in SUBSET connected :
       /\ \A c \in S : /\ Len(underway[c]) < Capacity
                       /\ m \notin Range(underway[c]) \cup Range(received[c])
       /\ underway' = [c \in Receivers |->
                         IF c \in S THEN Append(underway[c], m) ELSE underway[c]]
  /\ UNCHANGED <<connected, received>>

Deliver(c) ==
  /\ underway[c] # <<>>
  /\ received' = [received EXCEPT ![c] = Append(@, Head(underway[c]))]
  /\ underway' = [underway EXCEPT ![c] = Tail(@)]
  /\ UNCHANGED connected

Connect(c) ==
  /\ c \notin connected
  /\ connected' = connected \cup {c}
  /\ underway' = [underway EXCEPT ![c] = <<>>]
  /\ UNCHANGED received

Prefixes(q) == {SubSeq(q, 1, k) : k \in 0 .. Len(q)}

\* Receivers are disconnected; of what is under way to the disconnected, the
\* oldest may still arrive.
Cut ==
  /\ connected' \subseteq connected
  /\ underway' = [c \in Receivers |-> underway'[c]]
  /\ \A c \in Receivers :
       /\ underway'[c] \in Prefixes(underway[c])
       /\ c \in connected' => underway'[c] = underway[c]
  /\ UNCHANGED received

Next ==
  \/ Cut
  \/ \E c \in Receivers : Deliver(c) \/ Connect(c)
  \/ \E m \in Messages : Send(m)

Spec == Init /\ [][Next]_<<connected, underway, received>>
=============================================================================
