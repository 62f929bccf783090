----------------------------- MODULE ConfigTree -----------------------------
(***************************************************************************)
(* Envelopes on their way down a tree of nodes: an administrator pushes a  *)
(* config at some node, to all its children or to one of them, and each    *)
(* node that receives it runs its handlers and broadcasts it again.        *)
(*                                                                         *)
(* A link between parent and child is what OrderedLink says, which         *)
(* DownstreamLink implements: a bounded queue in order, of which a broken  *)
(* connection keeps what was already on the wire.                          *)
(***************************************************************************)
EXTENDS Integers, Sequences, Functions

CONSTANTS
  Parent,      \* the parent of every node but the root
  Slow,        \* nodes whose handlers may stop making progress
  BufSize,     \* what a link holds (16 and the transport's window in the code)
  MaxPushes    \* bound: configs pushed by administrators

Below == DOMAIN Parent              \* every node but the root
Nodes == Below \cup Range(Parent)
Children(n) == {c \in Below : Parent[c] = n}

\* The node and its ancestors: what every set has that contains the node, and
\* with a node its parent.
Above == [n \in Nodes |->
            {a \in Nodes : \A S \in SUBSET Nodes :
               n \in S /\ (\A c \in S \cap Below : Parent[c] \in S) => a \in S}]

ASSUME TreeAssumption ==
  /\ \A c \in Below : c \notin Above[Parent[c]]
  /\ Slow \subseteq Below
  /\ BufSize \in Nat \ {0} /\ MaxPushes \in Nat

VARIABLES
  connected,   \* children registered with their parent
  queue,       \* what is under way from its parent to each node
  work,        \* what recvLoop has run the handlers for, not yet broadcast
  applied,     \* what OnDownstream handlers have run for, in order
  pushes       \* number of configs pushed

vars == <<connected, queue, work, applied, pushes>>

\* A config: its number, the node it was pushed at, and for whom, either the
\* children of that node or one of them.
Configs == [n : 1 .. MaxPushes, by : Nodes, for : Nodes]

TypeOK ==
  /\ connected \subseteq Below
  /\ queue \in [Below -> Seq(Configs)]
  /\ work \in [Below -> Seq(Configs)]
  /\ \A c \in Below : Len(queue[c]) <= BufSize /\ Len(work[c]) <= 1
  /\ applied \in [Below -> Seq(Configs)]
  /\ pushes \in 0 .. MaxPushes

Init ==
  /\ connected = {}
  /\ queue = [c \in Below |-> <<>>]
  /\ work = [c \in Below |-> <<>>]
  /\ applied = [c \in Below |-> <<>>]
  /\ pushes = 0

-----------------------------------------------------------------------------
(* Sending *)

HasRoomOffByOne(c) == Len(queue[c]) <= BufSize   \* mutant
HasRoom(c) == Len(queue[c]) < BufSize

\* The non-blocking send of m to each child in S: dropped where there is no
\* room.
EnqueueFirst(S, m) ==   \* mutant: the newest goes first
  queue' = [c \in Below |-> IF c \in S /\ HasRoom(c) THEN <<m>> \o queue[c]
                                                    ELSE queue[c]]
Enqueue(S, m) ==
  queue' = [c \in Below |-> IF c \in S /\ HasRoom(c) THEN Append(queue[c], m)
                                                    ELSE queue[c]]

\* Children a broadcast of n waits for.
WaitsForFull(n) == {c \in Children(n) \cap connected : ~HasRoom(c)}  \* mutant
WaitsFor(n) == {}

\* BroadcastDownstream holds Server.mu from the first child to the last.
Broadcast(n, m) ==
  /\ WaitsFor(n) = {}
  /\ Enqueue(Children(n) \cap connected, m)

\* POST api/v1/admin/config at n, a SendDown.
PushToAll(n) ==
  /\ pushes < MaxPushes
  /\ Children(n) # {}
  /\ Broadcast(n, [n |-> pushes + 1, by |-> n, for |-> n])
  /\ pushes' = pushes + 1
  /\ UNCHANGED <<connected, work, applied>>

AddressedAll(c) == Children(Parent[c]) \cap connected   \* mutant
Addressed(c) == {c}

\* POST api/v1/admin/config/{child_id} at its parent, a SendToChild: an
\* error, without effect, if it is not connected or its channel is full.
PushToChild(c) ==
  /\ pushes < MaxPushes
  /\ c \in connected /\ HasRoom(c)
  /\ Enqueue(Addressed(c), [n |-> pushes + 1, by |-> Parent[c], for |-> c])
  /\ pushes' = pushes + 1
  /\ UNCHANGED <<connected, work, applied>>

-----------------------------------------------------------------------------
(* Receiving: recvLoop calls handleDownstreamFromParent *)

HandledUnlessStale(c) ==   \* mutant: relays but skips what is superseded
  IF Len(queue[c]) > 1 THEN applied[c] ELSE Append(applied[c], Head(queue[c]))
Handled(c) == Append(applied[c], Head(queue[c]))

\* An envelope arrives and the node's own handlers run.
Receive(c) ==
  /\ work[c] = <<>>
  /\ queue[c] # <<>>
  /\ queue' = [queue EXCEPT ![c] = Tail(@)]
  /\ applied' = [applied EXCEPT ![c] = Handled(c)]
  /\ work' = [work EXCEPT ![c] = <<Head(queue[c])>>]
  /\ UNCHANGED <<connected, pushes>>

\* It is broadcast to the node's children, whomever it was addressed to.  A
\* drop is only logged.
Relay(c) ==
  /\ work[c] # <<>>
  /\ Broadcast(c, Head(work[c]))
  /\ work' = [work EXCEPT ![c] = <<>>]
  /\ UNCHANGED <<connected, applied, pushes>>

-----------------------------------------------------------------------------
(* Links and processes *)

\* A recvLoop starts on a new stream, when the previous one has returned.
Connect(c) ==
  /\ c \notin connected
  /\ work[c] = <<>>
  /\ connected' = connected \cup {c}
  /\ queue' = [queue EXCEPT ![c] = <<>>]
  /\ UNCHANGED <<work, applied, pushes>>

Newest(q, k) == SubSeq(q, Len(q) - k + 1, Len(q))   \* mutant: drops the head
Oldest(q, k) == SubSeq(q, 1, k)

\* The nodes in DOMAIN kept lose the connection to their parents.  Each may
\* still receive the frames that were on the wire already.
Disconnected(kept) ==
  /\ \A c \in DOMAIN kept \cap Below : kept[c] <= Len(queue[c])
  /\ connected' = connected \ DOMAIN kept
  /\ queue' = [c \in Below |-> IF c \in DOMAIN kept THEN Oldest(queue[c], kept[c])
                                                   ELSE queue[c]]

Disconnect(c) ==
  /\ c \in connected
  /\ \E kept \in [{c} -> 0 .. BufSize] : Disconnected(kept)
  /\ UNCHANGED <<work, applied, pushes>>

\* The process ends and starts again; what its handlers saved is kept.
Restart(n) ==
  /\ \E kept \in [(Children(n) \cap connected) \cup {n} -> 0 .. BufSize] :
       kept[n] = 0 /\ Disconnected(kept)
  /\ work' = [c \in Below |-> IF c = n THEN <<>> ELSE work[c]]
  /\ UNCHANGED <<applied, pushes>>

-----------------------------------------------------------------------------
Next ==
  \/ \E n \in Nodes : PushToAll(n) \/ Restart(n)
  \/ \E c \in Below : PushToChild(c) \/ Receive(c) \/ Relay(c) \/ Connect(c)
                        \/ Disconnect(c)

Spec == Init /\ [][Next]_vars

\* Every recvLoop runs, but those of slow nodes need not.
Fairness == \A c \in Below \ Slow : WF_vars(Receive(c)) /\ WF_vars(Relay(c))

FairSpec == Spec /\ Fairness

-----------------------------------------------------------------------------
(* Properties *)

Before(s, x, y) == \E i, j \in DOMAIN s : i < j /\ s[i] = x /\ s[j] = y

\* No two nodes of the tree apply two configs in different orders, and no
\* node applies one twice, though administrators push at several nodes at
\* once and links break and come back in between: broadcasting under one
\* mutex and relaying from one recvLoop makes the order of each parent that
\* of everything below it.
AgreeOnOrder ==
  \A c, d \in Below : \A x, y \in Range(applied[c]) :
    Before(applied[c], x, y) => ~Before(applied[d], y, x)

\* A config works its way down: whatever way the links break, a node has
\* applied only what every node between it and the one the config was pushed
\* at has applied before.
AncestorsFirst ==
  \A c, n \in Below : \A m \in Range(applied[c]) :
    n \in Above[c] /\ m.by \in Above[Parent[n]] => m \in Range(applied[n])

\* The tree is made of the links that DownstreamLink implements.
Link == INSTANCE OrderedLink WITH
  Receivers <- Below, Messages <- Configs, Capacity <- BufSize,
  underway <- queue, received <- applied
ImplementsLink == Link!Spec

\* A node that has stopped taking envelopes from its parent, with its link
\* full, holds up nobody else: the recvLoop of its parent always gets done
\* with an envelope and turns to the next, and so on up the tree.
SlowChildBlocksNobody == \A c \in Below \ Slow : []<>(work[c] = <<>>)

\* A config takes effect only in the part of the tree it was pushed to: below
\* the node that broadcast it, or at the addressee of SendToChild and below
\* it.  (node/node.go:184-187 promises less of SendToChild, that it reaches
\* the addressee only; handleDownstreamFromParent broadcasts what it gets
\* whomever it was for.)
StaysInSubtree ==
  \A c \in Below : \A m \in Range(applied[c]) : m.for \in Above[c]
=============================================================================
