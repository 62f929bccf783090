------------------------------ MODULE LogPath ------------------------------
(***************************************************************************)
(* Logs on their way up through several levels of nodes, from the node     *)
(* where a service submits them to the root.  Every node runs its handlers *)
(* for a log and forwards it, also when a handler fails: what is saved is  *)
(* in NodeService, here handlers run.                                      *)
(*                                                                         *)
(* Nodes are numbered from the bottom of the tree to its root.  One log    *)
(* never leaves the path from its origin, so one path shows what may       *)
(* happen to it; paths join, as the origins of logs differ.                *)
(*                                                                         *)
(* A hop is what UpstreamLink shows it to be: EnvelopeTransfer, whose      *)
(* "held" covers forwardUp, the pending queue and the batch of retryLoop.  *)
(***************************************************************************)
EXTENDS Integers

CONSTANTS
  Top,       \* the root
  Logs,
  Origin     \* the node each log is submitted at

ASSUME LogPathAssumption ==
  /\ Top \in Nat
  /\ Origin \in [Logs -> 0 .. Top - 1]   \* the root's own are there already

Levels == 0 .. Top
Hops == 0 .. Top - 1                     \* hop n leads from node n to n + 1

VARIABLES
  hop,     \* where each log is in each hop
  work,    \* <<n, e>>: node n has run its handlers for e, not yet forwardUp
  runs,    \* how often the handlers of a node have run for a log
  up,      \* nodes whose process runs
  links,   \* hops whose parent is reachable and approves of the child
  died     \* history: nodes whose process has ended

vars == <<hop, work, runs, up, links, died>>

Status == {"new", "held", "flying", "arrived", "lost"}

TypeOK ==
  /\ hop \in [Hops \X Logs -> Status]
  /\ work \subseteq Levels \X Logs
  /\ runs \in [Levels \X Logs -> Nat]
  /\ up \subseteq Levels /\ died \subseteq Levels
  /\ links \subseteq Hops
  /\ \A w \in work : w[1] \in up
  /\ \A h \in DOMAIN hop : hop[h] = "held" => h[1] \in up

Init ==
  /\ hop = [h \in Hops \X Logs |-> "new"]
  /\ work = {}
  /\ runs = [w \in Levels \X Logs |-> 0]
  /\ up = Levels /\ links = Hops /\ died = {}

-----------------------------------------------------------------------------
(* A node and a log *)

\* Nodes at which the log that comes to n is given to the handlers.
HandledAtRoot(n, e) == n \in {Origin[e], Top}   \* mutant: relays only forward
HandledAt(n, e) == TRUE

\* runUpstreamHandlers, in SendUp and in handleUpstreamFromChild.
RunHandlers(n, e) ==
  /\ runs' = [runs EXCEPT ![<<n, e>>] = IF HandledAt(n, e) THEN @ + 1 ELSE @]
  /\ work' = work \cup {<<n, e>>}

\* A service calls SendUp; each log is submitted once.
Submit(e) ==
  /\ Origin[e] \in up
  /\ runs[<<Origin[e], e>>] = 0
  /\ RunHandlers(Origin[e], e)
  /\ UNCHANGED <<hop, up, links, died>>

\* forwardUp.  The root has no client.
Forward(n, e) ==
  /\ <<n, e>> \in work
  /\ work' = work \ {<<n, e>>}
  /\ hop' = [h \in DOMAIN hop |-> IF h = <<n, e>> THEN "held" ELSE hop[h]]
  /\ UNCHANGED <<runs, up, links, died>>

RetriedOwn(n, e) == Origin[e] = n   \* mutant: only the node's own are retried
Retried(n, e) == TRUE

\* SendUpstream returns nil, at the first attempt or a later one.  The parent
\* may be gone without the node knowing it yet.
Emit(n, e) ==
  /\ hop[<<n, e>>] = "held"
  /\ Retried(n, e)
  /\ hop' = [hop EXCEPT ![<<n, e>>] = "flying"]
  /\ UNCHANGED <<work, runs, up, links, died>>

\* handleUpstreamFromChild at the next node.
Receive(n, e) ==
  /\ hop[<<n, e>>] = "flying"
  /\ n + 1 \in up
  /\ hop' = [hop EXCEPT ![<<n, e>>] = "arrived"]
  /\ RunHandlers(n + 1, e)
  /\ UNCHANGED <<up, links, died>>

-----------------------------------------------------------------------------
(* Connections and processes *)

Flying(n) == {h \in DOMAIN hop : h[1] = n /\ hop[h] = "flying"}
Held(n) == {h \in DOMAIN hop : h[1] = n /\ hop[h] = "held"}

CutRequeues == "held"   \* mutant: what was under way is queued again
CutTo == "lost"

\* The network between n and n + 1, or the parent's approval of the child,
\* goes away or comes back.  A connection may outlive it for a while.
Reach(n) ==
  /\ links' = IF n \in links THEN links \ {n} ELSE links \cup {n}
  /\ UNCHANGED <<hop, work, runs, up, died>>

\* A connection dies with what is under way on it; the sender is not told
\* which frames the parent has had.
Disconnect(n) ==
  /\ \E S \in SUBSET Flying(n) :
       hop' = [h \in DOMAIN hop |-> IF h \in S THEN CutTo ELSE hop[h]]
  /\ UNCHANGED <<work, runs, up, links, died>>

\* What is lost with the process of n: frames on their way to it, and the
\* envelopes in its own queue, batch and goroutines.
GoneFrames(n) == Flying(n - 1)   \* mutant: the queue survives
GoneBelow(n) == Flying(n - 1) \cup Held(n) \cup Held(n - 1)   \* mutant: children
                                                              \* drop theirs too
Gone(n) == Flying(n - 1) \cup Held(n)

\* The process ends, in a crash or by Stop, which waits for no envelope.
Crash(n) ==
  /\ n \in up
  /\ up' = up \ {n}
  /\ died' = died \cup {n}
  /\ work' = {w \in work : w[1] # n}
  /\ hop' = [h \in DOMAIN hop |-> IF h \in Gone(n) THEN "lost" ELSE hop[h]]
  /\ UNCHANGED <<runs, links>>

\* What a node that starts hands to forwardUp again.  The store is only read
\* by the API.
ResentStored(n) == {w \in Levels \X Logs : w[1] = n /\ runs[w] > 0}   \* mutant
Resent(n) == {}

\* The process starts again; no old connection leads to it.
Restart(n) ==
  /\ n \notin up
  /\ up' = up \cup {n}
  /\ work' = work \cup Resent(n)
  /\ hop' = [h \in DOMAIN hop |-> IF h \in Flying(n - 1) THEN "lost" ELSE hop[h]]
  /\ UNCHANGED <<runs, links, died>>

-----------------------------------------------------------------------------
Next ==
  \/ \E e \in Logs : Submit(e)
  \/ \E n \in Levels, e \in Logs : Forward(n, e)
  \/ \E n \in Hops, e \in Logs : Emit(n, e) \/ Receive(n, e)
  \/ \E n \in Hops : Reach(n) \/ Disconnect(n)
  \/ \E n \in Levels : Crash(n) \/ Restart(n)

Spec == Init /\ [][Next]_vars

\* A handler gets on.  A hop gets rid of what it holds, and delivers or
\* loses what is under way, if from some time on its parent runs, is
\* reachable and approves of it: LinkLiveness is about that.
Works(n) == n + 1 \in up /\ n \in links

Fairness ==
  /\ \A n \in Levels, e \in Logs : WF_vars(Forward(n, e))
  /\ \A n \in Hops, e \in Logs : /\ WF_vars(Works(n) /\ Emit(n, e))
                                  /\ WF_vars(Works(n) /\ Receive(n, e))

FairSpec == Spec /\ Fairness

-----------------------------------------------------------------------------
(* Properties *)

\* No node runs its handlers twice for a log, so no handler counts it twice,
\* whatever connections and processes end on the way and come back: nobody
\* on the path ever sends it a second time.
HandledOnce == \A w \in DOMAIN runs : runs[w] <= 1

\* A log handled at some node has been handled at every node from its origin
\* to there, and by no node outside that path: what an ancestor's handlers
\* get to see, those of every node on the way have had before it, whatever
\* ended in between.  That is as far as it goes: a handler whose Save fails
\* only logs the failure (examples/node/main.go:101-105), and the log climbs
\* on, so a store may lack what one above it has.
TrailComplete ==
  \A n \in Levels, e \in Logs : runs[<<n, e>>] > 0 =>
    n >= Origin[e] /\ \A m \in Origin[e] .. n : runs[<<m, e>>] > 0

\* In each hop a log does what EnvelopeTransfer allows: a node drops what it
\* still holds only when its own process ends, whatever happens to others.
Hop == INSTANCE EnvelopeTransfer WITH
  Envelopes <- Hops \X Logs,
  status    <- hop,
  stopping  <- {h \in Hops \X Logs : h[1] \in died}
EachHopTransfers == Hop!Spec

At(n, e) ==
  \/ <<n, e>> \in work
  \/ n \in Hops /\ hop[<<n, e>>] = "held"

\* The log is in some node or hop.
Travelling(e) ==
  \/ \E n \in Levels : At(n, e)
  \/ \E n \in Hops : hop[<<n, e>>] = "flying"

pathStatus ==
  [e \in Logs |-> IF runs[<<Top, e>>] > 0          THEN "arrived" ELSE
                  IF At(Origin[e], e)              THEN "held"    ELSE
                  IF Travelling(e)                 THEN "flying"  ELSE
                  IF runs[<<Origin[e], e>>] = 0    THEN "new"     ELSE "lost"]

\* From its origin to the root a log does the same: what relays and links on
\* the way do to it, it arrives at most once; only the end of its origin's
\* process can lose it before the first transport has taken it; and where it
\* is lost, it never comes up again.
Path == INSTANCE EnvelopeTransfer WITH
  Envelopes <- Logs,
  status    <- pathStatus,
  stopping  <- {e \in Logs : Origin[e] \in died}
EndToEnd == Path!Spec

PathWorks(e) ==
  Origin[e] .. Top \subseteq up /\ Origin[e] .. Top - 1 \subseteq links

\* Once all nodes on the way of a log stay up, and each stays reachable for
\* the one below and goes on approving of it, the log does not stay below the
\* root for ever, however many queues it has to pass and whatever went on
\* before or still goes on elsewhere.
NothingStuck ==
  \A e \in Logs : <>[]PathWorks(e) => [](Travelling(e) => <>~Travelling(e))
=============================================================================
