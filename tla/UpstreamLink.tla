---------------------------- MODULE UpstreamLink ----------------------------
(***************************************************************************)
(* The upstream hop between a node and its parent: node.forwardUp and      *)
(* node.retryLoop over transport.Client.SendUpstream on one side, the      *)
(* parent's transport.Server.Upstream handler on the other, and the gRPC   *)
(* connections in between.                                                 *)
(*                                                                         *)
(* Several goroutines share one Client.  Each envelope is first forwarded  *)
(* by a goroutine of its own (a child's RPC handler, or a caller of        *)
(* SendUp), so Envelopes doubles as the set of those goroutines.  Starter  *)
(* is the goroutine inside Connect, Looper is reconnectLoop and Retrier is *)
(* retryLoop.  Critical sections of c.mu and pending.mu are single steps;  *)
(* sendMu, held across network calls, is a variable.                       *)
(***************************************************************************)
EXTENDS Integers, Sequences, Functions

CONSTANTS
  Envelopes,     \* the envelopes handed to the node, each by its own goroutine
  Streams,       \* identities for Upstream RPCs (each on its own ClientConn)
  NoStream,      \* upstreamStream == nil
  Starter, Looper, Retrier,
  Unlocked,      \* sendMu is free
  Window,        \* frames a stream buffers before Send blocks
  Disturbances   \* what may go wrong: {"network", "approval", "close", "cancel"}

Senders == Envelopes \cup {Retrier}
Goroutines == Senders \cup {Starter, Looper}

ASSUME NamesAssumption ==
  /\ {Starter, Looper, Retrier} \cap Envelopes = {}
  /\ Starter # Looper /\ Starter # Retrier /\ Looper # Retrier
  /\ NoStream \notin Streams
  /\ Unlocked \notin Senders
ASSUME WindowAssumption == Window \in Nat \ {0}

VARIABLES
  \* goroutines of the node
  pc,         \* what each goroutine does next
  held,       \* its local stream: to send on, or opened and not yet installed
  \* transport.Client
  sendMu,     \* holder of sendMu
  stream,     \* upstreamStream, assigned together with upstreamConn
  conns,      \* streams whose ClientConn has not been closed
  closed,     \* Close was called
  \* node.Node
  pending,    \* pendingQueue.items
  batch,      \* what retryLoop drained and has not handled yet
  cancelled,  \* the context given to Start is done
  \* gRPC and the parent
  live,       \* streams the child's transport believes in
  server,     \* the parent's handler for each stream
  wire,       \* frames sent on each stream and not received
  reachable,  \* the network between the two, and the parent process
  approved,   \* the parent's AuthorizeChild hook accepts this child
  arrivals    \* how often onUpstream ran at the parent for each envelope

nodeVars   == <<pending, batch, cancelled>>
clientVars == <<sendMu, stream, conns, closed>>
netVars    == <<live, server, wire, reachable, approved, arrivals>>
vars       == <<pc, held, clientVars, nodeVars, netVars>>

Control == {"off", "idle", "lock", "openDial", "openInstall", "get", "send",
            "swapDial", "swapInstall", "queue", "pace", "done"}
Handler == {"opening", "serving", "ended"}

Types ==
  /\ pc \in [Goroutines -> Control]
  /\ held \in [Goroutines -> Streams \cup {NoStream}]
  /\ sendMu \in Senders \cup {Unlocked}
  /\ stream \in Streams \cup {NoStream}
  /\ conns \subseteq Streams
  /\ closed \in BOOLEAN
  /\ pending \in Seq(Envelopes)
  /\ batch \in Seq(Envelopes)
  /\ cancelled \in BOOLEAN
  /\ live \subseteq Streams
  /\ server \in [Streams -> Handler]
  /\ wire \in [Streams -> Seq(Envelopes)]
  /\ reachable \in BOOLEAN
  /\ approved \in BOOLEAN
  /\ arrivals \in [Envelopes -> Nat]

\* The queue in memory has no limit of its own.  What bounds it: drain empties
\* it, and an envelope is in it or in the batch, once.
QueueOK ==
  /\ IsInjective(pending) /\ IsInjective(batch)
  /\ Range(pending) \cap Range(batch) = {}

TypeOK == Types /\ QueueOK

Init ==
  /\ pc = [g \in Goroutines |-> CASE g = Starter -> "openDial"
                                  [] g \in {Looper, Retrier} -> "off"
                                  [] OTHER -> "idle"]
  /\ held = [g \in Goroutines |-> NoStream]
  /\ sendMu = Unlocked
  /\ stream = NoStream
  /\ conns = {}
  /\ closed = FALSE
  /\ pending = <<>>
  /\ batch = <<>>
  /\ cancelled = FALSE
  /\ live = {}
  /\ server = [s \in Streams |-> "ended"]
  /\ wire = [s \in Streams |-> <<>>]
  /\ reachable \in IF "network" \in Disturbances THEN BOOLEAN ELSE {TRUE}
  /\ approved \in IF "approval" \in Disturbances THEN BOOLEAN ELSE {TRUE}
  /\ arrivals = [e \in Envelopes |-> 0]

-----------------------------------------------------------------------------
(* Helpers *)

Goto(g, place) == pc' = [pc EXCEPT ![g] = place]

\* Identities of finished streams are used again, which keeps Streams small.
Free(s) ==
  /\ s \notin live \cup conns \cup {stream}
  /\ server[s] = "ended" /\ wire[s] = <<>>
  /\ \A g \in Goroutines : held[g] # s

\* Frames outlive the sending side until the handler has ended, and outlive
\* the handler until the sending side has noticed; then nobody has them.
Settle(alive, handlers, frames) ==
  wire' = [s \in Streams |->
             IF s \notin alive /\ handlers[s] = "ended" THEN <<>> ELSE frames[s]]

\* The child's side of the streams in S is over.
Break(S) ==
  /\ live' = live \ S
  /\ Settle(live \ S, server, wire)
  /\ UNCHANGED <<server, reachable, approved, arrivals>>

\* The envelope a sender is sending.
Cargo(p) == IF p = Retrier THEN Head(batch) ELSE p

\* What is left of the batch when p has sent or queued its envelope.
RestResent(p) == batch  \* mutant: the element stays in the batch
RestDropped(p) == IF p = Retrier THEN <<>> ELSE batch  \* mutant: gives up
Rest(p) == IF p = Retrier THEN Tail(batch) ELSE batch

\* What drain leaves in the pending queue.
UndrainedAll == pending   \* mutant: items is not set to nil
Undrained == <<>>

\* The conn that reopenUpstream and Close close, under c.mu.
SupersededLeaked == {}  \* mutant: the previous conn is not closed
Superseded == {stream}

CanLockAlways == TRUE   \* mutant: no sendMu
CanLock == sendMu = Unlocked

\* sendMu is released when sendUpstream returns.
UnlockForgotten(g) == UNCHANGED sendMu  \* mutant: not on the error paths
Unlock(g) == sendMu' = IF g \in Senders THEN Unlocked ELSE sendMu

\* Where g continues when reopenUpstream has returned to it.  A sender goes
\* on to read the stream only if it had none and now one is open; Connect
\* returns and leaves the two loops running.
AfterReopen(g, opened) ==
  pc' = CASE g = Looper  -> [pc EXCEPT ![g] = "idle"]
          [] g = Starter -> [pc EXCEPT ![g] = "done", ![Looper] = "idle",
                                       ![Retrier] = "idle"]
          [] OTHER -> [pc EXCEPT ![g] = IF opened /\ pc[g] = "openInstall"
                                        THEN "get" ELSE "queue"]

-----------------------------------------------------------------------------
(* Handing an envelope over, and SendUpstream *)

\* An envelope arrives from a child, or the service calls SendUp.
Submit(e) ==
  /\ pc[e] = "idle"
  /\ Goto(e, "lock")
  /\ UNCHANGED <<held, clientVars, nodeVars, netVars>>

\* sendUpstream takes sendMu and reads upstreamStream.
LockAndRead(p) ==
  /\ pc[p] = "lock"
  /\ CanLock
  /\ sendMu' = p
  /\ held' = [held EXCEPT ![p] = stream]
  /\ Goto(p, IF stream = NoStream THEN "openDial" ELSE "send")
  /\ UNCHANGED <<stream, conns, closed, nodeVars, netVars>>

\* It reads upstreamStream again after a reopen of its own.
Get(p) ==
  /\ pc[p] = "get"
  /\ held' = [held EXCEPT ![p] = stream]
  /\ Goto(p, "send")
  /\ UNCHANGED <<clientVars, nodeVars, netVars>>

\* stream.Send buffers the frame and returns nil; it blocks on a full window.
SendFrame(p) ==
  /\ pc[p] = "send"
  /\ held[p] \in live
  /\ Len(wire[held[p]]) < Window
  /\ wire' = [wire EXCEPT ![held[p]] = Append(@, Cargo(p))]
  /\ batch' = Rest(p)
  /\ held' = [held EXCEPT ![p] = NoStream]
  /\ sendMu' = Unlocked
  /\ Goto(p, IF p = Retrier THEN "pace" ELSE "done")
  /\ UNCHANGED <<stream, conns, closed, pending, cancelled, live, server,
                 reachable, approved, arrivals>>

\* Mutant: sendMu is released before the reopen that follows a failed Send.
SendErrorUnlocked(p) ==
  /\ pc[p] = "send" /\ held[p] \notin live
  /\ held' = [held EXCEPT ![p] = NoStream]
  /\ sendMu' = Unlocked
  /\ Goto(p, "swapDial")
  /\ UNCHANGED <<stream, conns, closed, nodeVars, netVars>>

\* stream.Send fails on a stream known to be dead: nothing was written.
SendError(p) ==
  /\ pc[p] = "send"
  /\ held[p] \notin live
  /\ held' = [held EXCEPT ![p] = NoStream]
  /\ Goto(p, "swapDial")
  /\ UNCHANGED <<clientVars, nodeVars, netVars>>

\* The caller of a failed SendUpstream pushes the envelope to pending.
Queue(p) ==
  /\ pc[p] = "queue"
  /\ pending' = Append(pending, Cargo(p))
  /\ batch' = Rest(p)
  /\ Goto(p, IF p = Retrier THEN "pace" ELSE "done")
  /\ UNCHANGED <<held, clientVars, cancelled, netVars>>

-----------------------------------------------------------------------------
(* reopenUpstream, called by senders under sendMu and by Connect and
   reconnectLoop without it *)

CanDial == reachable /\ ~closed /\ ~cancelled

\* dialParent and the Upstream RPC: the stream opens before the parent's
\* handler has decided anything.
Dial(g, s) ==
  /\ pc[g] \in {"openDial", "swapDial"}
  /\ CanDial
  /\ Free(s)
  /\ held' = [held EXCEPT ![g] = s]
  /\ conns' = conns \cup {s}
  /\ live' = live \cup {s}
  /\ server' = [server EXCEPT ![s] = "opening"]
  /\ Goto(g, IF pc[g] = "openDial" THEN "openInstall" ELSE "swapInstall")
  /\ UNCHANGED <<sendMu, stream, closed, nodeVars, wire, reachable, approved,
                 arrivals>>

\* The client is closed, or the RPC cannot be opened: its conn is closed.
DialError(g) ==
  /\ pc[g] \in {"openDial", "swapDial"}
  /\ ~CanDial
  /\ Unlock(g)
  /\ AfterReopen(g, FALSE)
  /\ UNCHANGED <<held, stream, conns, closed, nodeVars, netVars>>

\* Under c.mu: close the previous conn, whatever it was, and replace it.
Install(g) ==
  /\ pc[g] \in {"openInstall", "swapInstall"}
  /\ conns' = conns \ Superseded
  /\ Break(Superseded)
  /\ stream' = held[g]
  /\ held' = [held EXCEPT ![g] = NoStream]
  /\ IF pc[g] = "openInstall" /\ g \in Senders
     THEN UNCHANGED sendMu
     ELSE Unlock(g)
  /\ AfterReopen(g, TRUE)
  /\ UNCHANGED <<closed, nodeVars>>

-----------------------------------------------------------------------------
(* The two loops *)

\* retryLoop's ticker fires and it drains a non-empty queue.
RetryTick ==
  /\ pc[Retrier] = "idle"
  /\ pending # <<>>
  /\ batch' = pending
  /\ pending' = Undrained
  /\ Goto(Retrier, "lock")
  /\ UNCHANGED <<held, clientVars, cancelled, netVars>>

\* The pacer lets it go on with the batch, or wait for the next tick.
Pace ==
  /\ pc[Retrier] = "pace"
  /\ Goto(Retrier, IF batch = <<>> THEN "idle" ELSE "lock")
  /\ UNCHANGED <<held, clientVars, nodeVars, netVars>>

\* It sees the context done and returns, with what is left of the batch.
RetryExit ==
  /\ pc[Retrier] \in {"idle", "pace"}
  /\ cancelled
  /\ batch' = <<>>
  /\ Goto(Retrier, "done")
  /\ UNCHANGED <<held, clientVars, pending, cancelled, netVars>>

NeedsUpstreamAlways == TRUE  \* mutant: reopens at every tick
NeedsUpstream == stream = NoStream

\* reconnectLoop's ticker fires and it finds upstreamStream nil.
LoopTick ==
  /\ pc[Looper] = "idle"
  /\ ~closed
  /\ NeedsUpstream
  /\ Goto(Looper, "openDial")
  /\ UNCHANGED <<held, clientVars, nodeVars, netVars>>

LoopExit ==
  /\ pc[Looper] = "idle"
  /\ closed \/ cancelled
  /\ Goto(Looper, "done")
  /\ UNCHANGED <<held, clientVars, nodeVars, netVars>>

-----------------------------------------------------------------------------
(* Shutting down *)

\* Client.Close, from Node.Stop: the installed conn only.
Close ==
  /\ "close" \in Disturbances
  /\ ~closed
  /\ closed' = TRUE
  /\ conns' = conns \ Superseded
  /\ Break(Superseded)
  /\ UNCHANGED <<pc, held, sendMu, stream, nodeVars>>

\* The service cancels the context given to Start: every stream dies.
Cancel ==
  /\ "cancel" \in Disturbances
  /\ ~cancelled
  /\ cancelled' = TRUE
  /\ Break(live)
  /\ UNCHANGED <<pc, held, clientVars, pending, batch>>

-----------------------------------------------------------------------------
(* The parent's Upstream handler *)

EndHandler(s) ==
  /\ server' = [server EXCEPT ![s] = "ended"]
  /\ Settle(live, server', wire)

\* authorize: the hook runs once, when the handler starts.
Authorize(s) ==
  /\ server[s] = "opening"
  /\ reachable
  /\ IF approved
     THEN /\ server' = [server EXCEPT ![s] = "serving"]
          /\ UNCHANGED wire
     ELSE EndHandler(s)
  /\ UNCHANGED <<pc, held, clientVars, nodeVars, live, reachable, approved,
                 arrivals>>

\* stream.Recv returns a frame and onUpstream runs on it.
Receive(s) ==
  /\ server[s] = "serving"
  /\ wire[s] # <<>>
  /\ reachable
  /\ arrivals' = [arrivals EXCEPT ![Head(wire[s])] = @ + 1]
  /\ wire' = [wire EXCEPT ![s] = Tail(@)]
  /\ UNCHANGED <<pc, held, clientVars, nodeVars, live, server, reachable,
                 approved>>

\* The parent learns that the child has closed or cancelled the stream;
\* Recv fails and the handler returns.
ServerNotice(s) ==
  /\ server[s] # "ended"
  /\ s \notin live
  /\ EndHandler(s)
  /\ UNCHANGED <<pc, held, clientVars, nodeVars, live, reachable, approved,
                 arrivals>>

-----------------------------------------------------------------------------
(* The network and the administrator *)

\* The parent, or the network to it, goes away or comes back.
Reach ==
  /\ "network" \in Disturbances
  /\ reachable' = ~reachable
  /\ UNCHANGED <<pc, held, clientVars, nodeVars, live, server, wire, approved,
                 arrivals>>

\* During an outage the parent drops the connection, or restarts.
DropConn(s) ==
  /\ ~reachable
  /\ server[s] # "ended"
  /\ EndHandler(s)
  /\ UNCHANGED <<pc, held, clientVars, nodeVars, live, reachable, approved,
                 arrivals>>

\* The child's transport learns that the stream is over, or gives up on it.
NoticeEnd(s) ==
  /\ s \in live
  /\ server[s] = "ended" \/ ~reachable
  /\ Break({s})
  /\ UNCHANGED <<pc, held, clientVars, nodeVars>>

\* The parent's allow-list changes.  Running handlers are not affected.
Approval ==
  /\ "approval" \in Disturbances
  /\ approved' = ~approved
  /\ UNCHANGED <<pc, held, clientVars, nodeVars, live, server, wire, reachable,
                 arrivals>>

-----------------------------------------------------------------------------
SenderStep(p) == LockAndRead(p) \/ Get(p) \/ SendFrame(p) \/ SendError(p)
                   \/ Queue(p)
Reopen(g) == (\E s \in Streams : Dial(g, s)) \/ DialError(g) \/ Install(g)
Loops == RetryTick \/ Pace \/ RetryExit \/ LoopTick \/ LoopExit
ParentStep(s) == Authorize(s) \/ Receive(s) \/ ServerNotice(s)
Environment ==
  \/ Reach \/ Approval
  \/ \E s \in Streams : DropConn(s) \/ NoticeEnd(s)

Next ==
  \/ \E e \in Envelopes : Submit(e)
  \/ \E p \in Senders : SenderStep(p)
  \/ \E g \in Goroutines : Reopen(g)
  \/ Loops
  \/ Close \/ Cancel
  \/ \E s \in Streams : ParentStep(s)
  \/ Environment

Spec == Init /\ [][Next]_vars

\* Goroutines are scheduled, tickers keep ticking, a waiter for sendMu gets
\* it in the end (a Go mutex hands itself over to a starving waiter), and
\* with the parent reachable its handlers run and an ended handler's reset
\* reaches the child.  Nothing the environment may do is owed.
Fairness ==
  /\ \A p \in Senders : SF_vars(LockAndRead(p)) /\ WF_vars(SenderStep(p))
  /\ \A g \in Goroutines : WF_vars(Reopen(g))
  /\ WF_vars(RetryTick \/ Pace) /\ WF_vars(LoopTick)
  /\ \A s \in Streams : WF_vars(ParentStep(s))
                          /\ WF_vars(reachable /\ NoticeEnd(s))

FairSpec == Spec /\ Fairness

-----------------------------------------------------------------------------
(* Properties *)

InFlight(e) == \E s \in Streams : e \in Range(wire[s])
Kept(e) == \/ pc[e] \notin {"idle", "done"}
           \/ e \in Range(pending) \cup Range(batch)

status == [e \in Envelopes |->
             CASE arrivals[e] > 0 -> "arrived"
               [] InFlight(e)     -> "flying"
               [] Kept(e)         -> "held"
               [] pc[e] = "idle"  -> "new"
               [] OTHER           -> "lost"]

\* The hop does with each envelope what EnvelopeTransfer allows: in
\* particular forwardUp and retryLoop hand an envelope to one stream once,
\* and never let go of one the transport did not take while the node runs.
Transfer == INSTANCE EnvelopeTransfer WITH
  stopping <- IF cancelled THEN Envelopes ELSE {}
ImplementsTransfer == Transfer!Spec

\* onUpstream runs at most once for an envelope, whatever fails: the retry
\* of a failed Send never repeats a frame the parent may have had.
AtMostOnce == \A e \in Envelopes : arrivals[e] <= 1

\* The reason sendMu exists: no two goroutines are ever inside stream.Send,
\* and none is there with a nil stream.
SendSerialized ==
  \A p \in Senders : pc[p] = "send" =>
    /\ held[p] # NoStream
    /\ \A q \in Senders \ {p} : pc[q] # "send"

\* Every open ClientConn is the installed one or about to be: replacing
\* streams under c.mu leaks none, however the goroutines interleave.
NoOrphanConn ==
  conns \subseteq {stream} \cup
    {held[g] : g \in {h \in Goroutines : pc[h] \in {"openInstall", "swapInstall"}}}

Reopening == {"openDial", "openInstall", "swapDial", "swapInstall"}

\* sendMu is never left behind: a goroutine that holds it is still on its way
\* through sendUpstream, whichever of the returns and error paths of
\* reopenUpstream and Send it has taken.  A forgotten mutex would block every
\* later send of the node for good.
MutexNotForgotten ==
  sendMu # Unlocked => pc[sendMu] \in Reopening \cup {"get", "send"}

\* A reopen under sendMu never destroys frames: the stream it is about to
\* close has failed, or nothing has been sent on it.
ReopenUnderMutexLosesNothing ==
  \A p \in Senders :
    pc[p] \in Reopening => stream \notin live \/ wire[stream] = <<>>

Healthy == reachable /\ approved /\ ~closed /\ ~cancelled

\* Once the parent stays reachable, nothing stays in the hop for ever: no
\* goroutine is stuck behind sendMu, and retryLoop, whose first attempt
\* after an outage always fails, gets rid of its queue in the end.
QueueDrains ==
  <>[]Healthy => \A e \in Envelopes : [](Kept(e) => <>~Kept(e))

\* The stream works and nobody is about to replace it.
Settled ==
  /\ Healthy
  /\ \A g \in Goroutines : pc[g] \notin Reopening
  /\ stream \in live
  /\ server[stream] = "serving"

\* An envelope the hop holds when the link has settled reaches the parent's
\* handlers, unless the link is disturbed again first.
SettledDelivers ==
  \A e \in Envelopes : (Settled /\ Kept(e)) ~> (arrivals[e] > 0 \/ ~Healthy)

-----------------------------------------------------------------------------
(* What the repository's texts say, and the code does not do *)

\* "every child's Envelope must arrive at the root intact and exactly once
\* [...] no envelope lost or corrupted by concurrent forwarding"
\* (node/integration_test.go:103-105), and for an outage of the parent: "the
\* Envelope is queued in memory and retried [...] and is lost if the process
\* exits before delivery" (node/node.go:199-202).
NoneLost == \A e \in Envelopes : status[e] # "lost"

\* reconnectLoop "regardless of whether anything is being sent upstream"
\* notices a rejected or dead stream (transport/client.go:21-28).
ComesBackUp ==
  <>[]Healthy => <>[](stream \in live /\ server[stream] = "serving")
=============================================================================
