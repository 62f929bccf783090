----------------------------- MODULE NodeService ----------------------------
(***************************************************************************)
(* One node of the example service as a process: main opens the store,     *)
(* starts the node (a Listen goroutine, then a Client), serves agents over *)
(* HTTP until a signal, and takes everything down again.  Meanwhile        *)
(* envelopes come from agents and children, each handled by a goroutine:   *)
(* its handlers save it, then it is forwarded.  The process may end at any *)
(* point and be started again on the same store.                           *)
(*                                                                         *)
(* The node has children and a parent.  What happens between Client and    *)
(* parent is UpstreamLink, here a send works or fails; what comes down     *)
(* from the parent is ConfigTree.                                          *)
(***************************************************************************)
EXTENDS FiniteSets

CONSTANTS
  Envelopes,
  Source,        \* where each one comes from: "agent" or "child"
  Id,            \* its id: node-id and clock reading, so not always its own
  Disturbances   \* what may go wrong: {"crash", "disk", "listen"}

ASSUME EnvelopesAssumption ==
  /\ Source \in [Envelopes -> {"agent", "child"}]
  /\ DOMAIN Id = Envelopes

From(source) == {e \in Envelopes : Source[e] = source}

VARIABLES
  main,       \* where the main goroutine is
  listener,   \* Listen, in a goroutine of its own; "serving" with grpcServer set
  client,     \* n.client: nil, without baseCtx, ready, closed, closed with a
              \* connection that came too late, cut off by the context
  job,        \* where the goroutine handling each envelope is
  queue,      \* pendingQueue, with what retryLoop has drained
  sent,       \* envelopes the transport to the parent has taken
  store,      \* envelopes on disk
  unsaved,    \* history: envelopes the disk refused
  overwritten,  \* history: envelopes whose entry a later one has taken
  abandoned,  \* history: requests running when Shutdown gave up on them
  answer      \* what each agent knows of its request

processVars == <<main, listener, client, job, queue>>
diskVars == <<store, unsaved, overwritten>>
vars == <<processVars, sent, diskVars, abandoned, answer>>

TypeOK ==
  /\ main \in {"off", "opened", "listening", "dialing", "running", "draining",
               "stopping", "halting", "cancelling", "closing", "exiting"}
  /\ listener \in {"none", "starting", "serving", "failed", "stopped"}
  /\ client \in {"nil", "bare", "ready", "closed", "late", "cut"}
  /\ job \in [Envelopes -> {"idle", "handle", "forward", "send", "done", "gone"}]
  /\ queue \subseteq Envelopes /\ sent \subseteq Envelopes
  /\ store \subseteq Envelopes /\ unsaved \subseteq Envelopes
  /\ overwritten \subseteq Envelopes
  /\ abandoned \subseteq From("agent")
  /\ answer \in [From("agent") -> {"none", "accepted", "failed"}]
  /\ \A d, e \in store : Id[d] = Id[e] => d = e

Init ==
  /\ main = "off" /\ listener = "none" /\ client = "nil"
  /\ job = [e \in Envelopes |-> "idle"]
  /\ queue = {} /\ sent = {} /\ store = {}
  /\ unsaved = {} /\ overwritten = {} /\ abandoned = {}
  /\ answer = [e \in From("agent") |-> "none"]

-----------------------------------------------------------------------------
(* Helpers *)

\* Mutant: the store is closed before the context is cancelled.
StoreClosedFirst == main \notin {"off", "cancelling", "closing", "exiting"}
StoreOpen == main \notin {"off", "exiting"}
InFlight == {e \in Envelopes : job[e] \in {"handle", "forward", "send"}}

Move(e, place) == job' = [job EXCEPT ![e] = place]

\* Answers in S that are still out become ans.
Tell(S, ans) ==
  answer' = [e \in From("agent") |-> IF e \in S /\ answer[e] = "none"
                                     THEN ans ELSE answer[e]]

\* forwardUp has returned nil: the handler of an agent's request answers 202.
Finish(e) == Move(e, "done") /\ Tell({e}, "accepted")

\* BoltStorage.Save puts the envelope under its id.
PutBeside(e) == store \cup {e}   \* mutant: the old entry stays
Put(e) == {d \in store : Id[d] # Id[e]} \cup {e}
Replaced(e) == {d \in store \ {e} : Id[d] = Id[e]}

\* Everything in memory is gone; agents see their connections break.
EndProcess ==
  /\ main' = "off" /\ listener' = "none" /\ client' = "nil"
  /\ job' = [e \in Envelopes |-> IF job[e] = "idle" THEN "idle" ELSE "gone"]
  /\ queue' = {}
  /\ Tell(InFlight, "failed")
  /\ UNCHANGED <<sent, diskVars, abandoned>>

-----------------------------------------------------------------------------
(* main, up to the signal *)

Goto(from, to) == main = from /\ main' = to

\* loadConfig, NewBoltStorage, node.New, and the handlers are registered.
Open ==
  /\ Goto("off", "opened")
  /\ UNCHANGED <<listener, client, job, queue, sent, diskVars, abandoned,
                 answer>>

\* Start: NewServer, and Listen runs on its own.
StartServer ==
  /\ Goto("opened", "listening")
  /\ listener' = "starting"
  /\ UNCHANGED <<client, job, queue, sent, diskVars, abandoned, answer>>

\* Start: n.client = NewClient.
NewClient ==
  /\ Goto("listening", "dialing")
  /\ client' = "bare"
  /\ UNCHANGED <<listener, job, queue, sent, diskVars, abandoned, answer>>

\* Connect sets baseCtx and never fails; Start returns, the API is served.
Connect ==
  /\ Goto("dialing", "running")
  /\ client' = "ready"
  /\ UNCHANGED <<listener, job, queue, sent, diskVars, abandoned, answer>>

-----------------------------------------------------------------------------
(* main, from the signal on *)

Signal ==
  /\ Goto("running", "draining")
  /\ UNCHANGED <<listener, client, job, queue, sent, diskVars, abandoned,
                 answer>>

\* What httpServer.Shutdown waits for.
RequestsNone == {}   \* mutant: Close instead of Shutdown
Requests == InFlight \cap From("agent")

Drained ==
  /\ Requests = {}
  /\ Goto("draining", "stopping")
  /\ UNCHANGED <<listener, client, job, queue, sent, diskVars, abandoned,
                 answer>>

PatienceEndless == FALSE   \* mutant: Shutdown without a deadline
Patience == Requests # {}

\* Shutdown's five seconds are over; the requests go on.
DrainTimeout ==
  /\ Patience
  /\ Goto("draining", "stopping")
  /\ abandoned' = abandoned \cup Requests
  /\ UNCHANGED <<listener, client, job, queue, sent, diskVars, answer>>

\* Node.Stop: first the client, whose connection goes.
CloseClient ==
  /\ Goto("stopping", "halting")
  /\ client' = "closed"
  /\ UNCHANGED <<listener, job, queue, sent, diskVars, abandoned, answer>>

\* Then the server, if Listen has got as far as setting grpcServer.  Running
\* handlers are not waited for.
StopServer ==
  /\ Goto("halting", "cancelling")
  /\ listener' = IF listener = "serving" THEN "stopped" ELSE listener
  /\ UNCHANGED <<client, job, queue, sent, diskVars, abandoned, answer>>

\* The deferred calls, the last one first: cancel ends the streams and
\* retryLoop for good, then store.Close.
Cancel ==
  /\ Goto("cancelling", "closing")
  /\ client' = "cut"
  /\ UNCHANGED <<listener, job, queue, sent, diskVars, abandoned, answer>>

CloseStore ==
  /\ Goto("closing", "exiting")
  /\ UNCHANGED <<listener, client, job, queue, sent, diskVars, abandoned,
                 answer>>

\* main returns.
Exit == main = "exiting" /\ EndProcess

Crash ==
  /\ "crash" \in Disturbances
  /\ main # "off"
  /\ EndProcess

-----------------------------------------------------------------------------
(* Client and Server.Listen *)

\* A reopenUpstream that looked at closed before Close installs its stream
\* after it; nobody closes that one.
LateReopen ==
  /\ client = "closed"
  /\ client' = "late"
  /\ UNCHANGED <<main, listener, job, queue, sent, diskVars, abandoned, answer>>

Listens ==
  /\ listener = "starting"
  /\ listener' = "serving"
  /\ UNCHANGED <<main, client, job, queue, sent, diskVars, abandoned, answer>>

\* The address is in use, or a certificate cannot be read: nobody is told.
ListenFails ==
  /\ "listen" \in Disturbances
  /\ listener = "starting"
  /\ listener' = "failed"
  /\ UNCHANGED <<main, client, job, queue, sent, diskVars, abandoned, answer>>

-----------------------------------------------------------------------------
(* The goroutine of an envelope *)

\* An agent's request or a child's frame comes in.
Arrive(e) ==
  /\ job[e] = "idle"
  /\ IF Source[e] = "agent" THEN main = "running" ELSE listener = "serving"
  /\ Move(e, "handle")
  /\ UNCHANGED <<main, listener, client, queue, sent, diskVars, abandoned,
                 answer>>

\* The agent's Post fails before it reaches the service; it does not retry.
PostFails(e) ==
  /\ e \in From("agent")
  /\ job[e] = "idle"
  /\ Move(e, "gone")
  /\ Tell({e}, "failed")
  /\ UNCHANGED <<main, listener, client, queue, sent, diskVars, abandoned>>

\* The handlers run.  A failed Save is only logged; a closed store fails it.
Handle(e) ==
  /\ job[e] = "handle"
  /\ Move(e, "forward")
  /\ \/ /\ StoreOpen
        /\ store' = Put(e)
        /\ overwritten' = overwritten \cup Replaced(e)
        /\ UNCHANGED unsaved
     \/ ~StoreOpen /\ UNCHANGED diskVars
     \/ /\ StoreOpen /\ "disk" \in Disturbances
        /\ unsaved' = unsaved \cup {e}
        /\ UNCHANGED <<store, overwritten>>
  /\ UNCHANGED <<main, listener, client, queue, sent, abandoned, answer>>

\* forwardUp looks at n.client: without one there is nothing to do.
Forward(e) ==
  /\ job[e] = "forward"
  /\ IF client = "nil" THEN Finish(e) ELSE Move(e, "send") /\ UNCHANGED answer
  /\ UNCHANGED <<main, listener, client, queue, sent, diskVars, abandoned>>

HasStream == client \in {"ready", "late"}

Send(e) ==
  /\ job[e] = "send"
  /\ HasStream
  /\ sent' = sent \cup {e}
  /\ Finish(e)
  /\ UNCHANGED <<main, listener, client, queue, diskVars, abandoned>>

QueuedNot(e) == queue   \* mutant: a failed send is only logged
Queued(e) == queue \cup {e}

\* The parent is away, or the client is closed, or its context is done.
SendFails(e) ==
  /\ job[e] = "send"
  /\ client \notin {"nil", "bare"}
  /\ queue' = Queued(e)
  /\ Finish(e)
  /\ UNCHANGED <<main, listener, client, sent, diskVars, abandoned>>

\* SendUpstream before Connect: withNodeID(nil) is a nil dereference, and a
\* panic in a handler ends the process.
SendPanics(e) ==
  /\ job[e] = "send"
  /\ client = "bare"
  /\ EndProcess

\* retryLoop gets rid of a queued envelope.
Retry(e) ==
  /\ e \in queue
  /\ HasStream
  /\ queue' = queue \ {e}
  /\ sent' = sent \cup {e}
  /\ UNCHANGED <<main, listener, client, job, diskVars, abandoned, answer>>

\* After five seconds the agent gives up; the handler does not notice.
AgentTimeout(e) ==
  /\ e \in From("agent")
  /\ e \in InFlight /\ answer[e] = "none"
  /\ Tell({e}, "failed")
  /\ UNCHANGED <<processVars, sent, diskVars, abandoned>>

-----------------------------------------------------------------------------
StartUp == Open \/ StartServer \/ NewClient \/ Connect
ShutDown == Drained \/ DrainTimeout \/ CloseClient \/ StopServer \/ Cancel
              \/ CloseStore \/ Exit
Listening == Listens \/ ListenFails
Job(e) == Handle(e) \/ Forward(e) \/ Send(e) \/ SendFails(e) \/ SendPanics(e)

Next ==
  \/ StartUp \/ Signal \/ ShutDown \/ Crash \/ LateReopen \/ Listening
  \/ \E e \in Envelopes : Arrive(e) \/ PostFails(e) \/ Job(e) \/ Retry(e)
                            \/ AgentTimeout(e)

Spec == Init /\ [][Next]_vars

\* main is scheduled and Shutdown's timer fires.  Nothing is assumed of the
\* handlers: a send may wait for the parent for ever.
Fairness == WF_vars(ShutDown)

FairSpec == Spec /\ Fairness

-----------------------------------------------------------------------------
(* Properties *)

\* The handlers have saved e, or tried to: it is on disk, or was until one
\* with the same id overwrote it, or the disk refused it.
Recorded(e) == e \in store \cup overwritten \cup unsaved

\* A log that was answered with 202 is itself on disk, whatever became of the
\* process since: the handlers save it before the answer, and shutting down
\* closes the store only when no request is running any more.  There are
\* three exceptions: a save the disk refused, a request Shutdown gave up on,
\* and a log that a later one with the same id has overwritten.  The first
\* and the third go against "keep a local record of every log Envelope that
\* passes through this node" (examples/node/main.go:96-97).
AnsweredIsRecorded ==
  \A e \in From("agent") : answer[e] = "accepted" =>
    Recorded(e) \/ e \in abandoned

\* The parent never has a log that this node has not recorded before, even
\* if it was handled while everything was being shut down: handlers run
\* before forwardUp, and the context is cancelled before the store is closed.
\* Closing the client would not be enough, as a reopen may outlive it.  The
\* exceptions are those of Recorded.
SentIsRecorded == \A e \in sent : Recorded(e)

\* forwardUp loses no agent's log in a running process: once its handler is
\* done, the transport has it or it is queued.  Agents are served only when
\* Start has returned.
AgentLogsGoUp ==
  \A e \in From("agent") : job[e] = "done" => e \in sent \cup queue

\* A signalled process ends, though requests may hang in a send for ever.
ShutdownEnds == main = "draining" ~> main = "off"

-----------------------------------------------------------------------------
(* What the repository's texts say, and the code does not do *)

\* "This node runs its own handlers for it, then keeps forwarding it up"
\* (node/node.go:211-213), "If the parent is unreachable, the Envelope is
\* queued in memory and retried" (node/node.go:199-200): what a child sent is
\* with the transport or in the queue when its handler is done.
ChildLogsGoUp ==
  \A e \in From("child") : job[e] = "done" => e \in sent \cup queue
=============================================================================
