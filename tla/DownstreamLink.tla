--------------------------- MODULE DownstreamLink ---------------------------
(***************************************************************************)
(* The downstream hop between a node and its directly connected children:  *)
(* transport.Server's registry, BroadcastDownstream, SendToChild and       *)
(* Downstream handlers on one side; reopenDownstream, recvLoop and the     *)
(* downstream half of reconnectLoop in each child's transport.Client on    *)
(* the other.                                                              *)
(*                                                                         *)
(* reopenDownstream is called by Connect and then by reconnectLoop, which  *)
(* Connect starts on its way out: one goroutine at a time per child, its   *)
(* opener.  Critical sections of Server.mu and Client.mu are single steps. *)
(***************************************************************************)
EXTENDS Integers, Sequences, FiniteSets, Functions

CONSTANTS
  Children,      \* client processes
  Claim,         \* the node-id each of them sends in its metadata
  Anonymous,     \* the empty node-id
  Streams,       \* identities for Downstream RPCs
  NoStream,
  All,           \* the addressee of a broadcast
  BufSize,       \* capacity of a child's channel (16 in the code)
  Window,        \* frames between a handler and recvLoop before Send blocks,
                 \* the one the handler is blocked on included
  MaxSends,      \* bound: envelopes the parent sends
  Disturbances   \* what may go wrong: {"network", "approval", "close"}

Ids == {Claim[c] : c \in Children} \ {Anonymous}

\* A key is a node-id, or a node-id and the number that makes it synthetic.
Keys == (Ids \cup {Anonymous}) \X (0 .. Cardinality(Streams))

\* An envelope: its place among all the parent sent, and to whom.
Messages == [n : 1 .. MaxSends, to : Ids \cup {All}]

ASSUME ClaimAssumption ==
  /\ DOMAIN Claim = Children /\ Children # {}
  /\ All \notin Ids
  /\ IsFiniteSet(Streams)
  /\ NoStream \notin Streams
ASSUME SizesAssumption ==
  /\ {BufSize, Window} \subseteq Nat \ {0}
  /\ MaxSends \in Nat

VARIABLES
  \* each child's transport.Client
  opener,     \* where the goroutine that opens streams is
  opened,     \* its local stream, not yet installed
  current,    \* downstreamStream
  installed,  \* the stream of downstreamConn and downstreamCancel
  loops,      \* streams with a running recvLoop
  closed,     \* clients on which Close was called
  received,   \* what onDownstream has been called with, in order
  \* the parent's transport.Server
  handler,    \* the Downstream handler of each stream
  owner,      \* the child that opened it
  key,        \* the handler's local key
  channel,    \* the handler's local downstreamCh
  children,   \* Server.children
  sent,       \* number of envelopes sent
  \* gRPC, the network, the administrator
  live,       \* streams whose client side is not over
  wire,       \* frames between handler and recvLoop
  reachable,
  approved    \* children the AuthorizeChild hook accepts

clientVars == <<opener, opened, current, installed, loops, closed, received>>
serverVars == <<handler, owner, key, channel, children, sent>>
vars == <<clientVars, serverVars, live, wire, reachable, approved>>

NoKey == <<Anonymous, 0>>

TypeOK ==
  /\ opener \in [Children -> {"start", "dial", "install", "idle", "done"}]
  /\ {opened, current, installed} \subseteq [Children -> Streams \cup {NoStream}]
  /\ loops \subseteq Streams /\ live \subseteq Streams
  /\ closed \subseteq Children /\ approved \subseteq Children
  /\ received \in [Children -> Seq(Messages)]
  /\ handler \in [Streams -> {"opening", "authorized", "serving", "ended"}]
  /\ owner \in [Streams -> Children]
  /\ key \in [Streams -> Keys \cup {NoKey}]
  /\ {channel, wire} \subseteq [Streams -> Seq(Messages)]
  /\ \A s \in Streams : Len(channel[s]) <= BufSize /\ Len(wire[s]) <= Window
  /\ DOMAIN children \subseteq Keys /\ Range(children) \subseteq Streams
  /\ sent \in 0 .. MaxSends
  /\ reachable \in BOOLEAN

Init ==
  /\ opener = [c \in Children |-> "start"]
  /\ opened = [c \in Children |-> NoStream]
  /\ current = [c \in Children |-> NoStream]
  /\ installed = [c \in Children |-> NoStream]
  /\ loops = {} /\ live = {}
  /\ closed = {}
  /\ received = [c \in Children |-> <<>>]
  /\ handler = [s \in Streams |-> "ended"]
  /\ owner = [s \in Streams |-> CHOOSE c \in Children : TRUE]
  /\ key = [s \in Streams |-> NoKey]
  /\ channel = [s \in Streams |-> <<>>]
  /\ wire = [s \in Streams |-> <<>>]
  /\ children = <<>>
  /\ sent = 0
  /\ reachable \in IF "network" \in Disturbances THEN BOOLEAN ELSE {TRUE}
  /\ approved \in IF "approval" \in Disturbances THEN SUBSET Children
                                                 ELSE {Children}

-----------------------------------------------------------------------------
(* Helpers *)

Goto(c, place) == opener' = [opener EXCEPT ![c] = place]

\* Identities of finished streams are used again.
Free(s) ==
  /\ s \notin live \cup loops
  /\ handler[s] = "ended"
  /\ \A c \in Children : s \notin {opened[c], installed[c]}

\* The client side of s is over; frames recvLoop has not read stay readable
\* until it has seen the error.
Break(s) ==
  /\ live' = live \ {s}
  /\ wire' = IF s \in loops \/ s = NoStream THEN wire ELSE [wire EXCEPT ![s] = <<>>]

HasRoomOffByOne(s) == Len(channel[s]) <= BufSize   \* mutant
HasRoom(s) == Len(channel[s]) < BufSize

\* Put m into the channels of the streams in S that have room.
Enqueue(S, m) ==
  channel' = [s \in Streams |->
                IF s \in S /\ HasRoom(s) THEN Append(channel[s], m)
                                        ELSE channel[s]]

\* The handler of each stream in S returns, unregistering what it registered.
EndHandlers(S) ==
  LET leaving == {key[s] : s \in {t \in S : handler[t] = "serving"}}
  IN /\ handler' = [s \in Streams |-> IF s \in S THEN "ended" ELSE handler[s]]
     /\ children' = Restrict(children, DOMAIN children \ leaving)
     /\ channel' = [s \in Streams |-> IF s \in S THEN <<>> ELSE channel[s]]
     /\ key' = [s \in Streams |-> IF s \in S THEN NoKey ELSE key[s]]

-----------------------------------------------------------------------------
(* The child: reopenDownstream *)

\* Check closed, cancel the previous stream.
Begin(c) ==
  /\ opener[c] = "start"
  /\ IF c \in closed
     THEN Goto(c, "idle") /\ UNCHANGED <<live, wire>>
     ELSE Goto(c, "dial") /\ Break(installed[c])
  /\ UNCHANGED <<opened, current, installed, loops, closed, received, serverVars,
                 reachable, approved>>

\* dialParent and the Downstream RPC, before the handler has decided.
Dial(c, s) ==
  /\ opener[c] = "dial"
  /\ reachable
  /\ Free(s)
  /\ Goto(c, "install")
  /\ opened' = [opened EXCEPT ![c] = s]
  /\ owner' = [owner EXCEPT ![s] = c]
  /\ handler' = [handler EXCEPT ![s] = "opening"]
  /\ live' = live \cup {s}
  /\ wire' = [wire EXCEPT ![s] = <<>>]
  /\ UNCHANGED <<current, installed, loops, closed, received, key, channel,
                 children, sent, reachable, approved>>

DialError(c) ==
  /\ opener[c] = "dial"
  /\ ~reachable
  /\ Goto(c, "idle")
  /\ UNCHANGED <<opened, current, installed, loops, closed, received, serverVars,
                 live, wire, reachable, approved>>

\* Close the previous conn, replace it, start a recvLoop.
Install(c) ==
  /\ opener[c] = "install"
  /\ Goto(c, "idle")
  /\ Break(installed[c])
  /\ installed' = [installed EXCEPT ![c] = opened[c]]
  /\ current' = [current EXCEPT ![c] = opened[c]]
  /\ loops' = loops \cup {opened[c]}
  /\ opened' = [opened EXCEPT ![c] = NoStream]
  /\ UNCHANGED <<closed, received, serverVars, reachable, approved>>

NeedsDownstreamAlways(c) == TRUE   \* mutant: reopens at every tick
NeedsDownstream(c) == current[c] = NoStream

\* reconnectLoop's ticker fires.
Tick(c) ==
  /\ opener[c] = "idle"
  /\ IF c \in closed THEN Goto(c, "done")
                     ELSE NeedsDownstream(c) /\ Goto(c, "start")
  /\ UNCHANGED <<opened, current, installed, loops, closed, received, serverVars,
                 live, wire, reachable, approved>>

\* Client.Close.
Close(c) ==
  /\ "close" \in Disturbances
  /\ c \notin closed
  /\ closed' = closed \cup {c}
  /\ Break(installed[c])
  /\ UNCHANGED <<opener, opened, current, installed, loops, received, serverVars,
                 reachable, approved>>

-----------------------------------------------------------------------------
(* The child: recvLoop *)

\* stream.Recv returns an envelope and onDownstream runs on it.
Receive(s) ==
  /\ s \in loops
  /\ wire[s] # <<>>
  /\ reachable
  /\ received' = [received EXCEPT ![owner[s]] = Append(@, Head(wire[s]))]
  /\ wire' = [wire EXCEPT ![s] = Tail(@)]
  /\ UNCHANGED <<opener, opened, current, installed, loops, closed, serverVars,
                 live, reachable, approved>>

ClearsNever(s) == current   \* mutant: downstreamStream is not reset
Cleared(s) == [c \in Children |-> IF current[c] = s THEN NoStream ELSE current[c]]

\* stream.Recv fails: the stream was cancelled, the handler has returned, or
\* the transport gave up on the connection.
RecvError(s) ==
  /\ s \in loops
  /\ s \notin live \/ handler[s] = "ended" \/ ~reachable
  /\ loops' = loops \ {s}
  /\ current' = Cleared(s)
  /\ live' = live \ {s}
  /\ wire' = [wire EXCEPT ![s] = <<>>]
  /\ UNCHANGED <<opener, opened, installed, closed, received, serverVars,
                 reachable, approved>>

-----------------------------------------------------------------------------
(* The parent: Downstream handlers *)

Authorize(s) ==
  /\ handler[s] = "opening"
  /\ reachable
  /\ handler' = [handler EXCEPT ![s] =
                   IF owner[s] \in approved THEN "authorized" ELSE "ended"]
  /\ UNCHANGED <<clientVars, owner, key, channel, children, sent, live,
                 wire, reachable, approved>>

RegisterAsOverwrites(id) == id = Anonymous   \* mutant: the latest wins the key
NeedsSynthetic(id) == id = Anonymous \/ <<id, 0>> \in DOMAIN children

\* anonSeq only grows; what it is for is a number no registered key has.
FreshSeq == CHOOSE n \in 1 .. Cardinality(Streams) :
              \A k \in DOMAIN children : k[2] # n

\* registerChild: under the node-id if that is free, else a synthetic key.
Register(s) ==
  LET id == Claim[owner[s]]
      k == <<id, IF NeedsSynthetic(id) THEN FreshSeq ELSE 0>>
  IN /\ handler[s] = "authorized"
     /\ key' = [key EXCEPT ![s] = k]
     /\ children' = [j \in DOMAIN children \cup {k} |->
                       IF j = k THEN s ELSE children[j]]
     /\ handler' = [handler EXCEPT ![s] = "serving"]
     /\ UNCHANGED <<clientVars, owner, channel, sent, live, wire, reachable,
                    approved>>

\* The handler takes an envelope from its channel and sends it; a frame for
\* a stream the child has given up is thrown away on arrival.
Serve(s) ==
  /\ handler[s] = "serving"
  /\ channel[s] # <<>>
  /\ Len(wire[s]) < Window
  /\ channel' = [channel EXCEPT ![s] = Tail(@)]
  /\ wire' = IF s \in live THEN [wire EXCEPT ![s] = Append(@, Head(channel[s]))]
                           ELSE wire
  /\ UNCHANGED <<clientVars, handler, owner, key, children, sent, live,
                 reachable, approved>>

\* The stream's context is done or Send fails: the child closed the stream,
\* or, during an outage, the parent's transport gave up on it.  A handler
\* that has been authorized registers first.
HandlerExit(s) ==
  /\ handler[s] \in {"opening", "serving"}
  /\ s \notin live \/ ~reachable
  /\ EndHandlers({s})
  /\ UNCHANGED <<clientVars, owner, sent, live, wire, reachable,
                 approved>>

-----------------------------------------------------------------------------
(* The parent: sending *)

\* BroadcastDownstream: every registered child whose channel has room.
Broadcast ==
  /\ sent < MaxSends
  /\ sent' = sent + 1
  /\ Enqueue(Range(children), [n |-> sent + 1, to |-> All])
  /\ UNCHANGED <<clientVars, handler, owner, key, children, live, wire,
                 reachable, approved>>

HoldersAny(id) == {children[k] : k \in DOMAIN children}   \* mutant: not by id
Holders(id) == {children[k] : k \in DOMAIN children \cap {<<id, 0>>}}

\* SendToChild: an error, without effect, if nobody holds the node-id.
SendToChild(id) ==
  /\ sent < MaxSends
  /\ Holders(id) # {}
  /\ sent' = sent + 1
  /\ Enqueue(Holders(id), [n |-> sent + 1, to |-> id])
  /\ UNCHANGED <<clientVars, handler, owner, key, children, live, wire,
                 reachable, approved>>

-----------------------------------------------------------------------------
(* The network, the parent process and the administrator *)

Reach ==
  /\ "network" \in Disturbances
  /\ reachable' = ~reachable
  /\ UNCHANGED <<clientVars, serverVars, live, wire, approved>>

\* The parent is stopped and started again with an empty registry.
Restart ==
  /\ ~reachable
  /\ EndHandlers(Streams)
  /\ UNCHANGED <<clientVars, owner, sent, live, wire, reachable, approved>>

Approval(c) ==
  /\ "approval" \in Disturbances
  /\ approved' \in {approved \cup {c}, approved \ {c}}
  /\ UNCHANGED <<clientVars, serverVars, live, wire, reachable>>

-----------------------------------------------------------------------------
OpenerStep(c) == Begin(c) \/ (\E s \in Streams : Dial(c, s)) \/ DialError(c)
                   \/ Install(c) \/ Tick(c)
HandlerStep(s) == Authorize(s) \/ Register(s) \/ Serve(s)
LoopStep(s) == Receive(s) \/ RecvError(s)

Next ==
  \/ \E c \in Children : OpenerStep(c) \/ Close(c) \/ Approval(c)
  \/ \E s \in Streams : LoopStep(s) \/ HandlerStep(s) \/ HandlerExit(s)
  \/ Broadcast \/ \E id \in Ids : SendToChild(id)
  \/ Reach \/ Restart

Spec == Init /\ [][Next]_vars

\* Goroutines are scheduled and tickers keep ticking; with the parent
\* reachable each side learns in the end that the other's is over (resets,
\* or the keepalive probes of TCP and of the gRPC server).
Fairness ==
  /\ \A c \in Children : WF_vars(OpenerStep(c))
  /\ \A s \in Streams :
       /\ WF_vars(HandlerStep(s)) /\ WF_vars(s \notin live /\ HandlerExit(s))
       /\ WF_vars(Receive(s)) /\ WF_vars(reachable /\ RecvError(s))

FairSpec == Spec /\ Fairness

-----------------------------------------------------------------------------
(* Properties *)

\* The registry and the handlers agree: a key leads to the handler that
\* registered it, and no other handler's return can remove it.
RegistryMatchesHandlers ==
  /\ \A k \in DOMAIN children : handler[children[k]] = "serving"
                                 /\ key[children[k]] = k
  /\ \A s \in Streams : handler[s] = "serving" =>
       key[s] \in DOMAIN children /\ children[key[s]] = s

\* A child sees the parent's envelopes in the order they were sent and none
\* twice, across any number of reconnections: an old stream's recvLoop has
\* returned before a new stream is registered.
InOrderOnce ==
  \A c \in Children : \A i, j \in DOMAIN received[c] :
    i < j => received[c][i].n < received[c][j].n

\* At most one recvLoop runs per child, so onDownstream is never entered by
\* two goroutines.
OneReceiver ==
  \A s, t \in loops : owner[s] = owner[t] => s = t

\* What SendToChild sends reaches only children that claimed the node-id.
NoMisroute ==
  \A c \in Children : \A i \in DOMAIN received[c] :
    received[c][i].to \in {All, Claim[c]}

\* The stream that brings c what its parent sends, and what is on its way to
\* c: on the wire, and in the channel of the stream's handler as long as the
\* child has not given the stream up.
Carrier(c) == IF opened[c] # NoStream THEN opened[c] ELSE current[c]
Underway(c) ==
  LET s == Carrier(c)
  IN IF s = NoStream THEN <<>>
     ELSE wire[s] \o (IF s \in live THEN channel[s] ELSE <<>>)
Connected ==
  {c \in Children : Carrier(c) \in live /\ handler[Carrier(c)] = "serving"}

\* Streams that come and go, two buffers each, keys and recvLoops make up what
\* a parent has in its children: links as ConfigTree has them.
Link == INSTANCE OrderedLink WITH
  Receivers <- Children, Capacity <- BufSize + Window,
  connected <- Connected, underway <- [c \in Children |-> Underway(c)]
ImplementsLink == Link!Spec

Healthy(c) == reachable /\ c \in approved /\ c \notin closed
Receiving(c) == current[c] \in live /\ handler[current[c]] = "serving"

\* reconnectLoop brings Downstream back after any outage, rejection or
\* restart of the parent, and it stays up if nothing more happens.
DownstreamComesBack ==
  \A c \in Children : <>[]Healthy(c) => <>[]Receiving(c)

\* What the parent has enqueued for a working child arrives, unless the link
\* is disturbed again first.
EnqueuedArrives ==
  \A c \in Children : \A m \in Messages :
    (Receiving(c) /\ m \in Range(channel[current[c]]))
      ~> (m \in Range(received[c]) \/ ~Healthy(c))
=============================================================================
