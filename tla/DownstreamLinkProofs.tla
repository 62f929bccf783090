------------------------ MODULE DownstreamLinkProofs ------------------------
(***************************************************************************)
(* Proofs about DownstreamLink, for any children and claims, any number of *)
(* streams, any sizes and any Disturbances.                                *)
(***************************************************************************)
EXTENDS DownstreamLink, FiniteSetTheorems, TLAPS

-----------------------------------------------------------------------------
(* Helpers *)

\* Cutting one client's stream changes nothing but that stream, and its
\* frames only if no recvLoop is there to read them.
LEMMA BreakOne ==
  ASSUME TypeOK, NEW s \in Streams \cup {NoStream}, Break(s)
  PROVE  /\ live' = live \ {s}
         /\ wire' \in [Streams -> Seq(Messages)]
         /\ \A t \in Streams :
              wire'[t] = wire[t] \/ (t = s /\ t \notin loops /\ wire'[t] = <<>>)
         /\ \A t \in Streams : Len(wire'[t]) <= Window
         /\ s \in Streams \ loops => wire'[s] = <<>>
<1> USE ClaimAssumption, SizesAssumption DEF TypeOK
<1>1. CASE s \in loops \/ s = NoStream
  BY <1>1 DEF Break
<1>2. CASE ~(s \in loops \/ s = NoStream)
  <2>1. wire' = [wire EXCEPT ![s] = <<>>] /\ s \in Streams
    BY <1>2 DEF Break
  <2> QED BY <1>2, <2>1 DEF Break
<1> QED BY <1>1, <1>2

\* A send adds one envelope at the end of some channels in S that have room.
LEMMA EnqueueOne ==
  ASSUME TypeOK, NEW S, NEW m \in Messages, Enqueue(S, m)
  PROVE  /\ channel' \in [Streams -> Seq(Messages)]
         /\ \A s \in Streams : Len(channel'[s]) <= BufSize
         /\ \A s \in Streams :
              channel'[s] = channel[s] \/ (s \in S /\ channel'[s] = Append(channel[s], m))
BY SizesAssumption DEF TypeOK, Enqueue, HasRoom

\* While some stream is not registered, a number is left for a synthetic key:
\* there are fewer keys than streams.
LEMMA FreshExists ==
  ASSUME TypeOK, RegistryMatchesHandlers,
         NEW s \in Streams, handler[s] # "serving"
  PROVE  /\ FreshSeq \in 1 .. Cardinality(Streams)
         /\ \A k \in DOMAIN children : k[2] # FreshSeq
<1> DEFINE D == DOMAIN children
           N == Cardinality(Streams)
           Others == Streams \ {s}
           Used == {k[2] : k \in D}
<1>1. IsFiniteSet(Others) /\ Cardinality(Others) = N - 1 /\ N \in Nat
  BY ClaimAssumption, FS_RemoveElement, FS_CardinalityType
<1>2. IsFiniteSet(D) /\ Cardinality(D) <= N - 1
  <2> DEFINE f == [k \in D |-> children[k]]
  <2>1. \A k \in D : children[k] \in Others
    BY DEF RegistryMatchesHandlers, TypeOK, Range
  <2>2. \A j, k \in D : children[j] = children[k] => j = k
    BY DEF RegistryMatchesHandlers
  <2>3. f \in Injection(D, Others)
    BY <2>1, <2>2 DEF Injection, IsInjective
  <2> QED BY <1>1, <2>3, FS_Injection
<1>3. IsFiniteSet(Used) /\ Cardinality(Used) <= Cardinality(D)
  <2> DEFINE g == [k \in D |-> k[2]]
  <2>1. g \in Surjection(D, Used)
    BY DEF Surjection
  <2> QED BY <1>2, <2>1, FS_Surjection
<1>4. Cardinality(1 .. N) = N
  BY <1>1, FS_Interval
<1>5. ~(1 .. N \subseteq Used)
  <2> SUFFICES ASSUME 1 .. N \subseteq Used PROVE FALSE
    OBVIOUS
  <2>1. Cardinality(1 .. N) <= Cardinality(Used)
    BY <1>3, FS_Subset
  <2>2. Cardinality(D) \in Nat /\ Cardinality(Used) \in Nat
    BY <1>2, <1>3, FS_CardinalityType
  <2> QED BY <1>1, <1>2, <1>3, <1>4, <2>1, <2>2
<1>6. \E n \in 1 .. N : \A k \in D : k[2] # n
  BY <1>5
<1> QED BY <1>6 DEF FreshSeq

-----------------------------------------------------------------------------
(* The inductive invariant, part by part *)

\* A child's streams: the one its opener holds, and the one it is receiving
\* from.  The opener opens one only when no recvLoop runs, and only these two
\* are alive and hold frames.
StreamsInv ==
  /\ \A c \in Children :
       /\ opener[c] \in {"start", "dial", "install"} => current[c] = NoStream
       /\ opener[c] = "install" <=> opened[c] # NoStream
       /\ opened[c] # NoStream => owner[opened[c]] = c /\ opened[c] \notin loops
  /\ \A s \in loops : current[owner[s]] = s
  /\ \A s \in Streams : s \in live \/ wire[s] # <<>> =>
       s \in loops \/ s = opened[owner[s]]

\* Besides the agreement of registry and handlers: who is not registered has
\* nothing in his channel, and a key has the node-id its child claimed.
RegistryInv ==
  /\ RegistryMatchesHandlers
  /\ \A s \in Streams :
       /\ handler[s] # "serving" => channel[s] = <<>>
       /\ handler[s] = "serving" => key[s][1] = Claim[owner[s]]

\* Frames and envelopes in channels are for the child they are on their way to.
RoutesInv ==
  /\ NoMisroute
  /\ \A s \in Streams :
       /\ \A i \in DOMAIN wire[s] : wire[s][i].to \in {All, Claim[owner[s]]}
       /\ \A i \in DOMAIN channel[s] : channel[s][i].to \in {All, Claim[owner[s]]}

\* Envelopes in the order they were sent: in q, and in p before all of q.
Ascending(q) == \A i, j \in DOMAIN q : i < j => q[i].n < q[j].n
AllBefore(p, q) == \A i \in DOMAIN p : \A j \in DOMAIN q : p[i].n < q[j].n
AllSent(q) == \A i \in DOMAIN q : q[i].n <= sent

\* What s holds may still reach its child.
Carries(s) == s \in loops \/ s = opened[owner[s]]

\* What a child has received is older than what is on its way to it, and that
\* is older on the wire than in the channel.
OrderInv ==
  /\ \A c \in Children : Ascending(received[c]) /\ AllSent(received[c])
  /\ \A s \in Streams :
       /\ Ascending(wire[s]) /\ AllSent(wire[s])
       /\ Ascending(channel[s]) /\ AllSent(channel[s])
       /\ AllBefore(wire[s], channel[s])
  /\ \A s \in Streams : Carries(s) =>
       /\ AllBefore(received[owner[s]], wire[s])
       /\ AllBefore(received[owner[s]], channel[s])

-----------------------------------------------------------------------------
(* Type correctness *)

\* The initial state has the right types.
LEMMA InitType == Init => TypeOK
<1> SUFFICES ASSUME Init PROVE TypeOK
  OBVIOUS
<1> USE ClaimAssumption, SizesAssumption DEF Init
<1>1. (CHOOSE c \in Children : TRUE) \in Children
  OBVIOUS
<1>2. DOMAIN children = {} /\ Range(children) = {}
  BY DEF Range
<1>3. reachable \in BOOLEAN /\ approved \subseteq Children
  OBVIOUS
<1> QED BY <1>1, <1>2, <1>3 DEF TypeOK, NoKey

\* Dialling takes an unused stream, in whose history nothing is left.
LEMMA DialType ==
  ASSUME TypeOK, NEW c \in Children, NEW s \in Streams, Dial(c, s)
  PROVE  TypeOK'
<1> USE SizesAssumption DEF TypeOK
<1>1. /\ opener' \in [Children -> {"start", "dial", "install", "idle", "done"}]
      /\ {opened, current, installed}' \subseteq [Children -> Streams \cup {NoStream}]
  BY DEF Dial, Goto
<1>2. handler' \in [Streams -> {"opening", "authorized", "serving", "ended"}]
  BY DEF Dial
<1>3. owner' \in [Streams -> Children] /\ live' \subseteq Streams
  BY DEF Dial
<1>4. /\ wire' \in [Streams -> Seq(Messages)]
      /\ \A t \in Streams : Len(wire'[t]) <= Window
  BY DEF Dial
<1> QED BY <1>1, <1>2, <1>3, <1>4 DEF Dial

\* The steps of a child's opener and its Close keep the types.
LEMMA OpenerType ==
  ASSUME TypeOK, StreamsInv, NEW c \in Children, OpenerStep(c) \/ Close(c)
  PROVE  TypeOK'
<1>1. CASE Begin(c) /\ c \in closed
  BY <1>1 DEF TypeOK, Begin, Goto, serverVars
<1>2. CASE Begin(c) /\ c \notin closed
  <2>1. installed[c] \in Streams \cup {NoStream}
    BY DEF TypeOK
  <2>2. Break(installed[c])
    BY <1>2 DEF Begin
  <2>3. /\ live' \subseteq Streams
        /\ wire' \in [Streams -> Seq(Messages)]
        /\ \A t \in Streams : Len(wire'[t]) <= Window
    BY <2>1, <2>2, BreakOne DEF TypeOK
  <2> QED BY <1>2, <2>3 DEF TypeOK, Begin, Goto, serverVars
<1>3. ASSUME NEW s \in Streams, Dial(c, s) PROVE TypeOK'
  BY <1>3, DialType
<1>4. CASE DialError(c) \/ Tick(c)
  BY <1>4 DEF TypeOK, DialError, Tick, Goto, serverVars
<1>5. CASE Install(c)
  <2>1. installed[c] \in Streams \cup {NoStream} /\ opened[c] \in Streams
    BY <1>5 DEF TypeOK, StreamsInv, Install
  <2>2. Break(installed[c])
    BY <1>5 DEF Install
  <2> QED BY <1>5, <2>1, <2>2, BreakOne DEF TypeOK, Install, Goto, serverVars
<1>6. CASE Close(c)
  <2>1. installed[c] \in Streams \cup {NoStream}
    BY DEF TypeOK
  <2>2. Break(installed[c])
    BY <1>6 DEF Close
  <2> QED BY <1>6, <2>1, <2>2, BreakOne DEF TypeOK, Close, serverVars
<1> QED BY <1>1, <1>2, <1>3, <1>4, <1>5, <1>6 DEF OpenerStep

\* So do those of recvLoop.
LEMMA LoopType ==
  ASSUME TypeOK, NEW s \in Streams, LoopStep(s)
  PROVE  TypeOK'
<1> USE SizesAssumption DEF TypeOK
<1>1. CASE Receive(s)
  <2>1. Head(wire[s]) \in Messages /\ Tail(wire[s]) \in Seq(Messages)
        /\ Len(Tail(wire[s])) <= Window
    BY <1>1 DEF Receive
  <2>2. received' \in [Children -> Seq(Messages)]
    BY <1>1, <2>1 DEF Receive
  <2>3. /\ wire' \in [Streams -> Seq(Messages)]
        /\ \A t \in Streams : Len(wire'[t]) <= Window
    BY <1>1, <2>1 DEF Receive
  <2> QED BY <1>1, <2>2, <2>3 DEF Receive, serverVars
<1>2. CASE RecvError(s)
  <2>1. current' \in [Children -> Streams \cup {NoStream}]
    BY <1>2 DEF RecvError, Cleared
  <2>2. /\ wire' \in [Streams -> Seq(Messages)]
        /\ \A t \in Streams : Len(wire'[t]) <= Window
    BY <1>2 DEF RecvError
  <2> QED BY <1>2, <2>1, <2>2 DEF RecvError, serverVars
<1> QED BY <1>1, <1>2 DEF LoopStep

\* Returning handlers leave a smaller registry.
LEMMA EndType ==
  ASSUME TypeOK, NEW S \in SUBSET Streams, EndHandlers(S),
         UNCHANGED <<clientVars, owner, sent, live, wire, reachable, approved>>
  PROVE  TypeOK'
<1> USE SizesAssumption DEF TypeOK, clientVars
<1>1. /\ handler' \in [Streams -> {"opening", "authorized", "serving", "ended"}]
      /\ key' \in [Streams -> Keys \cup {NoKey}]
  BY DEF EndHandlers
<1>2. /\ channel' \in [Streams -> Seq(Messages)]
      /\ \A s \in Streams : Len(channel'[s]) <= BufSize
  BY DEF EndHandlers
<1>3. PICK K \in SUBSET DOMAIN children : children' = Restrict(children, K)
  BY DEF EndHandlers
<1>4. children' = [k \in K |-> children[k]]
  BY <1>3 DEF Restrict
<1>5. DOMAIN children' \subseteq Keys /\ Range(children') \subseteq Streams
  BY <1>4 DEF Range
<1> QED BY <1>1, <1>2, <1>5

\* The steps of the parent's handlers keep the types.
LEMMA HandlerType ==
  ASSUME TypeOK, RegistryMatchesHandlers, NEW s \in Streams,
         HandlerStep(s) \/ HandlerExit(s)
  PROVE  TypeOK'
<1> USE SizesAssumption DEF TypeOK, clientVars
<1>1. CASE Authorize(s)
  BY <1>1 DEF Authorize
<1>2. CASE Register(s)
  <2> DEFINE id == Claim[owner[s]]
             k == <<id, IF NeedsSynthetic(id) THEN FreshSeq ELSE 0>>
  <2>1. FreshSeq \in 1 .. Cardinality(Streams) /\ Cardinality(Streams) \in Nat
    BY <1>2, FreshExists, ClaimAssumption, FS_CardinalityType DEF Register
  <2>2. id \in Ids \cup {Anonymous}
    BY DEF Ids
  <2>3. k \in Keys
    BY <2>1, <2>2 DEF Keys
  <2>4. children' = [j \in DOMAIN children \cup {k} |->
                       IF j = k THEN s ELSE children[j]]
    BY <1>2 DEF Register
  <2>5. DOMAIN children' \subseteq Keys /\ Range(children') \subseteq Streams
    BY <2>3, <2>4 DEF Range
  <2>6. key' \in [Streams -> Keys \cup {NoKey}]
    BY <1>2, <2>3 DEF Register
  <2> QED BY <1>2, <2>5, <2>6 DEF Register
<1>3. CASE Serve(s)
  <2>1. Head(channel[s]) \in Messages /\ Tail(channel[s]) \in Seq(Messages)
        /\ Len(Tail(channel[s])) <= BufSize
    BY <1>3 DEF Serve
  <2>2. /\ channel' \in [Streams -> Seq(Messages)]
        /\ \A t \in Streams : Len(channel'[t]) <= BufSize
    BY <1>3, <2>1 DEF Serve
  <2>3. /\ Append(wire[s], Head(channel[s])) \in Seq(Messages)
        /\ Len(Append(wire[s], Head(channel[s]))) <= Window
    BY <1>3, <2>1 DEF Serve
  <2>4. /\ wire' \in [Streams -> Seq(Messages)]
        /\ \A t \in Streams : Len(wire'[t]) <= Window
    BY <1>3, <2>3 DEF Serve
  <2> QED BY <1>3, <2>2, <2>4 DEF Serve
<1>4. CASE HandlerExit(s)
  <2>1. {s} \in SUBSET Streams
    OBVIOUS
  <2> QED BY <1>4, <2>1, EndType DEF HandlerExit
<1> QED BY <1>1, <1>2, <1>3, <1>4 DEF HandlerStep

\* So do sends, the network, the administrator and the parent process.
LEMMA OtherType ==
  ASSUME TypeOK,
         \/ Broadcast \/ (\E id \in Ids : SendToChild(id)) \/ Reach \/ Restart
         \/ \E c \in Children : Approval(c)
  PROVE  TypeOK'
<1> USE SizesAssumption DEF TypeOK, clientVars, serverVars
<1>1. CASE Broadcast
  <2>1. [n |-> sent + 1, to |-> All] \in Messages
    BY <1>1 DEF Broadcast, Messages
  <2> QED BY <1>1, <2>1, EnqueueOne DEF Broadcast
<1>2. ASSUME NEW id \in Ids, SendToChild(id) PROVE TypeOK'
  <2>1. [n |-> sent + 1, to |-> id] \in Messages
    BY <1>2 DEF SendToChild, Messages
  <2> QED BY <1>2, <2>1, EnqueueOne DEF SendToChild
<1>3. CASE Reach
  BY <1>3 DEF Reach
<1>4. CASE Restart
  BY <1>4, EndType DEF Restart
<1>5. ASSUME NEW c \in Children, Approval(c) PROVE TypeOK'
  BY <1>5 DEF Approval
<1> QED BY <1>1, <1>2, <1>3, <1>4, <1>5


-----------------------------------------------------------------------------
(* A child's streams *)

\* Cancelling installed[c] keeps what StreamsInv says of live streams.
LEMMA BreakStreams ==
  ASSUME TypeOK, StreamsInv, NEW s \in Streams \cup {NoStream}, Break(s),
         UNCHANGED owner
  PROVE  \A t \in Streams : t \in live' \/ wire'[t] # <<>> =>
           t \in loops \/ t = opened[owner[t]]
BY BreakOne DEF StreamsInv

\* Opening and installing: the opener takes care of one stream at a time.
LEMMA OpenerStreams ==
  ASSUME TypeOK, StreamsInv, NEW c \in Children, OpenerStep(c) \/ Close(c)
  PROVE  StreamsInv'
<1> USE ClaimAssumption DEF TypeOK
<1>1. installed[c] \in Streams \cup {NoStream}
  OBVIOUS
<1>2. CASE Begin(c)
  <2>1. \A t \in Streams : t \in live' \/ wire'[t] # <<>> =>
          t \in loops \/ t = opened[owner[t]]
    BY <1>1, <1>2, BreakStreams DEF Begin, serverVars, StreamsInv
  <2>2. opener[c] = "start" /\ opener'[c] \in {"idle", "dial"}
        /\ \A d \in Children : d # c => opener'[d] = opener[d]
    BY <1>2 DEF Begin, Goto
  <2> QED BY <1>2, <2>1, <2>2 DEF Begin, serverVars, StreamsInv
<1>3. ASSUME NEW s \in Streams, Dial(c, s) PROVE StreamsInv'
  <2>1. /\ opener' = [opener EXCEPT ![c] = "install"]
        /\ opened' = [opened EXCEPT ![c] = s]
        /\ owner' = [owner EXCEPT ![s] = c]
        /\ live' = live \cup {s} /\ wire' = [wire EXCEPT ![s] = <<>>]
        /\ UNCHANGED <<current, loops>>
        /\ s \notin live \cup loops /\ opener[c] = "dial"
        /\ \A d \in Children : opened[d] # s
    BY <1>3 DEF Dial, Goto, Free
  <2>2. opened[c] = NoStream
    BY <2>1 DEF StreamsInv
  <2>3. \A d \in Children :
          /\ opener'[d] \in {"start", "dial", "install"} => current'[d] = NoStream
          /\ opener'[d] = "install" <=> opened'[d] # NoStream
          /\ opened'[d] # NoStream => owner'[opened'[d]] = d /\ opened'[d] \notin loops'
    BY <2>1 DEF StreamsInv
  <2>4. \A t \in loops' : current'[owner'[t]] = t
    BY <2>1 DEF StreamsInv
  <2>5. \A t \in Streams : t \in live' \/ wire'[t] # <<>> =>
          t \in loops' \/ t = opened'[owner'[t]]
    BY <2>1, <2>2 DEF StreamsInv
  <2> QED BY <2>3, <2>4, <2>5 DEF StreamsInv
<1>4. CASE DialError(c)
  BY <1>4 DEF DialError, Goto, serverVars, StreamsInv
<1>5. CASE Install(c)
  <2>1. /\ opener[c] = "install" /\ opener' = [opener EXCEPT ![c] = "idle"]
        /\ opened' = [opened EXCEPT ![c] = NoStream]
        /\ current' = [current EXCEPT ![c] = opened[c]]
        /\ loops' = loops \cup {opened[c]}
        /\ UNCHANGED owner
    BY <1>5 DEF Install, Goto, serverVars
  <2>2. opened[c] \in Streams \ loops /\ owner[opened[c]] = c /\ current[c] = NoStream
    BY <2>1 DEF StreamsInv
  <2>3. \A t \in Streams : t \in live' \/ wire'[t] # <<>> =>
          t \in loops \/ t = opened[owner[t]]
    BY <1>1, <1>5, BreakStreams DEF Install, serverVars
  <2>4. \A t \in loops' : current'[owner'[t]] = t
    BY <2>1, <2>2 DEF StreamsInv
  <2>5. \A t \in Streams : t \in live' \/ wire'[t] # <<>> =>
          t \in loops' \/ t = opened'[owner'[t]]
    BY <2>1, <2>3
  <2>6. \A d \in Children :
          /\ opener'[d] \in {"start", "dial", "install"} => current'[d] = NoStream
          /\ opener'[d] = "install" <=> opened'[d] # NoStream
          /\ opened'[d] # NoStream => owner'[opened'[d]] = d /\ opened'[d] \notin loops'
    BY <2>1, <2>2 DEF StreamsInv
  <2> QED BY <2>4, <2>5, <2>6 DEF StreamsInv
<1>6. CASE Tick(c)
  <2>1. current[c] = NoStream \/ opener'[c] = "done"
    BY <1>6 DEF Tick, Goto, NeedsDownstream
  <2>2. opener[c] = "idle" /\ opener'[c] \in {"start", "done"}
        /\ \A d \in Children : d # c => opener'[d] = opener[d]
    BY <1>6 DEF Tick, Goto
  <2> QED BY <1>6, <2>1, <2>2 DEF Tick, serverVars, StreamsInv
<1>7. CASE Close(c)
  <2>1. \A t \in Streams : t \in live' \/ wire'[t] # <<>> =>
          t \in loops \/ t = opened[owner[t]]
    BY <1>1, <1>7, BreakStreams DEF Close, serverVars
  <2> QED BY <1>7, <2>1 DEF Close, serverVars, StreamsInv
<1> QED BY <1>2, <1>3, <1>4, <1>5, <1>6, <1>7 DEF OpenerStep

\* recvLoop resets the client's stream when it returns; a handler sends to
\* live streams only.
LEMMA OtherStreams ==
  ASSUME TypeOK, StreamsInv, [Next]_vars,
         ~ \E c \in Children : OpenerStep(c) \/ Close(c)
  PROVE  StreamsInv'
<1> USE ClaimAssumption DEF TypeOK
<1>1. ASSUME NEW s \in Streams, Receive(s) PROVE StreamsInv'
  <2>1. UNCHANGED <<opener, opened, current, loops, owner, live>>
        /\ \A t \in Streams : wire'[t] # <<>> => wire[t] # <<>> \/ t \in loops
    BY <1>1 DEF Receive, serverVars
  <2> QED BY <2>1 DEF StreamsInv
<1>2. ASSUME NEW s \in Streams, RecvError(s) PROVE StreamsInv'
  <2>1. /\ s \in loops /\ loops' = loops \ {s}
        /\ current' = [c \in Children |-> IF current[c] = s THEN NoStream ELSE current[c]]
        /\ live' = live \ {s} /\ wire' = [wire EXCEPT ![s] = <<>>]
        /\ UNCHANGED <<opener, opened, owner>>
    BY <1>2 DEF RecvError, Cleared, serverVars
  <2>2. \A t \in loops' : current'[owner'[t]] = t
    BY <2>1 DEF StreamsInv
  <2>3. \A t \in Streams : t \in live' \/ wire'[t] # <<>> =>
          t \in loops' \/ t = opened'[owner'[t]]
    BY <2>1 DEF StreamsInv
  <2>4. \A c \in Children : current[c] = NoStream => current'[c] = NoStream
    BY <2>1
  <2> QED BY <2>1, <2>2, <2>3, <2>4 DEF StreamsInv
<1>3. ASSUME NEW s \in Streams, Serve(s) PROVE StreamsInv'
  <2>1. UNCHANGED <<opener, opened, current, loops, owner, live>>
        /\ \A t \in Streams : wire'[t] # <<>> => wire[t] # <<>> \/ t \in live
    BY <1>3 DEF Serve, clientVars
  <2> QED BY <2>1 DEF StreamsInv
<1>4. CASE UNCHANGED <<opener, opened, current, loops, owner, live, wire>>
  BY <1>4 DEF StreamsInv
<1>5. \/ UNCHANGED <<opener, opened, current, loops, owner, live, wire>>
      \/ \E s \in Streams : Receive(s) \/ RecvError(s) \/ Serve(s)
  <2>1. ASSUME NEW s \in Streams, Authorize(s) \/ Register(s) \/ HandlerExit(s)
        PROVE  UNCHANGED <<opener, opened, current, loops, owner, live, wire>>
    BY <2>1 DEF Authorize, Register, HandlerExit, clientVars
  <2>2. ASSUME \/ Broadcast \/ (\E id \in Ids : SendToChild(id)) \/ Reach
               \/ Restart \/ (\E c \in Children : Approval(c)) \/ UNCHANGED vars
        PROVE  UNCHANGED <<opener, opened, current, loops, owner, live, wire>>
    BY <2>2 DEF Broadcast, SendToChild, Reach, Restart, Approval, vars,
      clientVars, serverVars
  <2> QED BY <2>1, <2>2 DEF Next, LoopStep, HandlerStep
<1> QED BY <1>1, <1>2, <1>3, <1>4, <1>5


-----------------------------------------------------------------------------
(* The registry *)

\* Handlers that return take their own keys out, and no other.
LEMMA EndRegistry ==
  ASSUME TypeOK, RegistryInv, NEW S \in SUBSET Streams, EndHandlers(S),
         UNCHANGED owner
  PROVE  RegistryInv'
<1> USE DEF TypeOK
<1> DEFINE leaving == {key[s] : s \in {t \in S : handler[t] = "serving"}}
<1>1. /\ \A s \in S : handler'[s] = "ended" /\ channel'[s] = <<>>
      /\ \A s \in Streams \ S : /\ handler'[s] = handler[s] /\ key'[s] = key[s]
                                /\ channel'[s] = channel[s]
  BY DEF EndHandlers
<1>2. children' = [k \in DOMAIN children \ leaving |-> children[k]]
  BY DEF EndHandlers, Restrict
<1>3. \A k \in DOMAIN children : children[k] \in Streams
  BY DEF Range
<1>4. \A k \in DOMAIN children' : handler'[children'[k]] = "serving"
                                   /\ key'[children'[k]] = k
  BY <1>1, <1>2, <1>3 DEF RegistryInv, RegistryMatchesHandlers
<1>5. \A s \in Streams : handler'[s] = "serving" =>
        key'[s] \in DOMAIN children' /\ children'[key'[s]] = s
  <2> SUFFICES ASSUME NEW s \in Streams, handler'[s] = "serving"
               PROVE  key'[s] \in DOMAIN children' /\ children'[key'[s]] = s
    OBVIOUS
  <2>1. s \notin S /\ handler[s] = "serving" /\ key'[s] = key[s]
    BY <1>1
  <2>2. key[s] \in DOMAIN children /\ children[key[s]] = s
    BY <2>1 DEF RegistryInv, RegistryMatchesHandlers
  <2>3. key[s] \notin leaving
    BY <2>1, <2>2 DEF RegistryInv, RegistryMatchesHandlers
  <2> QED BY <1>2, <2>1, <2>2, <2>3
<1>6. \A s \in Streams :
        /\ handler'[s] # "serving" => channel'[s] = <<>>
        /\ handler'[s] = "serving" => key'[s][1] = Claim[owner'[s]]
  <2> TAKE s \in Streams
  <2>1. CASE s \in S
    BY <1>1, <2>1
  <2>2. CASE s \notin S
    BY <1>1, <2>2 DEF RegistryInv
  <2> QED BY <2>1, <2>2
<1> QED BY <1>4, <1>5, <1>6 DEF RegistryInv, RegistryMatchesHandlers

\* A new key is nobody's: the node-id itself is taken only when it is free,
\* and a synthetic key's number is not used by any other key.
LEMMA RegisterRegistry ==
  ASSUME TypeOK, RegistryInv, NEW s \in Streams, Register(s)
  PROVE  RegistryInv'
<1> USE DEF TypeOK
<1> DEFINE id == Claim[owner[s]]
           k == <<id, IF NeedsSynthetic(id) THEN FreshSeq ELSE 0>>
<1>1. k \notin DOMAIN children
  BY FreshExists DEF RegistryInv, Register, NeedsSynthetic
<1>2. /\ handler[s] = "authorized" /\ handler' = [handler EXCEPT ![s] = "serving"]
      /\ key' = [key EXCEPT ![s] = k]
      /\ children' = [j \in DOMAIN children \cup {k} |->
                        IF j = k THEN s ELSE children[j]]
      /\ UNCHANGED <<owner, channel>>
  BY DEF Register
<1> HIDE DEF k
<1>3. \A j \in DOMAIN children : children[j] \in Streams \ {s}
  BY <1>2 DEF RegistryInv, RegistryMatchesHandlers, Range
<1>4. \A j \in DOMAIN children' : handler'[children'[j]] = "serving"
                                   /\ key'[children'[j]] = j
  BY <1>1, <1>2, <1>3 DEF RegistryInv, RegistryMatchesHandlers
<1>5. \A t \in Streams : handler'[t] = "serving" =>
        key'[t] \in DOMAIN children' /\ children'[key'[t]] = t
  BY <1>1, <1>2 DEF RegistryInv, RegistryMatchesHandlers
<1>6. k[1] = Claim[owner[s]]
  BY DEF k
<1>7. \A t \in Streams :
        /\ handler'[t] # "serving" => channel'[t] = <<>>
        /\ handler'[t] = "serving" => key'[t][1] = Claim[owner'[t]]
  BY <1>2, <1>6 DEF RegistryInv
<1> QED BY <1>4, <1>5, <1>7 DEF RegistryInv, RegistryMatchesHandlers

\* An envelope is put into the channels of registered handlers only.
LEMMA EnqueueRegistry ==
  ASSUME TypeOK, RegistryInv, NEW S \in SUBSET Range(children), NEW m \in Messages,
         Enqueue(S, m), UNCHANGED <<handler, owner, key, children>>
  PROVE  RegistryInv'
<1>1. \A s \in S : handler[s] = "serving"
  BY DEF RegistryInv, RegistryMatchesHandlers, Range
<1>2. \A s \in Streams : handler'[s] # "serving" => channel'[s] = <<>>
  BY <1>1, EnqueueOne DEF RegistryInv
<1> QED BY <1>2 DEF RegistryInv, RegistryMatchesHandlers

\* Every step keeps registry and handlers in agreement.
LEMMA NextRegistry ==
  ASSUME TypeOK, RegistryInv, [Next]_vars
  PROVE  RegistryInv'
<1> USE DEF TypeOK
<1>1. ASSUME NEW c \in Children, NEW s \in Streams, Dial(c, s)
      PROVE  RegistryInv'
  <2>1. /\ handler[s] = "ended" /\ handler' = [handler EXCEPT ![s] = "opening"]
        /\ owner' = [owner EXCEPT ![s] = c] /\ UNCHANGED <<key, channel, children>>
    BY <1>1 DEF Dial, Free
  <2>2. \A k \in DOMAIN children : children[k] \in Streams \ {s}
    BY <2>1 DEF RegistryInv, RegistryMatchesHandlers, Range
  <2> QED BY <2>1, <2>2 DEF RegistryInv, RegistryMatchesHandlers
<1>2. ASSUME NEW s \in Streams, Authorize(s) PROVE RegistryInv'
  <2>1. /\ handler[s] = "opening" /\ handler'[s] # "serving"
        /\ \A t \in Streams \ {s} : handler'[t] = handler[t]
        /\ UNCHANGED <<owner, key, channel, children>>
    BY <1>2 DEF Authorize
  <2>2. \A k \in DOMAIN children : children[k] \in Streams \ {s}
    BY <2>1 DEF RegistryInv, RegistryMatchesHandlers, Range
  <2> QED BY <2>1, <2>2 DEF RegistryInv, RegistryMatchesHandlers
<1>3. ASSUME NEW s \in Streams, Register(s) PROVE RegistryInv'
  BY <1>3, RegisterRegistry
<1>4. ASSUME NEW s \in Streams, Serve(s) PROVE RegistryInv'
  <2>1. /\ handler[s] = "serving" /\ UNCHANGED <<handler, owner, key, children>>
        /\ \A t \in Streams \ {s} : channel'[t] = channel[t]
    BY <1>4 DEF Serve
  <2> QED BY <2>1 DEF RegistryInv, RegistryMatchesHandlers
<1>5. ASSUME NEW s \in Streams, HandlerExit(s) PROVE RegistryInv'
  BY <1>5, {s} \in SUBSET Streams, EndRegistry DEF HandlerExit
<1>6. CASE Restart
  BY <1>6, EndRegistry DEF Restart
<1>7. CASE Broadcast
  <2>1. [n |-> sent + 1, to |-> All] \in Messages
    BY <1>7, SizesAssumption DEF Broadcast, Messages
  <2> QED BY <1>7, <2>1, EnqueueRegistry DEF Broadcast
<1>8. ASSUME NEW id \in Ids, SendToChild(id) PROVE RegistryInv'
  <2>1. [n |-> sent + 1, to |-> id] \in Messages
    BY <1>8, SizesAssumption DEF SendToChild, Messages
  <2>2. Holders(id) \subseteq Range(children)
    BY DEF Holders, Range
  <2> QED BY <1>8, <2>1, <2>2, EnqueueRegistry DEF SendToChild
<1>9. CASE UNCHANGED <<handler, owner, key, channel, children>>
  BY <1>9 DEF RegistryInv, RegistryMatchesHandlers
<1>10. ASSUME NEW c \in Children,
              \/ Begin(c) \/ DialError(c) \/ Install(c) \/ Tick(c) \/ Close(c)
              \/ Approval(c) \/ Reach \/ UNCHANGED vars
              \/ \E s \in Streams : LoopStep(s)
       PROVE  UNCHANGED <<handler, owner, key, channel, children>>
  BY <1>10 DEF Begin, DialError, Install, Tick, Close, Approval, Reach, vars,
    LoopStep, Receive, RecvError, serverVars
<1> QED BY <1>1, <1>2, <1>3, <1>4, <1>5, <1>6, <1>7, <1>8, <1>9, <1>10,
           ClaimAssumption DEF Next, OpenerStep, HandlerStep


-----------------------------------------------------------------------------
(* Sequences of envelopes *)

\* Without its head, a sequence has the rest of its elements, in their order.
LEMMA TailElements ==
  ASSUME NEW q \in Seq(Messages), q # <<>>
  PROVE  /\ Tail(q) \in Seq(Messages)
         /\ \E j \in DOMAIN q : Head(q) = q[j]
         /\ \A i \in DOMAIN Tail(q) : \E j \in DOMAIN q : Tail(q)[i] = q[j]
         /\ Ascending(q) =>
              /\ Ascending(Tail(q))
              /\ \A i \in DOMAIN Tail(q) : Head(q).n < Tail(q)[i].n
<1>1. /\ Tail(q) \in Seq(Messages) /\ Len(Tail(q)) = Len(q) - 1
      /\ Head(q) = q[1] /\ Len(q) \in Nat \ {0}
      /\ \A i \in 1 .. Len(q) - 1 : Tail(q)[i] = q[i + 1]
  OBVIOUS
<1>2. DOMAIN q = 1 .. Len(q) /\ DOMAIN Tail(q) = 1 .. Len(q) - 1
  BY <1>1
<1>3. 1 \in DOMAIN q /\ \A i \in DOMAIN Tail(q) : i + 1 \in DOMAIN q /\ 1 < i + 1
  BY <1>1, <1>2
<1>4. ASSUME Ascending(q) PROVE Ascending(Tail(q))
  <2> SUFFICES ASSUME NEW i \in DOMAIN Tail(q), NEW j \in DOMAIN Tail(q), i < j
               PROVE  Tail(q)[i].n < Tail(q)[j].n
    BY DEF Ascending
  <2>1. i + 1 < j + 1
    BY <1>1, <1>2
  <2> QED BY <1>1, <1>2, <1>3, <1>4, <2>1 DEF Ascending
<1>5. ASSUME Ascending(q), NEW i \in DOMAIN Tail(q) PROVE Head(q).n < Tail(q)[i].n
  BY <1>1, <1>2, <1>3, <1>5 DEF Ascending
<1> QED BY <1>1, <1>2, <1>3, <1>4, <1>5

\* With m appended, it has m as its last.
LEMMA AppendElements ==
  ASSUME NEW q \in Seq(Messages), NEW m \in Messages
  PROVE  /\ Append(q, m) \in Seq(Messages)
         /\ \A i \in DOMAIN Append(q, m) :
              Append(q, m)[i] = m \/ \E j \in DOMAIN q : Append(q, m)[i] = q[j]
         /\ Ascending(q) /\ (\A j \in DOMAIN q : q[j].n < m.n)
              => Ascending(Append(q, m))
<1> DEFINE r == Append(q, m)
<1>1. /\ r \in Seq(Messages) /\ DOMAIN r = 1 .. Len(q) + 1 /\ Len(q) \in Nat
      /\ DOMAIN q = 1 .. Len(q)
      /\ r[Len(q) + 1] = m /\ \A i \in 1 .. Len(q) : r[i] = q[i]
  OBVIOUS
<1> HIDE DEF r
<1>2. \A i \in DOMAIN r : r[i] = m \/ \E j \in DOMAIN q : r[i] = q[j]
  BY <1>1
<1>3. ASSUME Ascending(q), \A j \in DOMAIN q : q[j].n < m.n PROVE Ascending(r)
  <2> SUFFICES ASSUME NEW i \in DOMAIN r, NEW j \in DOMAIN r, i < j
               PROVE  r[i].n < r[j].n
    BY DEF Ascending
  <2>1. i \in DOMAIN q /\ r[i] = q[i]
    BY <1>1
  <2>2. CASE j \in DOMAIN q
    BY <1>1, <1>3, <2>1, <2>2 DEF Ascending
  <2>3. CASE j \notin DOMAIN q
    BY <1>1, <1>3, <2>1, <2>3
  <2> QED BY <2>2, <2>3
<1> QED BY <1>1, <1>2, <1>3 DEF r

-----------------------------------------------------------------------------
(* Where envelopes go *)

\* A step that changes frames and channels only by dropping some of them, and
\* gives no stream another owner unless it is empty, misroutes nothing.
LEMMA DropRoutes ==
  ASSUME RoutesInv, UNCHANGED received,
         \A s \in Streams :
           /\ wire'[s] = wire[s] \/ wire'[s] = <<>>
           /\ channel'[s] = channel[s] \/ channel'[s] = <<>>
           /\ owner'[s] = owner[s] \/ (wire'[s] = <<>> /\ channel'[s] = <<>>)
  PROVE  RoutesInv'
BY DEF RoutesInv, NoMisroute

\* What a send enqueues is for everyone, or for the holder of the node-id.
LEMMA EnqueueRoutes ==
  ASSUME TypeOK, RoutesInv, NEW S \in SUBSET Streams, NEW m \in Messages,
         \A s \in S : m.to \in {All, Claim[owner[s]]},
         Enqueue(S, m), UNCHANGED <<received, wire, owner>>
  PROVE  RoutesInv'
<1>1. ASSUME NEW s \in Streams, NEW i \in DOMAIN channel'[s]
      PROVE  channel'[s][i].to \in {All, Claim[owner[s]]}
  <2>1. CASE channel'[s] = channel[s]
    BY <2>1 DEF RoutesInv
  <2>2. CASE s \in S /\ channel'[s] = Append(channel[s], m)
    <3>1. channel[s] \in Seq(Messages)
      BY DEF TypeOK
    <3> QED BY <2>2, <3>1, AppendElements DEF RoutesInv
  <2> QED BY <2>1, <2>2, EnqueueOne
<1> QED BY <1>1 DEF RoutesInv, NoMisroute

\* Every step keeps envelopes on the way to whom they were sent.
LEMMA NextRoutes ==
  ASSUME TypeOK, StreamsInv, RegistryInv, RoutesInv, [Next]_vars
  PROVE  RoutesInv'
<1> USE DEF TypeOK
<1>1. ASSUME NEW c \in Children, NEW s \in Streams, Dial(c, s)
      PROVE  RoutesInv'
  <2>1. channel[s] = <<>>
    BY <1>1 DEF RegistryInv, Dial, Free
  <2>2. /\ wire' = [wire EXCEPT ![s] = <<>>] /\ owner' = [owner EXCEPT ![s] = c]
        /\ received' = received /\ channel' = channel
    BY <1>1 DEF Dial
  <2>3. \A t \in Streams :
          /\ wire'[t] = wire[t] \/ wire'[t] = <<>>
          /\ channel'[t] = channel[t]
          /\ owner'[t] = owner[t] \/ (wire'[t] = <<>> /\ channel'[t] = <<>>)
    <3>1. wire'[s] = <<>> /\ channel'[s] = <<>>
      BY <2>1, <2>2
    <3>2. \A t \in Streams \ {s} : wire'[t] = wire[t] /\ owner'[t] = owner[t]
      BY <2>2
    <3> QED BY <2>2, <3>1, <3>2
  <2> QED BY <2>2, <2>3, DropRoutes
<1>2. ASSUME NEW c \in Children, Begin(c) \/ Install(c) \/ Close(c)
      PROVE  RoutesInv'
  <2>1. installed[c] \in Streams \cup {NoStream}
    OBVIOUS
  <2>2. wire' = wire \/ Break(installed[c])
    BY <1>2 DEF Begin, Install, Close
  <2>3. \A t \in Streams : wire'[t] = wire[t] \/ wire'[t] = <<>>
    BY <2>1, <2>2, BreakOne
  <2>4. received' = received /\ owner' = owner /\ channel' = channel
    BY <1>2 DEF Begin, Install, Close, serverVars
  <2> QED BY <2>3, <2>4, DropRoutes
<1>3. ASSUME NEW s \in Streams, Receive(s) PROVE RoutesInv'
  <2>1. wire[s] \in Seq(Messages) /\ wire[s] # <<>> /\ owner[s] \in Children
        /\ received[owner[s]] \in Seq(Messages) /\ Head(wire[s]) \in Messages
    BY <1>3 DEF Receive
  <2>2. /\ received' = [received EXCEPT ![owner[s]] =
                          Append(received[owner[s]], Head(wire[s]))]
        /\ wire' = [wire EXCEPT ![s] = Tail(wire[s])]
        /\ UNCHANGED <<owner, channel>>
    BY <1>3 DEF Receive, serverVars
  <2>3. Head(wire[s]).to \in {All, Claim[owner[s]]}
    BY <2>1, TailElements DEF RoutesInv
  <2>4. \A i \in DOMAIN received'[owner[s]] :
          received'[owner[s]][i].to \in {All, Claim[owner[s]]}
    BY <2>1, <2>2, <2>3, AppendElements DEF RoutesInv, NoMisroute
  <2>5. NoMisroute'
    BY <2>2, <2>4 DEF RoutesInv, NoMisroute
  <2>6. \A i \in DOMAIN wire'[s] : wire'[s][i].to \in {All, Claim[owner[s]]}
    BY <2>1, <2>2, TailElements DEF RoutesInv
  <2> QED BY <2>2, <2>5, <2>6 DEF RoutesInv
<1>4. ASSUME NEW s \in Streams, Serve(s) PROVE RoutesInv'
  <2>1. channel[s] \in Seq(Messages) /\ channel[s] # <<>> /\ wire[s] \in Seq(Messages)
        /\ Head(channel[s]) \in Messages
    BY <1>4 DEF Serve
  <2>2. /\ channel' = [channel EXCEPT ![s] = Tail(channel[s])]
        /\ wire'[s] = Append(wire[s], Head(channel[s])) \/ wire'[s] = wire[s]
        /\ \A t \in Streams \ {s} : wire'[t] = wire[t]
        /\ UNCHANGED <<owner, received>>
    BY <1>4 DEF Serve, clientVars
  <2>3. Head(channel[s]).to \in {All, Claim[owner[s]]}
    BY <2>1, TailElements DEF RoutesInv
  <2>4. \A i \in DOMAIN wire'[s] : wire'[s][i].to \in {All, Claim[owner[s]]}
    <3>1. CASE wire'[s] = wire[s]
      BY <3>1 DEF RoutesInv
    <3>2. CASE wire'[s] = Append(wire[s], Head(channel[s]))
      BY <2>1, <2>3, <3>2, AppendElements DEF RoutesInv
    <3> QED BY <2>2, <3>1, <3>2
  <2>5. \A i \in DOMAIN channel'[s] : channel'[s][i].to \in {All, Claim[owner[s]]}
    BY <2>1, <2>2, TailElements DEF RoutesInv
  <2> QED BY <2>2, <2>4, <2>5 DEF RoutesInv, NoMisroute
<1>5. ASSUME NEW S \in SUBSET Streams, EndHandlers(S), UNCHANGED <<received, owner, wire>>
      PROVE  RoutesInv'
  <2>1. /\ \A t \in Streams : channel'[t] = channel[t] \/ channel'[t] = <<>>
        /\ received' = received /\ owner' = owner /\ wire' = wire
    BY <1>5 DEF EndHandlers
  <2> QED BY <2>1, DropRoutes
<1>6. CASE Broadcast
  <2>1. [n |-> sent + 1, to |-> All] \in Messages
    BY <1>6, SizesAssumption DEF Broadcast, Messages
  <2> QED BY <1>6, <2>1, EnqueueRoutes DEF Broadcast, clientVars
<1>7. ASSUME NEW id \in Ids, SendToChild(id) PROVE RoutesInv'
  <2>1. [n |-> sent + 1, to |-> id] \in Messages
    BY <1>7, SizesAssumption DEF SendToChild, Messages
  <2>2. \A s \in Holders(id) : s \in Streams /\ id = Claim[owner[s]]
    <3>1. \A k \in DOMAIN children : children[k] \in Streams
      BY DEF Range
    <3> QED BY <3>1 DEF Holders, RegistryInv, RegistryMatchesHandlers
  <2> QED BY <1>7, <2>1, <2>2, EnqueueRoutes DEF SendToChild, clientVars
<1>8. ASSUME NEW s \in Streams, HandlerExit(s) PROVE RoutesInv'
  BY <1>5, <1>8, {s} \in SUBSET Streams DEF HandlerExit, clientVars
<1>9. CASE Restart
  BY <1>5, <1>9 DEF Restart, clientVars
<1>10. ASSUME NEW s \in Streams, RecvError(s) PROVE RoutesInv'
  <2>1. /\ \A t \in Streams : wire'[t] = wire[t] \/ wire'[t] = <<>>
        /\ received' = received /\ owner' = owner /\ channel' = channel
    BY <1>10 DEF RecvError, serverVars
  <2> QED BY <2>1, DropRoutes
<1>11. ASSUME UNCHANGED <<received, owner, wire, channel>> PROVE RoutesInv'
  BY <1>11 DEF RoutesInv, NoMisroute
<1>12. ASSUME NEW c \in Children,
              \/ DialError(c) \/ Tick(c) \/ Approval(c) \/ Reach \/ UNCHANGED vars
              \/ \E s \in Streams : Authorize(s) \/ Register(s)
       PROVE  RoutesInv'
  BY <1>11, <1>12 DEF DialError, Tick, Approval, Reach, vars, Authorize,
    Register, clientVars, serverVars
<1> QED BY <1>1, <1>2, <1>3, <1>4, <1>6, <1>7, <1>8, <1>9, <1>10, <1>12,
           ClaimAssumption DEF Next, OpenerStep, HandlerStep, LoopStep


-----------------------------------------------------------------------------
(* The order of envelopes *)

\* Frames and envelopes that are dropped leave the order of the others alone,
\* and a stream that starts to carry is empty.
LEMMA DropOrder ==
  ASSUME OrderInv, received' = received, sent' = sent,
         \A s \in Streams :
           /\ wire'[s] = wire[s] \/ wire'[s] = <<>>
           /\ channel'[s] = channel[s] \/ channel'[s] = <<>>
           /\ Carries(s)' => \/ Carries(s) /\ owner'[s] = owner[s]
                             \/ wire'[s] = <<>> /\ channel'[s] = <<>>
  PROVE  OrderInv'
<1>1. \A q : Ascending(<<>>) /\ AllSent(<<>>)' /\ AllBefore(<<>>, q) /\ AllBefore(q, <<>>)
  BY DEF Ascending, AllSent, AllBefore
<1>2. \A q : AllSent(q)' = AllSent(q)
  BY DEF AllSent
<1>3. \A c \in Children : Ascending(received'[c]) /\ AllSent(received[c])'
  BY <1>2 DEF OrderInv
<1>4. ASSUME NEW s \in Streams
      PROVE  /\ Ascending(wire'[s]) /\ AllSent(wire[s])'
             /\ Ascending(channel'[s]) /\ AllSent(channel[s])'
             /\ AllBefore(wire'[s], channel'[s])
  BY <1>1, <1>2 DEF OrderInv
<1>5. ASSUME NEW s \in Streams, Carries(s)'
      PROVE  /\ AllBefore(received'[owner'[s]], wire'[s])
             /\ AllBefore(received'[owner'[s]], channel'[s])
  BY <1>1, <1>5 DEF OrderInv
<1> QED BY <1>3, <1>4, <1>5 DEF OrderInv

\* A send adds the newest envelope of all at the end.
LEMMA EnqueueOrder ==
  ASSUME TypeOK, OrderInv, NEW S, NEW m \in Messages, m.n = sent + 1,
         Enqueue(S, m), sent' = sent + 1,
         UNCHANGED <<received, wire, opened, loops, owner>>
  PROVE  OrderInv'
<1>1. /\ sent \in Nat
      /\ \A c \in Children : received[c] \in Seq(Messages)
      /\ \A s \in Streams : wire[s] \in Seq(Messages) /\ channel[s] \in Seq(Messages)
                             /\ owner[s] \in Children
  BY SizesAssumption DEF TypeOK
<1>2. \A q \in Seq(Messages) : AllSent(q) =>
        /\ AllSent(q)'
        /\ \A i \in DOMAIN q : q[i].n < m.n
  <2> TAKE q \in Seq(Messages)
  <2>1. \A i \in DOMAIN q : q[i] \in Messages
    OBVIOUS
  <2>2. \A x \in Messages : x.n \in Nat
    BY SizesAssumption DEF Messages
  <2> QED BY <1>1, <2>1, <2>2 DEF AllSent
<1>3. ASSUME NEW s \in Streams
      PROVE  /\ Ascending(channel'[s]) /\ AllSent(channel[s])'
             /\ \A p : AllBefore(p, channel[s]) /\ (\A i \in DOMAIN p : p[i].n < m.n)
                         => AllBefore(p, channel'[s])
  <2>1. CASE channel'[s] = channel[s]
    BY <1>1, <1>2, <2>1 DEF OrderInv, AllSent
  <2>2. CASE channel'[s] = Append(channel[s], m)
    <3>1. Ascending(channel'[s])
      BY <1>1, <1>2, <2>2, AppendElements DEF OrderInv
    <3>2. \A i \in DOMAIN channel'[s] :
            channel'[s][i] = m \/ \E j \in DOMAIN channel[s] : channel'[s][i] = channel[s][j]
      BY <1>1, <2>2, AppendElements
    <3>3. AllSent(channel[s])'
      <4>1. \A j \in DOMAIN channel[s] : channel[s][j].n <= sent'
        BY <1>1, <1>2 DEF OrderInv, AllSent
      <4>2. m.n <= sent'
        BY <1>1
      <4> QED BY <3>2, <4>1, <4>2 DEF AllSent
    <3>4. \A p : AllBefore(p, channel[s]) /\ (\A i \in DOMAIN p : p[i].n < m.n)
                   => AllBefore(p, channel'[s])
      BY <3>2 DEF AllBefore
    <3> QED BY <3>1, <3>3, <3>4
  <2> QED BY <2>1, <2>2, EnqueueOne
<1>4. \A c \in Children : Ascending(received[c]) /\ AllSent(received[c])'
  BY <1>1, <1>2 DEF OrderInv, AllSent
<1>5. \A s \in Streams : /\ Ascending(wire[s]) /\ AllSent(wire[s])'
                         /\ AllBefore(wire[s], channel'[s])
  BY <1>1, <1>2, <1>3 DEF OrderInv, AllSent
<1>6. \A s \in Streams : Carries(s) =>
        /\ AllBefore(received[owner[s]], wire[s])
        /\ AllBefore(received[owner[s]], channel'[s])
  BY <1>1, <1>2, <1>3 DEF OrderInv
<1>7. \A s \in Streams : Carries(s)' = Carries(s)
  BY DEF Carries
<1> QED BY <1>3, <1>4, <1>5, <1>6, <1>7 DEF OrderInv

\* An envelope taken off the channel is the oldest there and the newest on the
\* wire.
LEMMA ServeOrder ==
  ASSUME TypeOK, OrderInv, NEW s \in Streams, Serve(s)
  PROVE  OrderInv'
<1> DEFINE m == Head(channel[s])
<1>1. /\ channel[s] \in Seq(Messages) /\ channel[s] # <<>> /\ m \in Messages
      /\ wire[s] \in Seq(Messages)
  BY DEF TypeOK, Serve
<1>2. /\ channel' = [channel EXCEPT ![s] = Tail(channel[s])]
      /\ wire'[s] = Append(wire[s], m) \/ wire'[s] = wire[s]
      /\ \A t \in Streams \ {s} : wire'[t] = wire[t] /\ channel'[t] = channel[t]
      /\ received' = received /\ sent' = sent /\ owner' = owner
      /\ \A t \in Streams : Carries(t)' = Carries(t)
  BY DEF TypeOK, Serve, clientVars, Carries
<1>3. channel'[s] = Tail(channel[s])
  BY <1>2 DEF TypeOK
<1>4. PICK j \in DOMAIN channel[s] : m = channel[s][j]
  BY <1>1, TailElements
<1>5. /\ \A i \in DOMAIN Tail(channel[s]) :
           \E k \in DOMAIN channel[s] : Tail(channel[s])[i] = channel[s][k]
      /\ Ascending(Tail(channel[s]))
      /\ \A i \in DOMAIN Tail(channel[s]) : m.n < Tail(channel[s])[i].n
  BY <1>1, TailElements DEF OrderInv
<1>6. /\ Ascending(channel'[s]) /\ AllSent(channel[s])'
      /\ \A p : AllBefore(p, channel[s]) => AllBefore(p, channel'[s])
  BY <1>2, <1>3, <1>5 DEF OrderInv, AllSent, AllBefore
<1>7. /\ Ascending(wire'[s]) /\ AllSent(wire[s])'
      /\ AllBefore(wire'[s], channel'[s])
      /\ \A p : AllBefore(p, wire[s]) /\ AllBefore(p, channel[s])
                  => AllBefore(p, wire'[s])
  <2>1. CASE wire'[s] = wire[s]
    BY <1>2, <1>6, <2>1 DEF OrderInv, AllSent
  <2>2. CASE wire'[s] = Append(wire[s], m)
    <3>1. \A i \in DOMAIN wire[s] : wire[s][i].n < m.n
      BY <1>4 DEF OrderInv, AllBefore
    <3>2. /\ Ascending(Append(wire[s], m))
          /\ \A i \in DOMAIN Append(wire[s], m) :
               \/ Append(wire[s], m)[i] = m
               \/ \E k \in DOMAIN wire[s] : Append(wire[s], m)[i] = wire[s][k]
      <4>1. Ascending(wire[s])
        BY DEF OrderInv
      <4> HIDE DEF m
      <4> QED BY <1>1, <3>1, <4>1, AppendElements
    <3>3. AllSent(wire[s])'
      BY <1>2, <1>4, <2>2, <3>2 DEF OrderInv, AllSent
    <3>4. AllBefore(wire'[s], channel'[s])
      BY <1>3, <1>5, <1>6, <2>2, <3>2 DEF OrderInv, AllBefore
    <3>5. \A p : AllBefore(p, wire[s]) /\ AllBefore(p, channel[s])
                   => AllBefore(p, wire'[s])
      BY <1>4, <2>2, <3>2 DEF AllBefore
    <3> QED BY <2>2, <3>2, <3>3, <3>4, <3>5
  <2> QED BY <1>2, <2>1, <2>2
<1>8. \A t \in Streams \ {s} :
        /\ Ascending(wire'[t]) /\ AllSent(wire[t])'
        /\ Ascending(channel'[t]) /\ AllSent(channel[t])'
        /\ AllBefore(wire'[t], channel'[t])
  BY <1>2 DEF OrderInv, AllSent
<1>9. \A t \in Streams : Carries(t) =>
        /\ AllBefore(received[owner[t]], wire'[t])
        /\ AllBefore(received[owner[t]], channel'[t])
  BY <1>2, <1>6, <1>7 DEF OrderInv
<1>10. \A c \in Children : Ascending(received'[c]) /\ AllSent(received[c])'
  BY <1>2 DEF OrderInv, AllSent
<1> QED BY <1>2, <1>6, <1>7, <1>8, <1>9, <1>10 DEF OrderInv

\* What recvLoop reads is newer than all the child has, and older than all it
\* will get: no other stream carries anything to this child.
LEMMA ReceiveOrder ==
  ASSUME TypeOK, StreamsInv, OrderInv, NEW s \in Streams, Receive(s)
  PROVE  OrderInv'
<1> DEFINE m == Head(wire[s])
           c == owner[s]
           r == Append(received[c], m)
<1>1. /\ wire[s] \in Seq(Messages) /\ wire[s] # <<>> /\ m \in Messages
      /\ c \in Children /\ received[c] \in Seq(Messages)
  BY DEF TypeOK, Receive
<1>2. /\ received' = [received EXCEPT ![c] = r]
      /\ wire' = [wire EXCEPT ![s] = Tail(wire[s])]
      /\ channel' = channel /\ sent' = sent /\ owner' = owner /\ s \in loops
      /\ \A t \in Streams : Carries(t)' = Carries(t)
  BY DEF TypeOK, Receive, serverVars, Carries
<1>3. /\ received'[c] = r /\ wire'[s] = Tail(wire[s])
      /\ \A d \in Children \ {c} : received'[d] = received[d]
      /\ \A t \in Streams \ {s} : wire'[t] = wire[t]
  BY <1>1, <1>2 DEF TypeOK
<1>4. PICK j \in DOMAIN wire[s] : m = wire[s][j]
  BY <1>1, TailElements
<1>5. /\ \A i \in DOMAIN wire'[s] : \E k \in DOMAIN wire[s] : wire'[s][i] = wire[s][k]
      /\ Ascending(wire'[s])
      /\ \A i \in DOMAIN wire'[s] : m.n < wire'[s][i].n
  BY <1>1, <1>3, TailElements DEF OrderInv
<1>6. AllBefore(received[c], wire[s]) /\ AllBefore(received[c], channel[s])
  BY <1>2 DEF OrderInv, Carries
<1>7. /\ Ascending(r)
      /\ \A i \in DOMAIN r : r[i] = m \/ \E k \in DOMAIN received[c] : r[i] = received[c][k]
  <2>1. \A k \in DOMAIN received[c] : received[c][k].n < m.n
    BY <1>4, <1>6 DEF AllBefore
  <2> QED BY <1>1, <2>1, AppendElements DEF OrderInv
<1>8. \A d \in Children : Ascending(received'[d]) /\ AllSent(received[d])'
  <2>1. AllSent(received[c])'
    BY <1>1, <1>2, <1>3, <1>4, <1>7 DEF OrderInv, AllSent
  <2>2. \A d \in Children \ {c} : AllSent(received[d])'
    BY <1>2, <1>3 DEF OrderInv, AllSent
  <2>3. \A d \in Children \ {c} : Ascending(received'[d])
    BY <1>3 DEF OrderInv
  <2>4. Ascending(received'[c])
    BY <1>3, <1>7
  <2>5. ASSUME NEW d \in Children PROVE Ascending(received'[d]) /\ AllSent(received[d])'
    <3>1. CASE d = c
      BY <1>2, <2>1, <2>4, <3>1
    <3>2. CASE d # c
      BY <2>2, <2>3, <3>2
    <3> QED BY <3>1, <3>2
  <2> QED BY <2>5
<1>9. \A t \in Streams :
        /\ Ascending(wire'[t]) /\ AllSent(wire[t])'
        /\ Ascending(channel'[t]) /\ AllSent(channel[t])'
        /\ AllBefore(wire'[t], channel'[t])
  <2>1. AllSent(wire[s])' /\ AllBefore(wire'[s], channel[s])
    BY <1>2, <1>5 DEF OrderInv, AllSent, AllBefore
  <2>2. \A t \in Streams \ {s} : AllSent(wire[t])'
    BY <1>2, <1>3 DEF OrderInv, AllSent
  <2>3. \A t \in Streams : AllSent(channel[t])'
    BY <1>2 DEF OrderInv, AllSent
  <2> QED BY <1>2, <1>3, <1>5, <2>1, <2>2, <2>3 DEF OrderInv
<1>10. \A t \in Streams : Carries(t) =>
        /\ AllBefore(received'[owner[t]], wire'[t])
        /\ AllBefore(received'[owner[t]], channel[t])
  <2>1. AllBefore(r, wire'[s]) /\ AllBefore(r, channel[s])
    <3>1. \A i \in DOMAIN channel[s] : m.n < channel[s][i].n
      BY <1>4 DEF OrderInv, AllBefore
    <3>2. AllBefore(received[c], wire'[s])
      BY <1>5, <1>6 DEF AllBefore
    <3> QED BY <1>5, <1>6, <1>7, <3>1, <3>2 DEF AllBefore
  <2>2. \A t \in Streams \ {s} : Carries(t) => owner[t] # c
    <3>1. current[c] = s /\ s # NoStream
      BY <1>2, ClaimAssumption DEF StreamsInv
    <3> SUFFICES ASSUME NEW t \in Streams \ {s}, Carries(t), owner[t] = c
                 PROVE  FALSE
      OBVIOUS
    <3>2. CASE t \in loops
      BY <3>1, <3>2 DEF StreamsInv
    <3>3. CASE t = opened[c]
      BY <1>1, <3>1, <3>3, ClaimAssumption DEF StreamsInv
    <3> QED BY <3>2, <3>3 DEF Carries
  <2> QED BY <1>3, <2>1, <2>2 DEF OrderInv, TypeOK
<1> QED BY <1>2, <1>8, <1>9, <1>10 DEF OrderInv


\* Every step keeps the order.
LEMMA NextOrder ==
  ASSUME TypeOK, StreamsInv, RegistryInv, OrderInv, [Next]_vars
  PROVE  OrderInv'
<1>1. ASSUME NEW c \in Children, NEW s \in Streams, Dial(c, s)
      PROVE  OrderInv'
  <2>1. channel[s] = <<>>
    BY <1>1 DEF RegistryInv, Dial, Free
  <2>2. /\ wire'[s] = <<>> /\ channel'[s] = <<>>
        /\ \A t \in Streams \ {s} : wire'[t] = wire[t] /\ channel'[t] = channel[t]
        /\ received' = received /\ sent' = sent
    BY <1>1, <2>1 DEF Dial, TypeOK
  <2>3. ASSUME NEW t \in Streams \ {s}, Carries(t)'
        PROVE  Carries(t) /\ owner'[t] = owner[t]
    BY <1>1, <2>3 DEF Dial, TypeOK, Carries
  <2> QED BY <2>2, <2>3, DropOrder
<1>2. ASSUME NEW c \in Children, Begin(c) \/ Install(c) \/ Close(c)
      PROVE  OrderInv'
  <2>1. installed[c] \in Streams \cup {NoStream}
    BY DEF TypeOK
  <2>2. wire' = wire \/ Break(installed[c])
    BY <1>2 DEF Begin, Install, Close
  <2>3. \A t \in Streams : wire'[t] = wire[t] \/ wire'[t] = <<>>
    BY <2>1, <2>2, BreakOne
  <2>4. received' = received /\ owner' = owner /\ channel' = channel /\ sent' = sent
    BY <1>2 DEF Begin, Install, Close, serverVars
  <2>5. ASSUME NEW t \in Streams, Carries(t)' PROVE Carries(t)
    <3>1. CASE Begin(c) \/ Close(c)
      BY <2>5, <3>1 DEF Begin, Close, Carries, serverVars
    <3>2. CASE Install(c)
      <4>1. /\ loops' = loops \cup {opened[c]} /\ owner' = owner
            /\ opened' = [opened EXCEPT ![c] = NoStream] /\ opened[c] # NoStream
        BY <3>2 DEF Install, StreamsInv, serverVars
      <4>2. t # NoStream /\ owner[t] \in Children
        BY ClaimAssumption DEF TypeOK
      <4>3. CASE t = opened[c]
        BY <4>1, <4>3 DEF StreamsInv, Carries
      <4>4. CASE t # opened[c]
        BY <2>5, <4>1, <4>2, <4>4 DEF TypeOK, Carries
      <4> QED BY <4>3, <4>4
    <3> QED BY <1>2, <3>1, <3>2
  <2> QED BY <2>3, <2>4, <2>5, DropOrder
<1>3. ASSUME NEW s \in Streams, RecvError(s) PROVE OrderInv'
  <2>1. /\ \A t \in Streams : wire'[t] = wire[t] \/ wire'[t] = <<>>
        /\ received' = received /\ owner' = owner /\ channel' = channel /\ sent' = sent
        /\ loops' \subseteq loops /\ opened' = opened
    BY <1>3 DEF RecvError, TypeOK, serverVars
  <2>2. \A t \in Streams : Carries(t)' => Carries(t)
    BY <2>1 DEF Carries
  <2> QED BY <2>1, <2>2, DropOrder
<1>4. ASSUME NEW S \in SUBSET Streams, EndHandlers(S),
             UNCHANGED <<clientVars, owner, sent, wire>>
      PROVE  OrderInv'
  <2>1. /\ \A t \in Streams : channel'[t] = channel[t] \/ channel'[t] = <<>>
        /\ received' = received /\ owner' = owner /\ wire' = wire /\ sent' = sent
        /\ \A t \in Streams : Carries(t)' = Carries(t)
    BY <1>4 DEF EndHandlers, clientVars, Carries
  <2> QED BY <2>1, DropOrder
<1>5. CASE Broadcast
  <2>1. [n |-> sent + 1, to |-> All] \in Messages
    BY <1>5, SizesAssumption DEF Broadcast, Messages, TypeOK
  <2> QED BY <1>5, <2>1, EnqueueOrder DEF Broadcast, clientVars
<1>6. ASSUME NEW id \in Ids, SendToChild(id) PROVE OrderInv'
  <2>1. [n |-> sent + 1, to |-> id] \in Messages
    BY <1>6, SizesAssumption DEF SendToChild, Messages, TypeOK
  <2> QED BY <1>6, <2>1, EnqueueOrder DEF SendToChild, clientVars
<1>7. ASSUME NEW s \in Streams, HandlerExit(s) PROVE OrderInv'
  BY <1>4, <1>7, {s} \in SUBSET Streams DEF HandlerExit
<1>8. CASE Restart
  BY <1>4, <1>8 DEF Restart
<1>9. ASSUME UNCHANGED <<received, owner, wire, channel, sent, loops, opened>>
      PROVE  OrderInv'
  <2>1. \A t \in Streams : Carries(t)' = Carries(t)
    BY <1>9 DEF Carries
  <2> QED BY <1>9, <2>1, DropOrder
<1>10. ASSUME NEW c \in Children,
              \/ DialError(c) \/ Tick(c) \/ Approval(c) \/ Reach \/ UNCHANGED vars
              \/ \E s \in Streams : Authorize(s) \/ Register(s)
       PROVE  OrderInv'
  BY <1>9, <1>10 DEF DialError, Tick, Approval, Reach, vars, Authorize,
    Register, clientVars, serverVars
<1>11. ASSUME NEW s \in Streams, Serve(s) \/ Receive(s) PROVE OrderInv'
  BY <1>11, ServeOrder, ReceiveOrder
<1> QED BY <1>1, <1>2, <1>3, <1>5, <1>6, <1>7, <1>8, <1>10, <1>11,
           ClaimAssumption DEF Next, OpenerStep, HandlerStep, LoopStep

-----------------------------------------------------------------------------
(* Safety *)

DownstreamInv ==
  /\ TypeOK
  /\ StreamsInv
  /\ RegistryInv
  /\ RoutesInv
  /\ OrderInv

\* The initial state satisfies the invariant.
LEMMA InitDownstream == Init => DownstreamInv
<1> SUFFICES ASSUME Init PROVE DownstreamInv
  OBVIOUS
<1>1. TypeOK
  BY InitType
<1>2. StreamsInv
  BY DEF Init, StreamsInv
<1>3. RegistryInv
  BY DEF Init, RegistryInv, RegistryMatchesHandlers
<1>4. RoutesInv
  BY DEF Init, RoutesInv, NoMisroute
<1>5. OrderInv
  BY DEF Init, OrderInv, Ascending, AllSent, AllBefore, Carries
<1> QED BY <1>1, <1>2, <1>3, <1>4, <1>5 DEF DownstreamInv

\* Every step keeps it.
LEMMA NextDownstream == DownstreamInv /\ [Next]_vars => DownstreamInv'
<1> SUFFICES ASSUME DownstreamInv, [Next]_vars PROVE DownstreamInv'
  OBVIOUS
<1> USE DEF DownstreamInv
<1>1. TypeOK'
  <2>1. CASE UNCHANGED vars
    BY <2>1 DEF vars, clientVars, serverVars, TypeOK
  <2> QED BY <2>1, OpenerType, LoopType, HandlerType, OtherType
        DEF Next, RegistryInv
<1>2. StreamsInv'
  BY OpenerStreams, OtherStreams
<1>3. RegistryInv' /\ RoutesInv' /\ OrderInv'
  BY NextRegistry, NextRoutes, NextOrder
<1> QED BY <1>1, <1>2, <1>3

\* The invariant holds in every behaviour.
LEMMA DownstreamInvHolds == Spec => []DownstreamInv
BY InitDownstream, NextDownstream, PTL DEF Spec

\* TypeOK, for all children, streams and sizes.
THEOREM TypeCorrect == Spec => []TypeOK
<1>1. DownstreamInv => TypeOK
  BY DEF DownstreamInv
<1> QED BY <1>1, DownstreamInvHolds, PTL

\* OneReceiver, for all children and streams: a child never has a second
\* recvLoop, whatever the openers, the network and Close do.
THEOREM OneLoopPerChild == Spec => []OneReceiver
<1>1. DownstreamInv => OneReceiver
  BY DEF DownstreamInv, StreamsInv, OneReceiver
<1> QED BY <1>1, DownstreamInvHolds, PTL

\* RegistryMatchesHandlers, for all children and streams, two children with
\* the same node-id and children without one included.
THEOREM RegistryCorrect == Spec => []RegistryMatchesHandlers
<1>1. DownstreamInv => RegistryMatchesHandlers
  BY DEF DownstreamInv, RegistryInv
<1> QED BY <1>1, DownstreamInvHolds, PTL

\* NoMisroute, for all children and streams.
THEOREM RoutesCorrect == Spec => []NoMisroute
<1>1. DownstreamInv => NoMisroute
  BY DEF DownstreamInv, RoutesInv
<1> QED BY <1>1, DownstreamInvHolds, PTL

\* InOrderOnce, for all children and streams and any number of
\* reconnections: no envelope is handled twice or before an older one.
THEOREM OrderCorrect == Spec => []InOrderOnce
<1>1. DownstreamInv => InOrderOnce
  BY DEF DownstreamInv, OrderInv, Ascending, InOrderOnce
<1> QED BY <1>1, DownstreamInvHolds, PTL
=============================================================================
