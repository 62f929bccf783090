---------------------- MODULE DownstreamLinkRefinement ----------------------
(***************************************************************************)
(* DownstreamLink implements OrderedLink, for any children and claims, any *)
(* number of streams, any sizes and any Disturbances.                      *)
(*                                                                         *)
(* What is under way to a child is what its carrier holds: at most one     *)
(* stream can still bring it anything.  A step of the program is one of    *)
(* the link, or moves an envelope from channel to wire and the link sees   *)
(* nothing.                                                                *)
(***************************************************************************)
EXTENDS DownstreamLinkProofs, SequenceTheorems

-----------------------------------------------------------------------------
(* The carrier of a child *)

\* Besides DownstreamInv: the stream a child receives from has a recvLoop and
\* is the child's own, and nothing was sent on a stream before it was
\* registered.
CarrierInv ==
  /\ \A c \in Children : current[c] # NoStream =>
       current[c] \in loops /\ owner[current[c]] = c
  /\ \A s \in Streams : handler[s] \in {"opening", "authorized"} => wire[s] = <<>>

\* Every step keeps it.
LEMMA NextCarrier ==
  ASSUME TypeOK, StreamsInv, CarrierInv, [Next]_vars
  PROVE  CarrierInv'
<1> USE ClaimAssumption DEF TypeOK
<1>1. ASSUME NEW c \in Children, NEW s \in Streams, Dial(c, s) PROVE CarrierInv'
  <2>1. /\ owner' = [owner EXCEPT ![s] = c] /\ wire' = [wire EXCEPT ![s] = <<>>]
        /\ handler' = [handler EXCEPT ![s] = "opening"]
        /\ s \notin loops /\ UNCHANGED <<current, loops>>
    BY <1>1 DEF Dial, Free
  <2> QED BY <2>1 DEF CarrierInv
<1>2. ASSUME NEW c \in Children, Begin(c) \/ Install(c) \/ Close(c)
      PROVE  CarrierInv'
  <2>1. installed[c] \in Streams \cup {NoStream}
    OBVIOUS
  <2>2. \A t \in Streams : wire'[t] = wire[t] \/ wire'[t] = <<>>
    BY <1>2, <2>1, BreakOne DEF Begin, Install, Close
  <2>3. UNCHANGED <<handler, owner>>
    BY <1>2 DEF Begin, Install, Close, serverVars
  <2>4. \A d \in Children : current'[d] # NoStream =>
          current'[d] \in loops' /\ owner[current'[d]] = d
    <3>1. CASE Begin(c) \/ Close(c)
      BY <3>1 DEF Begin, Close, CarrierInv
    <3>2. CASE Install(c)
      <4>1. /\ current' = [current EXCEPT ![c] = opened[c]]
            /\ loops' = loops \cup {opened[c]} /\ owner[opened[c]] = c
        BY <3>2 DEF Install, StreamsInv
      <4> QED BY <4>1 DEF CarrierInv
    <3> QED BY <1>2, <3>1, <3>2
  <2> QED BY <2>2, <2>3, <2>4 DEF CarrierInv
<1>3. ASSUME NEW s \in Streams, RecvError(s) PROVE CarrierInv'
  <2>1. /\ current' = Cleared(s) /\ loops' = loops \ {s}
        /\ wire' = [wire EXCEPT ![s] = <<>>] /\ UNCHANGED <<handler, owner>>
    BY <1>3 DEF RecvError, serverVars
  <2> QED BY <2>1 DEF CarrierInv, Cleared
<1>4. ASSUME NEW s \in Streams, Receive(s) \/ Serve(s) PROVE CarrierInv'
  <2>1. UNCHANGED <<current, loops, owner, handler>>
    BY <1>4 DEF Receive, Serve, clientVars, serverVars
  <2>2. \A t \in Streams : handler[t] # "serving" /\ wire[t] = <<>> => wire'[t] = <<>>
    BY <1>4 DEF Receive, Serve
  <2> QED BY <2>1, <2>2 DEF CarrierInv
<1>5. ASSUME UNCHANGED <<current, loops, owner, wire>>,
             \A s \in Streams : handler'[s] \in {"opening", "authorized"} =>
               handler[s] \in {"opening", "authorized"}
      PROVE  CarrierInv'
  BY <1>5 DEF CarrierInv
<1>6. ASSUME NEW s \in Streams, Authorize(s) \/ Register(s) \/ HandlerExit(s)
      PROVE  CarrierInv'
  BY <1>5, <1>6 DEF Authorize, Register, HandlerExit, EndHandlers, clientVars
<1>7. CASE Restart
  BY <1>5, <1>7 DEF Restart, EndHandlers, clientVars
<1>8. ASSUME NEW c \in Children,
             \/ DialError(c) \/ Tick(c) \/ Approval(c) \/ Reach \/ Broadcast
             \/ UNCHANGED vars \/ \E id \in Ids : SendToChild(id)
      PROVE  CarrierInv'
  BY <1>5, <1>8 DEF DialError, Tick, Approval, Reach, Broadcast, SendToChild,
    vars, clientVars, serverVars
<1> QED BY <1>1, <1>2, <1>3, <1>4, <1>6, <1>7, <1>8
        DEF Next, OpenerStep, HandlerStep, LoopStep

\* Where a child's envelopes come from: its carrier is its own, and a stream
\* that is alive or has frames is its owner's carrier.
LEMMA Carriers ==
  ASSUME TypeOK, StreamsInv, CarrierInv
  PROVE  /\ \A c \in Children : Carrier(c) # NoStream =>
              Carrier(c) \in Streams /\ owner[Carrier(c)] = c
         /\ \A s \in Streams : s \in live \/ s \in loops => Carrier(owner[s]) = s
         /\ NoStream \notin live
<1> USE ClaimAssumption DEF TypeOK
<1>1. ASSUME NEW c \in Children, Carrier(c) # NoStream
      PROVE  Carrier(c) \in Streams /\ owner[Carrier(c)] = c
  BY <1>1 DEF Carrier, StreamsInv, CarrierInv
<1>2. ASSUME NEW s \in Streams, s \in live \/ s \in loops
      PROVE  Carrier(owner[s]) = s
  <2>1. CASE s \in loops
    <3>1. owner[s] \in Children /\ current[owner[s]] = s
      BY <2>1 DEF StreamsInv
    <3>2. opened[owner[s]] = NoStream
      BY <3>1 DEF StreamsInv
    <3> QED BY <3>1, <3>2 DEF Carrier
  <2>2. CASE s = opened[owner[s]]
    BY <2>2 DEF Carrier
  <2> QED BY <1>2, <2>1, <2>2 DEF StreamsInv
<1> QED BY <1>1, <1>2

\* A child whose carrier is s.
LEMMA UnderwayOf ==
  ASSUME TypeOK, NEW c \in Children, NEW s \in Streams, Carrier(c) = s
  PROVE  /\ s \in live => Underway(c) = wire[s] \o channel[s]
         /\ s \notin live => Underway(c) = wire[s]
         /\ c \in Connected <=> s \in live /\ handler[s] = "serving"
<1>1. wire[s] \in Seq(Messages) /\ s # NoStream
  BY ClaimAssumption DEF TypeOK
<1>2. wire[s] \o <<>> = wire[s]
  BY <1>1, ConcatEmptySeq
<1> QED BY <1>1, <1>2 DEF Underway, Connected

-----------------------------------------------------------------------------
(* Two buffers in a row *)

\* What moves from the second to the first, comes into the second or leaves
\* the first, seen as one buffer.
LEMMA TwoBuffers ==
  ASSUME NEW w \in Seq(Messages), NEW q \in Seq(Messages)
  PROVE  /\ Len(w \o q) = Len(w) + Len(q)
         /\ q # <<>> => Append(w, Head(q)) \o Tail(q) = w \o q
         /\ \A m \in Messages : w \o Append(q, m) = Append(w \o q, m)
         /\ w # <<>> => /\ w \o q # <<>> /\ Head(w \o q) = Head(w)
                        /\ Tail(w \o q) = Tail(w) \o q
         /\ AllSent(w) /\ AllSent(q) => AllSent(w \o q)
<1> DEFINE r == w \o q
<1>1. /\ r \in Seq(Messages) /\ Len(r) = Len(w) + Len(q)
      /\ Len(w) \in Nat /\ Len(q) \in Nat
      /\ DOMAIN w = 1 .. Len(w) /\ DOMAIN q = 1 .. Len(q)
      /\ \A i \in 1 .. Len(w) : r[i] = w[i]
      /\ \A i \in 1 .. Len(w) + Len(q) :
           r[i] = IF i <= Len(w) THEN w[i] ELSE q[i - Len(w)]
  BY ConcatProperties
<1>2. DOMAIN r = 1 .. Len(w) + Len(q)
  <2> HIDE DEF r
  <2> QED BY <1>1, LenProperties
<1>3. ASSUME q # <<>> PROVE Append(w, Head(q)) \o Tail(q) = w \o q
  <2>1. /\ Head(q) \in Messages /\ Tail(q) \in Seq(Messages)
        /\ <<Head(q)>> \in Seq(Messages)
    BY <1>3
  <2>2. <<Head(q)>> \o Tail(q) = q
    BY <1>3, <2>1
  <2> QED BY <2>1, <2>2, AppendIsConcat, ConcatAssociative
<1>4. ASSUME NEW m \in Messages PROVE w \o Append(q, m) = Append(r, m)
  <2>1. <<m>> \in Seq(Messages)
    OBVIOUS
  <2>2. Append(q, m) = q \o <<m>> /\ Append(r, m) = r \o <<m>>
    BY <1>1, <2>1, AppendIsConcat
  <2> QED BY <2>1, <2>2, ConcatAssociative
<1>5. ASSUME w # <<>> PROVE r # <<>> /\ Head(r) = Head(w) /\ Tail(r) = Tail(w) \o q
  <2>1. /\ Head(w) \in Messages /\ Tail(w) \in Seq(Messages)
        /\ <<Head(w)>> \in Seq(Messages) /\ Tail(w) \o q \in Seq(Messages)
    BY <1>5, ConcatProperties
  <2>2. <<Head(w)>> \o Tail(w) = w
    BY <1>5, <2>1
  <2>3. r = <<Head(w)>> \o (Tail(w) \o q)
    BY <2>1, <2>2, ConcatAssociative
  <2>4. \A e \in Messages, s \in Seq(Messages) :
          <<e>> \o s # <<>> /\ Head(<<e>> \o s) = e /\ Tail(<<e>> \o s) = s
    OBVIOUS
  <2> QED BY <2>1, <2>3, <2>4
<1>6. ASSUME AllSent(w), AllSent(q) PROVE AllSent(r)
  <2> SUFFICES ASSUME NEW i \in 1 .. Len(w) + Len(q) PROVE r[i].n <= sent
    BY <1>2 DEF AllSent
  <2>1. CASE i <= Len(w)
    BY <1>1, <1>6, <2>1 DEF AllSent
  <2>2. CASE ~(i <= Len(w))
    <3>1. i - Len(w) \in 1 .. Len(q) /\ r[i] = q[i - Len(w)]
      BY <1>1, <2>2
    <3> QED BY <1>1, <1>6, <3>1 DEF AllSent
  <2> QED BY <2>1, <2>2
<1> QED BY <1>1, <1>3, <1>4, <1>5, <1>6

-----------------------------------------------------------------------------
(* Steps that cut links, or none *)

\* What is on the wire is the oldest of what is under way.
LEMMA WireIsPrefix ==
  ASSUME NEW w \in Seq(Messages), NEW q \in Seq(Messages)
  PROVE  /\ w \in Link!Prefixes(w \o q)
         /\ w \o q \in Link!Prefixes(w \o q)
         /\ w \in Link!Prefixes(w)
         /\ <<>> \in Link!Prefixes(w) /\ <<>> \in Link!Prefixes(w \o q)
<1> DEFINE r == w \o q
<1>1. /\ r \in Seq(Messages) /\ Len(r) = Len(w) + Len(q)
      /\ \A i \in 1 .. Len(w) : r[i] = w[i]
      /\ Len(w) \in Nat /\ Len(q) \in Nat
  BY ConcatProperties
<1> HIDE DEF r
<1>2. SubSeq(r, 1, Len(w)) = w
  <2>1. \A i \in 1 .. Len(w) : r[i] \in Messages
    BY <1>1
  <2>2. /\ SubSeq(r, 1, Len(w)) \in Seq(Messages)
        /\ Len(SubSeq(r, 1, Len(w))) = Len(w)
        /\ \A i \in 1 .. Len(w) : SubSeq(r, 1, Len(w))[i] = r[i]
    BY <1>1, <2>1, SubSeqProperties
  <2> QED BY <1>1, <2>2, SeqEqual
<1>3. SubSeq(r, 1, Len(r)) = r /\ SubSeq(w, 1, Len(w)) = w
  BY <1>1, SubSeqFull
<1>4. SubSeq(r, 1, 0) = <<>> /\ SubSeq(w, 1, 0) = <<>>
  BY SubSeqEmpty
<1>5. Len(w) \in 0 .. Len(r) /\ Len(r) \in 0 .. Len(r) /\ 0 \in 0 .. Len(r)
      /\ 0 \in 0 .. Len(w) /\ Len(w) \in 0 .. Len(w)
  BY <1>1
<1> QED BY <1>2, <1>3, <1>4, <1>5 DEF r, Link!Prefixes

\* An end of a link may lose everything that is underway, or nothing.
LEMMA NothingOrAll ==
  ASSUME TypeOK, NEW c \in Children, Carrier(c) \in Streams \cup {NoStream}
  PROVE  /\ <<>> \in Link!Prefixes(Underway(c))
         /\ Underway(c) \in Link!Prefixes(Underway(c))
<1>1. CASE Carrier(c) = NoStream
  <2>1. Underway(c) = <<>> /\ <<>> \in Seq(Messages)
    BY <1>1 DEF Underway
  <2> QED BY <2>1, WireIsPrefix
<1>2. CASE Carrier(c) \in Streams
  <2>1. PICK s \in Streams : Carrier(c) = s
    BY <1>2
  <2>2. wire[s] \in Seq(Messages) /\ channel[s] \in Seq(Messages)
    BY DEF TypeOK
  <2> QED BY <2>1, <2>2, UnderwayOf, WireIsPrefix
<1> QED BY <1>1, <1>2

\* A child whose carrier stays what it is or is given up, and at most loses
\* the client's side, what is in the channel, or its handler.
LEMMA LosesNewest ==
  ASSUME TypeOK, NEW c \in Children,
         Carrier(c)' \in {Carrier(c), NoStream}, Carrier(c) \in Streams \cup {NoStream},
         \A s \in Streams : s = Carrier(c) =>
           \/ s \notin live' /\ wire'[s] \in {wire[s], <<>>}
           \/ /\ s \in live' => s \in live
              /\ wire'[s] = wire[s] /\ channel'[s] = channel[s]
              /\ handler'[s] = "serving" => handler[s] = "serving"
           \/ /\ s \in live' => s \in live
              /\ wire'[s] = wire[s] /\ channel'[s] = <<>>
              /\ handler'[s] # "serving",
         live' \subseteq Streams
  PROVE  /\ Underway(c)' \in Link!Prefixes(Underway(c))
         /\ c \in Connected' => c \in Connected /\ Underway(c)' = Underway(c)
<1> USE ClaimAssumption
<1>1. CASE Carrier(c)' = NoStream
  <2>1. Underway(c)' = <<>> /\ c \notin Connected'
    BY <1>1 DEF Underway, Connected
  <2>2. <<>> \in Link!Prefixes(Underway(c))
    BY NothingOrAll
  <2> QED BY <2>1, <2>2
<1>2. CASE Carrier(c)' # NoStream
  <2>1. PICK s \in Streams : Carrier(c) = s
    BY <1>2
  <2>2. wire[s] \in Seq(Messages) /\ channel[s] \in Seq(Messages) /\ s # NoStream
    BY DEF TypeOK
  <2>3. /\ wire[s] \o <<>> = wire[s]
        /\ <<>> \o <<>> = <<>>
    BY <2>2, ConcatEmptySeq
  <2>4. /\ s \in live => Underway(c) = wire[s] \o channel[s]
        /\ s \notin live => Underway(c) = wire[s]
        /\ c \in Connected <=> s \in live /\ handler[s] = "serving"
    BY <2>1, UnderwayOf
  <2>5. /\ Underway(c)' = wire'[s] \o (IF s \in live' THEN channel'[s] ELSE <<>>)
        /\ c \in Connected' <=> s \in live' /\ handler'[s] = "serving"
    <3>1. Carrier(c)' = s
      BY <1>2, <2>1
    <3> QED BY <2>2, <3>1 DEF Underway, Connected
  <2>6. CASE s \notin live' /\ wire'[s] \in {wire[s], <<>>}
    <3>1. Underway(c)' \in {wire[s], <<>>}
      BY <2>3, <2>5, <2>6
    <3> QED BY <2>2, <2>4, <2>5, <2>6, <3>1, WireIsPrefix
  <2>7. CASE /\ s \in live' => s \in live
             /\ wire'[s] = wire[s] /\ channel'[s] = channel[s]
             /\ handler'[s] = "serving" => handler[s] = "serving"
    BY <2>2, <2>3, <2>4, <2>5, <2>7, WireIsPrefix
  <2>8. CASE /\ s \in live' => s \in live
             /\ wire'[s] = wire[s] /\ channel'[s] = <<>>
             /\ handler'[s] # "serving"
    BY <2>2, <2>3, <2>4, <2>5, <2>8, WireIsPrefix
  <2> QED BY <2>1, <2>6, <2>7, <2>8
<1> QED BY <1>1, <1>2

\* All children at once: such a step is a cut.
LEMMA CutOnLink ==
  ASSUME TypeOK, StreamsInv, CarrierInv, UNCHANGED received, live' \subseteq Streams,
         \A c \in Children : Carrier(c)' \in {Carrier(c), NoStream},
         \A s \in Streams :
           \/ s \notin live' /\ wire'[s] \in {wire[s], <<>>}
           \/ /\ s \in live' => s \in live
              /\ wire'[s] = wire[s] /\ channel'[s] = channel[s]
              /\ handler'[s] = "serving" => handler[s] = "serving"
           \/ /\ s \in live' => s \in live
              /\ wire'[s] = wire[s] /\ channel'[s] = <<>>
              /\ handler'[s] # "serving"
  PROVE  Link!Cut
<1>1. ASSUME NEW c \in Children
      PROVE  /\ Underway(c)' \in Link!Prefixes(Underway(c))
             /\ c \in Connected' => c \in Connected /\ Underway(c)' = Underway(c)
  <2>1. Carrier(c) \in Streams \cup {NoStream}
    BY Carriers
  <2> QED BY <2>1, LosesNewest
<1>2. Connected' \subseteq Connected
  BY <1>1 DEF Connected
<1> QED BY <1>1, <1>2 DEF Link!Cut

\* The openers, Close and recvLoops that return.
LEMMA ClientCuts ==
  ASSUME TypeOK, StreamsInv, CarrierInv, NEW c \in Children,
         \/ Begin(c) \/ DialError(c) \/ Install(c) \/ Tick(c) \/ Close(c)
         \/ \E s \in Streams : RecvError(s)
  PROVE  Link!Cut
<1> USE ClaimAssumption DEF TypeOK
<1>1. CASE Begin(c) \/ Install(c) \/ Close(c)
  <2>1. installed[c] \in Streams \cup {NoStream}
    OBVIOUS
  <2>2. UNCHANGED <<received, channel, handler>>
    BY <1>1 DEF Begin, Install, Close, serverVars
  <2>3. /\ live' \subseteq live
        /\ \A t \in Streams : wire'[t] = wire[t] \/ (wire'[t] = <<>> /\ t \notin live')
    <3>1. CASE Break(installed[c])
      BY <2>1, <3>1, BreakOne
    <3>2. CASE UNCHANGED <<live, wire>>
      BY <3>2
    <3> QED BY <1>1, <3>1, <3>2 DEF Begin, Install, Close
  <2>4. \A d \in Children : Carrier(d)' = Carrier(d)
    <3>1. CASE Begin(c) \/ Close(c)
      BY <3>1 DEF Begin, Close, Carrier
    <3>2. CASE Install(c)
      <4>1. /\ opened' = [opened EXCEPT ![c] = NoStream] /\ opened[c] # NoStream
            /\ current' = [current EXCEPT ![c] = opened[c]]
        BY <3>2 DEF Install, StreamsInv
      <4> QED BY <4>1 DEF Carrier
    <3> QED BY <1>1, <3>1, <3>2
  <2> QED BY <2>2, <2>3, <2>4, CutOnLink
<1>2. CASE DialError(c) \/ Tick(c)
  <2>1. UNCHANGED <<received, channel, handler, live, wire, opened, current>>
    BY <1>2 DEF DialError, Tick, serverVars
  <2> QED BY <2>1, CutOnLink DEF Carrier
<1>3. ASSUME NEW s \in Streams, RecvError(s) PROVE Link!Cut
  <2>1. /\ current' = Cleared(s) /\ live' = live \ {s}
        /\ wire' = [wire EXCEPT ![s] = <<>>]
        /\ UNCHANGED <<received, channel, handler, opened>>
    BY <1>3 DEF RecvError, serverVars
  <2>2. \A d \in Children : Carrier(d)' \in {Carrier(d), NoStream}
    BY <2>1 DEF Carrier, Cleared
  <2> QED BY <2>1, <2>2, CutOnLink
<1> QED BY <1>1, <1>2, <1>3

\* Handlers that return, the network, the administrator; a handler that is
\* authorized or registers for a child that has given up.
LEMMA ServerCuts ==
  ASSUME TypeOK, StreamsInv, RegistryInv, CarrierInv,
         \/ \E s \in Streams : \/ Authorize(s) \/ HandlerExit(s)
                               \/ Register(s) /\ s \notin live
         \/ Restart \/ Reach \/ (\E c \in Children : Approval(c)) \/ UNCHANGED vars
  PROVE  Link!Cut
<1> USE DEF TypeOK
<1>1. ASSUME NEW S \in SUBSET Streams, EndHandlers(S),
             UNCHANGED <<received, live, wire, opened, current>>
      PROVE  Link!Cut
  <2>1. \A s \in Streams :
          \/ channel'[s] = channel[s] /\ handler'[s] = handler[s]
          \/ channel'[s] = <<>> /\ handler'[s] # "serving"
    BY <1>1 DEF EndHandlers
  <2>2. \A c \in Children : Carrier(c)' = Carrier(c)
    BY <1>1 DEF Carrier
  <2> QED BY <1>1, <2>1, <2>2, CutOnLink
<1>2. ASSUME NEW s \in Streams, HandlerExit(s) PROVE Link!Cut
  BY <1>1, <1>2, {s} \in SUBSET Streams DEF HandlerExit, clientVars
<1>3. CASE Restart
  BY <1>1, <1>3 DEF Restart, clientVars
<1>4. ASSUME UNCHANGED <<received, live, wire, opened, current, channel>>,
             \A s \in Streams :
               s \in live /\ handler'[s] = "serving" => handler[s] = "serving"
      PROVE  Link!Cut
  <2>1. \A c \in Children : Carrier(c)' = Carrier(c)
    BY <1>4 DEF Carrier
  <2> QED BY <1>4, <2>1, CutOnLink
<1>5. ASSUME NEW s \in Streams, Authorize(s) \/ (Register(s) /\ s \notin live)
      PROVE  Link!Cut
  BY <1>4, <1>5 DEF Authorize, Register, clientVars
<1>6. CASE Reach \/ (\E c \in Children : Approval(c)) \/ UNCHANGED vars
  BY <1>4, <1>6 DEF Reach, Approval, vars, clientVars, serverVars
<1> QED BY <1>2, <1>3, <1>5, <1>6

\* A stream that has just been dialled has brought nothing, and there is no
\* other that still might.
LEMMA DialCuts ==
  ASSUME TypeOK, StreamsInv, RegistryInv, CarrierInv,
         NEW c \in Children, NEW s \in Streams, Dial(c, s)
  PROVE  Link!Cut
<1> USE ClaimAssumption DEF TypeOK
<1>1. /\ opener[c] = "dial" /\ s \notin loops /\ \A d \in Children : opened[d] # s
      /\ opened' = [opened EXCEPT ![c] = s] /\ live' = live \cup {s}
      /\ handler' = [handler EXCEPT ![s] = "opening"] /\ handler[s] = "ended"
      /\ wire' = [wire EXCEPT ![s] = <<>>]
      /\ UNCHANGED <<current, received, channel>>
  BY DEF Dial, Free
<1>2. s # NoStream /\ channel[s] = <<>> /\ wire'[s] = <<>> /\ handler'[s] = "opening"
  BY <1>1 DEF RegistryInv
<1>3. Underway(c) = <<>> /\ Underway(c)' = <<>> /\ c \notin Connected'
  <2>1. Carrier(c) = NoStream /\ Carrier(c)' = s
    BY <1>1, <1>2 DEF StreamsInv, Carrier
  <2>2. <<>> \o <<>> = <<>>
    BY <1>2, ConcatEmptySeq
  <2> QED BY <1>1, <1>2, <2>1, <2>2 DEF Underway, Connected
<1>4. ASSUME NEW d \in Children \ {c}
      PROVE  Underway(d)' = Underway(d) /\ (d \in Connected' <=> d \in Connected)
  <2>1. Carrier(d)' = Carrier(d) /\ Carrier(d) # s
    BY <1>1, <1>2 DEF Carrier, CarrierInv
  <2>2. Carrier(d) \in Streams \cup {NoStream}
    BY Carriers
  <2> QED BY <1>1, <2>1, <2>2 DEF Underway, Connected
<1>5. ASSUME NEW d \in Children PROVE Underway(d)' \in Link!Prefixes(Underway(d))
  <2>1. /\ <<>> \in Link!Prefixes(Underway(d))
        /\ Underway(d) \in Link!Prefixes(Underway(d))
    BY Carriers, NothingOrAll
  <2>2. CASE d = c
    BY <1>3, <2>1, <2>2
  <2>3. CASE d # c
    BY <1>4, <2>1, <2>3
  <2> QED BY <2>2, <2>3
<1>7. \A d \in Connected' : d \in Connected /\ Underway(d)' = Underway(d)
  BY <1>3, <1>4 DEF Connected
<1> QED BY <1>1, <1>5, <1>7 DEF Link!Cut

-----------------------------------------------------------------------------
(* Steps that connect, send and deliver *)

\* A live stream that is registered connects its child, with nothing under
\* way to it.
LEMMA RegisterConnects ==
  ASSUME TypeOK, StreamsInv, RegistryInv, CarrierInv,
         NEW s \in Streams, Register(s), s \in live
  PROVE  Link!Connect(owner[s])
<1> USE DEF TypeOK
<1> DEFINE c == owner[s]
<1>1. /\ handler[s] = "authorized" /\ handler' = [handler EXCEPT ![s] = "serving"]
      /\ UNCHANGED <<clientVars, owner, channel, live, wire>>
  BY DEF Register
<1>2. c \in Children /\ Carrier(c) = s /\ channel[s] = <<>> /\ wire[s] = <<>>
  BY <1>1, Carriers DEF RegistryInv, CarrierInv
<1>3. \A d \in Children : Carrier(d)' = Carrier(d) /\ (d # c => Carrier(d) # s)
  BY <1>1, Carriers, ClaimAssumption DEF clientVars, Carrier
<1>4. \A d \in Children : Underway(d)' = Underway(d)
  BY <1>1, <1>3 DEF Underway
<1>5. Underway(c) = <<>>
  <2>1. <<>> \o <<>> = <<>>
    BY <1>2, ConcatEmptySeq
  <2> QED BY <1>2, <2>1, UnderwayOf
<1>6. c \notin Connected /\ Connected' = Connected \cup {c}
  <2>1. c \notin Connected
    BY <1>1, <1>2 DEF Connected
  <2>2. ASSUME NEW d \in Children PROVE d \in Connected' <=> d \in Connected \/ d = c
    <3>1. CASE d = c
      BY <1>1, <1>2, <1>3, <3>1 DEF Connected
    <3>2. CASE d # c
      BY <1>1, <1>3, <3>2, Carriers DEF Connected
    <3> QED BY <3>1, <3>2
  <2> QED BY <1>2, <2>1, <2>2 DEF Connected
<1> HIDE DEF c
<1>7. received' = received
  BY <1>1 DEF clientVars
<1>8. Link!Connect(c)
  BY <1>4, <1>5, <1>6, <1>7 DEF Link!Connect
<1> QED BY <1>8 DEF c

\* An envelope goes on to the wire of a live stream, and out of the channel of
\* one its child has given up: nothing changes for the child.
LEMMA ServeMoves ==
  ASSUME TypeOK, StreamsInv, CarrierInv, NEW s \in Streams, Serve(s)
  PROVE  Link!Cut
<1> DEFINE m == Head(channel[s])
<1>1. /\ channel' = [channel EXCEPT ![s] = Tail(channel[s])]
      /\ wire' = IF s \in live THEN [wire EXCEPT ![s] = Append(@, m)] ELSE wire
      /\ UNCHANGED <<clientVars, handler, live>>
      /\ channel[s] \in Seq(Messages) /\ channel[s] # <<>>
      /\ wire \in [Streams -> Seq(Messages)] /\ channel \in [Streams -> Seq(Messages)]
  BY DEF Serve, TypeOK
<1>2. Append(wire[s], m) \o Tail(channel[s]) = wire[s] \o channel[s]
  BY <1>1, TwoBuffers
<1> HIDE DEF m
<1>3. ASSUME NEW c \in Children
      PROVE  Underway(c)' = Underway(c) /\ (c \in Connected' <=> c \in Connected)
  <2>1. Carrier(c)' = Carrier(c)
    BY <1>1 DEF clientVars, Carrier
  <2>2. Carrier(c) \in Streams \cup {NoStream}
    BY Carriers
  <2>3. CASE Carrier(c) = s
    <3>1. CASE s \in live
      BY <1>1, <1>2, <2>1, <2>3, <3>1 DEF Underway, Connected
    <3>2. CASE s \notin live
      BY <1>1, <2>1, <2>3, <3>2 DEF Underway, Connected
    <3> QED BY <3>1, <3>2
  <2>4. CASE Carrier(c) # s
    BY <1>1, <2>1, <2>2, <2>4 DEF Underway, Connected
  <2> QED BY <2>3, <2>4
<1>4. \A c \in Children : Underway(c)' \in Link!Prefixes(Underway(c))
  BY <1>3, Carriers, NothingOrAll
<1>5. received' = received
  BY <1>1 DEF clientVars
<1>6. Connected' \subseteq Connected
  BY <1>3 DEF Connected
<1> QED BY <1>3, <1>4, <1>5, <1>6 DEF Link!Cut, Connected

\* A send puts the newest of all envelopes into the channels of registered
\* handlers; those whose stream is alive are carriers of connected children.
LEMMA EnqueueSends ==
  ASSUME TypeOK, StreamsInv, RegistryInv, OrderInv, CarrierInv,
         NEW S \in SUBSET Range(children), NEW m \in Messages, m.n = sent + 1,
         Enqueue(S, m), UNCHANGED <<clientVars, handler, live, wire>>
  PROVE  Link!Send(m)
<1> DEFINE R == {c \in Connected : Carrier(c) \in S /\ HasRoom(Carrier(c))}
<1>1. \A c \in Children : Carrier(c)' = Carrier(c) /\ Carrier(c) \in Streams \cup {NoStream}
  BY Carriers DEF clientVars, Carrier
<1>2. \A s \in S : s \in Streams /\ handler[s] = "serving"
  BY DEF TypeOK, RegistryInv, RegistryMatchesHandlers, Range
<1>3. Connected' = Connected /\ received' = received
  BY <1>1 DEF Connected, clientVars
<1>4. ASSUME NEW c \in Children
      PROVE  Underway(c)' = IF c \in R THEN Append(Underway(c), m) ELSE Underway(c)
  <2>1. CASE Carrier(c) = NoStream
    BY <1>1, <1>2, <2>1, ClaimAssumption DEF Underway
  <2>2. CASE Carrier(c) \in Streams
    <3>1. PICK s \in Streams : Carrier(c) = s
      BY <2>2
    <3>2. wire[s] \in Seq(Messages) /\ channel[s] \in Seq(Messages) /\ s # NoStream
          /\ <<m>> \in Seq(Messages)
      BY ClaimAssumption DEF TypeOK
    <3>3. /\ channel'[s] = IF s \in S /\ HasRoom(s) THEN Append(channel[s], m)
                                                     ELSE channel[s]
          /\ wire'[s] = wire[s] /\ live' = live
      BY DEF Enqueue
    <3>4. wire[s] \o Append(channel[s], m) = Append(wire[s] \o channel[s], m)
      BY <3>2, TwoBuffers
    <3>5. c \in R <=> s \in live /\ s \in S /\ HasRoom(s)
      BY <1>2, <3>1 DEF Connected
    <3>6. Underway(c) = wire[s] \o (IF s \in live THEN channel[s] ELSE <<>>)
      BY <3>1, <3>2 DEF Underway
    <3>7. Underway(c)' = wire'[s] \o (IF s \in live' THEN channel'[s] ELSE <<>>)
      BY <1>1, <3>1, <3>2 DEF Underway
    <3> HIDE DEF R
    <3>8. CASE s \in live /\ s \in S /\ HasRoom(s)
      BY <3>3, <3>4, <3>5, <3>6, <3>7, <3>8
    <3>9. CASE ~(s \in live /\ s \in S /\ HasRoom(s))
      BY <3>3, <3>5, <3>6, <3>7, <3>9
    <3> QED BY <3>8, <3>9
  <2> QED BY <1>1, <2>1, <2>2
<1>5. ASSUME NEW c \in R
      PROVE  /\ Len(Underway(c)) < BufSize + Window
             /\ m \notin Range(Underway(c)) \cup Range(received[c])
  <2>1. c \in Children /\ Carrier(c) \in live /\ HasRoom(Carrier(c))
    BY DEF Connected
  <2>2. PICK s \in Streams : Carrier(c) = s
    BY <2>1 DEF TypeOK
  <2>3. wire[s] \in Seq(Messages) /\ channel[s] \in Seq(Messages)
        /\ Len(wire[s]) <= Window
    BY DEF TypeOK
  <2>4. Underway(c) = wire[s] \o channel[s]
    BY <2>1, <2>2, UnderwayOf
  <2>5. Len(Underway(c)) < BufSize + Window
    <3>1. Len(Underway(c)) = Len(wire[s]) + Len(channel[s])
      BY <2>3, <2>4, TwoBuffers
    <3>2. Len(channel[s]) < BufSize
      BY <2>1, <2>2 DEF HasRoom
    <3>3. Len(wire[s]) \in Nat /\ Len(channel[s]) \in Nat
          /\ BufSize \in Nat /\ Window \in Nat
      BY <2>3, SizesAssumption
    <3> HIDE DEF R
    <3>4. \A i, j, k, l \in Nat : i <= l /\ j < k => i + j < k + l
      OBVIOUS
    <3> QED BY <2>3, <3>1, <3>2, <3>3, <3>4
  <2>6. sent \in Int
    BY SizesAssumption DEF TypeOK
  <2>7. \A q : AllSent(q) => m \notin Range(q)
    BY <2>6 DEF AllSent, Range
  <2>8. AllSent(received[c]) /\ AllSent(wire[s]) /\ AllSent(channel[s])
    BY <2>1 DEF OrderInv
  <2>9. AllSent(wire[s] \o channel[s])
    BY <2>3, <2>8, TwoBuffers
  <2> QED BY <2>4, <2>5, <2>7, <2>8, <2>9
<1>6. R \in SUBSET Connected
  OBVIOUS
<1> HIDE DEF R
<1> QED BY <1>3, <1>4, <1>5, <1>6 DEF Link!Send, Link!Range, Range, Connected

\* recvLoop takes the oldest of what is under way to its child.
LEMMA ReceiveDelivers ==
  ASSUME TypeOK, StreamsInv, CarrierInv, NEW s \in Streams, Receive(s)
  PROVE  Link!Deliver(owner[s])
<1> DEFINE rest == IF s \in live THEN channel[s] ELSE <<>>
<1>0. PICK c \in Children : c = owner[s]
  BY DEF TypeOK
<1>1. /\ s \in loops /\ wire[s] # <<>>
      /\ received' = [received EXCEPT ![c] = Append(received[c], Head(wire[s]))]
      /\ wire' = [wire EXCEPT ![s] = Tail(wire[s])]
      /\ UNCHANGED <<opened, current, handler, channel, live>>
  BY <1>0 DEF Receive, serverVars
<1>2. Carrier(c) = s /\ s # NoStream
      /\ wire \in [Streams -> Seq(Messages)] /\ rest \in Seq(Messages)
  BY <1>0, <1>1, Carriers, ClaimAssumption DEF TypeOK
<1>3. \A d \in Children : Carrier(d)' = Carrier(d) /\ (d # c => Carrier(d) # s)
  BY <1>0, <1>1, Carriers, ClaimAssumption DEF Carrier
<1>4. Underway(c) = wire[s] \o rest /\ Underway(c)' = Tail(wire[s]) \o rest
  BY <1>1, <1>2, <1>3 DEF Underway
<1> HIDE DEF rest
<1>5. /\ Underway(c) # <<>> /\ Head(Underway(c)) = Head(wire[s])
      /\ Underway(c)' = Tail(Underway(c))
  BY <1>1, <1>2, <1>4, TwoBuffers
<1>6. \A d \in Children \ {c} : Underway(d)' = Underway(d)
  BY <1>1, <1>2, <1>3 DEF Underway
<1>7. Connected' = Connected
  BY <1>1, <1>3 DEF Connected
<1>8. /\ received' = [received EXCEPT ![c] = Append(received[c], Head(Underway(c)))]
      /\ [d \in Children |-> Underway(d)'] =
           [[d \in Children |-> Underway(d)] EXCEPT ![c] = Tail(Underway(c))]
  BY <1>1, <1>5, <1>6
<1>9. Link!Deliver(c)
  BY <1>5, <1>7, <1>8 DEF Link!Deliver
<1> QED BY <1>0, <1>9

-----------------------------------------------------------------------------
(* Every step *)

LinkInv == DownstreamInv /\ CarrierInv

\* The invariants of DownstreamLinkProofs and the carrier's, together.
LEMMA LinkInvHolds == Spec => []LinkInv
<1>1. Init => CarrierInv
  BY DEF Init, CarrierInv
<1>2. LinkInv /\ [Next]_vars => LinkInv'
  BY NextDownstream, NextCarrier DEF LinkInv, DownstreamInv
<1> QED BY <1>1, <1>2, InitDownstream, PTL DEF Spec, LinkInv

\* A step of the program is a step of the link, possibly a cut of nothing.
LEMMA NextOnLink == LinkInv /\ [Next]_vars => Link!Next
<1> SUFFICES ASSUME LinkInv, [Next]_vars PROVE Link!Next
  OBVIOUS
<1> USE DEF LinkInv, DownstreamInv
<1>1. ASSUME NEW c \in Children, NEW s \in Streams, Dial(c, s) PROVE Link!Next
  BY <1>1, DialCuts DEF Link!Next
<1>2. ASSUME NEW c \in Children,
             \/ Begin(c) \/ DialError(c) \/ Install(c) \/ Tick(c) \/ Close(c)
      PROVE  Link!Next
  BY <1>2, ClientCuts DEF Link!Next
<1>3. ASSUME NEW s \in Streams, RecvError(s) PROVE Link!Next
  <2>1. PICK c \in Children : TRUE
    BY ClaimAssumption
  <2> QED BY <1>3, <2>1, ClientCuts DEF Link!Next
<1>4. ASSUME \/ \E s \in Streams : \/ Authorize(s) \/ HandlerExit(s)
                                   \/ Register(s) /\ s \notin live
             \/ Restart \/ Reach \/ (\E c \in Children : Approval(c))
             \/ UNCHANGED vars
      PROVE  Link!Next
  BY <1>4, ServerCuts DEF Link!Next
<1>5. ASSUME NEW s \in Streams, Register(s), s \in live PROVE Link!Next
  <2>1. Link!Connect(owner[s]) /\ owner[s] \in Children
    BY <1>5, RegisterConnects DEF TypeOK
  <2> QED BY <2>1 DEF Link!Next
<1>6. ASSUME NEW s \in Streams, Serve(s) PROVE Link!Next
  BY <1>6, ServeMoves DEF Link!Next
<1>7. ASSUME NEW s \in Streams, Receive(s) PROVE Link!Next
  <2>1. Link!Deliver(owner[s]) /\ owner[s] \in Children
    BY <1>7, ReceiveDelivers DEF TypeOK
  <2> QED BY <2>1 DEF Link!Next
<1>8. CASE Broadcast
  <2> DEFINE m == [n |-> sent + 1, to |-> All]
  <2>1. m \in Messages /\ m.n = sent + 1
    BY <1>8, SizesAssumption DEF Broadcast, Messages, TypeOK
  <2>2. Enqueue(Range(children), m) /\ UNCHANGED <<clientVars, handler, live, wire>>
    BY <1>8 DEF Broadcast
  <2> HIDE DEF m
  <2>3. Link!Send(m)
    BY <2>1, <2>2, EnqueueSends
  <2> QED BY <2>1, <2>3 DEF Link!Next
<1>9. ASSUME NEW id \in Ids, SendToChild(id) PROVE Link!Next
  <2> DEFINE m == [n |-> sent + 1, to |-> id]
  <2>1. m \in Messages /\ m.n = sent + 1
    BY <1>9, SizesAssumption DEF SendToChild, Messages, TypeOK
  <2>2. Enqueue(Holders(id), m) /\ UNCHANGED <<clientVars, handler, live, wire>>
    BY <1>9 DEF SendToChild
  <2>3. Holders(id) \in SUBSET Range(children)
    BY DEF Holders, Range
  <2> HIDE DEF m
  <2>4. Link!Send(m)
    BY <2>1, <2>2, <2>3, EnqueueSends
  <2> QED BY <2>1, <2>4 DEF Link!Next
<1> QED BY <1>1, <1>2, <1>3, <1>4, <1>5, <1>6, <1>7, <1>8, <1>9
        DEF Next, OpenerStep, HandlerStep, LoopStep

\* ImplementsLink, for all children, streams and sizes: whatever streams come
\* and go, a child gets what was sent to it while it was connected, in order
\* and at most once, and a send never waits.
THEOREM LinkCorrect == Spec => ImplementsLink
<1>1. Init => Link!Init
  <2> SUFFICES ASSUME Init PROVE Link!Init
    OBVIOUS
  <2>1. live = {} /\ \A c \in Children : Carrier(c) = NoStream
    BY DEF Init, Carrier
  <2> QED BY <2>1 DEF Init, Link!Init, Connected, Underway
<1> QED BY <1>1, LinkInvHolds, NextOnLink, PTL DEF Spec, ImplementsLink, Link!Spec
=============================================================================
