------------------------- MODULE UpstreamLinkProofs -------------------------
(***************************************************************************)
(* Proofs about UpstreamLink, for any number of envelopes and streams, any *)
(* Window and any Disturbances.                                            *)
(***************************************************************************)
EXTENDS UpstreamLink, TLAPS

-----------------------------------------------------------------------------
(* Sequences *)

\* What Append adds to the envelopes of a queue, a batch or a wire.
LEMMA AppendElements ==
  ASSUME NEW S, NEW q \in Seq(S), NEW x \in S
  PROVE  /\ Append(q, x) \in Seq(S)
         /\ Range(Append(q, x)) = Range(q) \cup {x}
         /\ IsInjective(q) /\ x \notin Range(q) => IsInjective(Append(q, x))
<1>1. /\ Append(q, x) \in Seq(S)
      /\ DOMAIN Append(q, x) = 1 .. (Len(q) + 1)
      /\ DOMAIN q = 1 .. Len(q)
      /\ Len(q) \in Nat
      /\ Append(q, x)[Len(q) + 1] = x
      /\ \A i \in 1 .. Len(q) : Append(q, x)[i] = q[i]
  OBVIOUS
<1>2. Range(Append(q, x)) = Range(q) \cup {x}
  <2>1. Range(Append(q, x)) \subseteq Range(q) \cup {x}
    BY <1>1 DEF Range
  <2>2. Range(q) \cup {x} \subseteq Range(Append(q, x))
    <3>1. \A i \in 1 .. Len(q) : i \in 1 .. (Len(q) + 1)
      BY <1>1
    <3>2. Len(q) + 1 \in 1 .. (Len(q) + 1)
      BY <1>1
    <3> QED BY <1>1, <3>1, <3>2 DEF Range
  <2> QED BY <2>1, <2>2
<1>3. ASSUME IsInjective(q), x \notin Range(q)
      PROVE  IsInjective(Append(q, x))
  BY <1>1, <1>3 DEF IsInjective, Range
<1> QED BY <1>1, <1>2, <1>3

\* What taking the head off a queue, a batch or a wire leaves.
LEMMA TailElements ==
  ASSUME NEW S, NEW q \in Seq(S), q # <<>>
  PROVE  /\ Head(q) \in S
         /\ Head(q) \in Range(q)
         /\ Tail(q) \in Seq(S)
         /\ Range(Tail(q)) \subseteq Range(q)
         /\ IsInjective(q) => IsInjective(Tail(q)) /\ Head(q) \notin Range(Tail(q))
<1>1. /\ Len(q) \in Nat /\ Len(q) >= 1
      /\ DOMAIN q = 1 .. Len(q)
      /\ Head(q) = q[1]
      /\ Tail(q) \in Seq(S)
      /\ DOMAIN Tail(q) = 1 .. (Len(q) - 1)
      /\ \A i \in 1 .. (Len(q) - 1) : Tail(q)[i] = q[i + 1] /\ i + 1 \in 1 .. Len(q)
  OBVIOUS
<1>2. Head(q) \in S /\ Head(q) \in Range(q)
  BY <1>1 DEF Range
<1>3. Range(Tail(q)) \subseteq Range(q)
  BY <1>1 DEF Range
<1>4. ASSUME IsInjective(q)
      PROVE  IsInjective(Tail(q)) /\ Head(q) \notin Range(Tail(q))
  BY <1>1, <1>4 DEF IsInjective, Range
<1> QED BY <1>1, <1>2, <1>3, <1>4

\* The head and the tail make up the whole.
LEMMA HeadAndTail ==
  ASSUME NEW S, NEW q \in Seq(S), q # <<>>
  PROVE  Range(q) = {Head(q)} \cup Range(Tail(q))
<1>1. /\ Len(q) \in Nat /\ Len(q) >= 1
      /\ DOMAIN q = 1 .. Len(q)
      /\ Head(q) = q[1]
      /\ DOMAIN Tail(q) = 1 .. (Len(q) - 1)
      /\ \A i \in 1 .. (Len(q) - 1) : Tail(q)[i] = q[i + 1]
  OBVIOUS
<1>2. ASSUME NEW i \in 1 .. Len(q) PROVE q[i] \in {Head(q)} \cup Range(Tail(q))
  <2>1. CASE i = 1
    BY <1>1, <2>1
  <2>2. CASE i # 1
    <3>1. i - 1 \in 1 .. (Len(q) - 1) /\ (i - 1) + 1 = i
      BY <1>1, <2>2
    <3>2. Tail(q)[i - 1] = q[i]
      BY <1>1, <3>1
    <3> QED BY <1>1, <3>1, <3>2 DEF Range
  <2> QED BY <2>1, <2>2
<1>3. Range(q) \subseteq {Head(q)} \cup Range(Tail(q))
  BY <1>1, <1>2 DEF Range
<1>4. {Head(q)} \cup Range(Tail(q)) \subseteq Range(q)
  BY TailElements
<1> QED BY <1>3, <1>4

\* An empty queue has no envelopes.
LEMMA EmptyElements ==
  /\ Range(<<>>) = {}
  /\ IsInjective(<<>>)
  /\ \A S : <<>> \in Seq(S)
BY DEF Range, IsInjective

-----------------------------------------------------------------------------
(* Type correctness *)

Carrying == {"lock", "openDial", "openInstall", "get", "send", "swapDial",
             "swapInstall", "queue"}

\* While retryLoop is in SendUpstream it has an envelope to send.
BatchOK == pc[Retrier] \in Carrying => batch # <<>>

TypeInv == Types /\ BatchOK

\* What a sender sends, and what it leaves in the batch.
LEMMA CargoType ==
  ASSUME TypeInv, NEW p \in Senders, pc[p] \in Carrying
  PROVE  Cargo(p) \in Envelopes /\ Rest(p) \in Seq(Envelopes)
<1>1. CASE p = Retrier
  <2>1. batch \in Seq(Envelopes) /\ batch # <<>>
    BY <1>1 DEF TypeInv, Types, BatchOK
  <2> QED BY <1>1, <2>1, TailElements DEF Cargo, Rest
<1>2. CASE p # Retrier
  BY <1>2 DEF Cargo, Rest, Senders, TypeInv, Types
<1> QED BY <1>1, <1>2

\* Settling only ever empties wires.
LEMMA SettleWires ==
  ASSUME NEW alive, NEW handlers, NEW frames \in [Streams -> Seq(Envelopes)],
         Settle(alive, handlers, frames)
  PROVE  /\ wire' \in [Streams -> Seq(Envelopes)]
         /\ \A s \in Streams : wire'[s] = <<>> \/ wire'[s] = frames[s]
BY EmptyElements DEF Settle

\* Losing the child's side of some streams.
LEMMA BreakTypes ==
  ASSUME Types, NEW S, Break(S)
  PROVE  /\ live' \subseteq Streams /\ live' \subseteq live
         /\ wire' \in [Streams -> Seq(Envelopes)]
         /\ \A s \in Streams : wire'[s] = <<>> \/ wire'[s] = wire[s]
         /\ UNCHANGED <<server, reachable, approved, arrivals>>
BY SettleWires DEF Break, Types

\* The end of a handler.
LEMMA EndHandlerTypes ==
  ASSUME Types, NEW s \in Streams, EndHandler(s)
  PROVE  /\ server' \in [Streams -> Handler]
         /\ wire' \in [Streams -> Seq(Envelopes)]
         /\ \A t \in Streams : wire'[t] = <<>> \/ wire'[t] = wire[t]
BY SettleWires DEF EndHandler, Types, Handler

\* Where goroutines are after reopenUpstream.
LEMMA AfterReopenTypes ==
  ASSUME TypeInv, NEW g \in Goroutines, NEW opened \in BOOLEAN,
         AfterReopen(g, opened), pc[g] \in Carrying
  PROVE  /\ pc' \in [Goroutines -> Control]
         /\ pc'[Retrier] \in Carrying => pc[Retrier] \in Carrying
         /\ \A h \in Senders : h # g /\ h # Retrier => pc'[h] = pc[h]
         /\ Retrier # g => pc'[Retrier] \in {pc[Retrier], "idle"}
         /\ g \in Senders => pc'[g] = IF opened /\ pc[g] = "openInstall"
                                      THEN "get" ELSE "queue"
         /\ \A h \in Goroutines : h \notin {g, Looper, Retrier} => pc'[h] = pc[h]
         /\ pc'[g] \notin Reopening
         /\ Looper # g => pc'[Looper] \in {pc[Looper], "idle"}
<1>0. /\ {Starter, Looper, Retrier} \subseteq Goroutines
      /\ Retrier \in Senders /\ Starter \notin Senders /\ Looper \notin Senders
      /\ Senders \subseteq Goroutines
      /\ Starter # Looper /\ Starter # Retrier /\ Looper # Retrier
      /\ pc \in [Goroutines -> Control]
  BY NamesAssumption DEF Goroutines, Senders, TypeInv, Types
<1>1. CASE g = Looper
  BY <1>0, <1>1 DEF AfterReopen, Control, Carrying, Reopening
<1>2. CASE g = Starter
  BY <1>0, <1>2 DEF AfterReopen, Control, Carrying, Reopening
<1>3. CASE g \notin {Looper, Starter}
  <2>1. pc' = [pc EXCEPT ![g] = IF opened /\ pc[g] = "openInstall"
                               THEN "get" ELSE "queue"]
    BY <1>3 DEF AfterReopen
  <2> QED BY <1>0, <1>3, <2>1 DEF Control, Carrying, Reopening
<1> QED BY <1>1, <1>2, <1>3

\* The distinct names among the goroutines.
LEMMA Names ==
  /\ {Starter, Looper, Retrier} \subseteq Goroutines
  /\ Retrier \in Senders /\ Starter \notin Senders /\ Looper \notin Senders
  /\ Senders \subseteq Goroutines /\ Envelopes \subseteq Senders
  /\ \A p \in Senders : p # Retrier => p \in Envelopes
  /\ Retrier \notin Envelopes
  /\ Starter # Looper /\ Starter # Retrier /\ Looper # Retrier
BY NamesAssumption DEF Goroutines, Senders

LEMMA TypeInit == Init => TypeInv
<1> SUFFICES ASSUME Init PROVE TypeInv
  OBVIOUS
<1>1. pc \in [Goroutines -> Control] /\ pc[Retrier] = "off"
  <2>1. \A g \in Goroutines :
          (CASE g = Starter -> "openDial"
             [] g \in {Looper, Retrier} -> "off"
             [] OTHER -> "idle") \in Control
    BY DEF Control
  <2>2. (CASE Retrier = Starter -> "openDial"
           [] Retrier \in {Looper, Retrier} -> "off"
           [] OTHER -> "idle") = "off"
    BY Names
  <2> QED BY <2>1, <2>2, Names DEF Init
<1>2. BatchOK
  BY <1>1 DEF BatchOK, Carrying
<1>3. Types
  BY <1>1, EmptyElements DEF Init, Types, Handler
<1> QED BY <1>2, <1>3 DEF TypeInv

\* Every step keeps the types, and retryLoop's batch non-empty while it sends.
LEMMA TypeStep == TypeInv /\ [Next]_vars => TypeInv'
<1> SUFFICES ASSUME TypeInv, [Next]_vars PROVE TypeInv'
  OBVIOUS
<1>t. Types /\ BatchOK
  BY DEF TypeInv
<1> USE Names
<1>1. ASSUME NEW e \in Envelopes, Submit(e) PROVE TypeInv'
  BY <1>t, <1>1 DEF TypeInv, Types, BatchOK, Submit, Goto, Control, Carrying,
     nodeVars, clientVars, netVars
<1>2. ASSUME NEW p \in Senders, LockAndRead(p) PROVE TypeInv'
  BY <1>t, <1>2 DEF TypeInv, Types, BatchOK, LockAndRead, Goto, Control,
     Carrying, nodeVars, netVars
<1>3. ASSUME NEW p \in Senders, Get(p) PROVE TypeInv'
  BY <1>t, <1>3 DEF TypeInv, Types, BatchOK, Get, Goto, Control, Carrying,
     nodeVars, clientVars, netVars
<1>4. ASSUME NEW p \in Senders, SendFrame(p) PROVE TypeInv'
  <2>1. Cargo(p) \in Envelopes /\ Rest(p) \in Seq(Envelopes)
    BY <1>4, CargoType DEF SendFrame, Carrying
  <2>2. held[p] \in Streams /\ wire' \in [Streams -> Seq(Envelopes)]
    BY <1>t, <1>4, <2>1, AppendElements DEF SendFrame, Types
  <2>3. pc' \in [Goroutines -> Control] /\ BatchOK'
    BY <1>t, <1>4 DEF SendFrame, Types, BatchOK, Goto, Control, Carrying, Rest
  <2> QED BY <1>t, <1>4, <2>1, <2>2, <2>3 DEF SendFrame, TypeInv, Types
<1>5. ASSUME NEW p \in Senders, SendError(p) PROVE TypeInv'
  BY <1>t, <1>5 DEF TypeInv, Types, BatchOK, SendError, Goto, Control, Carrying,
     nodeVars, clientVars, netVars
<1>6. ASSUME NEW p \in Senders, Queue(p) PROVE TypeInv'
  <2>1. Cargo(p) \in Envelopes /\ Rest(p) \in Seq(Envelopes)
    BY <1>6, CargoType DEF Queue, Carrying
  <2>2. pending' \in Seq(Envelopes)
    BY <1>t, <1>6, <2>1, AppendElements DEF Queue, Types
  <2>3. pc' \in [Goroutines -> Control] /\ BatchOK'
    BY <1>t, <1>6 DEF Queue, Types, BatchOK, Goto, Control, Carrying, Rest
  <2> QED BY <1>t, <1>6, <2>1, <2>2, <2>3
          DEF Queue, TypeInv, Types, clientVars, netVars
<1>7. ASSUME NEW g \in Goroutines, NEW s \in Streams, Dial(g, s) PROVE TypeInv'
  BY <1>t, <1>7 DEF TypeInv, Types, BatchOK, Dial, Goto, Control, Carrying,
     Handler, nodeVars
<1>8. ASSUME NEW g \in Goroutines, DialError(g) PROVE TypeInv'
  <2>1. pc' \in [Goroutines -> Control] /\ BatchOK'
    BY <1>t, <1>8, AfterReopenTypes DEF DialError, Carrying, BatchOK, nodeVars
  <2> QED BY <1>t, <1>8, <2>1 DEF DialError, Unlock, TypeInv, Types, nodeVars,
          netVars
<1>9. ASSUME NEW g \in Goroutines, Install(g) PROVE TypeInv'
  <2>1. pc' \in [Goroutines -> Control] /\ BatchOK'
    BY <1>t, <1>9, AfterReopenTypes DEF Install, Carrying, BatchOK, nodeVars
  <2>2. /\ live' \subseteq Streams
        /\ wire' \in [Streams -> Seq(Envelopes)]
        /\ UNCHANGED <<server, reachable, approved, arrivals>>
    BY <1>t, <1>9, BreakTypes DEF Install
  <2>3. sendMu' \in Senders \cup {Unlocked}
    BY <1>t, <1>9 DEF Install, Unlock, Types
  <2> QED BY <1>t, <1>9, <2>1, <2>2, <2>3 DEF Install, TypeInv, Types, nodeVars
<1>10. ASSUME RetryTick PROVE TypeInv'
  BY <1>t, <1>10, EmptyElements DEF TypeInv, Types, BatchOK, RetryTick, Undrained, Goto, Control,
     Carrying, clientVars, netVars
<1>11. ASSUME Pace PROVE TypeInv'
  BY <1>t, <1>11 DEF TypeInv, Types, BatchOK, Pace, Goto, Control, Carrying,
     nodeVars, clientVars, netVars
<1>12. ASSUME RetryExit PROVE TypeInv'
  BY <1>t, <1>12, EmptyElements DEF TypeInv, Types, BatchOK, RetryExit, Goto, Control,
     Carrying, clientVars, netVars
<1>13. ASSUME LoopTick \/ LoopExit PROVE TypeInv'
  BY <1>t, <1>13 DEF TypeInv, Types, BatchOK, LoopTick, LoopExit, Goto, Control,
     Carrying, nodeVars, clientVars, netVars
<1>14. ASSUME Close PROVE TypeInv'
  BY <1>t, <1>14, BreakTypes DEF TypeInv, Types, BatchOK, Close, nodeVars
<1>15. ASSUME Cancel PROVE TypeInv'
  BY <1>t, <1>15, BreakTypes DEF TypeInv, Types, BatchOK, Cancel, clientVars
<1>16. ASSUME NEW s \in Streams, Authorize(s) PROVE TypeInv'
  <2>1. server' \in [Streams -> Handler] /\ wire' \in [Streams -> Seq(Envelopes)]
    BY <1>t, <1>16, EndHandlerTypes DEF Authorize, Types, Handler
  <2> QED BY <1>t, <1>16, <2>1 DEF TypeInv, Types, BatchOK, Authorize, nodeVars,
          clientVars
<1>17. ASSUME NEW s \in Streams, Receive(s) PROVE TypeInv'
  <2>1. /\ wire[s] \in Seq(Envelopes) /\ wire[s] # <<>>
        /\ Head(wire[s]) \in Envelopes /\ Tail(wire[s]) \in Seq(Envelopes)
    BY <1>t, <1>17, TailElements DEF Receive, Types
  <2>2. wire' \in [Streams -> Seq(Envelopes)] /\ arrivals' \in [Envelopes -> Nat]
    BY <1>t, <1>17, <2>1 DEF Receive, Types
  <2> QED BY <1>t, <1>17, <2>2 DEF TypeInv, Types, BatchOK, Receive, nodeVars,
          clientVars
<1>18. ASSUME NEW s \in Streams, ServerNotice(s) \/ DropConn(s) PROVE TypeInv'
  <2>1. server' \in [Streams -> Handler] /\ wire' \in [Streams -> Seq(Envelopes)]
    BY <1>t, <1>18, EndHandlerTypes DEF ServerNotice, DropConn
  <2> QED BY <1>t, <1>18, <2>1 DEF TypeInv, Types, BatchOK, ServerNotice, DropConn,
          nodeVars, clientVars
<1>19. ASSUME NEW s \in Streams, NoticeEnd(s) PROVE TypeInv'
  BY <1>t, <1>19, BreakTypes DEF TypeInv, Types, BatchOK, NoticeEnd, nodeVars,
     clientVars
<1>20. ASSUME Reach \/ Approval PROVE TypeInv'
  BY <1>t, <1>20 DEF TypeInv, Types, BatchOK, Reach, Approval, nodeVars, clientVars
<1>21. ASSUME UNCHANGED vars PROVE TypeInv'
  BY <1>t, <1>21 DEF TypeInv, Types, BatchOK, vars, nodeVars, clientVars, netVars
<1> QED
  BY <1>1, <1>2, <1>3, <1>4, <1>5, <1>6, <1>7, <1>8, <1>9, <1>10, <1>11, <1>12,
     <1>13, <1>14, <1>15, <1>16, <1>17, <1>18, <1>19, <1>20, <1>21
     DEF Next, SenderStep, Reopen, Loops, ParentStep, Environment

-----------------------------------------------------------------------------
(* sendMu and the installed stream *)

Locked == {"openDial", "openInstall", "get", "send", "swapDial", "swapInstall"}
Installing == {"openInstall", "swapInstall"}

\* Whoever is inside sendUpstream holds sendMu.
MutexOK == \A p \in Senders : pc[p] \in Locked => sendMu = p

\* Streams are there when they are used.
HeldOK ==
  /\ \A p \in Senders : pc[p] = "send" => held[p] # NoStream
  /\ \A p \in Senders : pc[p] = "get" => stream # NoStream
  /\ \A g \in Goroutines : pc[g] \in Installing => held[g] \in Streams

\* A stream that is open and not installed is its opener's alone.
PrivateOK ==
  \A g \in Goroutines : pc[g] \in Installing =>
    /\ held[g] # stream
    /\ wire[held[g]] = <<>>
    /\ \A h \in Goroutines \ {g} : held[h] # held[g]

\* The two loops run once Connect has returned.
StartOK == pc[Starter] # "done" => pc[Looper] = "off" /\ pc[Retrier] = "off"

Untouched == stream \notin live \/ wire[stream] = <<>>

\* Between taking sendMu and a reopen of its own, a sender's stream is the
\* installed one, or one was installed that nobody has sent on.
UntouchedOK ==
  \A p \in Senders :
    /\ pc[p] \in Reopening => Untouched
    /\ pc[p] = "send" => held[p] = stream \/ Untouched

LinkInv == MutexOK /\ HeldOK /\ StartOK /\ PrivateOK /\ UntouchedOK /\ NoOrphanConn

LEMMA LinkInit == Init => LinkInv
<1> SUFFICES ASSUME Init PROVE LinkInv
  OBVIOUS
<1>1. \A p \in Senders : pc[p] \in {"off", "idle"}
  <2>1. ASSUME NEW p \in Senders
        PROVE  (CASE p = Starter -> "openDial"
                  [] p \in {Looper, Retrier} -> "off"
                  [] OTHER -> "idle") \in {"off", "idle"}
    BY <2>1, Names
  <2> QED BY <2>1, Names DEF Init
<1>2. \A g \in Goroutines : pc[g] \in {"off", "idle", "openDial"}
  <2>1. ASSUME NEW g \in Goroutines
        PROVE  (CASE g = Starter -> "openDial"
                  [] g \in {Looper, Retrier} -> "off"
                  [] OTHER -> "idle") \in {"off", "idle", "openDial"}
    OBVIOUS
  <2> QED BY <2>1 DEF Init
<1>3. HeldOK /\ PrivateOK
  BY <1>1, <1>2 DEF HeldOK, PrivateOK, Installing
<1>4. MutexOK /\ UntouchedOK
  BY <1>1 DEF MutexOK, UntouchedOK, Locked, Reopening
<1>6. StartOK
  <2>1. \A g \in {Looper, Retrier} :
          (CASE g = Starter -> "openDial"
             [] g \in {Looper, Retrier} -> "off"
             [] OTHER -> "idle") = "off"
    BY Names
  <2> QED BY <2>1, Names DEF Init, StartOK
<1>5. NoOrphanConn
  BY DEF Init, NoOrphanConn
<1> QED BY <1>3, <1>4, <1>5, <1>6 DEF LinkInv

\* Nothing the network, the parent or a shutdown does can disturb it.
LEMMA LinkQuiet ==
  ASSUME Types, LinkInv, UNCHANGED <<pc, held, sendMu, stream>>,
         conns' \subseteq conns, live' \subseteq live,
         \A s \in Streams : wire[s] = <<>> => wire'[s] = <<>>
  PROVE  LinkInv'
<1> USE Names
<1>1. MutexOK' /\ HeldOK' /\ StartOK'
  BY DEF LinkInv, MutexOK, HeldOK, StartOK
<1>2. PrivateOK'
  BY DEF LinkInv, PrivateOK, HeldOK
<1>3. UntouchedOK'
  BY DEF LinkInv, UntouchedOK, Untouched, Types
<1>4. NoOrphanConn'
  BY DEF LinkInv, NoOrphanConn
<1> QED BY <1>1, <1>2, <1>3, <1>4 DEF LinkInv

\* Steps of one goroutine that change no stream, conn or wire.
LEMMA LinkLocal ==
  ASSUME Types, LinkInv, NEW g \in Goroutines, NEW place,
         Goto(g, place), place \notin Locked \cup Installing,
         pc[g] \notin Installing \cup {"off"}, g # Starter,
         UNCHANGED <<held, sendMu, stream, conns, live, wire>>
  PROVE  LinkInv'
<1> USE Names DEF Locked, Installing, Reopening
<1>0. /\ pc'[g] = place
      /\ \A h \in Goroutines \ {g} : pc'[h] = pc[h]
  BY DEF Goto, Types
<1>1. MutexOK' /\ HeldOK' /\ StartOK'
  BY <1>0 DEF LinkInv, MutexOK, HeldOK, StartOK
<1>2. PrivateOK'
  BY <1>0 DEF LinkInv, PrivateOK
<1>3. UntouchedOK'
  BY <1>0 DEF LinkInv, UntouchedOK, Untouched
<1>4. NoOrphanConn'
  BY <1>0 DEF LinkInv, NoOrphanConn
<1> QED BY <1>1, <1>2, <1>3, <1>4 DEF LinkInv

\* When reopenUpstream returns to g, nobody else is in the middle of anything.
LEMMA OthersAfterReopen ==
  ASSUME Types, StartOK, NEW g \in Goroutines, NEW opened, AfterReopen(g, opened),
         pc[g] \notin {"done", "off"}
  PROVE  /\ \A h \in Goroutines \ {g} :
              pc'[h] = pc[h] \/ (pc[h] = "off" /\ pc'[h] = "idle")
         /\ StartOK'
<1> USE Names
<1>1. CASE g = Looper
  BY <1>1 DEF AfterReopen, StartOK, Types
<1>2. CASE g = Starter
  BY <1>2 DEF AfterReopen, StartOK, Types
<1>3. CASE g \notin {Looper, Starter}
  <2>1. \E place : place \in {"get", "queue"} /\ pc' = [pc EXCEPT ![g] = place]
    BY <1>3 DEF AfterReopen
  <2> QED BY <1>3, <2>1 DEF StartOK, Types
<1> QED BY <1>1, <1>2, <1>3

\* Every step keeps it.
LEMMA LinkStep == TypeInv /\ LinkInv /\ [Next]_vars => LinkInv'
<1> SUFFICES ASSUME TypeInv, LinkInv, [Next]_vars PROVE LinkInv'
  OBVIOUS
<1>t. Types
  BY DEF TypeInv
<1> USE Names
<1>1. ASSUME NEW e \in Envelopes, Submit(e) PROVE LinkInv'
  BY <1>t, <1>1, LinkLocal DEF Submit, clientVars, netVars, Locked, Installing
<1>2. ASSUME NEW p \in Senders, LockAndRead(p) PROVE LinkInv'
  <2>0. /\ sendMu = Unlocked /\ sendMu' = p
        /\ \A q \in Senders : pc[q] \notin Locked
        /\ pc'[p] = IF stream = NoStream THEN "openDial" ELSE "send"
        /\ \A h \in Goroutines \ {p} : pc'[h] = pc[h] /\ held'[h] = held[h]
        /\ held'[p] = stream
        /\ pc[p] = "lock"
        /\ UNCHANGED <<stream, conns, live, wire>>
    BY <1>t, <1>2, NamesAssumption DEF LockAndRead, CanLock, Goto, LinkInv, MutexOK,
       Types, netVars
  <2> USE DEF Locked, Installing, Reopening
  <2>1. MutexOK' /\ HeldOK' /\ StartOK'
    BY <2>0 DEF LinkInv, MutexOK, HeldOK, StartOK
  <2>2. PrivateOK'
    BY <2>0 DEF LinkInv, PrivateOK
  <2>3. UntouchedOK'
    BY <1>t, <2>0, NamesAssumption DEF UntouchedOK, Untouched, Types
  <2>4. NoOrphanConn'
    BY <2>0 DEF LinkInv, NoOrphanConn
  <2> QED BY <2>1, <2>2, <2>3, <2>4 DEF LinkInv
<1>3. ASSUME NEW p \in Senders, Get(p) PROVE LinkInv'
  <2>0. /\ pc[p] = "get" /\ pc'[p] = "send"
        /\ \A h \in Goroutines \ {p} : pc'[h] = pc[h] /\ held'[h] = held[h]
        /\ held'[p] = stream
        /\ UNCHANGED <<sendMu, stream, conns, live, wire>>
    BY <1>t, <1>3 DEF Get, Goto, Types, clientVars, netVars
  <2> USE DEF Locked, Installing, Reopening
  <2>1. MutexOK' /\ HeldOK' /\ StartOK'
    BY <2>0 DEF LinkInv, MutexOK, HeldOK, StartOK
  <2>2. PrivateOK'
    BY <2>0 DEF LinkInv, PrivateOK
  <2>3. UntouchedOK'
    BY <2>0 DEF LinkInv, UntouchedOK, Untouched
  <2>4. NoOrphanConn'
    BY <2>0 DEF LinkInv, NoOrphanConn
  <2> QED BY <2>1, <2>2, <2>3, <2>4 DEF LinkInv
<1>4. ASSUME NEW p \in Senders, SendFrame(p) PROVE LinkInv'
  <2>0. /\ pc[p] = "send" /\ pc'[p] \in {"pace", "done"}
        /\ sendMu = p /\ sendMu' = Unlocked
        /\ \A q \in Senders \ {p} : pc[q] \notin Locked
        /\ \A h \in Goroutines \ {p} : pc'[h] = pc[h] /\ held'[h] = held[h]
        /\ held'[p] = NoStream
        /\ \A s \in Streams \ {held[p]} : wire'[s] = wire[s]
        /\ UNCHANGED <<stream, conns, live>>
    BY <1>t, <1>4 DEF SendFrame, Goto, LinkInv, MutexOK, Types, Locked
  <2> USE DEF Locked, Installing, Reopening
  <2>1. MutexOK' /\ HeldOK' /\ StartOK'
    BY <2>0 DEF LinkInv, MutexOK, HeldOK, StartOK
  <2>2. PrivateOK'
    BY <2>0, NamesAssumption DEF LinkInv, PrivateOK, HeldOK
  <2>3. UntouchedOK'
    BY <2>0 DEF UntouchedOK
  <2>4. NoOrphanConn'
    BY <2>0 DEF LinkInv, NoOrphanConn
  <2> QED BY <2>1, <2>2, <2>3, <2>4 DEF LinkInv
<1>5. ASSUME NEW p \in Senders, SendError(p) PROVE LinkInv'
  <2>0. /\ pc[p] = "send" /\ pc'[p] = "swapDial"
        /\ held[p] \notin live
        /\ \A h \in Goroutines \ {p} : pc'[h] = pc[h] /\ held'[h] = held[h]
        /\ held'[p] = NoStream
        /\ UNCHANGED <<sendMu, stream, conns, live, wire>>
    BY <1>t, <1>5 DEF SendError, Goto, Types, clientVars, netVars
  <2> USE DEF Locked, Installing, Reopening
  <2>1. MutexOK' /\ HeldOK' /\ StartOK'
    BY <2>0 DEF LinkInv, MutexOK, HeldOK, StartOK
  <2>2. PrivateOK'
    BY <2>0, NamesAssumption DEF LinkInv, PrivateOK, HeldOK
  <2>3. UntouchedOK'
    BY <2>0 DEF LinkInv, UntouchedOK, Untouched
  <2>4. NoOrphanConn'
    BY <2>0 DEF LinkInv, NoOrphanConn
  <2> QED BY <2>1, <2>2, <2>3, <2>4 DEF LinkInv
<1>6. ASSUME NEW p \in Senders, Queue(p) PROVE LinkInv'
  BY <1>t, <1>6, LinkLocal DEF Queue, clientVars, netVars, Locked, Installing
<1>7. ASSUME NEW g \in Goroutines, NEW s \in Streams, Dial(g, s) PROVE LinkInv'
  <2>0. /\ pc[g] \in {"openDial", "swapDial"} /\ pc'[g] \in Installing
        /\ pc[g] \in Reopening /\ pc'[g] \in Reopening
        /\ \A h \in Goroutines \ {g} : pc'[h] = pc[h] /\ held'[h] = held[h]
        /\ held'[g] = s /\ s # stream /\ wire[s] = <<>>
        /\ \A h \in Goroutines : held[h] # s
        /\ conns' = conns \cup {s} /\ live' = live \cup {s}
        /\ UNCHANGED <<sendMu, stream, wire>>
    BY <1>t, <1>7 DEF Dial, Free, Goto, Types, Installing, Reopening
  <2> USE DEF Locked, Installing, Reopening
  <2>1. MutexOK' /\ HeldOK' /\ StartOK'
    BY <2>0 DEF LinkInv, MutexOK, HeldOK, StartOK
  <2>2. PrivateOK'
    BY <2>0 DEF LinkInv, PrivateOK
  <2>3. UntouchedOK'
    BY <2>0 DEF LinkInv, UntouchedOK, Untouched
  <2>4. NoOrphanConn'
    BY <2>0 DEF LinkInv, NoOrphanConn
  <2> QED BY <2>1, <2>2, <2>3, <2>4 DEF LinkInv
<1>8. ASSUME NEW g \in Goroutines, DialError(g) PROVE LinkInv'
  <2>0. /\ pc[g] \in {"openDial", "swapDial"} /\ pc[g] \in Carrying
        /\ UNCHANGED <<held, stream, conns, live, wire>>
        /\ AfterReopen(g, FALSE) /\ Unlock(g)
    BY <1>8 DEF DialError, Carrying, netVars
  <2>1. /\ \A h \in Goroutines \ {g} :
              pc'[h] = pc[h] \/ (pc[h] = "off" /\ pc'[h] = "idle")
        /\ StartOK'
        /\ pc'[g] \notin Reopening
        /\ g \in Senders => pc'[g] = "queue"
    BY <1>t, <2>0, OthersAfterReopen, AfterReopenTypes DEF LinkInv
  <2>2. /\ g \in Senders => \A q \in Senders \ {g} : pc[q] \notin Locked
        /\ g \notin Senders => sendMu' = sendMu
    BY <2>0 DEF LinkInv, MutexOK, Unlock, Locked
  <2> USE DEF Locked, Installing, Reopening
  <2>3. MutexOK' /\ HeldOK'
    BY <2>0, <2>1, <2>2 DEF LinkInv, MutexOK, HeldOK
  <2>4. PrivateOK'
    BY <2>0, <2>1 DEF LinkInv, PrivateOK
  <2>5. UntouchedOK'
    BY <2>0, <2>1 DEF LinkInv, UntouchedOK, Untouched
  <2>6. NoOrphanConn'
    BY <2>0, <2>1 DEF LinkInv, NoOrphanConn
  <2> QED BY <2>1, <2>3, <2>4, <2>5, <2>6 DEF LinkInv
<1>9. ASSUME NEW g \in Goroutines, Install(g) PROVE LinkInv'
  <2>0. /\ pc[g] \in Installing /\ pc[g] \in Carrying
        /\ stream' = held[g] /\ conns' = conns \ {stream}
        /\ held'[g] = NoStream
        /\ \A h \in Goroutines \ {g} : held'[h] = held[h]
        /\ AfterReopen(g, TRUE) /\ Break({stream})
        /\ held[g] \in Streams /\ wire[held[g]] = <<>>
    BY <1>t, <1>9 DEF Install, Superseded, Carrying, Installing, Types, LinkInv,
       HeldOK, PrivateOK
  <2>1. /\ \A h \in Goroutines \ {g} :
              pc'[h] = pc[h] \/ (pc[h] = "off" /\ pc'[h] = "idle")
        /\ StartOK'
        /\ pc'[g] \notin Reopening
        /\ g \in Senders =>
             pc'[g] = IF pc[g] = "openInstall" THEN "get" ELSE "queue"
    BY <1>t, <2>0, OthersAfterReopen, AfterReopenTypes DEF LinkInv, Installing
  <2>2. /\ live' \subseteq live
        /\ \A s \in Streams : wire'[s] = <<>> \/ wire'[s] = wire[s]
    BY <1>t, <2>0, BreakTypes
  <2>3. /\ g \in Senders => \A q \in Senders \ {g} : pc[q] \notin Locked
        /\ g \notin Senders => sendMu' = sendMu
        /\ g \in Senders /\ pc[g] = "openInstall" => sendMu' = sendMu
    BY <1>9, <2>0 DEF LinkInv, MutexOK, Install, Unlock, Locked, Installing
  <2> USE DEF Locked, Installing, Reopening
  <2>4. MutexOK'
    BY <2>0, <2>1, <2>3 DEF LinkInv, MutexOK
  <2>5. HeldOK'
    <3>1. \A p \in Senders \ {g} : pc'[p] \in {"send", "get"} => pc'[p] = pc[p]
      BY <2>1
    <3>2. pc'[g] # "send" \/ g \notin Senders
      BY <2>1
    <3> QED BY <2>0, <2>1, <3>1, <3>2, NamesAssumption DEF LinkInv, HeldOK
  <2>6. PrivateOK'
    <3>1. ASSUME NEW h \in Goroutines, pc'[h] \in Installing
          PROVE  h # g /\ pc[h] \in Installing /\ held'[h] = held[h]
      BY <2>0, <2>1, <3>1
    <3> QED BY <2>0, <2>2, <3>1, NamesAssumption DEF LinkInv, PrivateOK, HeldOK
  <2>7. UntouchedOK'
    <3>1. Untouched'
      BY <2>0, <2>2 DEF Untouched
    <3> QED BY <3>1 DEF UntouchedOK
  <2>8. NoOrphanConn'
    BY <2>0, <2>1 DEF LinkInv, NoOrphanConn
  <2> QED BY <2>1, <2>4, <2>5, <2>6, <2>7, <2>8 DEF LinkInv
<1>10. ASSUME RetryTick \/ Pace \/ RetryExit PROVE LinkInv'
  BY <1>t, <1>10, LinkLocal DEF RetryTick, Pace, RetryExit, clientVars, netVars, Locked,
     Installing
<1>11. ASSUME LoopTick PROVE LinkInv'
  <2>0. /\ pc[Looper] = "idle" /\ pc'[Looper] = "openDial"
        /\ \A h \in Goroutines \ {Looper} : pc'[h] = pc[h]
        /\ UNCHANGED <<held, sendMu, stream, conns, live, wire>>
    BY <1>t, <1>11 DEF LoopTick, Goto, Types, clientVars, netVars
  <2> USE DEF Locked, Installing, Reopening
  <2>1. MutexOK' /\ HeldOK' /\ StartOK'
    BY <2>0 DEF LinkInv, MutexOK, HeldOK, StartOK
  <2>2. PrivateOK'
    BY <2>0 DEF LinkInv, PrivateOK
  <2>3. UntouchedOK'
    BY <2>0 DEF LinkInv, UntouchedOK, Untouched
  <2>4. NoOrphanConn'
    BY <2>0 DEF LinkInv, NoOrphanConn
  <2> QED BY <2>1, <2>2, <2>3, <2>4 DEF LinkInv
<1>12. ASSUME LoopExit PROVE LinkInv'
  BY <1>t, <1>12, LinkLocal DEF LoopExit, clientVars, netVars, Locked, Installing
<1>13. ASSUME Close \/ Cancel PROVE LinkInv'
  BY <1>t, <1>13, BreakTypes, LinkQuiet DEF Close, Cancel, Superseded, clientVars
<1>14. ASSUME NEW s \in Streams, Authorize(s) \/ ServerNotice(s) \/ DropConn(s)
       PROVE  LinkInv'
  BY <1>t, <1>14, EndHandlerTypes, LinkQuiet DEF Authorize, ServerNotice, DropConn,
     clientVars
<1>15. ASSUME NEW s \in Streams, Receive(s) PROVE LinkInv'
  <2>1. \A t \in Streams : wire[t] = <<>> => wire'[t] = <<>>
    BY <1>t, <1>15 DEF Receive, Types
  <2> QED BY <1>t, <1>15, <2>1, LinkQuiet DEF Receive, clientVars
<1>16. ASSUME NEW s \in Streams, NoticeEnd(s) PROVE LinkInv'
  BY <1>t, <1>16, BreakTypes, LinkQuiet DEF NoticeEnd, clientVars
<1>17. ASSUME Reach \/ Approval \/ UNCHANGED vars PROVE LinkInv'
  BY <1>t, <1>17, LinkQuiet DEF Reach, Approval, vars, clientVars, netVars
<1> QED
  BY <1>1, <1>2, <1>3, <1>4, <1>5, <1>6, <1>7, <1>8, <1>9, <1>10, <1>11, <1>12,
     <1>13, <1>14, <1>15, <1>16, <1>17
     DEF Next, SenderStep, Reopen, Loops, ParentStep, Environment

\* SendSerialized: no two goroutines are in stream.Send together and none has
\* a nil stream, because all of sendUpstream runs under sendMu.
THEOREM SendSafe == Spec => []SendSerialized
<1>1. TypeInv /\ LinkInv => SendSerialized
  BY DEF LinkInv, MutexOK, HeldOK, SendSerialized, Locked
<1> QED BY <1>1, TypeInit, TypeStep, LinkInit, LinkStep, PTL DEF Spec

\* Steps of a goroutine outside sendUpstream cannot leave the holder of
\* sendMu anywhere else.
LEMMA HolderStays ==
  ASSUME Types, MutexNotForgotten, NEW g \in Goroutines, NEW place,
         Goto(g, place), UNCHANGED sendMu,
         pc[g] \notin Locked \/ place \in Locked
  PROVE  MutexNotForgotten'
<1>1. /\ pc'[g] = place
      /\ \A h \in Goroutines \ {g} : pc'[h] = pc[h]
  BY DEF Goto, Types
<1>2. sendMu # Unlocked => sendMu \in Goroutines
  BY Names DEF Types
<1> QED BY <1>1, <1>2 DEF MutexNotForgotten, Locked, Reopening

\* Every step keeps the holder of sendMu inside sendUpstream.
LEMMA HolderStep ==
  TypeInv /\ LinkInv /\ MutexNotForgotten /\ [Next]_vars => MutexNotForgotten'
<1> SUFFICES ASSUME TypeInv, LinkInv, MutexNotForgotten, [Next]_vars
             PROVE  MutexNotForgotten'
  OBVIOUS
<1>t. Types /\ StartOK /\ (sendMu # Unlocked => sendMu \in Senders)
  BY DEF TypeInv, Types, LinkInv
<1> USE Names
<1>1. ASSUME NEW e \in Envelopes, Submit(e) PROVE MutexNotForgotten'
  BY <1>t, <1>1, HolderStays DEF Submit, clientVars, Locked
<1>2. ASSUME NEW p \in Senders, LockAndRead(p) PROVE MutexNotForgotten'
  BY <1>t, <1>2 DEF LockAndRead, Goto, MutexNotForgotten, Reopening, Types
<1>3. ASSUME NEW p \in Senders, Get(p) \/ SendError(p) PROVE MutexNotForgotten'
  BY <1>t, <1>3, HolderStays DEF Get, SendError, clientVars, Locked
<1>4. ASSUME NEW p \in Senders, SendFrame(p) PROVE MutexNotForgotten'
  BY <1>4 DEF SendFrame, MutexNotForgotten
<1>5. ASSUME NEW p \in Senders, Queue(p) PROVE MutexNotForgotten'
  BY <1>t, <1>5, HolderStays DEF Queue, clientVars, Locked
<1>6. ASSUME NEW g \in Goroutines, NEW s \in Streams, Dial(g, s)
      PROVE  MutexNotForgotten'
  BY <1>t, <1>6, HolderStays DEF Dial, Locked
<1>7. ASSUME NEW g \in Goroutines, DialError(g) \/ Install(g)
      PROVE  MutexNotForgotten'
  <2>0. pc[g] \in Reopening /\ pc[g] \in Carrying
    BY <1>7 DEF DialError, Install, Carrying, Reopening
  <2>1. /\ \A h \in Goroutines \ {g} :
              pc'[h] = pc[h] \/ (pc[h] = "off" /\ pc'[h] = "idle")
        /\ g \in Senders => pc'[g] = IF pc[g] = "openInstall" THEN "get" ELSE "queue"
    <3>1. CASE DialError(g)
      <4>1. AfterReopen(g, FALSE) /\ pc[g] \in {"openDial", "swapDial"}
        BY <3>1 DEF DialError
      <4> QED BY <1>t, <2>0, <4>1, OthersAfterReopen, AfterReopenTypes
    <3>2. CASE Install(g)
      <4>1. AfterReopen(g, TRUE) /\ pc[g] \in {"openInstall", "swapInstall"}
        BY <3>2 DEF Install
      <4> QED BY <1>t, <2>0, <4>1, OthersAfterReopen, AfterReopenTypes
    <3> QED BY <1>7, <3>1, <3>2
  <2>2. CASE sendMu' = Unlocked
    BY <2>2 DEF MutexNotForgotten
  <2>3. CASE sendMu' # Unlocked
    <3>1. /\ sendMu' = sendMu
          /\ g \in Senders => pc[g] = "openInstall"
      BY <1>7, <2>3 DEF DialError, Install, Unlock
    <3>2. pc[sendMu] \in Locked /\ sendMu \in Goroutines
      BY <1>t, <2>3, <3>1 DEF MutexNotForgotten, Locked, Reopening
    <3>3. CASE sendMu = g
      BY <1>t, <2>1, <2>3, <3>1, <3>3 DEF MutexNotForgotten
    <3>4. CASE sendMu # g
      BY <2>1, <3>1, <3>2, <3>4 DEF MutexNotForgotten, Locked, Reopening
    <3> QED BY <3>3, <3>4
  <2> QED BY <2>2, <2>3
<1>8. ASSUME Loops PROVE MutexNotForgotten'
  BY <1>t, <1>8, HolderStays DEF Loops, RetryTick, Pace, RetryExit, LoopTick, LoopExit,
     clientVars, Locked
<1>9. ASSUME UNCHANGED <<pc, sendMu>> PROVE MutexNotForgotten'
  BY <1>9 DEF MutexNotForgotten
<1>10. ASSUME Close \/ Cancel \/ Environment \/ \E s \in Streams : ParentStep(s)
       PROVE  UNCHANGED <<pc, sendMu>>
  BY <1>10 DEF Close, Cancel, Environment, ParentStep, Reach, Approval, DropConn,
     NoticeEnd, Authorize, Receive, ServerNotice, clientVars
<1> QED
  BY <1>1, <1>2, <1>3, <1>4, <1>5, <1>6, <1>7, <1>8, <1>9, <1>10
     DEF Next, SenderStep, Reopen, vars, clientVars

\* MutexNotForgotten: on every path out of sendUpstream, the failed dials and
\* the failed Send included, sendMu is released.
THEOREM MutexReleased == Spec => []MutexNotForgotten
<1>1. Init => MutexNotForgotten
  BY DEF Init, MutexNotForgotten
<1> QED BY <1>1, TypeInit, TypeStep, LinkInit, LinkStep, HolderStep, PTL DEF Spec

\* NoOrphanConn: every ClientConn that is open is installed or about to be.
THEOREM NoConnLeak == Spec => []NoOrphanConn
<1>1. LinkInv => NoOrphanConn
  BY DEF LinkInv
<1> QED BY <1>1, TypeInit, TypeStep, LinkInit, LinkStep, PTL DEF Spec

\* ReopenUnderMutexLosesNothing: a sender that replaces the stream, which it
\* does under sendMu, never replaces a working one that has frames on it.
THEOREM MutexProtectsFrames == Spec => []ReopenUnderMutexLosesNothing
<1>1. LinkInv => ReopenUnderMutexLosesNothing
  BY DEF LinkInv, UntouchedOK, Untouched, ReopenUnderMutexLosesNothing
<1> QED BY <1>1, TypeInit, TypeStep, LinkInit, LinkStep, PTL DEF Spec

-----------------------------------------------------------------------------
(* An envelope is in one place *)

\* Still with the goroutine that forwards it first, and nowhere else.
ForwardedOK ==
  \A e \in Envelopes : pc[e] # "done" =>
    /\ e \notin Range(pending) /\ e \notin Range(batch)
    /\ \A s \in Streams : e \notin Range(wire[s])
    /\ arrivals[e] = 0

\* What is queued for retryLoop has not been sent, nor handed out twice.
QueuedOK ==
  /\ IsInjective(pending) /\ IsInjective(batch)
  /\ \A e \in Range(pending) : e \notin Range(batch)
  /\ \A e \in Range(pending) \cup Range(batch) :
       arrivals[e] = 0 /\ \A s \in Streams : e \notin Range(wire[s])

\* What has been sent is on one wire, once, until it is received.
SentOK ==
  /\ \A s \in Streams : IsInjective(wire[s])
  /\ \A s \in Streams : \A e \in Range(wire[s]) :
       arrivals[e] = 0 /\ \A t \in Streams \ {s} : e \notin Range(wire[t])

OnePlace == ForwardedOK /\ QueuedOK /\ SentOK /\ AtMostOnce

LEMMA OnePlaceInit == Init => OnePlace
<1> SUFFICES ASSUME Init PROVE OnePlace
  OBVIOUS
<1>1. ForwardedOK /\ QueuedOK /\ SentOK
  BY EmptyElements DEF Init, ForwardedOK, QueuedOK, SentOK
<1>2. AtMostOnce
  BY DEF Init, AtMostOnce
<1> QED BY <1>1, <1>2 DEF OnePlace

\* Steps that hand no envelope on: some wires may be emptied.
LEMMA OnePlaceQuiet ==
  ASSUME Types, OnePlace, UNCHANGED <<pending, batch, arrivals>>,
         \A e \in Envelopes : pc'[e] # "done" => pc[e] # "done",
         \A s \in Streams : wire'[s] = <<>> \/ wire'[s] = wire[s]
  PROVE  OnePlace'
<1>1. ForwardedOK'
  BY EmptyElements DEF OnePlace, ForwardedOK
<1>2. QueuedOK'
  BY EmptyElements DEF OnePlace, QueuedOK
<1>3. SentOK'
  BY EmptyElements DEF OnePlace, SentOK
<1>4. AtMostOnce'
  BY DEF OnePlace, AtMostOnce
<1> QED BY <1>1, <1>2, <1>3, <1>4 DEF OnePlace

\* A sender's envelope is with the sender, or at the head of its batch; when
\* the sender is done with it, it is in neither.
LEMMA CargoPlace ==
  ASSUME TypeInv, OnePlace, NEW p \in Senders, pc[p] \in Carrying,
         Goto(p, IF p = Retrier THEN "pace" ELSE "done"), batch' = Rest(p)
  PROVE  /\ Cargo(p) \in Envelopes
         /\ batch' \in Seq(Envelopes)
         /\ Range(batch') \subseteq Range(batch) /\ Cargo(p) \notin Range(batch')
         /\ IsInjective(batch')
         /\ pc'[Cargo(p)] = "done" \/ p = Retrier
         /\ \A e \in Envelopes : pc'[e] # "done" => pc[e] # "done" /\ e # Cargo(p)
         /\ Cargo(p) \notin Range(pending) /\ arrivals[Cargo(p)] = 0
         /\ \A s \in Streams : Cargo(p) \notin Range(wire[s])
<1> USE Names
<1>t. Types /\ BatchOK
  BY DEF TypeInv
<1>1. CASE p = Retrier
  <2>1. /\ batch \in Seq(Envelopes) /\ batch # <<>>
        /\ Cargo(p) = Head(batch) /\ batch' = Tail(batch)
    BY <1>t, <1>1 DEF Types, BatchOK, Cargo, Rest
  <2>2. /\ Head(batch) \in Range(batch) /\ Head(batch) \in Envelopes
        /\ Tail(batch) \in Seq(Envelopes)
        /\ Range(Tail(batch)) \subseteq Range(batch)
        /\ IsInjective(batch)
             => IsInjective(Tail(batch)) /\ Head(batch) \notin Range(Tail(batch))
    BY <2>1, TailElements
  <2>3. \A e \in Envelopes : pc'[e] = pc[e]
    BY <1>t, <1>1 DEF Goto, Types
  <2> QED BY <1>1, <2>1, <2>2, <2>3 DEF OnePlace, QueuedOK, ForwardedOK
<1>2. CASE p # Retrier
  <2>1. p \in Envelopes /\ Cargo(p) = p /\ batch' = batch /\ pc[p] # "done"
    BY <1>2 DEF Cargo, Rest, Carrying
  <2>2. /\ pc'[p] = "done" /\ \A e \in Envelopes \ {p} : pc'[e] = pc[e]
        /\ batch \in Seq(Envelopes)
    BY <1>t, <1>2, <2>1 DEF Goto, Types
  <2> QED BY <2>1, <2>2 DEF OnePlace, QueuedOK, ForwardedOK
<1> QED BY <1>1, <1>2

\* Every step keeps each envelope in one place.
LEMMA OnePlaceStep == TypeInv /\ LinkInv /\ OnePlace /\ [Next]_vars => OnePlace'
<1> SUFFICES ASSUME TypeInv, LinkInv, OnePlace, [Next]_vars PROVE OnePlace'
  OBVIOUS
<1>t. Types
  BY DEF TypeInv
<1> USE Names
<1>1. ASSUME NEW e \in Envelopes, Submit(e) PROVE OnePlace'
  BY <1>t, <1>1, OnePlaceQuiet DEF Submit, Goto, Types, nodeVars, netVars
<1>2. ASSUME NEW p \in Senders, LockAndRead(p) \/ Get(p) \/ SendError(p)
      PROVE  OnePlace'
  BY <1>t, <1>2, OnePlaceQuiet DEF LockAndRead, Get, SendError, Goto, Types, nodeVars,
     netVars
<1>3. ASSUME NEW p \in Senders, SendFrame(p) PROVE OnePlace'
  <2>1. /\ pc[p] \in Carrying /\ batch' = Rest(p)
        /\ Goto(p, IF p = Retrier THEN "pace" ELSE "done")
        /\ pending' = pending /\ arrivals' = arrivals
        /\ held[p] \in Streams
        /\ wire' = [wire EXCEPT ![held[p]] = Append(@, Cargo(p))]
    BY <1>t, <1>3 DEF SendFrame, Carrying, Types
  <2> DEFINE e == Cargo(p)
             s == held[p]
  <2>2. /\ e \in Envelopes
        /\ Range(batch') \subseteq Range(batch) /\ e \notin Range(batch')
        /\ IsInjective(batch')
        /\ \A d \in Envelopes : pc'[d] # "done" => pc[d] # "done" /\ d # e
        /\ e \notin Range(pending) /\ arrivals[e] = 0
        /\ \A t \in Streams : e \notin Range(wire[t])
    BY <2>1, CargoPlace
  <2>3. /\ Range(wire'[s]) = Range(wire[s]) \cup {e}
        /\ IsInjective(wire[s]) => IsInjective(wire'[s])
        /\ \A t \in Streams \ {s} : wire'[t] = wire[t]
    BY <1>t, <2>1, <2>2, AppendElements DEF Types
  <2> HIDE DEF e, s
  <2>4. ForwardedOK'
    BY <2>1, <2>2, <2>3 DEF OnePlace, ForwardedOK
  <2>5. QueuedOK'
    BY <2>1, <2>2, <2>3 DEF OnePlace, QueuedOK
  <2>6. SentOK'
    BY <2>1, <2>2, <2>3 DEF OnePlace, SentOK
  <2>7. AtMostOnce'
    BY <2>1 DEF OnePlace, AtMostOnce
  <2> QED BY <2>4, <2>5, <2>6, <2>7 DEF OnePlace
<1>4. ASSUME NEW p \in Senders, Queue(p) PROVE OnePlace'
  <2>1. /\ pc[p] \in Carrying /\ batch' = Rest(p)
        /\ Goto(p, IF p = Retrier THEN "pace" ELSE "done")
        /\ pending' = Append(pending, Cargo(p))
        /\ wire' = wire /\ arrivals' = arrivals
    BY <1>4 DEF Queue, Carrying, netVars
  <2> DEFINE e == Cargo(p)
  <2>2. /\ e \in Envelopes
        /\ Range(batch') \subseteq Range(batch) /\ e \notin Range(batch')
        /\ IsInjective(batch')
        /\ \A d \in Envelopes : pc'[d] # "done" => pc[d] # "done" /\ d # e
        /\ e \notin Range(pending) /\ arrivals[e] = 0
        /\ \A t \in Streams : e \notin Range(wire[t])
    BY <2>1, CargoPlace
  <2>3. /\ Range(pending') = Range(pending) \cup {e}
        /\ IsInjective(pending) => IsInjective(pending')
    BY <1>t, <2>1, <2>2, AppendElements DEF Types
  <2> HIDE DEF e
  <2>4. ForwardedOK'
    BY <2>1, <2>2, <2>3 DEF OnePlace, ForwardedOK
  <2>5. QueuedOK'
    BY <2>1, <2>2, <2>3 DEF OnePlace, QueuedOK
  <2>6. SentOK' /\ AtMostOnce'
    BY <2>1 DEF OnePlace, SentOK, AtMostOnce
  <2> QED BY <2>4, <2>5, <2>6 DEF OnePlace
<1>5. ASSUME NEW g \in Goroutines, NEW s \in Streams, Dial(g, s) PROVE OnePlace'
  BY <1>t, <1>5, OnePlaceQuiet DEF Dial, Goto, Types, nodeVars
<1>6. ASSUME NEW g \in Goroutines, DialError(g) PROVE OnePlace'
  <2>1. \A e \in Envelopes : pc'[e] # "done" => pc[e] # "done"
    BY <1>t, <1>6, OthersAfterReopen DEF DialError, LinkInv
  <2> QED BY <1>t, <1>6, <2>1, OnePlaceQuiet DEF DialError, nodeVars, netVars
<1>7. ASSUME NEW g \in Goroutines, Install(g) PROVE OnePlace'
  <2>1. \A e \in Envelopes : pc'[e] # "done" => pc[e] # "done"
    BY <1>t, <1>7, OthersAfterReopen DEF Install, LinkInv
  <2> QED BY <1>t, <1>7, <2>1, OnePlaceQuiet, BreakTypes DEF Install, nodeVars
<1>8. ASSUME RetryTick PROVE OnePlace'
  <2>1. /\ batch' = pending /\ pending' = <<>> /\ UNCHANGED <<wire, arrivals>>
        /\ \A e \in Envelopes : pc'[e] = pc[e]
    BY <1>t, <1>8 DEF RetryTick, Undrained, Goto, Types, netVars
  <2> QED BY <2>1, EmptyElements
          DEF OnePlace, ForwardedOK, QueuedOK, SentOK, AtMostOnce
<1>9. ASSUME Pace \/ LoopTick \/ LoopExit PROVE OnePlace'
  BY <1>t, <1>9, OnePlaceQuiet DEF Pace, LoopTick, LoopExit, Goto, Types, nodeVars,
     netVars
<1>10. ASSUME RetryExit PROVE OnePlace'
  <2>1. /\ batch' = <<>> /\ UNCHANGED <<pending, wire, arrivals>>
        /\ \A e \in Envelopes : pc'[e] = pc[e]
    BY <1>t, <1>10 DEF RetryExit, Goto, Types, netVars
  <2> QED BY <2>1, EmptyElements
          DEF OnePlace, ForwardedOK, QueuedOK, SentOK, AtMostOnce
<1>11. ASSUME Close \/ Cancel PROVE OnePlace'
  BY <1>t, <1>11, OnePlaceQuiet, BreakTypes DEF Close, Cancel, nodeVars
<1>12. ASSUME NEW s \in Streams, Authorize(s) \/ ServerNotice(s) \/ DropConn(s)
       PROVE  OnePlace'
  BY <1>t, <1>12, OnePlaceQuiet, EndHandlerTypes DEF Authorize, ServerNotice, DropConn,
     nodeVars
<1>13. ASSUME NEW s \in Streams, Receive(s) PROVE OnePlace'
  <2> DEFINE e == Head(wire[s])
  <2>1. /\ e \in Envelopes /\ e \in Range(wire[s])
        /\ Range(Tail(wire[s])) \subseteq Range(wire[s])
        /\ IsInjective(wire[s])
             => IsInjective(Tail(wire[s])) /\ e \notin Range(Tail(wire[s]))
    BY <1>t, <1>13, TailElements DEF Receive, Types
  <2>2. /\ wire'[s] = Tail(wire[s])
        /\ \A t \in Streams \ {s} : wire'[t] = wire[t]
        /\ arrivals'[e] = arrivals[e] + 1
        /\ \A d \in Envelopes \ {e} : arrivals'[d] = arrivals[d]
        /\ UNCHANGED <<pc, pending, batch>>
    BY <1>t, <1>13, <2>1 DEF Receive, Types, nodeVars
  <2>3. /\ arrivals[e] = 0
        /\ \A t \in Streams \ {s} : e \notin Range(wire[t])
        /\ e \notin Range(pending) \cup Range(batch) /\ pc[e] = "done"
        /\ Range(pending) \cup Range(batch) \subseteq Envelopes
        /\ \A t \in Streams : Range(wire[t]) \subseteq Envelopes
    <3>1. /\ arrivals[e] = 0
          /\ \A t \in Streams \ {s} : e \notin Range(wire[t])
          /\ e \notin Range(pending) \cup Range(batch) /\ pc[e] = "done"
      BY <2>1 DEF OnePlace, ForwardedOK, QueuedOK, SentOK
    <3>2. ASSUME NEW q \in Seq(Envelopes) PROVE Range(q) \subseteq Envelopes
      BY <3>2 DEF Range
    <3> QED BY <1>t, <3>1, <3>2 DEF Types
  <2> HIDE DEF e
  <2>4. ForwardedOK'
    BY <2>1, <2>2, <2>3 DEF OnePlace, ForwardedOK
  <2>5. QueuedOK'
    BY <2>1, <2>2, <2>3 DEF OnePlace, QueuedOK
  <2>6. SentOK'
    BY <2>1, <2>2, <2>3 DEF OnePlace, SentOK
  <2>7. AtMostOnce'
    BY <2>1, <2>2, <2>3 DEF OnePlace, AtMostOnce
  <2> QED BY <2>4, <2>5, <2>6, <2>7 DEF OnePlace
<1>14. ASSUME NEW s \in Streams, NoticeEnd(s) PROVE OnePlace'
  BY <1>t, <1>14, OnePlaceQuiet, BreakTypes DEF NoticeEnd, nodeVars
<1>15. ASSUME Reach \/ Approval \/ UNCHANGED vars PROVE OnePlace'
  BY <1>t, <1>15, OnePlaceQuiet DEF Reach, Approval, vars, nodeVars, netVars
<1> QED
  BY <1>1, <1>2, <1>3, <1>4, <1>5, <1>6, <1>7, <1>8, <1>9, <1>10, <1>11, <1>12,
     <1>13, <1>14, <1>15
     DEF Next, SenderStep, Reopen, Loops, ParentStep, Environment

\* TypeOK holds in every reachable state: the variables have their types, and
\* the pending queue and retryLoop's batch hold an envelope at most once.
THEOREM TypeCorrect == Spec => []TypeOK
<1>1. TypeInv /\ OnePlace => TypeOK
  BY DEF TypeInv, TypeOK, OnePlace, QueuedOK, QueueOK
<1> QED BY <1>1, TypeInit, TypeStep, LinkInit, LinkStep, OnePlaceInit,
        OnePlaceStep, PTL DEF Spec

\* AtMostOnce: the parent's onUpstream runs at most once per envelope,
\* whatever fails and however often retryLoop tries.
THEOREM NoDuplicates == Spec => []AtMostOnce
<1>1. OnePlace => AtMostOnce
  BY DEF OnePlace
<1> QED BY <1>1, TypeInit, TypeStep, LinkInit, LinkStep, OnePlaceInit,
        OnePlaceStep, PTL DEF Spec

-----------------------------------------------------------------------------
(* What the hop promises, as EnvelopeTransfer *)

\* retryLoop waits for its next tick with nothing in hand, so that draining
\* the queue forgets nothing.
IdleBatch == pc[Retrier] \in {"off", "idle"} => batch = <<>>

\* In each place of EnvelopeTransfer's picture, what that place means here.
StatusRead ==
  \A e \in Envelopes :
    /\ status[e] \in Transfer!Status
    /\ status[e] = "arrived" <=> arrivals[e] > 0
    /\ status[e] = "flying" <=> InFlight(e)
    /\ status[e] = "held" <=> Kept(e)
    /\ status[e] = "new" <=> pc[e] = "idle"

LEMMA ReadingStatus == Types /\ OnePlace => StatusRead
<1> SUFFICES ASSUME Types, OnePlace, NEW e \in Envelopes
             PROVE  /\ status[e] \in Transfer!Status
                    /\ status[e] = "arrived" <=> arrivals[e] > 0
                    /\ status[e] = "flying" <=> InFlight(e)
                    /\ status[e] = "held" <=> Kept(e)
                    /\ status[e] = "new" <=> pc[e] = "idle"
  BY DEF StatusRead
<1>1. status[e] = CASE arrivals[e] > 0 -> "arrived"
                    [] InFlight(e)     -> "flying"
                    [] Kept(e)         -> "held"
                    [] pc[e] = "idle"  -> "new"
                    [] OTHER           -> "lost"
  BY DEF status
<1>2. InFlight(e) => ~(arrivals[e] > 0)
  BY DEF OnePlace, SentOK, InFlight
<1>3. Kept(e) => ~(arrivals[e] > 0) /\ ~InFlight(e)
  <2>1. CASE pc[e] \notin {"idle", "done"}
    BY <2>1 DEF OnePlace, ForwardedOK, InFlight
  <2>2. CASE e \in Range(pending) \cup Range(batch)
    BY <2>2 DEF OnePlace, QueuedOK, InFlight
  <2> QED BY <2>1, <2>2 DEF Kept
<1>4. pc[e] = "idle" => ~(arrivals[e] > 0) /\ ~InFlight(e) /\ ~Kept(e)
  BY DEF OnePlace, ForwardedOK, InFlight, Kept
<1> HIDE DEF InFlight, Kept
<1> QED BY <1>1, <1>2, <1>3, <1>4 DEF Transfer!Status

LEMMA InitTransfer == Init => IdleBatch /\ Transfer!Init
<1> SUFFICES ASSUME Init PROVE IdleBatch /\ Transfer!Init
  OBVIOUS
<1>1. IdleBatch /\ cancelled = FALSE
  BY DEF Init, IdleBatch
<1>2. ASSUME NEW e \in Envelopes PROVE pc[e] = "idle"
  <2>1. (CASE e = Starter -> "openDial"
           [] e \in {Looper, Retrier} -> "off"
           [] OTHER -> "idle") = "idle"
    BY NamesAssumption
  <2> QED BY <2>1, Names DEF Init
<1>3. ASSUME NEW e \in Envelopes
      PROVE  ~(arrivals[e] > 0) /\ ~InFlight(e) /\ ~Kept(e)
  BY <1>2, EmptyElements DEF Init, InFlight, Kept
<1>4. ASSUME NEW e \in Envelopes PROVE status[e] = "new"
  BY <1>2, <1>3 DEF status
<1>5. status = [e \in Envelopes |-> "new"]
  BY <1>4 DEF status
<1> QED BY <1>1, <1>5 DEF Transfer!Init

\* Only the goroutine that called it leaves reopenUpstream; the envelopes of
\* all others, and its own, stay where they are.
LEMMA EnvelopesAfterReopen ==
  ASSUME Types, NEW g \in Goroutines, NEW opened, AfterReopen(g, opened),
         pc[g] \in Reopening
  PROVE  \A e \in Envelopes :
           /\ pc'[e] = "idle" <=> pc[e] = "idle"
           /\ pc'[e] \in {"idle", "done"} <=> pc[e] \in {"idle", "done"}
<1> USE Names
<1>1. CASE g \in {Looper, Starter}
  <2>1. \A e \in Envelopes : e \notin {Looper, Starter, Retrier}
    BY NamesAssumption
  <2>2. \A e \in Envelopes : pc'[e] = pc[e]
    BY <1>1, <2>1 DEF AfterReopen, Types
  <2> QED BY <2>2
<1>2. CASE g \notin {Looper, Starter}
  <2>1. \E place : place \in {"get", "queue"} /\ pc' = [pc EXCEPT ![g] = place]
    BY <1>2 DEF AfterReopen
  <2> QED BY <2>1 DEF Types, Reopening
<1> QED BY <1>1, <1>2

\* A step that hands no envelope on loses some, or none: frames with their
\* connection, and what a cancelled node holds.
LEMMA LoseStep ==
  ASSUME Types, StatusRead, StatusRead', arrivals' = arrivals,
         cancelled => cancelled', cancelled' \in BOOLEAN,
         \A e \in Envelopes :
           /\ pc'[e] = "idle" <=> pc[e] = "idle"
           /\ InFlight(e)' => InFlight(e)
           /\ Kept(e)' => Kept(e)
           /\ Kept(e) => Kept(e)' \/ cancelled'
  PROVE  Transfer!Next
<1> DEFINE S == {e \in Envelopes : status[e] # status'[e]}
           Stopping == IF cancelled THEN Envelopes ELSE {}
<1>1. ASSUME NEW e \in Envelopes, status'[e] # status[e]
      PROVE  /\ status'[e] = "lost"
             /\ status[e] = "flying" \/ (status[e] = "held" /\ cancelled')
  <2>1. status[e] \in Transfer!Status /\ status'[e] \in Transfer!Status
    BY DEF StatusRead
  <2>2. /\ status'[e] = "arrived" <=> status[e] = "arrived"
        /\ status'[e] = "new" <=> status[e] = "new"
        /\ status'[e] = "flying" => status[e] = "flying"
        /\ status'[e] = "held" => status[e] = "held"
        /\ status[e] = "held" => status'[e] = "held" \/ cancelled'
    BY DEF StatusRead
  <2> QED BY <1>1, <2>1, <2>2 DEF Transfer!Status
<1>2. S \in SUBSET (Transfer!In("flying") \cup (Transfer!In("held") \cap Stopping'))
  BY <1>1 DEF Transfer!In
<1>3. Transfer!Become(S, "lost")
  <2>1. status' = [e \in Envelopes |-> status'[e]]
    BY DEF status
  <2>2. \A e \in Envelopes : status'[e] = IF e \in S THEN "lost" ELSE status[e]
    BY <1>1
  <2> HIDE DEF S
  <2> QED BY <2>1, <2>2 DEF Transfer!Become
<1>4. Stopping \subseteq Stopping' /\ Stopping' \subseteq Envelopes
  OBVIOUS
<1>5. Transfer!Lose
  <2> HIDE DEF S
  <2> QED BY <1>2, <1>3, <1>4 DEF Transfer!Lose
<1> QED BY <1>5 DEF Transfer!Next

\* A step of one envelope.
LEMMA OneMoves ==
  ASSUME StatusRead, StatusRead', NEW e \in Envelopes, NEW place,
         status'[e] = place,
         \A f \in Envelopes \ {e} :
           /\ arrivals'[f] = arrivals[f]
           /\ pc'[f] = "idle" <=> pc[f] = "idle"
           /\ InFlight(f)' <=> InFlight(f)
           /\ Kept(f)' <=> Kept(f)
  PROVE  Transfer!Become({e}, place)
<1>1. ASSUME NEW f \in Envelopes \ {e} PROVE status'[f] = status[f]
  <2>1. status[f] \in Transfer!Status /\ status'[f] \in Transfer!Status
    BY DEF StatusRead
  <2>2. /\ status'[f] = "arrived" <=> status[f] = "arrived"
        /\ status'[f] = "new" <=> status[f] = "new"
        /\ status'[f] = "flying" <=> status[f] = "flying"
        /\ status'[f] = "held" <=> status[f] = "held"
    BY DEF StatusRead
  <2> QED BY <2>1, <2>2 DEF Transfer!Status
<1>2. status' = [f \in Envelopes |-> status'[f]]
  BY DEF status
<1> QED BY <1>1, <1>2 DEF Transfer!Become

LEMMA IdleBatchStep ==
  TypeInv /\ LinkInv /\ IdleBatch /\ [Next]_vars => IdleBatch'
<1> SUFFICES ASSUME TypeInv, LinkInv, IdleBatch, [Next]_vars PROVE IdleBatch'
  OBVIOUS
<1> USE Names
<1>t. Types /\ StartOK
  BY DEF TypeInv, LinkInv
<1>1. ASSUME NEW p \in Senders, SendFrame(p) \/ Queue(p) PROVE IdleBatch'
  <2>1. /\ batch' = Rest(p)
        /\ pc' = [pc EXCEPT ![p] = IF p = Retrier THEN "pace" ELSE "done"]
    BY <1>1 DEF SendFrame, Queue, Goto
  <2> QED BY <1>t, <2>1 DEF IdleBatch, Rest, Types
<1>2. ASSUME batch' = batch, pc'[Retrier] \in {"off", "idle"} => pc[Retrier] \in {"off", "idle"}
      PROVE  IdleBatch'
  BY <1>2 DEF IdleBatch
<1>3. ASSUME NEW g \in Goroutines, DialError(g) \/ Install(g) PROVE IdleBatch'
  <2>1. /\ pc[g] \in Reopening /\ batch' = batch
        /\ \E opened \in BOOLEAN : AfterReopen(g, opened)
    BY <1>3 DEF DialError, Install, Reopening, nodeVars
  <2>2. PICK opened \in BOOLEAN : AfterReopen(g, opened)
    BY <2>1
  <2>3. CASE g = Retrier
    <3>1. pc'[g] \in {"get", "queue"}
      BY <1>t, <2>2, <2>3 DEF AfterReopen, Types
    <3> QED BY <1>2, <2>1, <2>3, <3>1
  <2>4. CASE g # Retrier
    <3>1. pc'[Retrier] = pc[Retrier] \/ pc[Retrier] = "off"
      BY <1>t, <2>1, <2>2, <2>4, OthersAfterReopen DEF Reopening
    <3> QED BY <1>2, <2>1, <3>1
  <2> QED BY <2>3, <2>4
<1>4. ASSUME NEW e \in Envelopes, Submit(e) PROVE IdleBatch'
  BY <1>t, <1>2, <1>4 DEF Submit, Goto, Types, nodeVars
<1>5. ASSUME NEW p \in Senders, LockAndRead(p) \/ Get(p) \/ SendError(p)
      PROVE  IdleBatch'
  BY <1>t, <1>2, <1>5 DEF LockAndRead, Get, SendError, Goto, Types, nodeVars
<1>6. ASSUME NEW g \in Goroutines, NEW s \in Streams, Dial(g, s) PROVE IdleBatch'
  BY <1>t, <1>2, <1>6 DEF Dial, Goto, Types, nodeVars
<1>7. ASSUME RetryTick \/ Pace \/ RetryExit PROVE IdleBatch'
  BY <1>t, <1>7 DEF RetryTick, Pace, RetryExit, Goto, Types, IdleBatch, nodeVars
<1>8. ASSUME LoopTick \/ LoopExit PROVE IdleBatch'
  BY <1>t, <1>2, <1>8 DEF LoopTick, LoopExit, Goto, Types, nodeVars
<1>9. ASSUME UNCHANGED <<pc, batch>> PROVE IdleBatch'
  BY <1>2, <1>9
<1>10. ASSUME NEW s \in Streams, ParentStep(s) \/ DropConn(s) \/ NoticeEnd(s)
       PROVE  IdleBatch'
  BY <1>9, <1>10 DEF ParentStep, Authorize, Receive, ServerNotice, DropConn, NoticeEnd,
     nodeVars
<1>11. ASSUME Close \/ Cancel \/ Reach \/ Approval \/ UNCHANGED vars PROVE IdleBatch'
  BY <1>9, <1>11 DEF Close, Cancel, Reach, Approval, vars, nodeVars
<1> QED
  BY <1>1, <1>3, <1>4, <1>5, <1>6, <1>7, <1>8, <1>10, <1>11
     DEF Next, SenderStep, Reopen, Loops, Environment

LEMMA TransferStep ==
  /\ TypeInv /\ LinkInv /\ OnePlace /\ IdleBatch /\ StatusRead /\ [Next]_vars
  /\ TypeInv' /\ OnePlace' /\ StatusRead'
  => Transfer!Next
<1> SUFFICES ASSUME TypeInv, LinkInv, OnePlace, IdleBatch, StatusRead, [Next]_vars,
                    TypeInv', OnePlace', StatusRead'
             PROVE  Transfer!Next
  OBVIOUS
<1> USE Names
<1>t. Types /\ BatchOK /\ Types' /\ StartOK
  BY DEF TypeInv, LinkInv
<1>e. ASSUME NEW e \in Envelopes PROVE e # Retrier /\ e \in Goroutines
  BY <1>e
\* Steps that leave every envelope with its goroutine, queue and batch.
<1>q. ASSUME UNCHANGED <<pending, batch, arrivals>>, cancelled => cancelled',
             \A e \in Envelopes :
               /\ pc'[e] = "idle" <=> pc[e] = "idle"
               /\ pc'[e] \in {"idle", "done"} <=> pc[e] \in {"idle", "done"},
             \A s \in Streams : wire'[s] = <<>> \/ wire'[s] = wire[s]
      PROVE  Transfer!Next
  <2>1. \A e \in Envelopes : InFlight(e)' => InFlight(e)
    BY <1>q, EmptyElements DEF InFlight
  <2>2. \A e \in Envelopes : Kept(e)' <=> Kept(e)
    BY <1>q DEF Kept
  <2>3. cancelled' \in BOOLEAN
    BY <1>t DEF Types
  <2> QED BY <1>t, <1>q, <2>1, <2>2, <2>3, LoseStep
<1>1. ASSUME NEW e \in Envelopes, Submit(e) PROVE Transfer!Next
  <2>1. /\ pc[e] = "idle" /\ pc'[e] = "lock"
        /\ \A f \in Envelopes \ {e} : pc'[f] = pc[f]
        /\ UNCHANGED <<pending, batch, cancelled, wire, arrivals>>
    BY <1>t, <1>1 DEF Submit, Goto, Types, nodeVars, netVars
  <2>2. Kept(e)' /\ \A f \in Envelopes \ {e} : Kept(f)' <=> Kept(f)
    BY <2>1 DEF Kept
  <2>3. \A f \in Envelopes : InFlight(f)' <=> InFlight(f)
    BY <2>1 DEF InFlight
  <2>4. status[e] = "new" /\ status'[e] = "held"
    BY <2>1, <2>2 DEF StatusRead
  <2>5. Transfer!Become({e}, "held")
    BY <2>1, <2>2, <2>3, <2>4, OneMoves
  <2>6. Transfer!Accept(e)
    BY <2>1, <2>4, <2>5 DEF Transfer!Accept
  <2> QED BY <2>6 DEF Transfer!Next
<1>2. ASSUME NEW p \in Senders, LockAndRead(p) \/ Get(p) \/ SendError(p)
      PROVE  Transfer!Next
  <2>1. /\ \E place : place \notin {"idle", "done"} /\ pc' = [pc EXCEPT ![p] = place]
        /\ pc[p] \notin {"idle", "done"}
    BY <1>2 DEF LockAndRead, Get, SendError, Goto
  <2>2. \A e \in Envelopes :
          /\ pc'[e] = "idle" <=> pc[e] = "idle"
          /\ pc'[e] \in {"idle", "done"} <=> pc[e] \in {"idle", "done"}
    BY <1>t, <1>e, <2>1 DEF Types
  <2>3. UNCHANGED <<pending, batch, cancelled, wire, arrivals>>
    BY <1>2 DEF LockAndRead, Get, SendError, nodeVars, netVars
  <2> QED BY <1>q, <2>2, <2>3
\* A sender is done with its envelope, which is then not with it.
<1>c. ASSUME NEW p \in Senders, pc[p] \in Carrying, batch' = Rest(p),
             Goto(p, IF p = Retrier THEN "pace" ELSE "done")
      PROVE  LET e == Cargo(p) IN
             /\ e \in Envelopes /\ Kept(e)
             /\ pc'[e] = "done" /\ e \notin Range(batch') /\ e \notin Range(pending)
             /\ \A f \in Envelopes \ {e} :
                  /\ pc'[f] = pc[f]
                  /\ f \in Range(batch') <=> f \in Range(batch)
  <2>1. CASE p = Retrier
    <3>1. batch \in Seq(Envelopes) /\ batch # <<>> /\ IsInjective(batch)
      BY <1>t, <1>c, <2>1 DEF Types, BatchOK, OnePlace, QueuedOK
    <3>2. Cargo(p) = Head(batch) /\ batch' = Tail(batch)
      BY <1>c, <2>1 DEF Cargo, Rest
    <3>3. \A f \in Envelopes \ {Head(batch)} :
            f \in Range(Tail(batch)) <=> f \in Range(batch)
      BY <3>1, HeadAndTail
    <3>4. \A f \in Envelopes : pc'[f] = pc[f]
      BY <1>t, <1>c, <1>e, <2>1 DEF Goto, Types
    <3>5. Head(batch) \in Envelopes /\ Head(batch) \in Range(batch)
          /\ Head(batch) \notin Range(Tail(batch))
      BY <3>1, TailElements
    <3>6. pc[Head(batch)] = "done" /\ Head(batch) \notin Range(pending)
      BY <3>5 DEF OnePlace, ForwardedOK, QueuedOK
    <3> QED BY <3>2, <3>3, <3>4, <3>5, <3>6 DEF Kept
  <2>2. CASE p # Retrier
    <3>1. p \in Envelopes /\ Cargo(p) = p /\ batch' = batch /\ pc[p] \notin {"idle", "done"}
      BY <1>c, <2>2 DEF Cargo, Rest, Carrying
    <3>2. pc'[p] = "done" /\ \A f \in Envelopes \ {p} : pc'[f] = pc[f]
      BY <1>t, <1>c, <2>2, <3>1 DEF Goto, Types
    <3>3. p \notin Range(pending) /\ p \notin Range(batch)
      BY <3>1 DEF OnePlace, ForwardedOK
    <3> QED BY <3>1, <3>2, <3>3 DEF Kept
  <2> QED BY <2>1, <2>2
<1>3. ASSUME NEW p \in Senders, SendFrame(p) PROVE Transfer!Next
  <2>0. PICK e, s : e = Cargo(p) /\ s = held[p]
    OBVIOUS
  <2>1. /\ pc[p] \in Carrying /\ batch' = Rest(p)
        /\ Goto(p, IF p = Retrier THEN "pace" ELSE "done")
        /\ UNCHANGED <<pending, cancelled, arrivals>>
        /\ s \in Streams
        /\ wire' = [wire EXCEPT ![s] = Append(@, e)]
    BY <1>t, <1>3, <2>0 DEF SendFrame, Carrying, Types
  <2>2. /\ e \in Envelopes /\ Kept(e)
        /\ pc'[e] = "done" /\ e \notin Range(batch') /\ e \notin Range(pending)
        /\ \A f \in Envelopes \ {e} :
             /\ pc'[f] = pc[f]
             /\ f \in Range(batch') <=> f \in Range(batch)
    BY <1>c, <2>0, <2>1
  <2>3. /\ Range(wire'[s]) = Range(wire[s]) \cup {e}
        /\ \A t \in Streams \ {s} : wire'[t] = wire[t]
    BY <1>t, <2>1, <2>2, AppendElements DEF Types
  <2>4. InFlight(e)' /\ \A f \in Envelopes \ {e} : InFlight(f)' <=> InFlight(f)
    BY <2>1, <2>3 DEF InFlight
  <2>5. \A f \in Envelopes \ {e} : Kept(f)' <=> Kept(f)
    BY <2>1, <2>2 DEF Kept
  <2>6. status[e] = "held" /\ status'[e] = "flying"
    BY <2>2, <2>4 DEF StatusRead
  <2>7. Transfer!Become({e}, "flying")
    BY <2>1, <2>2, <2>4, <2>5, <2>6, OneMoves
  <2>8. Transfer!Emit(e)
    BY <2>1, <2>2, <2>6, <2>7 DEF Transfer!Emit
  <2> QED BY <2>2, <2>8 DEF Transfer!Next
<1>4. ASSUME NEW p \in Senders, Queue(p) PROVE Transfer!Next
  <2> DEFINE e == Cargo(p)
  <2>1. /\ pc[p] \in Carrying /\ batch' = Rest(p)
        /\ Goto(p, IF p = Retrier THEN "pace" ELSE "done")
        /\ pending' = Append(pending, e)
        /\ UNCHANGED <<cancelled, wire, arrivals>>
    BY <1>4 DEF Queue, Carrying, netVars
  <2>2. /\ e \in Envelopes /\ Kept(e)
        /\ pc'[e] = "done" /\ e \notin Range(batch') /\ e \notin Range(pending)
        /\ \A f \in Envelopes \ {e} :
             /\ pc'[f] = pc[f]
             /\ f \in Range(batch') <=> f \in Range(batch)
    BY <1>c, <2>1
  <2>3. Range(pending') = Range(pending) \cup {e}
    BY <1>t, <2>1, <2>2, AppendElements DEF Types
  <2> HIDE DEF e
  <2>4. \A f \in Envelopes : Kept(f)' <=> Kept(f)
    BY <2>2, <2>3 DEF Kept
  <2>5. \A f \in Envelopes : InFlight(f)' <=> InFlight(f)
    BY <2>1 DEF InFlight
  <2>6. pc[e] # "idle"
    BY <2>2 DEF StatusRead
  <2> QED BY <1>t, <2>1, <2>2, <2>4, <2>5, <2>6, LoseStep DEF Types
<1>5. ASSUME NEW g \in Goroutines, NEW s \in Streams, Dial(g, s) PROVE Transfer!Next
  <2>1. /\ \E place : place \notin {"idle", "done"} /\ pc' = [pc EXCEPT ![g] = place]
        /\ pc[g] \notin {"idle", "done"}
        /\ UNCHANGED <<pending, batch, cancelled, wire, arrivals>>
    BY <1>5 DEF Dial, Goto, nodeVars
  <2> QED BY <1>t, <1>e, <1>q, <2>1 DEF Types
<1>6. ASSUME NEW g \in Goroutines, DialError(g) \/ Install(g) PROVE Transfer!Next
  <2>1. /\ pc[g] \in Reopening /\ UNCHANGED <<pending, batch, cancelled, arrivals>>
        /\ \E opened \in BOOLEAN : AfterReopen(g, opened)
        /\ \A s \in Streams : wire'[s] = <<>> \/ wire'[s] = wire[s]
    BY <1>t, <1>6, BreakTypes DEF DialError, Install, Reopening, nodeVars, netVars
  <2>2. \A e \in Envelopes :
          /\ pc'[e] = "idle" <=> pc[e] = "idle"
          /\ pc'[e] \in {"idle", "done"} <=> pc[e] \in {"idle", "done"}
    BY <1>t, <2>1, EnvelopesAfterReopen
  <2> QED BY <1>q, <2>1, <2>2
<1>7. ASSUME RetryTick PROVE Transfer!Next
  <2>1. /\ batch' = pending /\ pending' = <<>> /\ batch = <<>>
        /\ UNCHANGED <<cancelled, wire, arrivals>>
        /\ \A e \in Envelopes : pc'[e] = pc[e]
    BY <1>t, <1>e, <1>7 DEF RetryTick, Undrained, Goto, Types, netVars, IdleBatch
  <2>2. \A e \in Envelopes : Kept(e)' <=> Kept(e)
    BY <2>1, EmptyElements DEF Kept
  <2>3. \A e \in Envelopes : InFlight(e)' <=> InFlight(e)
    BY <2>1 DEF InFlight
  <2> QED BY <1>t, <2>1, <2>2, <2>3, LoseStep DEF Types
<1>8. ASSUME Pace \/ LoopTick \/ LoopExit PROVE Transfer!Next
  <2>1. \A e \in Envelopes : pc'[e] = pc[e]
    <3>1. \A e \in Envelopes : e # Looper /\ e # Retrier
      BY NamesAssumption
    <3> QED BY <1>t, <1>8, <3>1 DEF Pace, LoopTick, LoopExit, Goto, Types
  <2>2. UNCHANGED <<pending, batch, cancelled, wire, arrivals>>
    BY <1>8 DEF Pace, LoopTick, LoopExit, nodeVars, netVars
  <2> QED BY <1>q, <2>1, <2>2
<1>9. ASSUME RetryExit PROVE Transfer!Next
  <2>1. /\ batch' = <<>> /\ cancelled /\ UNCHANGED <<pending, cancelled, wire, arrivals>>
        /\ \A e \in Envelopes : pc'[e] = pc[e]
    BY <1>t, <1>e, <1>9 DEF RetryExit, Goto, Types, netVars
  <2>2. \A e \in Envelopes : Kept(e)' => Kept(e)
    BY <2>1, EmptyElements DEF Kept
  <2>3. \A e \in Envelopes : InFlight(e)' <=> InFlight(e)
    BY <2>1 DEF InFlight
  <2> QED BY <1>t, <2>1, <2>2, <2>3, LoseStep DEF Types
<1>10. ASSUME Close \/ Cancel PROVE Transfer!Next
  <2>1. /\ \A s \in Streams : wire'[s] = <<>> \/ wire'[s] = wire[s]
        /\ UNCHANGED <<pc, pending, batch, arrivals>> /\ (cancelled => cancelled')
    BY <1>t, <1>10, BreakTypes DEF Close, Cancel, nodeVars
  <2> QED BY <1>q, <2>1
<1>11. ASSUME NEW s \in Streams, Authorize(s) \/ ServerNotice(s) \/ DropConn(s)
       PROVE  Transfer!Next
  <2>1. \A t \in Streams : wire'[t] = <<>> \/ wire'[t] = wire[t]
    BY <1>t, <1>11, EndHandlerTypes DEF Authorize, ServerNotice, DropConn
  <2>2. UNCHANGED <<pc, pending, batch, cancelled, arrivals>>
    BY <1>11 DEF Authorize, ServerNotice, DropConn, nodeVars
  <2> QED BY <1>q, <2>1, <2>2
<1>12. ASSUME NEW s \in Streams, NoticeEnd(s) PROVE Transfer!Next
  <2>1. /\ \A t \in Streams : wire'[t] = <<>> \/ wire'[t] = wire[t]
        /\ UNCHANGED <<pc, pending, batch, cancelled, arrivals>>
    BY <1>t, <1>12, BreakTypes DEF NoticeEnd, nodeVars
  <2> QED BY <1>q, <2>1
<1>13. ASSUME NEW s \in Streams, Receive(s) PROVE Transfer!Next
  <2> DEFINE e == Head(wire[s])
  <2>1. /\ e \in Envelopes /\ e \in Range(wire[s])
        /\ Range(Tail(wire[s])) \subseteq Range(wire[s])
        /\ \A f \in Envelopes \ {e} : f \in Range(Tail(wire[s])) <=> f \in Range(wire[s])
    <3>1. wire[s] \in Seq(Envelopes) /\ wire[s] # <<>>
      BY <1>t, <1>13 DEF Receive, Types
    <3> QED BY <3>1, TailElements, HeadAndTail
  <2>2. /\ wire'[s] = Tail(wire[s])
        /\ \A t \in Streams \ {s} : wire'[t] = wire[t]
        /\ arrivals'[e] = arrivals[e] + 1 /\ arrivals[e] \in Nat
        /\ \A d \in Envelopes \ {e} : arrivals'[d] = arrivals[d]
        /\ UNCHANGED <<pc, pending, batch, cancelled>>
    BY <1>t, <1>13, <2>1 DEF Receive, Types, nodeVars
  <2> HIDE DEF e
  <2>3. InFlight(e) /\ \A f \in Envelopes \ {e} : InFlight(f)' <=> InFlight(f)
    BY <2>1, <2>2 DEF InFlight
  <2>4. \A f \in Envelopes : Kept(f)' <=> Kept(f)
    BY <2>2 DEF Kept
  <2>5. status[e] = "flying" /\ status'[e] = "arrived"
    BY <2>1, <2>2, <2>3 DEF StatusRead
  <2>6. Transfer!Become({e}, "arrived")
    BY <2>1, <2>2, <2>3, <2>4, <2>5, OneMoves
  <2>7. Transfer!Arrive(e)
    BY <2>2, <2>5, <2>6 DEF Transfer!Arrive
  <2> QED BY <2>1, <2>7 DEF Transfer!Next
<1>14. ASSUME Reach \/ Approval \/ UNCHANGED vars PROVE Transfer!Next
  BY <1>14, <1>q DEF Reach, Approval, vars, nodeVars, netVars
<1> QED
  BY <1>1, <1>2, <1>3, <1>4, <1>5, <1>6, <1>7, <1>8, <1>9, <1>10, <1>11, <1>12,
     <1>13, <1>14
     DEF Next, SenderStep, Reopen, Loops, ParentStep, Environment

\* ImplementsTransfer: forwardUp, retryLoop and SendUpstream, over streams that
\* come and go, do with every envelope only what EnvelopeTransfer allows.
THEOREM HopTransfers == Spec => ImplementsTransfer
<1>1. TypeInv /\ OnePlace => StatusRead
  BY ReadingStatus DEF TypeInv
<1> QED BY <1>1, TypeInit, TypeStep, LinkInit, LinkStep, OnePlaceInit,
        OnePlaceStep, InitTransfer, IdleBatchStep, TransferStep, PTL
        DEF Spec, ImplementsTransfer, Transfer!Spec
=============================================================================
