-------------------------- MODULE ConfigTreeProofs --------------------------
(***************************************************************************)
(* Proofs about ConfigTree, for any tree, any sizes and any slow nodes.    *)
(***************************************************************************)
EXTENDS ConfigTree, SequenceTheorems, TLAPS

-----------------------------------------------------------------------------
(* The tree *)

\* A node is among its ancestors, its parent's are its own, and it has no
\* others.
LEMMA AboveBelow ==
  /\ \A n \in Nodes : n \in Above[n]
  /\ \A c \in Below : Above[c] = {c} \cup Above[Parent[c]]
  /\ \A a, b, n \in Nodes : a \in Above[b] /\ b \in Above[n] => a \in Above[n]
<1> DEFINE Closed(S) == \A c \in S \cap Below : Parent[c] \in S
<1>1. \A n \in Nodes : Above[n] =
        {a \in Nodes : \A S \in SUBSET Nodes : n \in S /\ Closed(S) => a \in S}
  BY DEF Above
<1>2. Below \subseteq Nodes /\ \A c \in Below : Parent[c] \in Nodes
  BY DEF Below, Nodes, Range
<1>3. \A n \in Nodes : n \in Above[n]
  BY <1>1
<1>4. \A n \in Nodes : Above[n] \in SUBSET Nodes /\ Closed(Above[n])
  <2> TAKE n \in Nodes
  <2>1. Above[n] \in SUBSET Nodes
    BY <1>1
  <2>2. ASSUME NEW c \in Above[n] \cap Below PROVE Parent[c] \in Above[n]
    <3>1. ASSUME NEW S \in SUBSET Nodes, n \in S, Closed(S) PROVE Parent[c] \in S
      <4>1. c \in S
        BY <1>1, <2>2, <3>1
      <4> QED BY <3>1, <4>1
    <3>2. Parent[c] \in Nodes
      BY <1>2
    <3> QED BY <1>1, <3>1, <3>2
  <2> QED BY <2>1, <2>2
<1>5. ASSUME NEW n \in Nodes, NEW S \in SUBSET Nodes, n \in S, Closed(S)
      PROVE  Above[n] \subseteq S
  BY <1>1, <1>5
<1> HIDE DEF Closed
<1>6. ASSUME NEW a \in Nodes, NEW b \in Nodes, NEW n \in Nodes,
             a \in Above[b], b \in Above[n]
      PROVE  a \in Above[n]
  BY <1>4, <1>5, <1>6
<1>7. ASSUME NEW c \in Below PROVE Above[c] = {c} \cup Above[Parent[c]]
  <2> DEFINE S == {c} \cup Above[Parent[c]]
  <2>1. Parent[c] \in Nodes /\ c \in Nodes
    BY <1>2
  <2>2. Parent[c] \in Above[Parent[c]] /\ c \in Above[c]
    BY <1>3, <2>1
  <2>3. S \in SUBSET Nodes
    BY <1>4, <2>1
  <2>4. Closed(S)
    BY <1>4, <2>1, <2>2 DEF Closed
  <2>5. Above[c] \subseteq S
    BY <1>5, <2>1, <2>3, <2>4
  <2>6. Parent[c] \in Above[c]
    BY <1>4, <2>1, <2>2 DEF Closed
  <2>7. Above[Parent[c]] \subseteq Above[c]
    BY <1>4, <1>5, <2>1, <2>6
  <2> QED BY <2>2, <2>5, <2>7
<1> QED BY <1>3, <1>6, <1>7

-----------------------------------------------------------------------------
(* Sequences of configs *)

\* Adding m at the end puts it after everything else.
LEMMA AppendBefore ==
  ASSUME NEW w \in Seq(Configs), NEW m \in Configs
  PROVE  /\ Append(w, m) \in Seq(Configs)
         /\ Range(Append(w, m)) = Range(w) \cup {m}
         /\ \A x, y : Before(Append(w, m), x, y) =>
              Before(w, x, y) \/ (x \in Range(w) /\ y = m)
         /\ \A x \in Range(w) : Before(Append(w, m), x, m)
         /\ \A x, y : Before(w, x, y) => Before(Append(w, m), x, y)
<1> DEFINE r == Append(w, m)
<1>1. /\ r \in Seq(Configs) /\ Len(w) \in Nat
      /\ DOMAIN w = 1 .. Len(w) /\ DOMAIN r = 1 .. Len(w) + 1
      /\ r[Len(w) + 1] = m /\ \A i \in DOMAIN w : r[i] = w[i]
  OBVIOUS
<1> HIDE DEF r
<1>2. Range(r) = Range(w) \cup {m}
  BY <1>1 DEF Range
<1>3. ASSUME NEW x, NEW y, Before(r, x, y)
      PROVE  Before(w, x, y) \/ (x \in Range(w) /\ y = m)
  <2>1. PICK i, j \in DOMAIN r : i < j /\ r[i] = x /\ r[j] = y
    BY <1>3 DEF Before
  <2>2. i \in DOMAIN w /\ x = w[i]
    BY <1>1, <2>1
  <2>3. CASE j \in DOMAIN w
    BY <1>1, <2>1, <2>2, <2>3 DEF Before
  <2>4. CASE j \notin DOMAIN w
    BY <1>1, <2>1, <2>2, <2>4 DEF Range
  <2> QED BY <2>3, <2>4
<1>4. ASSUME NEW x \in Range(w) PROVE Before(r, x, m)
  <2>1. PICK i \in DOMAIN w : w[i] = x
    BY DEF Range
  <2> QED BY <1>1, <2>1 DEF Before
<1>5. ASSUME NEW x, NEW y, Before(w, x, y) PROVE Before(r, x, y)
  BY <1>1, <1>5 DEF Before
<1> QED BY <1>1, <1>2, <1>3, <1>4, <1>5 DEF r

\* What is in s and then in q.
LEMMA ConcatBefore ==
  ASSUME NEW s \in Seq(Configs), NEW q \in Seq(Configs)
  PROVE  /\ s \o q \in Seq(Configs)
         /\ Range(s) \subseteq Range(s \o q)
         /\ \A x, y : Before(s, x, y) => Before(s \o q, x, y)
         /\ \A x \in Range(s), y \in Range(q) : Before(s \o q, x, y)
         /\ s \o <<>> = s
<1> DEFINE r == s \o q
<1>1. /\ r \in Seq(Configs) /\ Len(s) \in Nat /\ Len(q) \in Nat
      /\ DOMAIN s = 1 .. Len(s) /\ DOMAIN q = 1 .. Len(q)
      /\ DOMAIN r = 1 .. Len(s) + Len(q)
      /\ \A i \in DOMAIN s : r[i] = s[i]
      /\ \A i \in DOMAIN q : r[Len(s) + i] = q[i]
  BY ConcatProperties
<1>2. s \o <<>> = s
  BY ConcatEmptySeq
<1> HIDE DEF r
<1>3. Range(s) \subseteq Range(r)
  BY <1>1 DEF Range
<1>4. ASSUME NEW x, NEW y, Before(s, x, y) PROVE Before(r, x, y)
  BY <1>1, <1>4 DEF Before
<1>5. ASSUME NEW x \in Range(s), NEW y \in Range(q) PROVE Before(r, x, y)
  <2>1. PICK i \in DOMAIN s : s[i] = x
    BY DEF Range
  <2>2. PICK j \in DOMAIN q : q[j] = y
    BY DEF Range
  <2>3. i \in DOMAIN r /\ Len(s) + j \in DOMAIN r /\ i < Len(s) + j
    BY <1>1
  <2> QED BY <1>1, <2>1, <2>2, <2>3 DEF Before
<1> QED BY <1>1, <1>2, <1>3, <1>4, <1>5 DEF r

\* What is in q is also in what q is the end of.
LEMMA ConcatElements ==
  ASSUME NEW s \in Seq(Configs), NEW q \in Seq(Configs)
  PROVE  Range(q) \subseteq Range(s \o q)
<1> SUFFICES ASSUME NEW i \in DOMAIN q PROVE q[i] \in Range(s \o q)
  BY DEF Range
<1>1. /\ Len(s) + i \in DOMAIN (s \o q)
      /\ (s \o q)[Len(s) + i] = q[i]
  BY ConcatProperties
<1> QED BY <1>1 DEF Range

\* Moving the head of q to the end of s, or adding to q.
LEMMA ConcatMoves ==
  ASSUME NEW s \in Seq(Configs), NEW q \in Seq(Configs)
  PROVE  /\ q # <<>> => Append(s, Head(q)) \o Tail(q) = s \o q
         /\ \A m \in Configs : s \o Append(q, m) = Append(s \o q, m)
<1>1. ASSUME q # <<>> PROVE Append(s, Head(q)) \o Tail(q) = s \o q
  <2>1. /\ Head(q) \in Configs /\ Tail(q) \in Seq(Configs)
        /\ <<Head(q)>> \in Seq(Configs)
    BY <1>1
  <2>2. <<Head(q)>> \o Tail(q) = q
    BY <1>1, <2>1
  <2> QED BY <2>1, <2>2, AppendIsConcat, ConcatAssociative
<1>2. ASSUME NEW m \in Configs PROVE s \o Append(q, m) = Append(s \o q, m)
  <2>1. <<m>> \in Seq(Configs) /\ s \o q \in Seq(Configs)
    BY ConcatProperties
  <2>2. Append(q, m) = q \o <<m>> /\ Append(s \o q, m) = (s \o q) \o <<m>>
    BY <2>1, AppendIsConcat
  <2> QED BY <2>1, <2>2, ConcatAssociative
<1> QED BY <1>1, <1>2

\* The oldest of q are a prefix of it, after s as well.
LEMMA OldestPrefix ==
  ASSUME NEW q \in Seq(Configs), NEW k \in 0 .. Len(q)
  PROVE  /\ Oldest(q, k) \in Seq(Configs)
         /\ Len(Oldest(q, k)) = k
         /\ \A s \in Seq(Configs) :
              /\ Range(s \o Oldest(q, k)) \subseteq Range(s \o q)
              /\ \A x, y : Before(s \o Oldest(q, k), x, y) => Before(s \o q, x, y)
<1> DEFINE p == Oldest(q, k)
<1>1. p \in Seq(Configs) /\ Len(p) = k /\ \A i \in 1 .. k : p[i] = q[i]
  BY SubSeqProperties DEF Oldest
<1> HIDE DEF p
<1>2. ASSUME NEW s \in Seq(Configs)
      PROVE  \A i \in DOMAIN (s \o p) : i \in DOMAIN (s \o q) /\ (s \o p)[i] = (s \o q)[i]
  <2>0. Len(s) \in Nat /\ Len(q) \in Nat /\ k \in Nat /\ k <= Len(q)
    OBVIOUS
  <2>1. /\ DOMAIN (s \o p) = 1 .. Len(s) + k
        /\ DOMAIN (s \o q) = 1 .. Len(s) + Len(q)
    <3>1. s \o p \in Seq(Configs) /\ Len(s \o p) = Len(s) + k
      BY <1>1, ConcatProperties
    <3>2. s \o q \in Seq(Configs) /\ Len(s \o q) = Len(s) + Len(q)
      BY ConcatProperties
    <3> QED BY <3>1, <3>2, LenProperties
  <2>2. \A i \in 1 .. Len(s) + k :
          (s \o p)[i] = IF i <= Len(s) THEN s[i] ELSE p[i - Len(s)]
    BY <1>1, ConcatProperties
  <2>3. \A i \in 1 .. Len(s) + Len(q) :
          (s \o q)[i] = IF i <= Len(s) THEN s[i] ELSE q[i - Len(s)]
    BY ConcatProperties
  <2> QED BY <1>1, <2>0, <2>1, <2>2, <2>3
<1>3. ASSUME NEW s \in Seq(Configs) PROVE Range(s \o p) \subseteq Range(s \o q)
  BY <1>2 DEF Range
<1>4. ASSUME NEW s \in Seq(Configs), NEW x, NEW y, Before(s \o p, x, y)
      PROVE  Before(s \o q, x, y)
  BY <1>2, <1>4 DEF Before
<1> QED BY <1>1, <1>3, <1>4 DEF p

-----------------------------------------------------------------------------
(* Type correctness *)

\* What is lost with a connection are the newest of the frames.
LEMMA DisconnectedQueues ==
  ASSUME TypeOK, NEW kept, Disconnected(kept),
         \A c \in DOMAIN kept : kept[c] \in 0 .. BufSize
  PROVE  /\ queue' \in [Below -> Seq(Configs)]
         /\ \A c \in Below :
              /\ \E k \in 0 .. Len(queue[c]) : queue'[c] = Oldest(queue[c], k)
              /\ Len(queue'[c]) <= BufSize
              /\ c \notin DOMAIN kept => queue'[c] = queue[c]
<1>1. \A c \in Below : queue[c] \in Seq(Configs) /\ Len(queue[c]) <= BufSize
  BY DEF TypeOK
<1>2. \A c \in Below : Oldest(queue[c], Len(queue[c])) = queue[c]
  BY <1>1, SubSeqFull DEF Oldest
<1>3. ASSUME NEW c \in Below
      PROVE  /\ \E k \in 0 .. Len(queue[c]) : queue'[c] = Oldest(queue[c], k)
             /\ c \notin DOMAIN kept => queue'[c] = queue[c]
  <2>1. CASE c \in DOMAIN kept
    <3>1. kept[c] \in 0 .. Len(queue[c])
      BY <1>1, <2>1, TreeAssumption DEF Disconnected
    <3> QED BY <2>1, <3>1 DEF Disconnected
  <2>2. CASE c \notin DOMAIN kept
    <3>1. queue'[c] = queue[c] /\ Len(queue[c]) \in 0 .. Len(queue[c])
      BY <1>1, <2>2 DEF Disconnected
    <3> QED BY <1>2, <3>1, <2>2
  <2> QED BY <2>1, <2>2
<1>4. \A c \in Below : queue'[c] \in Seq(Configs) /\ Len(queue'[c]) <= BufSize
  <2> TAKE c \in Below
  <2>1. PICK k \in 0 .. Len(queue[c]) : queue'[c] = Oldest(queue[c], k)
    BY <1>3
  <2>2. Oldest(queue[c], k) \in Seq(Configs) /\ Len(Oldest(queue[c], k)) = k
    BY <1>1, OldestPrefix
  <2> QED BY <1>1, <2>1, <2>2, TreeAssumption
<1>5. queue' = [c \in Below |-> queue'[c]]
  BY DEF Disconnected
<1> QED BY <1>3, <1>4, <1>5

\* A send keeps the types of the links.
LEMMA EnqueueType ==
  ASSUME TypeOK, NEW S, NEW m \in Configs, Enqueue(S, m)
  PROVE  /\ queue' \in [Below -> Seq(Configs)]
         /\ \A c \in Below : Len(queue'[c]) <= BufSize
         /\ \A c \in Below :
              queue'[c] = queue[c] \/ (c \in S /\ queue'[c] = Append(queue[c], m))
BY TreeAssumption DEF TypeOK, Enqueue, HasRoom

\* Every step keeps the types.
LEMMA NextType == TypeOK /\ [Next]_vars => TypeOK'
<1> SUFFICES ASSUME TypeOK, [Next]_vars PROVE TypeOK'
  OBVIOUS
<1>0. \A c \in Below : c \in Nodes /\ Parent[c] \in Nodes
  BY DEF Nodes, Below, Range
<1>1. ASSUME NEW n \in Nodes, PushToAll(n) PROVE TypeOK'
  <2>1. [n |-> pushes + 1, by |-> n, for |-> n] \in Configs /\ pushes + 1 \in 0 .. MaxPushes
    BY <1>1, TreeAssumption DEF TypeOK, PushToAll, Configs
  <2> QED BY <1>1, <2>1, EnqueueType DEF TypeOK, PushToAll, Broadcast
<1>2. ASSUME NEW c \in Below, PushToChild(c) PROVE TypeOK'
  <2>1. /\ [n |-> pushes + 1, by |-> Parent[c], for |-> c] \in Configs
        /\ pushes + 1 \in 0 .. MaxPushes
    BY <1>0, <1>2, TreeAssumption DEF TypeOK, PushToChild, Configs
  <2> QED BY <1>2, <2>1, EnqueueType DEF TypeOK, PushToChild
<1>3. ASSUME NEW c \in Below, Receive(c) PROVE TypeOK'
  <2>1. /\ Head(queue[c]) \in Configs
        /\ Tail(queue[c]) \in Seq(Configs) /\ Len(Tail(queue[c])) <= BufSize
    BY <1>3, TreeAssumption DEF TypeOK, Receive
  <2>2. /\ queue' \in [Below -> Seq(Configs)]
        /\ \A d \in Below : Len(queue'[d]) <= BufSize
    BY <1>3, <2>1 DEF TypeOK, Receive
  <2>3. /\ work' \in [Below -> Seq(Configs)]
        /\ \A d \in Below : Len(work'[d]) <= 1
    BY <1>3, <2>1 DEF TypeOK, Receive
  <2>4. applied' \in [Below -> Seq(Configs)]
    <3>1. Handled(c) \in Seq(Configs)
      BY <2>1 DEF TypeOK, Handled
    <3> QED BY <1>3, <3>1 DEF TypeOK, Receive
  <2> QED BY <1>3, <2>2, <2>3, <2>4 DEF TypeOK, Receive
<1>4. ASSUME NEW c \in Below, Relay(c) PROVE TypeOK'
  <2>1. Head(work[c]) \in Configs
    BY <1>4 DEF TypeOK, Relay
  <2>2. /\ queue' \in [Below -> Seq(Configs)]
        /\ \A d \in Below : Len(queue'[d]) <= BufSize
    BY <1>4, <2>1, EnqueueType DEF Relay, Broadcast
  <2>3. /\ work' \in [Below -> Seq(Configs)]
        /\ \A d \in Below : Len(work'[d]) <= 1
    BY <1>4 DEF TypeOK, Relay
  <2> QED BY <1>4, <2>2, <2>3 DEF TypeOK, Relay
<1>5. ASSUME NEW c \in Below, Connect(c) PROVE TypeOK'
  BY <1>5, TreeAssumption DEF TypeOK, Connect
<1>6. ASSUME NEW c \in Below, Disconnect(c) PROVE TypeOK'
  <2>1. PICK kept \in [{c} -> 0 .. BufSize] : Disconnected(kept)
    BY <1>6 DEF Disconnect
  <2> QED BY <1>6, <2>1, DisconnectedQueues DEF TypeOK, Disconnect, Disconnected
<1>7. ASSUME NEW n \in Nodes, Restart(n) PROVE TypeOK'
  <2>1. PICK kept \in [(Children(n) \cap connected) \cup {n} -> 0 .. BufSize] :
          Disconnected(kept)
    BY <1>7 DEF Restart
  <2>2. queue' \in [Below -> Seq(Configs)] /\ \A c \in Below : Len(queue'[c]) <= BufSize
    BY <2>1, DisconnectedQueues
  <2>3. work' \in [Below -> Seq(Configs)] /\ \A c \in Below : Len(work'[c]) <= 1
    BY <1>7 DEF TypeOK, Restart
  <2> QED BY <1>7, <2>1, <2>2, <2>3 DEF TypeOK, Restart, Disconnected
<1>8. CASE UNCHANGED vars
  BY <1>8 DEF TypeOK, vars
<1> QED BY <1>1, <1>2, <1>3, <1>4, <1>5, <1>6, <1>7, <1>8 DEF Next

\* TypeOK, for all trees: no link ever holds more than it has room for.
THEOREM TypeCorrect == Spec => []TypeOK
<1>1. Init => TypeOK
  BY TreeAssumption DEF Init, TypeOK
<1> QED BY <1>1, NextType, PTL DEF Spec

-----------------------------------------------------------------------------
(* The inductive invariant *)

\* What has come to a node, in order: applied or still under way.
Way(c) == applied[c] \o queue[c]

\* A config comes from the node it was pushed at down to a node, and is for the
\* part of the tree that it has come to.
CameDown ==
  \A c \in Below : \A m \in Range(Way(c)) :
    m.n <= pushes /\ m.for \in Above[c] /\ m.by \in Above[Parent[c]]

\* Every node between the one a config was pushed at and one it has come to has
\* applied it and is done with it.
PassedOn ==
  \A c, n \in Below : \A m \in Range(Way(c)) :
    n \in Above[Parent[c]] /\ m.by \in Above[Parent[n]] =>
      m \in Range(applied[n]) /\ m \notin Range(work[n])

\* What recvLoop is about to broadcast is what was applied last.
WorkIsLast ==
  \A c \in Below : work[c] # <<>> =>
    \E w \in Seq(Configs), m \in Configs :
      applied[c] = Append(w, m) /\ work[c] = <<m>>

\* Nodes agree on the order even of what is still under way to them.
WaysAgree ==
  \A c, d \in Below : \A x, y : Before(Way(c), x, y) => ~Before(Way(d), y, x)

TreeInv ==
  /\ TypeOK
  /\ CameDown
  /\ PassedOn
  /\ WorkIsLast
  /\ WaysAgree

\* Both ends of Before are elements.
LEMMA BeforeRange ==
  ASSUME NEW s, NEW x, NEW y, Before(s, x, y)
  PROVE  x \in Range(s) /\ y \in Range(s)
BY DEF Before, Range

\* Frames and envelopes that are lost leave everything true of the others.
LEMMA LoseTree ==
  ASSUME TreeInv, TypeOK', UNCHANGED <<applied, pushes>>,
         \A c \in Below :
           /\ \E k \in 0 .. Len(queue[c]) : queue'[c] = Oldest(queue[c], k)
           /\ work'[c] = work[c] \/ work'[c] = <<>>
  PROVE  TreeInv'
<1>1. \A c \in Below : applied[c] \in Seq(Configs) /\ queue[c] \in Seq(Configs)
  BY DEF TreeInv, TypeOK
<1>2. \A c \in Below :
        /\ Range(Way(c)') \subseteq Range(Way(c))
        /\ \A x, y : Before(Way(c)', x, y) => Before(Way(c), x, y)
  <2> TAKE c \in Below
  <2>1. PICK k \in 0 .. Len(queue[c]) : queue'[c] = Oldest(queue[c], k)
    OBVIOUS
  <2> QED BY <1>1, <2>1, OldestPrefix DEF Way
<1>3. \A c \in Below : Range(work'[c]) \subseteq Range(work[c])
  BY DEF Range
<1>4. CameDown'
  BY <1>2 DEF TreeInv, CameDown
<1>5. PassedOn'
  BY <1>2, <1>3 DEF TreeInv, PassedOn
<1>6. WorkIsLast'
  BY DEF TreeInv, WorkIsLast
<1>7. WaysAgree'
  BY <1>2 DEF TreeInv, WaysAgree
<1> QED BY <1>4, <1>5, <1>6, <1>7 DEF TreeInv


\* A node p sends m to some of its children, and it is new to them; and nobody
\* has m before something that one of these children has already.
LEMMA SendTree ==
  ASSUME TreeInv, TypeOK', NEW p \in Nodes, NEW S \in SUBSET Children(p),
         NEW m \in Configs, Enqueue(S, m), UNCHANGED applied,
         pushes <= pushes', m.n <= pushes',
         m.by \in Above[p], \A c \in S : m.for \in Above[c],
         \A c \in Below : work'[c] = work[c] \/ work'[c] = <<>>,
         \A n \in Below : n \in Above[p] /\ m.by \in Above[Parent[n]] =>
           m \in Range(applied[n]) /\ m \notin Range(work'[n]),
         \A c \in S : m \notin Range(Way(c)),
         \A c \in S : \A d \in Below : \A y \in Range(Way(c)) :
           ~Before(Way(d), m, y)
  PROVE  TreeInv'
<1>1. \A c \in Below : /\ applied[c] \in Seq(Configs) /\ queue[c] \in Seq(Configs)
                       /\ Way(c) \in Seq(Configs)
  BY ConcatBefore DEF TreeInv, TypeOK, Way
<1>2. \A c \in Below : Way(c)' = Way(c) \/ (c \in S /\ Way(c)' = Append(Way(c), m))
  <2> TAKE c \in Below
  <2>1. queue'[c] = queue[c] \/ (c \in S /\ queue'[c] = Append(queue[c], m))
    BY EnqueueType DEF TreeInv
  <2>2. CASE queue'[c] = queue[c]
    BY <2>2 DEF Way
  <2>3. CASE c \in S /\ queue'[c] = Append(queue[c], m)
    <3>1. applied[c] \o Append(queue[c], m) = Append(applied[c] \o queue[c], m)
      BY <1>1, ConcatMoves
    <3> QED BY <2>3, <3>1 DEF Way
  <2> QED BY <2>1, <2>2, <2>3
<1>3. \A c \in Below : \A x \in Range(Way(c)') : x \in Range(Way(c)) \/ (c \in S /\ x = m)
  <2> TAKE c \in Below
  <2>1. Range(Append(Way(c), m)) = Range(Way(c)) \cup {m}
    BY <1>1, AppendBefore
  <2>2. CASE Way(c)' = Way(c)
    BY <2>2
  <2>3. CASE c \in S /\ Way(c)' = Append(Way(c), m)
    BY <2>1, <2>3
  <2> QED BY <1>2, <2>2, <2>3
<1>4. \A c \in Below : \A x, y : Before(Way(c)', x, y) =>
        \/ Before(Way(c), x, y)
        \/ c \in S /\ x \in Range(Way(c)) /\ y = m
  <2> TAKE c \in Below
  <2>1. \A x, y : Before(Append(Way(c), m), x, y) =>
          Before(Way(c), x, y) \/ (x \in Range(Way(c)) /\ y = m)
    BY <1>1, AppendBefore
  <2>2. CASE Way(c)' = Way(c)
    BY <2>2
  <2>3. CASE c \in S /\ Way(c)' = Append(Way(c), m)
    BY <2>1, <2>3
  <2> QED BY <1>2, <2>2, <2>3
<1>5. \A c \in S : c \in Below /\ Parent[c] = p
  BY DEF Children
<1>6. CameDown'
  <2> SUFFICES ASSUME NEW c \in Below, NEW x \in Range(Way(c)')
               PROVE  x.n <= pushes' /\ x.for \in Above[c] /\ x.by \in Above[Parent[c]]
    BY DEF CameDown
  <2>1. CASE x \in Range(Way(c))
    <3>1. x \in Configs
      <4>1. Way(c) \in Seq(Configs)
        BY <1>1
      <4> QED BY <2>1, <4>1 DEF Range
    <3>2. x.n <= pushes /\ x.for \in Above[c] /\ x.by \in Above[Parent[c]]
      BY <2>1 DEF TreeInv, CameDown
    <3>3. x.n \in Int /\ pushes \in Int /\ pushes' \in Int
      BY <3>1, TreeAssumption DEF TreeInv, TypeOK, Configs
    <3> QED BY <3>2, <3>3
  <2>2. CASE c \in S /\ x = m
    BY <1>5, <2>2
  <2> QED BY <1>3, <2>1, <2>2
<1>7. PassedOn'
  <2> SUFFICES ASSUME NEW c \in Below, NEW n \in Below, NEW x \in Range(Way(c)'),
                      n \in Above[Parent[c]], x.by \in Above[Parent[n]]
               PROVE  x \in Range(applied[n]) /\ x \notin Range(work'[n])
    BY DEF PassedOn
  <2>1. CASE x \in Range(Way(c))
    <3>1. x \in Range(applied[n]) /\ x \notin Range(work[n])
      BY <2>1 DEF TreeInv, PassedOn
    <3> QED BY <3>1 DEF Range
  <2>2. CASE c \in S /\ x = m
    BY <1>5, <2>2
  <2> QED BY <1>3, <2>1, <2>2
<1>8. WorkIsLast'
  BY DEF TreeInv, WorkIsLast
<1>9. WaysAgree'
  <2> SUFFICES ASSUME NEW c \in Below, NEW d \in Below, NEW x, NEW y,
                      Before(Way(c)', x, y), Before(Way(d)', y, x)
               PROVE  FALSE
    BY DEF WaysAgree
  <2>1. CASE Before(Way(c), x, y) /\ Before(Way(d), y, x)
    BY <2>1 DEF TreeInv, WaysAgree
  <2>2. CASE Before(Way(c), x, y) /\ d \in S /\ y \in Range(Way(d)) /\ x = m
    BY <2>2
  <2>3. CASE Before(Way(d), y, x) /\ c \in S /\ x \in Range(Way(c)) /\ y = m
    BY <2>3
  <2>4. CASE c \in S /\ x \in Range(Way(c)) /\ y = m /\ x = m
    BY <2>4
  <2> QED BY <1>4, <2>1, <2>2, <2>3, <2>4
<1> QED BY <1>6, <1>7, <1>8, <1>9 DEF TreeInv

\* A config that is pushed is new to everybody.
LEMMA PushTree ==
  ASSUME TreeInv, TypeOK', NEW p \in Nodes, NEW S \in SUBSET Children(p),
         NEW for \in Nodes, \A c \in S : for \in Above[c],
         pushes < MaxPushes,
         Enqueue(S, [n |-> pushes + 1, by |-> p, for |-> for]),
         pushes' = pushes + 1, UNCHANGED <<work, applied>>
  PROVE  TreeInv'
<1> DEFINE m == [n |-> pushes + 1, by |-> p, for |-> for]
<1>1. /\ m \in Configs /\ m.n = pushes + 1 /\ m.by = p /\ m.for = for
      /\ pushes \in Int
  BY TreeAssumption DEF TreeInv, TypeOK, Configs
<1> HIDE DEF m
<1>2. \A c \in Below : m \notin Range(Way(c))
  BY <1>1 DEF TreeInv, CameDown
<1>3. \A c, d \in Below : \A y : ~Before(Way(d), m, y)
  BY <1>2, BeforeRange
<1>4. p \in Above[p]
  BY AboveBelow
<1>5. ASSUME NEW n \in Below, n \in Above[p], p \in Above[Parent[n]] PROVE FALSE
  <2>1. n \in Nodes /\ Parent[n] \in Nodes
    BY DEF Nodes, Below, Range
  <2> QED BY <1>5, <2>1, AboveBelow, TreeAssumption
<1>6. \A c \in S : c \in Below
  BY DEF Children
<1>7. Enqueue(S, m)
  BY DEF m
<1> QED BY <1>1, <1>2, <1>3, <1>4, <1>5, <1>6, <1>7, SendTree

\* What a node broadcasts again is new to everything below it.  Whoever has it
\* is elsewhere and has nothing after it that a child of the node has: that
\* came through the node, and earlier, or was pushed at the node and is not
\* elsewhere.
LEMMA RelayTree ==
  ASSUME TreeInv, TypeOK', NEW p \in Below, Relay(p)
  PROVE  TreeInv'
<1> DEFINE m == Head(work[p])
           S == Children(p) \cap connected
<1>1. PICK w \in Seq(Configs), l \in Configs : applied[p] = Append(w, l) /\ work[p] = <<l>>
  BY DEF TreeInv, WorkIsLast, Relay
<1>2. m = l
  BY <1>1
<1> HIDE DEF m
<1>3. /\ Enqueue(S, m) /\ UNCHANGED <<applied, pushes>>
      /\ \A c \in Below : work'[c] = work[c] \/ work'[c] = <<>>
      /\ work'[p] = <<>>
  BY DEF TreeInv, TypeOK, Relay, Broadcast, m
<1>4. p \in Nodes /\ Parent[p] \in Nodes /\ \A c \in S : c \in Below /\ Parent[c] = p
  BY DEF Nodes, Below, Range, Children
<1>5. \A c \in Below : /\ applied[c] \in Seq(Configs) /\ queue[c] \in Seq(Configs)
                       /\ Way(c) \in Seq(Configs)
  BY ConcatBefore DEF TreeInv, TypeOK, Way
<1>6. m \in Range(applied[p]) /\ m \in Range(work[p]) /\ m \in Range(Way(p))
  <2>1. m \in Range(applied[p])
    BY <1>1, <1>2, AppendBefore
  <2>2. m \in Range(work[p])
    BY <1>1, <1>2 DEF Range
  <2> QED BY <1>5, <2>1, <2>2, ConcatBefore DEF Way
<1>7. m.n <= pushes /\ m.for \in Above[p] /\ m.by \in Above[Parent[p]]
  BY <1>6 DEF TreeInv, CameDown
<1>8. m.by \in Above[p] /\ \A c \in S : m.for \in Above[c]
  BY <1>4, <1>7, AboveBelow
<1>9. \A d \in Below : p \in Above[Parent[d]] => m \notin Range(Way(d))
  BY <1>6, <1>7 DEF TreeInv, PassedOn
<1>10. \A n \in Below : n \in Above[p] /\ m.by \in Above[Parent[n]] =>
         m \in Range(applied[n]) /\ m \notin Range(work'[n])
  <2> SUFFICES ASSUME NEW n \in Below, n \in Above[p], m.by \in Above[Parent[n]]
               PROVE  m \in Range(applied[n]) /\ m \notin Range(work'[n])
    OBVIOUS
  <2>1. CASE n = p
    BY <1>3, <1>6, <2>1 DEF Range
  <2>2. CASE n # p
    <3>1. n \in Above[Parent[p]]
      BY <2>2, AboveBelow
    <3>2. m \in Range(applied[n]) /\ m \notin Range(work[n])
      BY <1>6, <3>1 DEF TreeInv, PassedOn
    <3> QED BY <1>3, <3>2 DEF Range
  <2> QED BY <2>1, <2>2
<1>11. p \in Above[p]
  BY <1>4, AboveBelow
<1>12. \A c \in S : m \notin Range(Way(c))
  BY <1>4, <1>9, <1>11
<1>13. ASSUME NEW c \in S, NEW d \in Below, NEW y \in Range(Way(c)),
              Before(Way(d), m, y)
       PROVE  FALSE
  <2>1. y \in Range(Way(d)) /\ m \in Range(Way(d))
    BY <1>13, BeforeRange
  <2>2. y.by \in Above[p]
    BY <1>4 DEF TreeInv, CameDown
  <2>3. CASE y.by = p
    <3>1. p \in Above[Parent[d]]
      BY <2>1, <2>3 DEF TreeInv, CameDown
    <3> QED BY <1>9, <2>1, <3>1
  <2>4. CASE y.by # p
    <3>1. y.by \in Above[Parent[p]]
      BY <2>2, <2>4, AboveBelow
    <3>2. y \in Range(applied[p])
      BY <1>4, <1>11, <3>1 DEF TreeInv, PassedOn
    <3>3. y # m
      BY <1>12
    <3>4. Before(applied[p], y, m)
      BY <1>1, <1>2, <3>2, <3>3, AppendBefore
    <3>5. Before(Way(p), y, m)
      BY <1>5, <3>4, ConcatBefore DEF Way
    <3> QED BY <1>13, <3>5 DEF TreeInv, WaysAgree
  <2> QED BY <2>3, <2>4
<1>14. m \in Configs /\ S \in SUBSET Children(p) /\ pushes <= pushes' /\ m.n <= pushes'
  <2>1. pushes \in Int
    BY DEF TreeInv, TypeOK
  <2> QED BY <1>2, <1>3, <1>7, <2>1
<1> HIDE DEF S
<1> QED BY <1>3, <1>4, <1>8, <1>10, <1>12, <1>13, <1>14, SendTree

\* What recvLoop takes from the link had not been applied, so no one below the
\* node has it.
LEMMA ReceiveTree ==
  ASSUME TreeInv, TypeOK', NEW p \in Below, Receive(p)
  PROVE  TreeInv'
<1> DEFINE m == Head(queue[p])
<1>1. /\ work[p] = <<>> /\ queue[p] # <<>>
      /\ queue' = [queue EXCEPT ![p] = Tail(queue[p])]
      /\ applied' = [applied EXCEPT ![p] = Append(applied[p], m)]
      /\ work' = [work EXCEPT ![p] = <<m>>]
      /\ pushes' = pushes
  BY DEF Receive, Handled
<1>2. /\ \A c \in Below : applied[c] \in Seq(Configs) /\ queue[c] \in Seq(Configs)
      /\ m \in Configs /\ m \in Range(queue[p])
  <2>1. \A c \in Below : applied[c] \in Seq(Configs) /\ queue[c] \in Seq(Configs)
    BY DEF TreeInv, TypeOK
  <2>2. 1 \in DOMAIN queue[p] /\ m = queue[p][1] /\ m \in Configs
    BY <1>1, <2>1
  <2> QED BY <2>1, <2>2 DEF Range
<1>3. /\ queue'[p] = Tail(queue[p]) /\ applied'[p] = Append(applied[p], m)
      /\ work'[p] = <<m>>
      /\ \A c \in Below \ {p} : /\ queue'[c] = queue[c] /\ applied'[c] = applied[c]
                                /\ work'[c] = work[c]
  BY <1>1 DEF TreeInv, TypeOK
<1>4. \A c \in Below : Way(c)' = Way(c)
  <2>1. Way(p)' = Way(p)
    BY <1>1, <1>2, <1>3, ConcatMoves DEF Way
  <2>2. \A c \in Below \ {p} : Way(c)' = Way(c)
    BY <1>3 DEF Way
  <2> QED BY <2>1, <2>2
<1>5. m \notin Range(applied[p])
  <2> SUFFICES ASSUME m \in Range(applied[p]) PROVE FALSE
    OBVIOUS
  <2>1. Before(Way(p), m, m)
    BY <1>2, ConcatBefore DEF Way
  <2> QED BY <2>1 DEF TreeInv, WaysAgree
<1> HIDE DEF m
<1>6. CameDown'
  BY <1>1, <1>4 DEF TreeInv, CameDown
<1>7. PassedOn'
  <2> SUFFICES ASSUME NEW c \in Below, NEW n \in Below, NEW x \in Range(Way(c)),
                      n \in Above[Parent[c]], x.by \in Above[Parent[n]]
               PROVE  x \in Range(applied'[n]) /\ x \notin Range(work'[n])
    BY <1>4 DEF PassedOn
  <2>1. x \in Range(applied[n]) /\ x \notin Range(work[n])
    BY DEF TreeInv, PassedOn
  <2>2. CASE n = p
    <3>1. x \in Range(applied'[n])
      <4>1. Range(Append(applied[p], m)) = Range(applied[p]) \cup {m}
        BY <1>2, AppendBefore
      <4> QED BY <1>3, <2>1, <2>2, <4>1
    <3>2. x # m
      BY <1>5, <2>1, <2>2
    <3>3. Range(<<m>>) = {m}
      BY DEF Range
    <3> QED BY <1>3, <2>2, <3>1, <3>2, <3>3
  <2>3. CASE n # p
    BY <1>3, <2>1, <2>3
  <2> QED BY <2>2, <2>3
<1>8. WorkIsLast'
  <2> SUFFICES ASSUME NEW c \in Below, work'[c] # <<>>
               PROVE  \E w \in Seq(Configs), l \in Configs :
                        applied'[c] = Append(w, l) /\ work'[c] = <<l>>
    BY DEF WorkIsLast
  <2>1. CASE c = p
    BY <1>2, <1>3, <2>1
  <2>2. CASE c # p
    BY <1>3, <2>2 DEF TreeInv, WorkIsLast
  <2> QED BY <2>1, <2>2
<1>9. WaysAgree'
  BY <1>4 DEF TreeInv, WaysAgree
<1> QED BY <1>6, <1>7, <1>8, <1>9 DEF TreeInv


\* Every step keeps the invariant.
LEMMA NextTree == TreeInv /\ [Next]_vars => TreeInv'
<1> SUFFICES ASSUME TreeInv, [Next]_vars PROVE TreeInv'
  OBVIOUS
<1>0. TypeOK'
  BY NextType DEF TreeInv
<1>1. \A c \in Below : c \in Nodes /\ Parent[c] \in Nodes
  BY DEF Nodes, Below, Range
<1>2. ASSUME NEW n \in Nodes, PushToAll(n) PROVE TreeInv'
  <2>1. \A c \in Children(n) : n \in Above[c]
    BY <1>1, AboveBelow DEF Children
  <2>2. Enqueue(Children(n) \cap connected, [n |-> pushes + 1, by |-> n, for |-> n])
    BY <1>2 DEF PushToAll, Broadcast
  <2> QED BY <1>0, <1>2, <2>1, <2>2, PushTree DEF PushToAll
<1>3. ASSUME NEW c \in Below, PushToChild(c) PROVE TreeInv'
  <2>1. {c} \in SUBSET Children(Parent[c]) /\ c \in Above[c]
    BY <1>1, AboveBelow DEF Children
  <2> QED BY <1>0, <1>1, <1>3, <2>1, PushTree DEF PushToChild, Addressed
<1>4. ASSUME NEW c \in Below, Receive(c) PROVE TreeInv'
  BY <1>0, <1>4, ReceiveTree
<1>5. ASSUME NEW c \in Below, Relay(c) PROVE TreeInv'
  BY <1>0, <1>5, RelayTree
<1>6. \A c \in Below : /\ Len(queue[c]) \in Nat
                       /\ Oldest(queue[c], 0) = <<>>
                       /\ Oldest(queue[c], Len(queue[c])) = queue[c]
  <2> TAKE c \in Below
  <2>1. queue[c] \in Seq(Configs)
    BY DEF TreeInv, TypeOK
  <2> QED BY <2>1, SubSeqEmpty, SubSeqFull DEF Oldest
<1>7. ASSUME NEW c \in Below, Connect(c) PROVE TreeInv'
  <2>1. \A d \in Below : /\ queue'[d] = IF d = c THEN <<>> ELSE queue[d]
                         /\ work'[d] = work[d]
    BY <1>7 DEF Connect, TreeInv, TypeOK
  <2>2. \A d \in Below : \E k \in 0 .. Len(queue[d]) : queue'[d] = Oldest(queue[d], k)
    BY <1>6, <2>1
  <2> QED BY <1>0, <1>7, <2>1, <2>2, LoseTree DEF Connect
<1>8. ASSUME NEW c \in Below, Disconnect(c) PROVE TreeInv'
  <2>1. PICK kept \in [{c} -> 0 .. BufSize] : Disconnected(kept)
    BY <1>8 DEF Disconnect
  <2>2. \A d \in Below : \E k \in 0 .. Len(queue[d]) : queue'[d] = Oldest(queue[d], k)
    BY <2>1, DisconnectedQueues DEF TreeInv
  <2> QED BY <1>0, <1>8, <2>2, LoseTree DEF Disconnect
<1>9. ASSUME NEW n \in Nodes, Restart(n) PROVE TreeInv'
  <2>1. PICK kept \in [(Children(n) \cap connected) \cup {n} -> 0 .. BufSize] :
          Disconnected(kept)
    BY <1>9 DEF Restart
  <2>2. \A d \in Below : \E k \in 0 .. Len(queue[d]) : queue'[d] = Oldest(queue[d], k)
    BY <2>1, DisconnectedQueues DEF TreeInv
  <2>3. \A d \in Below : work'[d] = work[d] \/ work'[d] = <<>>
    BY <1>9 DEF Restart
  <2> QED BY <1>0, <1>9, <2>2, <2>3, LoseTree DEF Restart
<1>10. CASE UNCHANGED vars
  <2>1. \A d \in Below : \E k \in 0 .. Len(queue[d]) : queue'[d] = Oldest(queue[d], k)
    BY <1>6, <1>10 DEF vars
  <2> QED BY <1>0, <1>10, <2>1, LoseTree DEF vars
<1> QED BY <1>2, <1>3, <1>4, <1>5, <1>7, <1>8, <1>9, <1>10 DEF Next

\* The invariant holds in every behaviour.
LEMMA TreeInvHolds == Spec => []TreeInv
<1>1. Init => TreeInv
  <2> SUFFICES ASSUME Init PROVE TreeInv
    OBVIOUS
  <2>1. TypeOK
    BY TreeAssumption DEF Init, TypeOK
  <2>2. \A c \in Below : Way(c) = <<>>
    BY DEF Init, Way
  <2>3. Range(<<>>) = {} /\ \A x, y : ~Before(<<>>, x, y)
    BY DEF Range, Before
  <2> QED BY <2>1, <2>2, <2>3
        DEF Init, TreeInv, CameDown, PassedOn, WorkIsLast, WaysAgree
<1> QED BY <1>1, NextTree, PTL DEF Spec

-----------------------------------------------------------------------------
(* Safety *)

\* AgreeOnOrder, for all trees and any number of configs: however pushes at
\* several nodes, lost links and restarts interleave, no two nodes apply two
\* configs in different orders, and none applies one twice.
THEOREM OrderCorrect == Spec => []AgreeOnOrder
<1>1. TreeInv => AgreeOnOrder
  <2> SUFFICES ASSUME TreeInv, NEW c \in Below, NEW d \in Below, NEW x, NEW y,
                      Before(applied[c], x, y), Before(applied[d], y, x)
               PROVE  FALSE
    BY DEF AgreeOnOrder
  <2>1. Before(Way(c), x, y) /\ Before(Way(d), y, x)
    BY ConcatBefore DEF TreeInv, TypeOK, Way
  <2> QED BY <2>1 DEF TreeInv, WaysAgree
<1> QED BY <1>1, TreeInvHolds, PTL

\* StaysInSubtree, for all trees.
THEOREM SubtreeCorrect == Spec => []StaysInSubtree
<1>1. TreeInv => StaysInSubtree
  <2> SUFFICES ASSUME TreeInv, NEW c \in Below, NEW m \in Range(applied[c])
               PROVE  m.for \in Above[c]
    BY DEF StaysInSubtree
  <2>1. applied[c] \in Seq(Configs) /\ queue[c] \in Seq(Configs)
    BY DEF TreeInv, TypeOK
  <2>2. m \in Range(Way(c))
    BY <2>1, ConcatBefore DEF Way
  <2> QED BY <2>2 DEF TreeInv, CameDown
<1> QED BY <1>1, TreeInvHolds, PTL

\* AncestorsFirst, for all trees: whatever a node has applied was applied by
\* every node on its way before.
THEOREM AncestorsCorrect == Spec => []AncestorsFirst
<1>1. TreeInv => AncestorsFirst
  <2> SUFFICES ASSUME TreeInv, NEW c \in Below, NEW n \in Below,
                      NEW m \in Range(applied[c]),
                      n \in Above[c], m.by \in Above[Parent[n]]
               PROVE  m \in Range(applied[n])
    BY DEF AncestorsFirst
  <2>1. CASE n = c
    BY <2>1
  <2>2. CASE n # c
    <3>1. n \in Above[Parent[c]]
      BY <2>2, AboveBelow
    <3>2. applied[c] \in Seq(Configs) /\ queue[c] \in Seq(Configs)
      BY DEF TreeInv, TypeOK
    <3>3. m \in Range(Way(c))
      BY <3>2, ConcatBefore DEF Way
    <3> QED BY <3>1, <3>3 DEF TreeInv, PassedOn
  <2> QED BY <2>1, <2>2
<1> QED BY <1>1, TreeInvHolds, PTL

-----------------------------------------------------------------------------
(* The links of the tree *)

\* A send of something that is new to those it is for is a send of the links.
LEMMA SendOnLinks ==
  ASSUME TreeInv, NEW S \in SUBSET connected, NEW m \in Configs, Enqueue(S, m),
         \A c \in S : m \notin Range(Way(c)),
         UNCHANGED <<connected, applied>>
  PROVE  Link!Send(m)
<1> DEFINE R == {c \in S : HasRoom(c)}
<1>1. R \in SUBSET connected /\ S \subseteq Below
  BY DEF TreeInv, TypeOK
<1>2. ASSUME NEW c \in R
      PROVE  /\ Len(queue[c]) < BufSize
             /\ m \notin Range(queue[c]) \cup Range(applied[c])
  <2>1. c \in Below /\ applied[c] \in Seq(Configs) /\ queue[c] \in Seq(Configs)
    BY <1>1 DEF TreeInv, TypeOK
  <2>2. Range(applied[c]) \subseteq Range(Way(c))
    BY <2>1, ConcatBefore DEF Way
  <2>3. Range(queue[c]) \subseteq Range(Way(c))
    BY <2>1, ConcatElements DEF Way
  <2> QED BY <2>2, <2>3 DEF HasRoom
<1>3. queue' = [c \in Below |-> IF c \in R THEN Append(queue[c], m) ELSE queue[c]]
  BY DEF Enqueue
<1> HIDE DEF R
<1> QED BY <1>1, <1>2, <1>3 DEF Link!Send, Link!Range, Range

\* Nodes that lose their connections cut the links to them.
LEMMA CutOnLinks ==
  ASSUME TypeOK, UNCHANGED applied, NEW kept, Disconnected(kept),
         \A c \in DOMAIN kept : kept[c] \in 0 .. BufSize
  PROVE  Link!Cut
<1>1. connected' = connected \ DOMAIN kept
  BY DEF Disconnected
<1>2. queue' = [c \in Below |-> queue'[c]]
  BY DEF Disconnected
<1>3. ASSUME NEW c \in Below
      PROVE  /\ queue'[c] \in Link!Prefixes(queue[c])
             /\ c \in connected' => queue'[c] = queue[c]
  BY <1>1, DisconnectedQueues DEF Link!Prefixes, Oldest
<1> QED BY <1>1, <1>2, <1>3 DEF Link!Cut

\* What a node broadcasts, pushed there or relayed, is new to its children.
LEMMA PushIsNew ==
  ASSUME TreeInv, NEW m \in Configs, m.n = pushes + 1
  PROVE  \A c \in Below : m \notin Range(Way(c))
<1>1. pushes \in Int
  BY DEF TreeInv, TypeOK
<1> QED BY <1>1 DEF TreeInv, CameDown

\* A message a node re-broadcasts is the newest it applied, and what its
\* children have had, or have on the way, is from before.
LEMMA RelayIsNew ==
  ASSUME TreeInv, NEW p \in Below, Relay(p)
  PROVE  /\ Head(work[p]) \in Configs
         /\ \A c \in Children(p) : Head(work[p]) \notin Range(Way(c))
<1>1. PICK w \in Seq(Configs), m \in Configs :
        applied[p] = Append(w, m) /\ work[p] = <<m>>
  BY DEF TreeInv, WorkIsLast, Relay
<1>2. Head(work[p]) = m /\ m \in Range(work[p])
  BY <1>1 DEF Range
<1>3. m \in Range(Way(p))
  <2>1. m \in Range(applied[p])
    BY <1>1, AppendBefore
  <2>2. applied[p] \in Seq(Configs) /\ queue[p] \in Seq(Configs)
    BY DEF TreeInv, TypeOK
  <2> QED BY <2>1, <2>2, ConcatBefore DEF Way
<1>4. m.by \in Above[Parent[p]]
  BY <1>3 DEF TreeInv, CameDown
<1>5. p \in Above[p]
  BY AboveBelow DEF Nodes
<1> QED BY <1>2, <1>4, <1>5 DEF TreeInv, PassedOn, Children

\* Every step of the tree is a step of its links, or none of their business.
LEMMA NextOnLinks ==
  TreeInv /\ [Next]_vars => [Link!Next]_<<connected, queue, applied>>
<1> SUFFICES ASSUME TreeInv, [Next]_vars
             PROVE  Link!Next \/ UNCHANGED <<connected, queue, applied>>
  OBVIOUS
<1>0. TypeOK /\ \A c \in Below : c \in Nodes /\ Parent[c] \in Nodes
  BY DEF TreeInv, Nodes, Below, Range
<1>1. ASSUME NEW n \in Nodes, PushToAll(n) PROVE Link!Next
  <2> DEFINE m == [n |-> pushes + 1, by |-> n, for |-> n]
             S == Children(n) \cap connected
  <2>1. m \in Configs /\ m.n = pushes + 1
    BY <1>0, <1>1, TreeAssumption DEF TypeOK, PushToAll, Configs
  <2>2. Enqueue(S, m) /\ UNCHANGED <<connected, applied>>
    BY <1>1 DEF PushToAll, Broadcast
  <2>3. S \in SUBSET connected /\ \A c \in S : c \in Below
    BY DEF Children
  <2> HIDE DEF m, S
  <2>4. Link!Send(m)
    BY <2>1, <2>2, <2>3, PushIsNew, SendOnLinks
  <2> QED BY <2>1, <2>4 DEF Link!Next
<1>2. ASSUME NEW c \in Below, PushToChild(c) PROVE Link!Next
  <2> DEFINE m == [n |-> pushes + 1, by |-> Parent[c], for |-> c]
  <2>1. m \in Configs /\ m.n = pushes + 1
    BY <1>0, <1>2, TreeAssumption DEF TypeOK, PushToChild, Configs
  <2>2. Enqueue({c}, m) /\ UNCHANGED <<connected, applied>> /\ {c} \in SUBSET connected
    BY <1>2 DEF PushToChild, Addressed
  <2> HIDE DEF m
  <2>3. Link!Send(m)
    BY <2>1, <2>2, PushIsNew, SendOnLinks
  <2> QED BY <2>1, <2>3 DEF Link!Next
<1>3. ASSUME NEW c \in Below, Receive(c) PROVE Link!Next
  <2>1. Link!Deliver(c)
    BY <1>3 DEF Receive, Handled, Link!Deliver
  <2> QED BY <2>1 DEF Link!Next
<1>4. ASSUME NEW c \in Below, Relay(c) PROVE Link!Next
  <2> DEFINE m == Head(work[c])
             S == Children(c) \cap connected
  <2>1. Enqueue(S, m) /\ UNCHANGED <<connected, applied>>
    BY <1>4 DEF Relay, Broadcast
  <2>2. m \in Configs /\ \A d \in S : m \notin Range(Way(d))
    BY <1>4, RelayIsNew
  <2> HIDE DEF m
  <2>3. Link!Send(m)
    BY <2>1, <2>2, SendOnLinks
  <2> QED BY <2>2, <2>3 DEF Link!Next
<1>5. ASSUME NEW c \in Below, Connect(c) PROVE Link!Next
  <2>1. Link!Connect(c)
    BY <1>5 DEF Connect, Link!Connect
  <2> QED BY <2>1 DEF Link!Next
<1>6. ASSUME NEW c \in Below, Disconnect(c) PROVE Link!Next
  <2>1. PICK kept \in [{c} -> 0 .. BufSize] : Disconnected(kept)
    BY <1>6 DEF Disconnect
  <2> QED BY <1>0, <1>6, <2>1, CutOnLinks DEF Disconnect, Link!Next
<1>7. ASSUME NEW n \in Nodes, Restart(n) PROVE Link!Next
  <2>1. PICK kept \in [(Children(n) \cap connected) \cup {n} -> 0 .. BufSize] :
          Disconnected(kept)
    BY <1>7 DEF Restart
  <2> QED BY <1>0, <1>7, <2>1, CutOnLinks DEF Restart, Link!Next
<1>8. CASE UNCHANGED vars
  BY <1>8 DEF vars
<1> QED BY <1>1, <1>2, <1>3, <1>4, <1>5, <1>6, <1>7, <1>8 DEF Next

\* The tree uses its links as OrderedLink allows, for all trees and sizes: it
\* never sends a node what the node had before, though every node relays and
\* administrators push at several.  With LinkCorrect of DownstreamLinkProofs
\* this joins the two modules.
THEOREM LinksCorrect == Spec => ImplementsLink
<1>1. Init => Link!Init
  BY DEF Init, Link!Init
<1> QED BY <1>1, NextOnLinks, TreeInvHolds, PTL DEF Spec, ImplementsLink, Link!Spec
=============================================================================
