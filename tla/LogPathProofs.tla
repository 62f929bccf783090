--------------------------- MODULE LogPathProofs ---------------------------
(***************************************************************************)
(* Proofs about LogPath, for paths of any length and any set of logs with  *)
(* any origins.                                                            *)
(***************************************************************************)
EXTENDS LogPath, TLAPS

-----------------------------------------------------------------------------
(* Type correctness *)

\* The initial state has the right types.
LEMMA InitType == Init => TypeOK
BY LogPathAssumption DEF Init, TypeOK, Levels, Hops, Status

\* Every step of a node, a connection or a process keeps the types; work and
\* what a hop holds are in running processes only.
LEMMA NextType == TypeOK /\ [Next]_vars => TypeOK'
<1> SUFFICES ASSUME TypeOK, [Next]_vars PROVE TypeOK'
  OBVIOUS
<1> USE LogPathAssumption DEF TypeOK, Levels, Hops, Status
<1>1. ASSUME NEW e \in Logs, Submit(e) PROVE TypeOK'
  BY <1>1 DEF Submit, RunHandlers, HandledAt
<1>2. ASSUME NEW n \in Levels, NEW e \in Logs, Forward(n, e) PROVE TypeOK'
  BY <1>2 DEF Forward
<1>3. ASSUME NEW n \in Hops, NEW e \in Logs, Emit(n, e) PROVE TypeOK'
  BY <1>3 DEF Emit
<1>4. ASSUME NEW n \in Hops, NEW e \in Logs, Receive(n, e) PROVE TypeOK'
  BY <1>4 DEF Receive, RunHandlers, HandledAt
<1>5. ASSUME NEW n \in Hops, Disconnect(n) PROVE TypeOK'
  BY <1>5 DEF Disconnect, CutTo
<1>6. ASSUME NEW n \in Levels, Crash(n) PROVE TypeOK'
  BY <1>6 DEF Crash, Gone, Flying, Held
<1>7. ASSUME NEW n \in Levels, Restart(n) PROVE TypeOK'
  BY <1>7 DEF Restart, Resent, Flying
<1>8. ASSUME NEW n \in Hops, Reach(n) PROVE TypeOK'
  BY <1>8 DEF Reach
<1>9. CASE UNCHANGED vars
  BY <1>9 DEF vars
<1> QED BY <1>1, <1>2, <1>3, <1>4, <1>5, <1>6, <1>7, <1>8, <1>9 DEF Next

\* TypeOK, for every length of the path and every set of logs.
THEOREM TypeCorrect == Spec => []TypeOK
BY InitType, NextType, PTL DEF Spec

-----------------------------------------------------------------------------
(* Who has handled what *)

\* A log that is in the work of a node or has entered its hop was handled
\* there, and is in the hop only when it has left the work.
Located ==
  \A n \in Levels, e \in Logs :
    /\ <<n, e>> \in work =>
         runs[<<n, e>>] > 0 /\ (n \in Hops => hop[<<n, e>>] = "new")
    /\ n \in Hops /\ hop[<<n, e>>] # "new" => runs[<<n, e>>] > 0

\* What a node above the origin has handled has come through the hop below.
CameUp ==
  \A n \in Hops, e \in Logs :
    runs[<<n + 1, e>>] > 0 /\ n >= Origin[e] => hop[<<n, e>>] = "arrived"

PathInv == TypeOK /\ HandledOnce /\ TrailComplete /\ Located /\ CameUp

\* At first nobody has handled anything.
LEMMA InitPath == Init => PathInv
<1> SUFFICES ASSUME Init PROVE PathInv
  OBVIOUS
<1>1. TypeOK
  BY InitType
<1>2. HandledOnce /\ TrailComplete /\ Located /\ CameUp
  BY LogPathAssumption
  DEF Init, HandledOnce, TrailComplete, Located, CameUp, Levels, Hops
<1> QED BY <1>1, <1>2 DEF PathInv

\* Handlers run at n for a log that no handlers ran for there: one more node
\* of the trail, if the one below has it.
LEMMA OneMoreNode ==
  ASSUME TypeOK, HandledOnce, TrailComplete,
         NEW n \in Levels, NEW e \in Logs,
         RunHandlers(n, e), runs[<<n, e>>] = 0,
         n = Origin[e] \/ (n > Origin[e] /\ runs[<<n - 1, e>>] > 0)
  PROVE  /\ HandledOnce' /\ TrailComplete'
         /\ runs' \in [Levels \X Logs -> Nat]
         /\ runs'[<<n, e>>] = 1
         /\ \A m \in Levels, f \in Logs :
              <<m, f>> # <<n, e>> => runs'[<<m, f>>] = runs[<<m, f>>]
<1> USE LogPathAssumption DEF TypeOK, Levels
<1>1. /\ runs' \in [Levels \X Logs -> Nat]
      /\ runs'[<<n, e>>] = 1
      /\ \A m \in Levels, f \in Logs :
           <<m, f>> # <<n, e>> => runs'[<<m, f>>] = runs[<<m, f>>]
  BY DEF RunHandlers, HandledAt
<1>2. HandledOnce'
  <2>1. ASSUME NEW m \in Levels, NEW f \in Logs PROVE runs'[<<m, f>>] <= 1
    <3>1. <<m, f>> \in DOMAIN runs
      OBVIOUS
    <3>2. runs[<<m, f>>] <= 1
      BY <3>1 DEF HandledOnce
    <3>3. CASE <<m, f>> = <<n, e>>
      BY <1>1, <3>3
    <3>4. CASE <<m, f>> # <<n, e>>
      BY <1>1, <3>2, <3>4
    <3> QED BY <3>3, <3>4
  <2>2. \A w \in Levels \X Logs : \E m \in Levels, f \in Logs : w = <<m, f>>
    OBVIOUS
  <2>3. DOMAIN runs' = Levels \X Logs
    BY <1>1
  <2> QED BY <2>1, <2>2, <2>3 DEF HandledOnce
<1>3. TrailComplete'
  <2> SUFFICES ASSUME NEW m \in Levels, NEW f \in Logs, runs'[<<m, f>>] > 0
               PROVE  /\ m >= Origin[f]
                      /\ \A k \in Origin[f] .. m : runs'[<<k, f>>] > 0
    BY DEF TrailComplete
  <2>1. CASE <<m, f>> # <<n, e>>
    <3>1. m >= Origin[f] /\ \A k \in Origin[f] .. m : runs[<<k, f>>] > 0
      BY <1>1, <2>1 DEF TrailComplete
    <3>2. \A k \in Origin[f] .. m : k \in Levels
      OBVIOUS
    <3> QED BY <1>1, <3>1, <3>2
  <2>2. CASE <<m, f>> = <<n, e>>
    <3>1. \A k \in Origin[e] .. n : k # n => runs[<<k, e>>] > 0
      <4> SUFFICES ASSUME NEW k \in Origin[e] .. n, k # n
                   PROVE  runs[<<k, e>>] > 0
        OBVIOUS
      <4>1. n > Origin[e] /\ n - 1 \in Levels /\ k \in Origin[e] .. n - 1
        OBVIOUS
      <4> QED BY <4>1 DEF TrailComplete
    <3>2. \A k \in Origin[e] .. n : k \in Levels
      OBVIOUS
    <3> QED BY <1>1, <2>2, <3>1, <3>2
  <2> QED BY <2>1, <2>2
<1> QED BY <1>1, <1>2, <1>3

\* Every step keeps all of it.
LEMMA NextPath == PathInv /\ [Next]_vars => PathInv'
<1> SUFFICES ASSUME PathInv, [Next]_vars PROVE PathInv'
  OBVIOUS
<1>0. TypeOK'
  BY NextType DEF PathInv
<1> USE LogPathAssumption DEF PathInv, TypeOK, Levels, Hops
<1>1. ASSUME NEW e \in Logs, Submit(e) PROVE PathInv'
  <2>1. Origin[e] \in Levels
    OBVIOUS
  <2>2. /\ HandledOnce' /\ TrailComplete'
        /\ runs'[<<Origin[e], e>>] = 1
        /\ \A m \in Levels, f \in Logs :
             <<m, f>> # <<Origin[e], e>> => runs'[<<m, f>>] = runs[<<m, f>>]
    BY <1>1, <2>1, OneMoreNode DEF Submit
  <2>3. hop' = hop /\ work' = work \cup {<<Origin[e], e>>}
    BY <1>1 DEF Submit, RunHandlers
  <2>4. Located'
    <3> SUFFICES ASSUME NEW m \in Levels, NEW f \in Logs
                 PROVE  /\ <<m, f>> \in work' =>
                             /\ runs'[<<m, f>>] > 0
                             /\ m \in Hops => hop'[<<m, f>>] = "new"
                        /\ m \in Hops /\ hop'[<<m, f>>] # "new" =>
                             runs'[<<m, f>>] > 0
      BY DEF Located
    <3>1. CASE <<m, f>> = <<Origin[e], e>>
      BY <1>1, <2>1, <2>2, <2>3, <3>1 DEF Located, Submit
    <3>2. CASE <<m, f>> # <<Origin[e], e>>
      BY <2>2, <2>3, <3>2 DEF Located
    <3> QED BY <3>1, <3>2
  <2>5. CameUp'
    BY <2>1, <2>2, <2>3 DEF CameUp
  <2> QED BY <1>0, <2>2, <2>4, <2>5
<1>2. ASSUME NEW n \in Levels, NEW e \in Logs, Forward(n, e) PROVE PathInv'
  <2>1. Located'
    BY <1>2 DEF Located, Forward
  <2>2. CameUp'
    BY <1>2 DEF CameUp, Located, Forward
  <2>3. HandledOnce' /\ TrailComplete'
    BY <1>2 DEF HandledOnce, TrailComplete, Forward
  <2> QED BY <1>0, <2>1, <2>2, <2>3
<1>3. ASSUME NEW n \in Hops, NEW e \in Logs, Emit(n, e) PROVE PathInv'
  <2>1. Located'
    BY <1>3 DEF Located, Emit
  <2>2. CameUp'
    BY <1>3 DEF CameUp, Emit
  <2>3. HandledOnce' /\ TrailComplete'
    BY <1>3 DEF HandledOnce, TrailComplete, Emit
  <2> QED BY <1>0, <2>1, <2>2, <2>3
<1>4. ASSUME NEW n \in Hops, NEW e \in Logs, Receive(n, e) PROVE PathInv'
  <2>1. n \in Levels /\ n + 1 \in Levels
    OBVIOUS
  <2>2. runs[<<n, e>>] > 0 /\ n >= Origin[e] /\ hop[<<n, e>>] = "flying"
    BY <1>4, <2>1 DEF Receive, Located, TrailComplete
  <2>3. runs[<<n + 1, e>>] = 0
    BY <2>1, <2>2 DEF CameUp
  <2>4. /\ HandledOnce' /\ TrailComplete'
        /\ runs'[<<n + 1, e>>] = 1
        /\ \A m \in Levels, f \in Logs :
             <<m, f>> # <<n + 1, e>> => runs'[<<m, f>>] = runs[<<m, f>>]
    <3>1. n + 1 > Origin[e] /\ (n + 1) - 1 = n
      BY <2>1, <2>2
    <3>2. RunHandlers(n + 1, e)
      BY <1>4 DEF Receive
    <3> QED BY <2>1, <2>2, <2>3, <3>1, <3>2, OneMoreNode
  <2>5. /\ hop' = [hop EXCEPT ![<<n, e>>] = "arrived"]
        /\ work' = work \cup {<<n + 1, e>>}
    BY <1>4 DEF Receive, RunHandlers
  <2>6. n + 1 \in Hops => hop[<<n + 1, e>>] = "new"
    BY <2>1, <2>3 DEF Located
  <2>7. Located'
    <3> SUFFICES ASSUME NEW m \in Levels, NEW f \in Logs
                 PROVE  /\ <<m, f>> \in work' =>
                             /\ runs'[<<m, f>>] > 0
                             /\ m \in Hops => hop'[<<m, f>>] = "new"
                        /\ m \in Hops /\ hop'[<<m, f>>] # "new" =>
                             runs'[<<m, f>>] > 0
      BY DEF Located
    <3>1. CASE <<m, f>> = <<n + 1, e>>
      BY <2>1, <2>4, <2>5, <2>6, <3>1
    <3>2. CASE <<m, f>> = <<n, e>>
      BY <2>1, <2>2, <2>4, <2>5, <3>2 DEF Located
    <3>3. CASE <<m, f>> # <<n + 1, e>> /\ <<m, f>> # <<n, e>>
      BY <2>4, <2>5, <3>3 DEF Located
    <3> QED BY <3>1, <3>2, <3>3
  <2>8. CameUp'
    BY <2>1, <2>4, <2>5 DEF CameUp
  <2> QED BY <1>0, <2>4, <2>7, <2>8
<1>5. ASSUME NEW n \in Hops, Disconnect(n) PROVE PathInv'
  <2>1. Located'
    BY <1>5 DEF Located, Disconnect, CutTo, Flying
  <2>2. CameUp'
    BY <1>5 DEF CameUp, Disconnect, CutTo, Flying
  <2>3. HandledOnce' /\ TrailComplete'
    BY <1>5 DEF HandledOnce, TrailComplete, Disconnect
  <2> QED BY <1>0, <2>1, <2>2, <2>3
<1>6. ASSUME NEW n \in Levels, Crash(n) PROVE PathInv'
  <2>1. Located'
    BY <1>6 DEF Located, Crash, Gone, Flying, Held
  <2>2. CameUp'
    BY <1>6 DEF CameUp, Crash, Gone, Flying, Held
  <2>3. HandledOnce' /\ TrailComplete'
    BY <1>6 DEF HandledOnce, TrailComplete, Crash
  <2> QED BY <1>0, <2>1, <2>2, <2>3
<1>7. ASSUME NEW n \in Levels, Restart(n) PROVE PathInv'
  <2>1. Located'
    BY <1>7 DEF Located, Restart, Resent, Flying
  <2>2. CameUp'
    BY <1>7 DEF CameUp, Restart, Flying
  <2>3. HandledOnce' /\ TrailComplete'
    BY <1>7 DEF HandledOnce, TrailComplete, Restart
  <2> QED BY <1>0, <2>1, <2>2, <2>3
<1>8. ASSUME NEW n \in Hops, Reach(n) PROVE PathInv'
  BY <1>0, <1>8 DEF Reach, HandledOnce, TrailComplete, Located, CameUp
<1>9. CASE UNCHANGED vars
  BY <1>0, <1>9 DEF vars, HandledOnce, TrailComplete, Located, CameUp
<1> QED BY <1>1, <1>2, <1>3, <1>4, <1>5, <1>6, <1>7, <1>8, <1>9 DEF Next

\* HandledOnce, for every length of the path and every set of logs.
THEOREM NoNodeTwice == Spec => []HandledOnce
<1>1. PathInv => HandledOnce
  BY DEF PathInv
<1> QED BY <1>1, InitPath, NextPath, PTL DEF Spec

\* TrailComplete, for every length of the path and every set of logs: the
\* handlers of every node below have had what the handlers above have.
THEOREM HandledOnTheWay == Spec => []TrailComplete
<1>1. PathInv => TrailComplete
  BY DEF PathInv
<1> QED BY <1>1, InitPath, NextPath, PTL DEF Spec

-----------------------------------------------------------------------------
(* Every hop implements EnvelopeTransfer *)

\* At first every hop is empty and nobody has died.
LEMMA InitHops == Init => Hop!Init
BY DEF Init, Hop!Init

\* Every step is one of the transfer's, or does nothing to the hops.
LEMMA NextHops ==
  PathInv /\ [Next]_vars => [Hop!Next]_<<hop, {h \in Hops \X Logs : h[1] \in died}>>
<1> SUFFICES ASSUME PathInv, [Next]_vars
             PROVE  \/ Hop!Next
                    \/ hop' = hop /\ died' = died
  OBVIOUS
<1> USE DEF PathInv, TypeOK
<1>1. ASSUME NEW e \in Logs, Submit(e) PROVE hop' = hop /\ died' = died
  BY <1>1 DEF Submit
<1>2. ASSUME NEW n \in Levels, NEW e \in Logs, Forward(n, e)
      PROVE  Hop!Next \/ (hop' = hop /\ died' = died)
  <2>1. CASE n \in Hops
    <3>1. <<n, e>> \in Hops \X Logs /\ hop[<<n, e>>] = "new"
      BY <1>2, <2>1 DEF Forward, Located
    <3>2. Hop!Accept(<<n, e>>)
      BY <1>2, <3>1 DEF Forward, Hop!Accept, Hop!Become
    <3> QED BY <3>1, <3>2 DEF Hop!Next
  <2>2. CASE n \notin Hops
    BY <1>2, <2>2 DEF Forward
  <2> QED BY <2>1, <2>2
<1>3. ASSUME NEW n \in Hops, NEW e \in Logs, Emit(n, e) PROVE Hop!Next
  <2>1. Hop!Emit(<<n, e>>)
    BY <1>3 DEF Emit, Hop!Emit, Hop!Become
  <2> QED BY <2>1 DEF Hop!Next
<1>4. ASSUME NEW n \in Hops, NEW e \in Logs, Receive(n, e) PROVE Hop!Next
  <2>1. Hop!Arrive(<<n, e>>)
    BY <1>4 DEF Receive, Hop!Arrive, Hop!Become
  <2> QED BY <2>1 DEF Hop!Next
<1>5. ASSUME NEW n \in Hops, Disconnect(n) PROVE Hop!Next
  <2>1. PICK S \in SUBSET Flying(n) :
          hop' = [h \in Hops \X Logs |-> IF h \in S THEN "lost" ELSE hop[h]]
    BY <1>5 DEF Disconnect, CutTo
  <2>2. S \subseteq Hop!In("flying") /\ Hop!Become(S, "lost") /\ died' = died
    BY <1>5, <2>1 DEF Disconnect, Flying, Hop!In, Hop!Become
  <2>3. Hop!Lose
    BY <2>2 DEF Hop!Lose
  <2> QED BY <2>3 DEF Hop!Next
<1>6. ASSUME NEW n \in Levels, Crash(n) PROVE Hop!Next
  <2>1. /\ Hop!Become(Gone(n), "lost")
        /\ died' = died \cup {n}
    BY <1>6 DEF Crash, Hop!Become
  <2>2. Gone(n) \subseteq Hop!In("flying") \cup
          (Hop!In("held") \cap {h \in Hops \X Logs : h[1] \in died'})
    BY <2>1 DEF Gone, Flying, Held, Hop!In
  <2>3. Hop!Lose
    BY <2>1, <2>2 DEF Hop!Lose
  <2> QED BY <2>3 DEF Hop!Next
<1>7. ASSUME NEW n \in Levels, Restart(n) PROVE Hop!Next
  <2>1. Hop!Become(Flying(n - 1), "lost") /\ died' = died
    BY <1>7 DEF Restart, Hop!Become
  <2>2. Flying(n - 1) \subseteq Hop!In("flying")
    BY DEF Flying, Hop!In
  <2>3. Hop!Lose
    BY <2>1, <2>2 DEF Hop!Lose
  <2> QED BY <2>3 DEF Hop!Next
<1>8. ASSUME NEW n \in Hops, Reach(n) PROVE hop' = hop /\ died' = died
  BY <1>8 DEF Reach
<1>9. CASE UNCHANGED vars
  BY <1>9 DEF vars
<1> QED BY <1>1, <1>2, <1>3, <1>4, <1>5, <1>6, <1>7, <1>8, <1>9 DEF Next

\* EachHopTransfers, for every length of the path and every set of logs.
THEOREM HopsTransfer == Spec => EachHopTransfers
BY InitPath, NextPath, InitHops, NextHops, PTL
   DEF Spec, EachHopTransfers, Hop!Spec

-----------------------------------------------------------------------------
(* The whole path implements EnvelopeTransfer *)

\* Log e is at n or on its way from n to the next node.
Here(n, e) == At(n, e) \/ hop[<<n, e>>] = "flying"

\* A log is at one place at most, and nowhere below a root that has it.
OnePlace ==
  \A e \in Logs, n \in Hops : Here(n, e) =>
    /\ runs[<<Origin[e], e>>] > 0
    /\ runs[<<Top, e>>] = 0
    /\ ~(At(n, e) /\ hop[<<n, e>>] = "flying")
    /\ \A m \in Hops : Here(m, e) => m = n

\* pathStatus, read off the place a log is at.
StatusRead ==
  \A e \in Logs :
    /\ runs[<<Top, e>>] > 0 => pathStatus[e] = "arrived"
    /\ \A n \in Hops :
         /\ At(n, e) => pathStatus[e] = IF n = Origin[e] THEN "held" ELSE "flying"
         /\ hop[<<n, e>>] = "flying" => pathStatus[e] = "flying"
    /\ runs[<<Top, e>>] = 0 /\ (\A n \in Hops : ~Here(n, e)) =>
         pathStatus[e] = IF runs[<<Origin[e], e>>] = 0 THEN "new" ELSE "lost"

\* A place is below everything that has not handled the log yet.
LEMMA PlaceIsOne == PathInv => OnePlace
<1> SUFFICES ASSUME PathInv, NEW e \in Logs, NEW n \in Hops, Here(n, e)
             PROVE  /\ runs[<<Origin[e], e>>] > 0
                    /\ runs[<<Top, e>>] = 0
                    /\ ~(At(n, e) /\ hop[<<n, e>>] = "flying")
                    /\ \A m \in Hops : Here(m, e) => m = n
  BY DEF OnePlace
<1> USE LogPathAssumption DEF PathInv, TypeOK, Levels, Hops
<1>1. ASSUME NEW k \in Hops, Here(k, e)
      PROVE  /\ runs[<<k, e>>] > 0 /\ k >= Origin[e]
             /\ hop[<<k, e>>] # "arrived"
             /\ runs[<<k + 1, e>>] = 0
             /\ ~(At(k, e) /\ hop[<<k, e>>] = "flying")
  <2>1. k \in Levels /\ k + 1 \in Levels
    OBVIOUS
  <2>2. /\ runs[<<k, e>>] > 0
        /\ hop[<<k, e>>] # "arrived"
        /\ ~(At(k, e) /\ hop[<<k, e>>] = "flying")
    BY <1>1, <2>1 DEF Here, At, Located
  <2>3. k >= Origin[e]
    BY <2>1, <2>2 DEF TrailComplete
  <2>4. runs[<<k + 1, e>>] = 0
    BY <2>1, <2>2, <2>3 DEF CameUp
  <2> QED BY <2>2, <2>3, <2>4
<1>2. ASSUME NEW k \in Hops, Here(k, e), NEW m \in Levels, m > k
      PROVE  runs[<<m, e>>] = 0
  <2>0. k >= Origin[e] /\ runs[<<k + 1, e>>] = 0
    BY <1>1, <1>2
  <2>1. k + 1 \in Origin[e] .. m
    BY <1>2, <2>0
  <2>2. runs[<<m, e>>] > 0 => runs[<<k + 1, e>>] > 0
    BY <2>1 DEF TrailComplete
  <2>3. runs[<<m, e>>] \in Nat
    OBVIOUS
  <2> QED BY <2>0, <2>2, <2>3
<1>3. runs[<<Origin[e], e>>] > 0
  <2>1. runs[<<n, e>>] > 0 /\ n >= Origin[e]
    BY <1>1
  <2>2. Origin[e] \in Origin[e] .. n
    BY <2>1
  <2> QED BY <2>1, <2>2 DEF TrailComplete
<1>4. runs[<<Top, e>>] = 0
  BY <1>2
<1>5. ASSUME NEW m \in Hops, Here(m, e) PROVE m = n
  <2>0. runs[<<m, e>>] > 0 /\ runs[<<n, e>>] > 0 /\ m \in Levels /\ n \in Levels
    <3>1. runs[<<m, e>>] > 0
      BY <1>1, <1>5
    <3>2. runs[<<n, e>>] > 0
      BY <1>1
    <3> QED BY <3>1, <3>2
  <2>1. CASE m > n
    BY <1>2, <2>0, <2>1
  <2>2. CASE m < n
    BY <1>2, <1>5, <2>0, <2>2
  <2> QED BY <2>1, <2>2
<1> QED BY <1>1, <1>3, <1>4, <1>5

\* So the place tells the status.
LEMMA ReadingStatus == PathInv => StatusRead
<1> SUFFICES ASSUME PathInv, NEW e \in Logs
             PROVE  /\ runs[<<Top, e>>] > 0 => pathStatus[e] = "arrived"
                    /\ \A n \in Hops :
                         /\ At(n, e) => pathStatus[e] =
                              IF n = Origin[e] THEN "held" ELSE "flying"
                         /\ hop[<<n, e>>] = "flying" => pathStatus[e] = "flying"
                    /\ runs[<<Top, e>>] = 0 /\ (\A n \in Hops : ~Here(n, e)) =>
                         pathStatus[e] =
                           IF runs[<<Origin[e], e>>] = 0 THEN "new" ELSE "lost"
  BY DEF StatusRead
<1>0. Origin[e] \in Hops /\ Hops \subseteq Levels /\ Top \in Levels
      /\ \A n \in Levels : n \notin Hops => n = Top
  BY LogPathAssumption DEF Hops, Levels
<1>1. OnePlace
  BY PlaceIsOne
<1>2. CASE runs[<<Top, e>>] > 0
  <2>1. ASSUME NEW n \in Hops, Here(n, e) PROVE FALSE
    <3>1. runs[<<Top, e>>] = 0
      BY <1>1, <2>1 DEF OnePlace
    <3> QED BY <1>2, <3>1
  <2>2. pathStatus[e] = "arrived"
    BY <1>2 DEF pathStatus, Travelling
  <2> QED BY <1>2, <2>1, <2>2 DEF Here
<1>3. ASSUME NEW n \in Hops, At(n, e)
      PROVE  pathStatus[e] = IF n = Origin[e] THEN "held" ELSE "flying"
  <2>1. /\ runs[<<Top, e>>] = 0
        /\ At(Origin[e], e) => Origin[e] = n
    BY <1>0, <1>1, <1>3 DEF OnePlace, Here
  <2>2. n \in Levels
    BY <1>0
  <2> QED BY <1>3, <2>1, <2>2 DEF pathStatus, Travelling
<1>4. ASSUME NEW n \in Hops, hop[<<n, e>>] = "flying"
      PROVE  pathStatus[e] = "flying"
  <2>1. runs[<<Top, e>>] = 0 /\ ~At(Origin[e], e)
    BY <1>0, <1>1, <1>4 DEF OnePlace, Here
  <2> QED BY <1>4, <2>1 DEF pathStatus, Travelling
<1>5. ASSUME runs[<<Top, e>>] = 0, \A n \in Hops : ~Here(n, e)
      PROVE  pathStatus[e] = IF runs[<<Origin[e], e>>] = 0 THEN "new" ELSE "lost"
  <2>1. ~At(Top, e)
    BY <1>0, <1>5, LogPathAssumption DEF At, PathInv, Located, Hops
  <2>2. /\ \A n \in Levels : ~At(n, e)
        /\ \A n \in Hops : hop[<<n, e>>] # "flying"
    BY <1>0, <1>5, <2>1 DEF Here
  <2>3. ~At(Origin[e], e) /\ ~Travelling(e)
    BY <1>0, <2>2 DEF Travelling
  <2> QED BY <1>5, <2>3 DEF pathStatus
<1>6. runs[<<Top, e>>] \in Nat
  BY <1>0 DEF PathInv, TypeOK
<1> QED BY <1>2, <1>3, <1>4, <1>5, <1>6

\* A log whose place does not change keeps its status.
LEMMA SamePlace ==
  ASSUME PathInv, PathInv', StatusRead, StatusRead', NEW e \in Logs,
         runs'[<<Top, e>>] = runs[<<Top, e>>],
         runs'[<<Origin[e], e>>] = runs[<<Origin[e], e>>],
         \A n \in Hops : /\ At(n, e)' <=> At(n, e)
                         /\ hop'[<<n, e>>] = "flying" <=> hop[<<n, e>>] = "flying"
  PROVE  pathStatus'[e] = pathStatus[e]
<1>0. runs[<<Top, e>>] \in Nat
  BY LogPathAssumption DEF PathInv, TypeOK, Levels
<1>1. CASE runs[<<Top, e>>] > 0
  BY <1>1 DEF StatusRead
<1>2. CASE \E n \in Hops : At(n, e)
  BY <1>2 DEF StatusRead
<1>3. CASE \E n \in Hops : hop[<<n, e>>] = "flying"
  BY <1>3 DEF StatusRead
<1>4. CASE runs[<<Top, e>>] = 0 /\ \A n \in Hops : ~Here(n, e)
  <2>1. \A n \in Hops : ~Here(n, e)'
    BY <1>4 DEF Here
  <2> QED BY <1>4, <2>1 DEF StatusRead
<1> QED BY <1>0, <1>1, <1>2, <1>3, <1>4 DEF Here

\* A step that changes the status of the logs in S only.
LEMMA StatusChange ==
  ASSUME NEW S \in SUBSET Logs, NEW place,
         \A e \in S : pathStatus'[e] = place,
         \A e \in Logs \ S : pathStatus'[e] = pathStatus[e]
  PROVE  Path!Become(S, place)
BY DEF pathStatus, Path!Become

\* A step that empties the places in D, of which origins are emptied only if
\* they end, loses the logs that were there.
LEMMA PlacesEmptied ==
  ASSUME PathInv, PathInv', StatusRead, StatusRead', OnePlace,
         NEW D \in SUBSET (Hops \X Logs),
         runs' = runs, died \subseteq died',
         \A m \in Hops, e \in Logs :
           IF <<m, e>> \in D
           THEN /\ Here(m, e) /\ ~Here(m, e)'
                /\ At(m, e) /\ m = Origin[e] => m \in died'
           ELSE /\ At(m, e)' <=> At(m, e)
                /\ hop'[<<m, e>>] = "flying" <=> hop[<<m, e>>] = "flying"
  PROVE  Path!Next
<1> DEFINE S == {e \in Logs : \E m \in Hops : <<m, e>> \in D}
<1>1. ASSUME NEW e \in S
      PROVE  /\ pathStatus'[e] = "lost"
             /\ \/ pathStatus[e] = "flying"
                \/ pathStatus[e] = "held" /\ Origin[e] \in died'
  <2>1. PICK m \in Hops : <<m, e>> \in D
    OBVIOUS
  <2>2. Here(m, e) /\ ~Here(m, e)'
    BY <2>1
  <2>3. /\ runs[<<Top, e>>] = 0 /\ runs[<<Origin[e], e>>] > 0
        /\ \A k \in Hops : Here(k, e) => k = m
    BY <2>2 DEF OnePlace
  <2>4. \A k \in Hops : ~Here(k, e)'
    <3> SUFFICES ASSUME NEW k \in Hops, k # m PROVE ~Here(k, e)'
      BY <2>2
    <3>1. ~Here(k, e)
      BY <2>3
    <3>2. <<k, e>> \notin D
      BY <3>1
    <3> QED BY <3>1, <3>2 DEF Here
  <2>5. pathStatus'[e] = IF runs[<<Origin[e], e>>] = 0 THEN "new" ELSE "lost"
    BY <2>3, <2>4 DEF StatusRead
  <2>6. \/ pathStatus[e] = "flying"
        \/ pathStatus[e] = "held" /\ Origin[e] \in died'
    BY <2>1, <2>2 DEF StatusRead, Here
  <2> QED BY <2>3, <2>5, <2>6
<1>2. ASSUME NEW e \in Logs \ S PROVE pathStatus'[e] = pathStatus[e]
  <2>1. \A m \in Hops : /\ At(m, e)' <=> At(m, e)
                        /\ hop'[<<m, e>>] = "flying" <=> hop[<<m, e>>] = "flying"
    BY <1>2
  <2> QED BY <2>1, SamePlace
<1>3. Path!Become(S, "lost")
  BY <1>1, <1>2, StatusChange
<1>4. S \subseteq Path!In("flying") \cup
        (Path!In("held") \cap {e \in Logs : Origin[e] \in died'})
  BY <1>1 DEF Path!In
<1>5. Path!Lose
  BY <1>3, <1>4 DEF Path!Lose
<1> QED BY <1>5 DEF Path!Next

\* At first no log has been submitted.
LEMMA InitPathTransfer == Init => Path!Init
<1> SUFFICES ASSUME Init PROVE Path!Init
  OBVIOUS
<1>1. PathInv /\ StatusRead
  BY InitPath, ReadingStatus
<1>2. ASSUME NEW e \in Logs PROVE pathStatus[e] = "new"
  <2>1. runs[<<Top, e>>] = 0 /\ runs[<<Origin[e], e>>] = 0
    BY LogPathAssumption DEF Init, Levels
  <2>2. \A n \in Hops : ~Here(n, e)
    BY DEF Init, Here, At
  <2> QED BY <1>1, <2>1, <2>2 DEF StatusRead
<1>3. pathStatus = [e \in Logs |-> "new"]
  BY <1>2 DEF pathStatus
<1>4. {e \in Logs : Origin[e] \in died} = {}
  BY DEF Init
<1> QED BY <1>3, <1>4 DEF Path!Init

\* Every step is one of the transfer's, or none for the path as a whole.
LEMMA NextPathTransfer ==
  PathInv /\ StatusRead /\ OnePlace /\ PathInv' /\ StatusRead' /\ OnePlace'
    /\ [Next]_vars
  => [Path!Next]_<<pathStatus, {e \in Logs : Origin[e] \in died}>>
<1> SUFFICES ASSUME PathInv, StatusRead, OnePlace, PathInv', StatusRead', OnePlace',
                    [Next]_vars
             PROVE  \/ Path!Next
                    \/ /\ \A e \in Logs : pathStatus'[e] = pathStatus[e]
                       /\ died' = died
  BY DEF pathStatus
<1> USE LogPathAssumption DEF TypeOK, Levels, Hops
<1>0. TypeOK /\ TypeOK' /\ Top \in Levels /\ \A f \in Logs : Origin[f] \in Levels
  BY DEF PathInv
<1>1. ASSUME NEW e \in Logs, Submit(e) PROVE Path!Next
  <2>1. /\ Origin[e] \in Hops /\ Origin[e] \in Levels /\ Origin[e] < Top
        /\ runs[<<Origin[e], e>>] = 0
        /\ died' = died /\ hop' = hop
        /\ work' = work \cup {<<Origin[e], e>>}
    BY <1>1 DEF Submit, RunHandlers
  <2>2. pathStatus[e] = "new"
    <3>1. ASSUME NEW n \in Hops, Here(n, e) PROVE FALSE
      <4>1. runs[<<Origin[e], e>>] > 0
        BY <3>1 DEF OnePlace
      <4> QED BY <2>1, <4>1
    <3>2. runs[<<Top, e>>] = 0
      <4>1. Top \in Levels /\ Origin[e] \in Origin[e] .. Top
        BY <2>1
      <4> QED BY <1>0, <2>1, <4>1 DEF PathInv, TrailComplete
    <3> QED BY <2>1, <3>1, <3>2 DEF StatusRead
  <2>3. pathStatus'[e] = "held"
    <3>1. At(Origin[e], e)'
      BY <2>1 DEF At
    <3> QED BY <2>1, <3>1 DEF StatusRead
  <2>4. ASSUME NEW f \in Logs \ {e} PROVE pathStatus'[f] = pathStatus[f]
    <3>1. \A n \in Levels : runs'[<<n, f>>] = runs[<<n, f>>]
      BY <1>0, <1>1, <2>1 DEF Submit, RunHandlers, HandledAt
    <3>2. \A n \in Hops : At(n, f)' <=> At(n, f)
      BY <2>1 DEF At
    <3> QED BY <1>0, <2>1, <3>1, <3>2, SamePlace
  <2>5. Path!Become({e}, "held")
    BY <2>3, <2>4, StatusChange
  <2>6. Path!Accept(e)
    BY <2>1, <2>2, <2>5 DEF Path!Accept
  <2> QED BY <2>6 DEF Path!Next
<1>2. ASSUME NEW n \in Levels, NEW e \in Logs, Forward(n, e)
      PROVE  (\A f \in Logs : pathStatus'[f] = pathStatus[f]) /\ died' = died
  <2>1. /\ died' = died /\ runs' = runs
        /\ <<n, e>> \in work /\ work' = work \ {<<n, e>>}
        /\ \A m \in Hops, f \in Logs :
             hop'[<<m, f>>] = IF <<m, f>> = <<n, e>> THEN "held" ELSE hop[<<m, f>>]
    BY <1>0, <1>2 DEF Forward
  <2>2. n \in Hops => hop[<<n, e>>] = "new"
    BY <2>1 DEF PathInv, Located
  <2>3. \A m \in Hops, f \in Logs :
          /\ At(m, f)' <=> At(m, f)
          /\ hop'[<<m, f>>] = "flying" <=> hop[<<m, f>>] = "flying"
    BY <2>1, <2>2 DEF At
  <2> QED BY <2>1, <2>3, SamePlace
<1>3. ASSUME NEW n \in Hops, NEW e \in Logs, Emit(n, e)
      PROVE  \/ Path!Next
             \/ (\A f \in Logs : pathStatus'[f] = pathStatus[f]) /\ died' = died
  <2>1. /\ died' = died /\ runs' = runs /\ work' = work
        /\ hop[<<n, e>>] = "held"
        /\ \A m \in Hops, f \in Logs :
             hop'[<<m, f>>] = IF <<m, f>> = <<n, e>> THEN "flying" ELSE hop[<<m, f>>]
    BY <1>0, <1>3 DEF Emit
  <2>2. At(n, e) /\ hop'[<<n, e>>] = "flying"
    BY <2>1 DEF At
  <2>3. /\ pathStatus[e] = IF n = Origin[e] THEN "held" ELSE "flying"
        /\ pathStatus'[e] = "flying"
    BY <2>2 DEF StatusRead
  <2>4. ASSUME NEW f \in Logs \ {e} PROVE pathStatus'[f] = pathStatus[f]
    <3>1. \A m \in Hops : hop'[<<m, f>>] = hop[<<m, f>>] /\ (At(m, f)' <=> At(m, f))
      BY <2>1 DEF At
    <3> QED BY <2>1, <3>1, SamePlace
  <2>5. CASE n = Origin[e]
    <3>1. Path!Become({e}, "flying")
      BY <2>3, <2>4, StatusChange
    <3>2. Path!Emit(e)
      BY <2>1, <2>3, <2>5, <3>1 DEF Path!Emit
    <3> QED BY <3>2 DEF Path!Next
  <2>6. CASE n # Origin[e]
    BY <2>1, <2>3, <2>4, <2>6
  <2> QED BY <2>5, <2>6
<1>4. ASSUME NEW n \in Hops, NEW e \in Logs, Receive(n, e)
      PROVE  \/ Path!Next
             \/ (\A f \in Logs : pathStatus'[f] = pathStatus[f]) /\ died' = died
  <2>1. /\ n \in Levels /\ n + 1 \in Levels /\ n + 1 # n
        /\ died' = died
        /\ work' = work \cup {<<n + 1, e>>}
        /\ hop[<<n, e>>] = "flying"
        /\ \A m \in Hops, f \in Logs :
             hop'[<<m, f>>] = IF <<m, f>> = <<n, e>> THEN "arrived" ELSE hop[<<m, f>>]
        /\ \A m \in Levels, f \in Logs :
             runs'[<<m, f>>] = IF <<m, f>> = <<n + 1, e>> THEN runs[<<m, f>>] + 1
                                                       ELSE runs[<<m, f>>]
    <3>1. n \in Levels /\ n + 1 \in Levels /\ n + 1 # n
      OBVIOUS
    <3>2. /\ died' = died
          /\ work' = work \cup {<<n + 1, e>>}
          /\ hop[<<n, e>>] = "flying"
          /\ hop' = [hop EXCEPT ![<<n, e>>] = "arrived"]
          /\ runs' = [runs EXCEPT ![<<n + 1, e>>] = @ + 1]
      BY <1>4 DEF Receive, RunHandlers, HandledAt
    <3>3. \A m \in Hops, f \in Logs :
            hop'[<<m, f>>] = IF <<m, f>> = <<n, e>> THEN "arrived" ELSE hop[<<m, f>>]
      BY <1>0, <3>2
    <3>4. \A m \in Levels, f \in Logs :
            runs'[<<m, f>>] = IF <<m, f>> = <<n + 1, e>> THEN runs[<<m, f>>] + 1
                                                      ELSE runs[<<m, f>>]
      BY <1>0, <3>1, <3>2
    <3> QED BY <3>1, <3>2, <3>3, <3>4
  <2>2. pathStatus[e] = "flying"
    BY <2>1 DEF StatusRead
  <2>3. ASSUME NEW f \in Logs \ {e} PROVE pathStatus'[f] = pathStatus[f]
    <3>1. \A m \in Hops : hop'[<<m, f>>] = hop[<<m, f>>] /\ (At(m, f)' <=> At(m, f))
      BY <2>1 DEF At
    <3>2. \A m \in Levels : runs'[<<m, f>>] = runs[<<m, f>>]
      BY <2>1
    <3> QED BY <1>0, <2>1, <3>1, <3>2, SamePlace
  <2>4. CASE n + 1 = Top
    <3>1. runs'[<<Top, e>>] > 0
      <4>1. runs[<<n + 1, e>>] \in Nat
        BY <1>0, <2>1
      <4> QED BY <2>1, <2>4, <4>1
    <3>2. pathStatus'[e] = "arrived"
      BY <3>1 DEF StatusRead
    <3>3. Path!Become({e}, "arrived")
      BY <2>3, <3>2, StatusChange
    <3>4. Path!Arrive(e)
      BY <2>1, <2>2, <3>3 DEF Path!Arrive
    <3> QED BY <3>4 DEF Path!Next
  <2>5. CASE n + 1 # Top
    <3>1. n + 1 \in Hops
      BY <2>5
    <3>2. n >= Origin[e]
      <4>1. runs[<<n, e>>] > 0
        BY <2>1 DEF PathInv, Located
      <4> QED BY <2>1, <4>1 DEF PathInv, TrailComplete
    <3>3. At(n + 1, e)' /\ n + 1 # Origin[e]
      BY <2>1, <3>1, <3>2 DEF At
    <3>4. pathStatus'[e] = "flying"
      BY <3>1, <3>3 DEF StatusRead
    <3> QED BY <2>1, <2>2, <2>3, <3>4
  <2> QED BY <2>4, <2>5
<1>5. ASSUME NEW n \in Hops, Disconnect(n) PROVE Path!Next
  <2>1. PICK D \in SUBSET Flying(n) :
          hop' = [h \in Hops \X Logs |-> IF h \in D THEN "lost" ELSE hop[h]]
    BY <1>0, <1>5 DEF Disconnect, CutTo
  <2>2. runs' = runs /\ died' = died /\ work' = work
    BY <1>5 DEF Disconnect
  <2>3. D \in SUBSET (Hops \X Logs) /\ \A h \in D : hop[h] = "flying"
    BY <1>0, <2>1 DEF Flying
  <2>4. ASSUME NEW m \in Hops, NEW e \in Logs, <<m, e>> \in D
        PROVE  /\ Here(m, e) /\ ~Here(m, e)'
               /\ At(m, e) /\ m = Origin[e] => m \in died'
    <3>1. hop[<<m, e>>] = "flying" /\ hop'[<<m, e>>] = "lost"
      BY <2>1, <2>3, <2>4
    <3>2. ~At(m, e) /\ ~At(m, e)'
      BY <1>0, <2>2, <3>1 DEF At, PathInv, Located
    <3> QED BY <3>1, <3>2 DEF Here
  <2>5. ASSUME NEW m \in Hops, NEW e \in Logs, <<m, e>> \notin D
        PROVE  /\ At(m, e)' <=> At(m, e)
               /\ hop'[<<m, e>>] = "flying" <=> hop[<<m, e>>] = "flying"
    <3>1. hop'[<<m, e>>] = hop[<<m, e>>]
      BY <2>1, <2>5
    <3> QED BY <2>2, <3>1 DEF At
  <2> QED BY <2>2, <2>3, <2>4, <2>5, PlacesEmptied
<1>6. ASSUME NEW n \in Levels, Crash(n) PROVE Path!Next
  <2> DEFINE A == {<<n, f>> : f \in {g \in Logs : n \in Hops /\ At(n, g)}}
             D == A \cup Flying(n - 1)
  <2>1. /\ runs' = runs /\ died' = died \cup {n}
        /\ work' = {w \in work : w[1] # n}
        /\ \A m \in Hops, e \in Logs :
             hop'[<<m, e>>] =
               IF \/ m = n - 1 /\ hop[<<m, e>>] = "flying"
                  \/ m = n /\ hop[<<m, e>>] = "held"
               THEN "lost" ELSE hop[<<m, e>>]
    BY <1>0, <1>6 DEF Crash, Gone, Flying, Held
  <2>2. \A m \in Hops, e \in Logs :
          <<m, e>> \in D <=>
            \/ m = n /\ At(m, e)
            \/ m = n - 1 /\ hop[<<m, e>>] = "flying"
    <3> SUFFICES ASSUME NEW m \in Hops, NEW e \in Logs
                 PROVE  <<m, e>> \in D <=>
                          \/ m = n /\ At(m, e)
                          \/ m = n - 1 /\ hop[<<m, e>>] = "flying"
      OBVIOUS
    <3>1. <<m, e>> \in Flying(n - 1) <=> m = n - 1 /\ hop[<<m, e>>] = "flying"
      BY <1>0 DEF Flying
    <3>2. <<m, e>> \in A <=> m = n /\ At(m, e)
      <4>1. <<m, e>> \in A
              <=> \E f \in Logs : n \in Hops /\ At(n, f) /\ <<m, e>> = <<n, f>>
        OBVIOUS
      <4>2. \A f \in Logs : <<m, e>> = <<n, f>> <=> m = n /\ e = f
        OBVIOUS
      <4>3. CASE m = n /\ At(m, e)
        BY <4>1, <4>2, <4>3
      <4>4. CASE \E f \in Logs : n \in Hops /\ At(n, f) /\ m = n /\ e = f
        BY <4>1, <4>2, <4>4
      <4> QED BY <4>1, <4>2, <4>3, <4>4
    <3> HIDE DEF A
    <3> QED BY <3>1, <3>2
  <2>3. \A m \in Hops, e \in Logs :
          <<m, e>> \in work' <=> <<m, e>> \in work /\ m # n
    BY <2>1
  <2>4. ASSUME NEW m \in Hops, NEW e \in Logs, <<m, e>> \in D
        PROVE  /\ Here(m, e) /\ ~Here(m, e)'
               /\ At(m, e) /\ m = Origin[e] => m \in died'
    <3>1. CASE m = n /\ At(m, e)
      <4>1. hop[<<m, e>>] # "flying" /\ m # n - 1
        BY <1>0, <3>1 DEF At, PathInv, Located
      <4>2. hop'[<<m, e>>] # "flying" /\ ~At(m, e)'
        BY <2>1, <2>3, <3>1, <4>1 DEF At
      <4> QED BY <2>1, <3>1, <4>2 DEF Here
    <3>2. CASE m = n - 1 /\ hop[<<m, e>>] = "flying"
      <4>1. ~At(m, e)
        BY <1>0, <3>2 DEF At, PathInv, Located
      <4>2. hop'[<<m, e>>] = "lost" /\ ~At(m, e)'
        BY <2>1, <2>3, <3>2, <4>1 DEF At
      <4> QED BY <3>2, <4>1, <4>2 DEF Here
    <3> QED BY <2>2, <2>4, <3>1, <3>2
  <2>5. ASSUME NEW m \in Hops, NEW e \in Logs, <<m, e>> \notin D
        PROVE  /\ At(m, e)' <=> At(m, e)
               /\ hop'[<<m, e>>] = "flying" <=> hop[<<m, e>>] = "flying"
    <3>1. /\ ~(m = n /\ At(m, e))
          /\ ~(m = n - 1 /\ hop[<<m, e>>] = "flying")
      BY <2>2, <2>5
    <3>2. hop'[<<m, e>>] = hop[<<m, e>>]
      BY <2>1, <3>1 DEF At
    <3> QED BY <2>3, <3>1, <3>2 DEF At
  <2>6. D \in SUBSET (Hops \X Logs)
    BY <1>0 DEF Flying
  <2> HIDE DEF D
  <2> QED BY <2>1, <2>4, <2>5, <2>6, PlacesEmptied
<1>7. ASSUME NEW n \in Levels, Restart(n) PROVE Path!Next
  <2>1. /\ runs' = runs /\ died' = died /\ work' = work
        /\ Flying(n - 1) \in SUBSET (Hops \X Logs)
        /\ \A m \in Hops, e \in Logs :
             /\ <<m, e>> \in Flying(n - 1) =>
                  hop[<<m, e>>] = "flying" /\ hop'[<<m, e>>] = "lost"
             /\ <<m, e>> \notin Flying(n - 1) => hop'[<<m, e>>] = hop[<<m, e>>]
    BY <1>0, <1>7 DEF Restart, Resent, Flying
  <2>2. ASSUME NEW m \in Hops, NEW e \in Logs, <<m, e>> \in Flying(n - 1)
        PROVE  /\ Here(m, e) /\ ~Here(m, e)'
               /\ At(m, e) /\ m = Origin[e] => m \in died'
    <3>1. hop[<<m, e>>] = "flying" /\ hop'[<<m, e>>] = "lost"
      BY <2>1, <2>2
    <3>2. ~At(m, e) /\ ~At(m, e)'
      BY <1>0, <2>1, <3>1 DEF At, PathInv, Located
    <3> QED BY <3>1, <3>2 DEF Here
  <2>3. ASSUME NEW m \in Hops, NEW e \in Logs, <<m, e>> \notin Flying(n - 1)
        PROVE  /\ At(m, e)' <=> At(m, e)
               /\ hop'[<<m, e>>] = "flying" <=> hop[<<m, e>>] = "flying"
    BY <2>1, <2>3 DEF At
  <2> QED BY <2>1, <2>2, <2>3, PlacesEmptied
<1>8. ASSUME UNCHANGED vars
      PROVE  (\A e \in Logs : pathStatus'[e] = pathStatus[e]) /\ died' = died
  BY <1>8 DEF vars, pathStatus, Travelling, At
<1>9. ASSUME NEW n \in Hops, Reach(n)
      PROVE  (\A e \in Logs : pathStatus'[e] = pathStatus[e]) /\ died' = died
  BY <1>9 DEF Reach, pathStatus, Travelling, At
<1> QED BY <1>1, <1>2, <1>3, <1>4, <1>5, <1>6, <1>7, <1>8, <1>9 DEF Next

\* EndToEnd, for every length of the path and every set of logs.
THEOREM PathTransfers == Spec => EndToEnd
<1>1. PathInv => StatusRead /\ OnePlace
  BY ReadingStatus, PlaceIsOne
<1> QED BY <1>1, InitPath, NextPath, InitPathTransfer, NextPathTransfer, PTL
        DEF Spec, EndToEnd, Path!Spec
=============================================================================
