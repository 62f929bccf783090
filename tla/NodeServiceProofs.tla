------------------------- MODULE NodeServiceProofs -------------------------
(***************************************************************************)
(* Proofs about NodeService, for any envelopes from agents and children,   *)
(* any ids and any Disturbances.                                           *)
(***************************************************************************)
EXTENDS NodeService, TLAPS

-----------------------------------------------------------------------------
(* Helpers *)

\* What a save that works leaves behind: at most one envelope per id, the new
\* one on disk, and nothing that was recorded forgotten.
LEMMA PutKeepsRecords ==
  ASSUME NEW e \in Envelopes, TypeOK,
         store' = Put(e), overwritten' = overwritten \cup Replaced(e),
         UNCHANGED unsaved
  PROVE  /\ store' \subseteq Envelopes /\ overwritten' \subseteq Envelopes
         /\ \A d, f \in store' : Id[d] = Id[f] => d = f
         /\ e \in store'
         /\ \A f \in Envelopes : Recorded(f) => Recorded(f)'
<1>1. store' \subseteq Envelopes /\ overwritten' \subseteq Envelopes /\ e \in store'
  BY DEF Put, Replaced, TypeOK
<1>2. \A d, f \in store' : Id[d] = Id[f] => d = f
  BY DEF Put, TypeOK
<1>3. \A f \in store : f \in store' \cup overwritten'
  BY <1>1 DEF Put, Replaced
<1>4. \A f \in Envelopes : Recorded(f) => Recorded(f)'
  BY <1>3 DEF Recorded
<1> QED BY <1>1, <1>2, <1>4

\* Answers are changed for requests in S only, and only if they were out.
LEMMA TellAnswers ==
  ASSUME TypeOK, NEW S \in SUBSET Envelopes, NEW ans \in {"accepted", "failed"},
         Tell(S, ans)
  PROVE  /\ answer' \in [From("agent") -> {"none", "accepted", "failed"}]
         /\ \A e \in From("agent") :
              answer'[e] = "accepted" =>
                answer[e] = "accepted" \/ (e \in S /\ ans = "accepted")
BY DEF Tell, TypeOK

-----------------------------------------------------------------------------
(* Type correctness *)

\* The initial state has the right types.
LEMMA InitType == Init => TypeOK
BY DEF Init, TypeOK

\* The end of the process keeps the types.
LEMMA EndType == TypeOK /\ EndProcess => TypeOK'
<1> SUFFICES ASSUME TypeOK, EndProcess PROVE TypeOK'
  OBVIOUS
<1>1. InFlight \in SUBSET Envelopes
  BY DEF InFlight
<1>2. Tell(InFlight, "failed")
  BY DEF EndProcess
<1>3. answer' \in [From("agent") -> {"none", "accepted", "failed"}]
  BY <1>1, <1>2, TellAnswers
<1> QED BY <1>3 DEF EndProcess, TypeOK, diskVars

\* Every step keeps the types; the store never has two envelopes for one id.
LEMMA NextType == TypeOK /\ [Next]_vars => TypeOK'
<1> SUFFICES ASSUME TypeOK, [Next]_vars PROVE TypeOK'
  OBVIOUS
<1>1. CASE StartUp
  BY <1>1 DEF TypeOK, StartUp, Open, StartServer, NewClient, Connect, Goto,
    diskVars
<1>2. CASE Signal
  BY <1>2 DEF TypeOK, Signal, Goto, diskVars
<1>3. CASE ShutDown
  <2>1. CASE Drained
    BY <2>1 DEF TypeOK, Drained, Goto, diskVars
  <2>2. CASE DrainTimeout
    BY <2>2 DEF TypeOK, DrainTimeout, Goto, Requests, diskVars
  <2>3. CASE CloseClient \/ StopServer \/ Cancel \/ CloseStore
    BY <2>3 DEF TypeOK, CloseClient, StopServer, Cancel, CloseStore, Goto, diskVars
  <2>4. CASE Exit
    BY <2>4, EndType DEF Exit
  <2> QED BY <1>3, <2>1, <2>2, <2>3, <2>4 DEF ShutDown
<1>4. CASE Crash
  BY <1>4, EndType DEF Crash
<1>5. CASE Listening \/ LateReopen
  BY <1>5 DEF TypeOK, Listening, Listens, ListenFails, LateReopen, diskVars
<1>6. ASSUME NEW e \in Envelopes, Arrive(e) PROVE TypeOK'
  BY <1>6 DEF TypeOK, Arrive, Move, diskVars
<1>7. ASSUME NEW e \in Envelopes, PostFails(e) PROVE TypeOK'
  <2>1. answer' \in [From("agent") -> {"none", "accepted", "failed"}]
    BY <1>7, TellAnswers DEF PostFails
  <2> QED BY <1>7, <2>1 DEF TypeOK, PostFails, Move, diskVars
<1>8. ASSUME NEW e \in Envelopes, Handle(e) PROVE TypeOK'
  <2>1. /\ store' \subseteq Envelopes /\ overwritten' \subseteq Envelopes
        /\ \A d, f \in store' : Id[d] = Id[f] => d = f
    <3>1. CASE store' = Put(e)
      BY <1>8, <3>1, PutKeepsRecords DEF Handle, TypeOK, diskVars
    <3>2. CASE UNCHANGED <<store, overwritten>>
      BY <3>2 DEF TypeOK
    <3> QED BY <1>8, <3>1, <3>2 DEF Handle, diskVars
  <2>2. unsaved' \subseteq Envelopes
    BY <1>8 DEF TypeOK, Handle, diskVars
  <2> QED BY <1>8, <2>1, <2>2 DEF TypeOK, Handle, Move
<1>9. ASSUME NEW e \in Envelopes, Forward(e) \/ Send(e) \/ SendFails(e)
      PROVE  TypeOK'
  <2>1. answer' \in [From("agent") -> {"none", "accepted", "failed"}]
    BY <1>9, TellAnswers DEF TypeOK, Forward, Send, SendFails, Finish
  <2>2. job' \in [Envelopes -> {"idle", "handle", "forward", "send", "done", "gone"}]
    BY <1>9 DEF TypeOK, Forward, Send, SendFails, Finish, Move
  <2> QED BY <1>9, <2>1, <2>2 DEF TypeOK, Forward, Send, SendFails, Queued, diskVars
<1>10. ASSUME NEW e \in Envelopes, SendPanics(e) PROVE TypeOK'
  BY <1>10, EndType DEF SendPanics
<1>11. ASSUME NEW e \in Envelopes, Retry(e) PROVE TypeOK'
  BY <1>11 DEF TypeOK, Retry, diskVars
<1>12. ASSUME NEW e \in Envelopes, AgentTimeout(e) PROVE TypeOK'
  <2>1. answer' \in [From("agent") -> {"none", "accepted", "failed"}]
    BY <1>12, TellAnswers DEF AgentTimeout
  <2> QED BY <1>12, <2>1 DEF TypeOK, AgentTimeout, processVars, diskVars
<1>13. CASE UNCHANGED vars
  BY <1>13 DEF TypeOK, vars, processVars, diskVars
<1> QED BY <1>1, <1>2, <1>3, <1>4, <1>5, <1>6, <1>7, <1>8, <1>9, <1>10, <1>11,
           <1>12, <1>13 DEF Next, Job

\* TypeOK, for all envelopes and ids.
THEOREM TypeCorrect == Spec => []TypeOK
BY InitType, NextType, PTL DEF Spec

-----------------------------------------------------------------------------
(* The inductive invariant *)

Ending == {"stopping", "halting", "cancelling", "closing", "exiting"}
Up == {"running", "draining"} \cup Ending

\* The client is what main has made of it.  Between Close and cancel it may
\* have a stream again; once the context is cancelled it has none.
ClientOfMain ==
  /\ main \in {"off", "opened", "listening"} => client = "nil"
  /\ main = "dialing" => client = "bare"
  /\ main \in {"running", "draining", "stopping"} => client = "ready"
  /\ main \in {"halting", "cancelling"} => client \in {"closed", "late"}
  /\ main \in {"closing", "exiting"} => client = "cut"

\* Requests of agents are served only when Start has returned, and those that
\* still run when main goes on to Stop are the ones Shutdown gave up on.
RequestsInTime ==
  /\ Requests # {} => main \in Up
  /\ main \in Ending => Requests \subseteq abandoned

\* No goroutine without a process.
NothingWhenOff == main = "off" => listener = "none" /\ InFlight = {}

\* What the handlers have seen is recorded, unless the store was closed
\* already.
HandledIsRecorded ==
  \A e \in Envelopes :
    /\ e \in queue => job[e] = "done"
    /\ job[e] \in {"forward", "send", "done"} =>
         Recorded(e) \/ main = "exiting"

\* Only an envelope that shares its id is ever overwritten.
OwnId(e) == \A d \in Envelopes \ {e} : Id[d] # Id[e]
OwnIdsStay == \A e \in overwritten : ~OwnId(e)

ServiceInv ==
  /\ TypeOK
  /\ ClientOfMain
  /\ NothingWhenOff
  /\ RequestsInTime
  /\ HandledIsRecorded
  /\ OwnIdsStay
  /\ AnsweredIsRecorded
  /\ SentIsRecorded
  /\ AgentLogsGoUp

\* What is recorded stays so, only envelopes that share their id are
\* overwritten, and what Shutdown gave up on is remembered.
LEMMA RecordsStay ==
  ASSUME TypeOK, OwnIdsStay, [Next]_vars
  PROVE  /\ \A e \in Envelopes : Recorded(e) => Recorded(e)'
         /\ OwnIdsStay'
         /\ abandoned \subseteq abandoned'
<1>1. CASE UNCHANGED diskVars /\ abandoned \subseteq abandoned'
  BY <1>1 DEF Recorded, diskVars, OwnIdsStay
<1>2. ASSUME NEW e \in Envelopes, Handle(e)
      PROVE  /\ \A f \in Envelopes : Recorded(f) => Recorded(f)'
             /\ OwnIdsStay'
             /\ UNCHANGED abandoned
  <2>1. CASE store' = Put(e) /\ overwritten' = overwritten \cup Replaced(e)
               /\ UNCHANGED unsaved
    <3>1. \A d \in Replaced(e) : ~OwnId(d)
      BY DEF Replaced, OwnId, TypeOK
    <3>2. OwnIdsStay'
      BY <2>1, <3>1 DEF OwnIdsStay
    <3> QED BY <1>2, <2>1, <3>2, PutKeepsRecords DEF Handle
  <2>2. CASE UNCHANGED <<store, overwritten>> /\ unsaved \subseteq unsaved'
    BY <1>2, <2>2 DEF Handle, Recorded, OwnIdsStay
  <2> QED BY <1>2, <2>1, <2>2 DEF Handle, diskVars
<1>3. \/ \E e \in Envelopes : Handle(e)
      \/ UNCHANGED diskVars /\ abandoned \subseteq abandoned'
  <2>1. CASE StartUp \/ Signal \/ ShutDown \/ Crash \/ LateReopen \/ Listening
    BY <2>1 DEF StartUp, Open, StartServer, NewClient, Connect, Signal, ShutDown,
      Drained, DrainTimeout, CloseClient, StopServer, Cancel, CloseStore, Exit,
      Crash, EndProcess, LateReopen, Listening, Listens, ListenFails
  <2>2. ASSUME NEW e \in Envelopes,
               Arrive(e) \/ PostFails(e) \/ Forward(e) \/ Send(e) \/ SendFails(e)
                 \/ SendPanics(e) \/ Retry(e) \/ AgentTimeout(e)
        PROVE  UNCHANGED <<diskVars, abandoned>>
    BY <2>2 DEF Arrive, PostFails, Forward, Send, SendFails, SendPanics,
      EndProcess, Retry, AgentTimeout
  <2>3. CASE UNCHANGED vars
    BY <2>3 DEF vars
  <2> QED BY <2>1, <2>2, <2>3 DEF Next, Job
<1> QED BY <1>1, <1>2, <1>3

\* After the end of the process no goroutine is left.
LEMMA EndEmpties ==
  ASSUME TypeOK, EndProcess
  PROVE  /\ \A e \in Envelopes : job'[e] \in {"idle", "gone"}
         /\ InFlight' = {} /\ Requests' = {}
         /\ \A e \in From("agent") : answer'[e] = "accepted" => answer[e] = "accepted"
<1>1. \A e \in Envelopes : job'[e] \in {"idle", "gone"}
  BY DEF EndProcess, TypeOK
<1>2. InFlight' = {} /\ Requests' = {}
  BY <1>1 DEF Requests, InFlight
<1>3. \A e \in From("agent") : answer'[e] = "accepted" => answer[e] = "accepted"
  <2>1. InFlight \in SUBSET Envelopes /\ Tell(InFlight, "failed")
    BY DEF InFlight, EndProcess
  <2> QED BY <2>1, TellAnswers
<1> QED BY <1>1, <1>2, <1>3

\* The initial state satisfies the invariant.
LEMMA InitService == Init => ServiceInv
<1> SUFFICES ASSUME Init PROVE ServiceInv
  OBVIOUS
<1>1. TypeOK
  BY InitType
<1>2. ClientOfMain /\ HandledIsRecorded /\ OwnIdsStay
  BY DEF Init, ClientOfMain, HandledIsRecorded, OwnIdsStay
<1>3. RequestsInTime
  BY DEF Init, RequestsInTime, Requests, InFlight, Ending
<1>4. AnsweredIsRecorded /\ SentIsRecorded /\ AgentLogsGoUp
  BY DEF Init, AnsweredIsRecorded, SentIsRecorded, AgentLogsGoUp, From
<1>5. NothingWhenOff
  BY DEF Init, NothingWhenOff, InFlight
<1> QED BY <1>1, <1>2, <1>3, <1>4, <1>5 DEF ServiceInv

\* The end of the process, at whatever point, keeps the invariant.
LEMMA EndService == ServiceInv /\ EndProcess => ServiceInv'
<1> SUFFICES ASSUME ServiceInv, EndProcess PROVE ServiceInv'
  OBVIOUS
<1>0. TypeOK /\ UNCHANGED <<sent, store, unsaved, overwritten, abandoned>>
  BY DEF ServiceInv, EndProcess, diskVars
<1>1. TypeOK'
  BY EndType DEF ServiceInv
<1>2. ClientOfMain'
  BY DEF EndProcess, ClientOfMain
<1>3. RequestsInTime'
  BY <1>0, EndEmpties DEF EndProcess, RequestsInTime, Ending
<1>4. HandledIsRecorded'
  BY <1>0, EndEmpties DEF EndProcess, HandledIsRecorded
<1>5. AnsweredIsRecorded'
  BY <1>0, EndEmpties DEF ServiceInv, AnsweredIsRecorded, Recorded
<1>6. SentIsRecorded'
  BY <1>0 DEF ServiceInv, SentIsRecorded, Recorded
<1>7. AgentLogsGoUp'
  BY <1>0, EndEmpties DEF AgentLogsGoUp, From
<1>8. NothingWhenOff'
  BY <1>0, EndEmpties DEF EndProcess, NothingWhenOff
<1>9. OwnIdsStay'
  BY <1>0 DEF ServiceInv, OwnIdsStay
<1> QED BY <1>1, <1>2, <1>3, <1>4, <1>5, <1>6, <1>7, <1>8, <1>9 DEF ServiceInv

\* So do the steps of main, of a late reopen and of Listen.
LEMMA MainService ==
  ASSUME ServiceInv,
         StartUp \/ Signal \/ Drained \/ DrainTimeout \/ CloseClient
           \/ StopServer \/ Cancel \/ CloseStore \/ LateReopen \/ Listening
  PROVE  ServiceInv'
<1>0. UNCHANGED <<job, queue, sent, store, unsaved, overwritten, answer>>
  BY DEF StartUp, Open, StartServer, NewClient, Connect, Signal, Drained,
    DrainTimeout, CloseClient, StopServer, Cancel, CloseStore, LateReopen,
    Listening, Listens, ListenFails, diskVars
<1>1. TypeOK'
  BY NextType DEF ServiceInv, Next, ShutDown
<1>2. ClientOfMain'
  <2>1. CASE StartUp \/ Signal \/ Drained \/ DrainTimeout
    BY <2>1 DEF ServiceInv, ClientOfMain, StartUp, Open, StartServer, NewClient,
      Connect, Signal, Drained, DrainTimeout, Goto
  <2>2. CASE CloseClient \/ StopServer \/ Cancel \/ CloseStore
    BY <2>2 DEF ServiceInv, ClientOfMain, CloseClient, StopServer, Cancel,
      CloseStore, Goto
  <2>3. CASE LateReopen
    BY <2>3 DEF ServiceInv, TypeOK, ClientOfMain, LateReopen
  <2>4. CASE Listening
    BY <2>4 DEF ServiceInv, ClientOfMain, Listening, Listens, ListenFails
  <2> QED BY <2>1, <2>2, <2>3, <2>4
<1>3. Requests' = Requests
  BY <1>0 DEF Requests, InFlight
<1>4. RequestsInTime'
  <2>1. CASE Drained \/ DrainTimeout
    BY <1>3, <2>1 DEF ServiceInv, RequestsInTime, Drained, DrainTimeout, Goto, Up,
      Ending
  <2>2. CASE StartUp \/ Signal
    BY <1>3, <2>2 DEF ServiceInv, RequestsInTime, StartUp, Open, StartServer,
      NewClient, Connect, Signal, Goto, Up, Ending
  <2>3. CASE CloseClient \/ StopServer \/ Cancel \/ CloseStore
    BY <1>3, <2>3 DEF ServiceInv, RequestsInTime, CloseClient, StopServer,
      Cancel, CloseStore, Goto, Up, Ending
  <2>4. CASE LateReopen \/ Listening
    BY <1>3, <2>4 DEF ServiceInv, RequestsInTime, LateReopen, Listening, Listens,
      ListenFails
  <2> QED BY <2>1, <2>2, <2>3, <2>4
<1>5. HandledIsRecorded'
  BY <1>0 DEF ServiceInv, HandledIsRecorded, Recorded, StartUp, Open,
    StartServer, NewClient, Connect, Signal, Drained, DrainTimeout, CloseClient,
    StopServer, Cancel, CloseStore, LateReopen, Listening, Listens, ListenFails,
    Goto
<1>6. OwnIdsStay' /\ abandoned \subseteq abandoned'
  BY RecordsStay DEF ServiceInv, Next, ShutDown
<1>7. AnsweredIsRecorded' /\ SentIsRecorded' /\ AgentLogsGoUp'
  BY <1>0, <1>6 DEF ServiceInv, AnsweredIsRecorded, SentIsRecorded,
    AgentLogsGoUp, Recorded
<1>8. NothingWhenOff'
  BY <1>0 DEF ServiceInv, NothingWhenOff, InFlight, StartUp, Open, StartServer,
    NewClient, Connect, Signal, Drained, DrainTimeout, CloseClient, StopServer,
    Cancel, CloseStore, LateReopen, Listening, Listens, ListenFails, Goto
<1> QED BY <1>1, <1>2, <1>4, <1>5, <1>6, <1>7, <1>8 DEF ServiceInv

\* What remains to be shown of a step of an envelope's goroutine other than
\* the panic: main and the client are as before, and unless the envelope comes
\* in no goroutine appears.
LEMMA JobService ==
  ASSUME ServiceInv, [Next]_vars, UNCHANGED <<main, listener, client>>,
         \/ InFlight' \subseteq InFlight
         \/ Requests' \subseteq Requests /\ main # "off"
         \/ main = "running",
         HandledIsRecorded', AnsweredIsRecorded', SentIsRecorded', AgentLogsGoUp'
  PROVE  ServiceInv'
<1>1. TypeOK'
  BY NextType DEF ServiceInv
<1>2. ClientOfMain'
  BY DEF ServiceInv, ClientOfMain
<1>3. Requests' \subseteq Requests \/ main = "running"
  BY DEF Requests
<1>4. RequestsInTime'
  BY <1>3, RecordsStay DEF ServiceInv, RequestsInTime, Up, Ending
<1>5. NothingWhenOff'
  BY DEF ServiceInv, NothingWhenOff
<1>6. OwnIdsStay'
  BY RecordsStay DEF ServiceInv
<1> QED BY <1>1, <1>2, <1>4, <1>5, <1>6 DEF ServiceInv

\* An envelope comes in, or never does.
LEMMA ArriveService ==
  ASSUME ServiceInv, NEW e \in Envelopes, Arrive(e) \/ PostFails(e)
  PROVE  ServiceInv'
<1>0. [Next]_vars /\ TypeOK
  BY DEF ServiceInv, Next
<1>1. /\ job' = [job EXCEPT ![e] = "handle"] \/ job' = [job EXCEPT ![e] = "gone"]
      /\ job[e] = "idle"
      /\ UNCHANGED <<main, listener, client, queue, sent, store, unsaved,
                     overwritten, abandoned>>
  BY DEF Arrive, PostFails, Move, diskVars
<1>2. \/ InFlight' \subseteq InFlight
      \/ Requests' \subseteq Requests /\ main # "off"
      \/ main = "running"
  <2>1. CASE PostFails(e)
    <3>1. InFlight' \subseteq InFlight
      BY <1>0, <2>1 DEF TypeOK, PostFails, Move, InFlight
    <3> QED BY <3>1
  <2>2. CASE Arrive(e) /\ Source[e] = "agent"
    BY <2>2 DEF Arrive
  <2>3. CASE Arrive(e) /\ Source[e] # "agent"
    <3>1. Requests' \subseteq Requests
      BY <1>0, <1>1, <2>3 DEF TypeOK, Requests, InFlight, From
    <3>2. main # "off"
      BY <2>3 DEF ServiceInv, NothingWhenOff, Arrive
    <3> QED BY <3>1, <3>2
  <2> QED BY <2>1, <2>2, <2>3
<1>3. HandledIsRecorded'
  BY <1>0, <1>1 DEF ServiceInv, TypeOK, HandledIsRecorded, Recorded
<1>4. AnsweredIsRecorded'
  <2>1. \A f \in From("agent") : answer'[f] = "accepted" => answer[f] = "accepted"
    <3>1. CASE Arrive(e)
      BY <3>1 DEF Arrive
    <3>2. CASE PostFails(e)
      BY <1>0, <3>2, TellAnswers DEF PostFails
    <3> QED BY <3>1, <3>2
  <2> QED BY <1>1, <2>1 DEF ServiceInv, AnsweredIsRecorded, Recorded
<1>5. SentIsRecorded'
  BY <1>1 DEF ServiceInv, SentIsRecorded, Recorded
<1>6. AgentLogsGoUp'
  BY <1>0, <1>1 DEF ServiceInv, TypeOK, AgentLogsGoUp, From
<1> QED BY <1>0, <1>1, <1>2, <1>3, <1>4, <1>5, <1>6, JobService

\* The handlers run: from here on the envelope is recorded, unless the store
\* was closed.
LEMMA HandleService ==
  ASSUME ServiceInv, NEW e \in Envelopes, Handle(e)
  PROVE  ServiceInv'
<1>0. [Next]_vars /\ TypeOK
  BY DEF ServiceInv, Next, Job
<1>1. /\ job[e] = "handle" /\ job' = [job EXCEPT ![e] = "forward"]
      /\ UNCHANGED <<main, listener, client, queue, sent, abandoned, answer>>
  BY DEF Handle, Move
<1>2. InFlight' \subseteq InFlight
  BY <1>0, <1>1 DEF TypeOK, InFlight
<1>3. Recorded(e)' \/ main = "exiting"
  <2>1. CASE StoreOpen /\ store' = Put(e)
    BY <2>1 DEF Recorded, Put
  <2>2. CASE ~StoreOpen
    <3>1. main # "off"
      BY <1>1 DEF ServiceInv, NothingWhenOff, InFlight
    <3> QED BY <2>2, <3>1 DEF StoreOpen
  <2>3. CASE unsaved' = unsaved \cup {e}
    BY <2>3 DEF Recorded
  <2> QED BY <2>1, <2>2, <2>3 DEF Handle
<1>4. HandledIsRecorded'
  BY <1>0, <1>1, <1>3, RecordsStay DEF ServiceInv, TypeOK, HandledIsRecorded
<1>5. AnsweredIsRecorded' /\ SentIsRecorded'
  BY <1>0, <1>1, RecordsStay DEF ServiceInv, TypeOK, AnsweredIsRecorded, SentIsRecorded, From
<1>6. AgentLogsGoUp'
  BY <1>0, <1>1 DEF ServiceInv, TypeOK, AgentLogsGoUp, From
<1> QED BY <1>0, <1>1, <1>2, <1>4, <1>5, <1>6, JobService

\* forwardUp: without a client, or with one the transport takes the envelope
\* or the queue does.
LEMMA ForwardService ==
  ASSUME ServiceInv, NEW e \in Envelopes, Forward(e) \/ Send(e) \/ SendFails(e)
  PROVE  ServiceInv'
<1>0. [Next]_vars /\ TypeOK
  BY DEF ServiceInv, Next, Job
<1>1. /\ job[e] \in {"forward", "send"}
      /\ \/ job' = [job EXCEPT ![e] = "done"] /\ Tell({e}, "accepted")
         \/ job' = [job EXCEPT ![e] = "send"] /\ UNCHANGED answer
      /\ UNCHANGED <<main, listener, client, store, unsaved, overwritten,
                     abandoned>>
  BY DEF Forward, Send, SendFails, Finish, Move, diskVars
<1>2. InFlight' \subseteq InFlight
  BY <1>0, <1>1 DEF TypeOK, InFlight
<1>3. Recorded(e) \/ main = "exiting"
  BY <1>1 DEF ServiceInv, HandledIsRecorded
<1>4. HandledIsRecorded'
  <2>1. \A f \in queue' : f \in queue \/ (f = e /\ job'[e] = "done")
    BY <1>0 DEF TypeOK, Forward, Send, SendFails, Queued, Finish, Move
  <2> QED BY <1>0, <1>1, <1>3, <2>1 DEF ServiceInv, TypeOK, HandledIsRecorded,
        Recorded
<1>5. AnsweredIsRecorded'
  <2>1. \A f \in From("agent") :
          answer'[f] = "accepted" => answer[f] = "accepted" \/ f = e
    BY <1>0, <1>1, TellAnswers
  <2>2. e \in From("agent") /\ main = "exiting" => e \in abandoned
    BY <1>1 DEF ServiceInv, RequestsInTime, Requests, InFlight, Ending
  <2> QED BY <1>1, <1>3, <2>1, <2>2 DEF ServiceInv, AnsweredIsRecorded, Recorded
<1>6. SentIsRecorded'
  <2>1. sent' = sent \/ (sent' = sent \cup {e} /\ HasStream)
    BY DEF Forward, Send, SendFails
  <2>2. HasStream => main # "exiting"
    BY DEF ServiceInv, ClientOfMain, HasStream
  <2> QED BY <1>1, <1>3, <2>1, <2>2 DEF ServiceInv, SentIsRecorded, Recorded
<1>7. AgentLogsGoUp'
  <2>1. e \in From("agent") => client # "nil"
    BY <1>0, <1>1 DEF ServiceInv, RequestsInTime, Requests, InFlight, Up,
      Ending, ClientOfMain
  <2>2. \A f \in From("agent") : f # e => job'[f] = job[f]
    BY <1>0, <1>1 DEF TypeOK, From
  <2>3. /\ sent \cup queue \subseteq sent' \cup queue'
        /\ e \in From("agent") /\ job'[e] = "done" => e \in sent' \cup queue'
    BY <1>0, <2>1 DEF TypeOK, Forward, Send, SendFails, Queued, Finish, Move
  <2> QED BY <2>2, <2>3 DEF ServiceInv, AgentLogsGoUp
<1> QED BY <1>0, <1>1, <1>2, <1>4, <1>5, <1>6, <1>7, JobService

\* retryLoop moves an envelope from the queue to the transport; an agent's
\* patience concerns its answer only.
LEMMA QuietService ==
  ASSUME ServiceInv, NEW e \in Envelopes, Retry(e) \/ AgentTimeout(e)
  PROVE  ServiceInv'
<1>0. [Next]_vars /\ TypeOK
  BY DEF ServiceInv, Next
<1>1. UNCHANGED <<main, listener, client, job, store, unsaved, overwritten,
                  abandoned>>
  BY DEF Retry, AgentTimeout, processVars, diskVars
<1>2. InFlight' \subseteq InFlight
  BY <1>1 DEF InFlight
<1>3. HandledIsRecorded'
  <2>1. queue' \subseteq queue
    BY DEF Retry, AgentTimeout, processVars
  <2> QED BY <1>1, <2>1 DEF ServiceInv, HandledIsRecorded, Recorded
<1>4. AnsweredIsRecorded'
  <2>1. \A f \in From("agent") : answer'[f] = "accepted" => answer[f] = "accepted"
    <3>1. CASE Retry(e)
      BY <3>1 DEF Retry
    <3>2. CASE AgentTimeout(e)
      BY <1>0, <3>2, TellAnswers DEF AgentTimeout
    <3> QED BY <3>1, <3>2
  <2> QED BY <1>1, <2>1 DEF ServiceInv, AnsweredIsRecorded, Recorded
<1>5. SentIsRecorded'
  <2>1. CASE Retry(e)
    <3>1. Recorded(e)
      BY <2>1 DEF ServiceInv, HandledIsRecorded, ClientOfMain, Retry, HasStream
    <3> QED BY <1>1, <2>1, <3>1 DEF ServiceInv, SentIsRecorded, Recorded, Retry
  <2>2. CASE AgentTimeout(e)
    BY <1>1, <2>2 DEF ServiceInv, SentIsRecorded, Recorded, AgentTimeout
  <2> QED BY <2>1, <2>2
<1>6. AgentLogsGoUp'
  <2>1. sent \cup queue \subseteq sent' \cup queue'
    BY DEF Retry, AgentTimeout, processVars
  <2> QED BY <1>1, <2>1 DEF ServiceInv, AgentLogsGoUp
<1> QED BY <1>0, <1>1, <1>2, <1>3, <1>4, <1>5, <1>6, JobService

\* Every step keeps the invariant.
LEMMA NextService == ServiceInv /\ [Next]_vars => ServiceInv'
<1> SUFFICES ASSUME ServiceInv, [Next]_vars PROVE ServiceInv'
  OBVIOUS
<1>1. CASE StartUp \/ Signal \/ Drained \/ DrainTimeout \/ CloseClient
             \/ StopServer \/ Cancel \/ CloseStore \/ LateReopen \/ Listening
  BY <1>1, MainService
<1>2. CASE Exit \/ Crash
  BY <1>2, EndService DEF Exit, Crash
<1>3. ASSUME NEW e \in Envelopes, Arrive(e) \/ PostFails(e) PROVE ServiceInv'
  BY <1>3, ArriveService
<1>4. ASSUME NEW e \in Envelopes, Handle(e) PROVE ServiceInv'
  BY <1>4, HandleService
<1>5. ASSUME NEW e \in Envelopes, Forward(e) \/ Send(e) \/ SendFails(e)
      PROVE  ServiceInv'
  BY <1>5, ForwardService
<1>6. ASSUME NEW e \in Envelopes, SendPanics(e) PROVE ServiceInv'
  BY <1>6, EndService DEF SendPanics
<1>7. ASSUME NEW e \in Envelopes, Retry(e) \/ AgentTimeout(e) PROVE ServiceInv'
  BY <1>7, QuietService
<1>8. CASE UNCHANGED vars
  BY <1>8 DEF vars, processVars, diskVars, ServiceInv, TypeOK, ClientOfMain,
    NothingWhenOff, InFlight, RequestsInTime, Requests, HandledIsRecorded,
    OwnIdsStay, AnsweredIsRecorded, SentIsRecorded, AgentLogsGoUp, Recorded
<1> QED BY <1>1, <1>2, <1>3, <1>4, <1>5, <1>6, <1>7, <1>8 DEF Next, ShutDown, Job

\* The invariant holds in every behaviour.
LEMMA ServiceInvHolds == Spec => []ServiceInv
BY InitService, NextService, PTL DEF Spec

-----------------------------------------------------------------------------
(* Safety *)

\* AnsweredIsRecorded, for all envelopes: no crash, panic, restart or shutdown
\* takes a log off the disk that an agent was answered 202 for.  What may is a
\* later log with the same id; what may keep it from getting there is the disk
\* itself or Shutdown's deadline.
THEOREM AnsweredOnDisk == Spec => []AnsweredIsRecorded
<1>1. ServiceInv => AnsweredIsRecorded
  BY DEF ServiceInv
<1> QED BY <1>1, ServiceInvHolds, PTL

\* A log that shares its id with no other is itself on disk when its agent has
\* been answered, unless its own save failed or Shutdown gave up on it.
OwnLogRecorded ==
  \A e \in From("agent") :
    answer[e] = "accepted" /\ OwnId(e) => e \in store \cup unsaved \cup abandoned
THEOREM OwnLogOnDisk == Spec => []OwnLogRecorded
<1>1. ServiceInv => OwnLogRecorded
  BY DEF ServiceInv, AnsweredIsRecorded, Recorded, OwnIdsStay, OwnLogRecorded
<1> QED BY <1>1, ServiceInvHolds, PTL

\* SentIsRecorded, for all envelopes: the parent has no log that this node has
\* not recorded before, although a reopen may give a closed client a stream
\* again; cancel is what takes it away before the store is closed.
THEOREM SentOnDisk == Spec => []SentIsRecorded
<1>1. ServiceInv => SentIsRecorded
  BY DEF ServiceInv
<1> QED BY <1>1, ServiceInvHolds, PTL

\* AgentLogsGoUp, for all envelopes: forwardUp never drops an agent's log.
THEOREM AgentLogsKept == Spec => []AgentLogsGoUp
<1>1. ServiceInv => AgentLogsGoUp
  BY DEF ServiceInv
<1> QED BY <1>1, ServiceInvHolds, PTL
=============================================================================
