------------------------ MODULE ChildApprovalProofs ------------------------
(***************************************************************************)
(* Proofs about ChildApproval, for any children, claims, certificates,     *)
(* initial allow-list and number of concurrent calls.                      *)
(***************************************************************************)
EXTENDS ChildApproval, TLAPS

\* TypeOK, for all children: in particular no entry of the pending map is
\* for an empty node-id.
THEOREM TypeCorrect == Spec => []TypeOK
<1>1. Init => TypeOK
  BY DEF Init, TypeOK
<1>2. TypeOK /\ [Next]_vars => TypeOK'
  <2> SUFFICES ASSUME TypeOK, [Next]_vars PROVE TypeOK'
    OBVIOUS
  <2>1. ASSUME NEW r \in Calls, Open(r) \/ Decide(r) \/ Clear(r) \/ Disconnect(r)
        PROVE  TypeOK'
    BY <2>1 DEF TypeOK, Open, Decide, Clear, Disconnect, Move
  <2>2. ASSUME NEW r \in Calls, Record(r) PROVE TypeOK'
    <3>1. Entry(r) \subseteq Ids
      BY DEF Entry, Ids, Id, Calls
    <3> QED BY <2>2, <3>1 DEF TypeOK, Record, Move
  <2>3. ASSUME NEW id \in Ids, Approve(id) \/ Revoke(id) PROVE TypeOK'
    BY <2>3 DEF TypeOK, Approve, Revoke
  <2>4. CASE Stop \/ Start
    BY <2>4 DEF TypeOK, Stop, Start
  <2>5. CASE UNCHANGED vars
    BY <2>5 DEF TypeOK, vars
  <2> QED BY <2>1, <2>2, <2>3, <2>4, <2>5 DEF Next, Handler
<1> QED BY <1>1, <1>2, PTL DEF Spec

\* A call whose node-id is on the list while it waits for the hook has had its
\* chance: the list may change before the hook looks at it, but not to the
\* advantage of a call that is not in hope.
ApprovalInv ==
  /\ TypeOK
  /\ OnlyApprovedConnect
  /\ \A r \in Calls : call[r] = "opened" /\ Id(r) \in allowed => r \in hope

\* OnlyApprovedConnect, for all children: however their calls, approvals,
\* revocations and restarts interleave.
THEOREM ApprovedOnly == Spec => []OnlyApprovedConnect
<1>1. Init => ApprovalInv
  <2>1. Init => TypeOK
    BY DEF Init, TypeOK
  <2> QED BY <2>1 DEF Init, ApprovalInv, OnlyApprovedConnect
<1>2. ApprovalInv /\ TypeOK' /\ [Next]_vars => ApprovalInv'
  <2> SUFFICES ASSUME ApprovalInv, TypeOK', [Next]_vars PROVE ApprovalInv'
    OBVIOUS
  <2> USE DEF ApprovalInv, TypeOK, OnlyApprovedConnect, Move
  <2>1. ASSUME NEW r \in Calls, Open(r) PROVE ApprovalInv'
    BY <2>1 DEF Open
  <2>2. ASSUME NEW r \in Calls, Decide(r) PROVE ApprovalInv'
    BY <2>2 DEF Decide, Authorized, Id
  <2>3. ASSUME NEW r \in Calls, Record(r) \/ Clear(r) \/ Disconnect(r)
        PROVE  ApprovalInv'
    BY <2>3 DEF Record, Clear, Disconnect
  <2>4. ASSUME NEW id \in Ids, Approve(id) \/ Revoke(id) PROVE ApprovalInv'
    BY <2>4 DEF Approve, Revoke
  <2>5. CASE Stop \/ Start
    BY <2>5 DEF Stop, Start
  <2>6. CASE UNCHANGED vars
    BY <2>6 DEF vars
  <2> QED BY <2>1, <2>2, <2>3, <2>4, <2>5, <2>6 DEF Next, Handler
<1>3. ApprovalInv => OnlyApprovedConnect
  BY DEF ApprovalInv
<1> QED BY <1>1, <1>2, <1>3, TypeCorrect, PTL DEF Spec
=============================================================================
