--------------------------- MODULE ChildApproval ----------------------------
(***************************************************************************)
(* Who may connect as a child: transport.Server.authorize, run at the      *)
(* start of each Upstream and Downstream RPC, with the hook that           *)
(* examples/node installs (childAllowList.Authorize), the admin API that   *)
(* edits the allow-list, and the map of rejected children the admin sees.  *)
(*                                                                         *)
(* The hook runs without Server.mu; the map is updated afterwards, under   *)
(* it.  Both RPCs of a child, and an RPC and its retry, run concurrently.  *)
(***************************************************************************)
EXTENDS Naturals, FiniteSets

CONSTANTS
  Children,
  Claim,        \* the node-id each child sends; Anonymous for none
  CommonName,   \* the name in its client certificate
  Anonymous,
  Initial,      \* allowed_child_ids of the configuration file
  Revocable,    \* node-ids the administrator may take off the list
  Generations   \* bound: calls of one child and kind under way together

Ids == {Claim[c] : c \in Children} \ {Anonymous}
Kinds == {"up", "down"}
Calls == Children \X Kinds \X (1 .. Generations)

ASSUME ApprovalAssumption ==
  /\ DOMAIN Claim = Children /\ DOMAIN CommonName = Children
  /\ Anonymous \notin Initial
  /\ Generations \in Nat \ {0}

VARIABLES
  allowed,   \* childAllowList.allowed
  call,      \* how far each RPC's handler is
  pending,   \* Server.pending, without the time and reason of each entry
  running,   \* the parent process is up
  hope       \* history: calls whose node-id has been allowed since they began

vars == <<allowed, call, pending, running, hope>>

Id(r) == Claim[r[1]]

TypeOK ==
  /\ allowed \subseteq Ids \cup Initial
  /\ call \in [Calls -> {"none", "opened", "rejected", "accepted", "connected"}]
  /\ pending \subseteq Ids
  /\ running \in BOOLEAN
  /\ hope \subseteq Calls

Init ==
  /\ allowed = Initial
  /\ call = [r \in Calls |-> "none"]
  /\ pending = {}
  /\ running = TRUE
  /\ hope = {}

Move(r, place) == call' = [call EXCEPT ![r] = place]

-----------------------------------------------------------------------------
(* RPC handlers *)

\* A child opens an RPC: the gRPC server starts a handler.
Open(r) ==
  /\ running
  /\ call[r] = "none"
  /\ Move(r, "opened")
  /\ hope' = IF Id(r) \in allowed THEN hope \cup {r} ELSE hope \ {r}
  /\ UNCHANGED <<allowed, pending, running>>

\* Mutants: a child with an RPC open is not looked up again; a child that
\* has been rejected stays rejected.
AuthorizedOnce(r) ==
  /\ CommonName[r[1]] = Id(r)
  /\ Id(r) \in allowed \/ \E q \in Calls : call[q] = "connected" /\ Id(q) = Id(r)
AuthorizedUnlessPending(r) ==
  /\ CommonName[r[1]] = Id(r)
  /\ Id(r) \in allowed \ pending

Authorized(r) ==
  /\ Id(r) # Anonymous
  /\ Id(r) \in allowed
  /\ CommonName[r[1]] = Id(r)

\* The hook's one look at the allow-list, and at the certificate.
Decide(r) ==
  /\ call[r] = "opened"
  /\ Move(r, IF Authorized(r) THEN "accepted" ELSE "rejected")
  /\ UNCHANGED <<allowed, pending, running, hope>>

EntryLost(r) == {}             \* mutant: rejections are not remembered
EntryAnonymous(r) == {Id(r)}   \* mutant: an entry without a node-id
Entry(r) == {Id(r)} \ {Anonymous}

\* recordRejection, and the handler returns the error.  Nothing is recorded
\* for a child without a node-id; an existing entry is kept as it is.
Record(r) ==
  /\ call[r] = "rejected"
  /\ pending' = pending \cup Entry(r)
  /\ Move(r, "none")
  /\ UNCHANGED <<allowed, running, hope>>

\* clearRejection, and the handler goes on to serve the stream.
Clear(r) ==
  /\ call[r] = "accepted"
  /\ pending' = pending \ {Id(r)}
  /\ Move(r, "connected")
  /\ UNCHANGED <<allowed, running, hope>>

\* The stream ends.  Nothing in the registry of rejections changes.
Disconnect(r) ==
  /\ call[r] = "connected"
  /\ Move(r, "none")
  /\ UNCHANGED <<allowed, pending, running, hope>>

-----------------------------------------------------------------------------
(* The administrator, and the process *)

\* POST api/v1/admin/allowed-children.
Approve(id) ==
  /\ running
  /\ allowed' = allowed \cup {id}
  /\ hope' = hope \cup {r \in Calls : call[r] = "opened" /\ Id(r) = id}
  /\ UNCHANGED <<call, pending, running>>

\* DELETE api/v1/admin/allowed-children/{node_id}: connected children stay.
Revoke(id) ==
  /\ running
  /\ id \in Revocable
  /\ allowed' = allowed \ {id}
  /\ UNCHANGED <<call, pending, running, hope>>

\* The allow-list and the rejections are in memory only.
Stop ==
  /\ running
  /\ running' = FALSE
  /\ call' = [r \in Calls |-> "none"]
  /\ pending' = {}
  /\ allowed' = Initial
  /\ UNCHANGED hope

Start ==
  /\ ~running
  /\ running' = TRUE
  /\ UNCHANGED <<allowed, call, pending, hope>>

Handler(r) == Decide(r) \/ Record(r) \/ Clear(r)

Next ==
  \/ \E r \in Calls : Open(r) \/ Handler(r) \/ Disconnect(r)
  \/ \E id \in Ids : Approve(id) \/ Revoke(id)
  \/ Stop \/ Start

Spec == Init /\ [][Next]_vars

\* The child's reconnectLoop opens Downstream again when it has none.  It
\* does not do the same for Upstream.
Retry(c) ==
  /\ \A n \in 1 .. Generations : call[<<c, "down", n>>] = "none"
  /\ \E n \in 1 .. Generations : Open(<<c, "down", n>>)

\* Handlers run to their decision and the children keep trying.
Fairness ==
  /\ \A c \in Children : WF_vars(Retry(c))
  /\ \A r \in Calls : WF_vars(Handler(r))

FairSpec == Spec /\ Fairness

-----------------------------------------------------------------------------
(* Properties *)

\* A call that gets through the hook belongs to a child whose certificate
\* has the node-id, and the administrator's list had it at some time during
\* the call: a revocation is never overlooked by a later connection, though
\* the other RPC of that child, or an older one, may still be open.
OnlyApprovedConnect ==
  \A r \in Calls : call[r] \in {"accepted", "connected"} =>
    r \in hope /\ CommonName[r[1]] = Id(r)

\* Nobody that claims the node-id is connected or about to be.
Outside(id) ==
  \A r \in Calls : Id(r) = id => call[r] \notin {"accepted", "connected"}

\* The administrator gets to see every child that keeps knocking, even if a
\* late clearRejection of an earlier call removed its entry.
KnockingIsSeen ==
  \A c \in Children : Claim[c] # Anonymous =>
    (<>[](running /\ Claim[c] \notin allowed /\ Outside(Claim[c]))
       => <>[](Claim[c] \in pending))

\* An approved child with the right certificate gets in by itself.
ApprovedGetsIn ==
  \A c \in Children :
    <>[](running /\ Claim[c] \in allowed /\ CommonName[c] = Claim[c])
      => []<>(\E r \in Calls : r[1] = c /\ call[r] = "connected")

-----------------------------------------------------------------------------
(* What the repository's texts say, and the code does not do *)

\* "A pending entry disappears once that node-id is approved and
\* successfully connects" (examples/node/main.go:378-380).  Asked of a child
\* that is connected for good and whose approval nobody takes back: Revocable
\* is empty in the run, so each rejection was decided before the approval,
\* and the connection came after it.
EntryDisappears ==
  \A c \in Children :
    <>[](running /\ Claim[c] \in allowed
           /\ \E r \in Calls : r[1] = c /\ call[r] = "connected")
      => <>[](Claim[c] \notin pending)
=============================================================================
