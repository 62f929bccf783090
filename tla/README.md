# Formal models of multi-region

TLA+ models, TLC runs and TLAPS proofs for the multi-region framework: a Go
library in which a `node.Node` accepts children, connects to a parent, and
moves opaque `Envelope`s up and down a tree over gRPC. Paths below are relative
to the repository (`src/`); runs and modules are listed in `PROJECT.json`,
with the lines each definition stands for.

## 1. The system

| component | state it keeps | operations | interacts with |
|---|---|---|---|
| **Node core** `node/node.go`, `options.go` | configuration, handler maps (`mu`), `client`, `server` | `Start`, `Stop`, `OnUpstream`, `OnDownstream`, `SendUp`, `SendDown`, `SendToChild` | calls transport; is called back by it for each envelope |
| **Retry queue** `node/pending.go`, `Node.retryLoop` | `pendingQueue.items`, the batch being retried | `push`, `drain`, a pass every 10 s, 20 ms between sends | `Client.SendUpstream` |
| **Client, upstream** `transport/client.go` | `upstreamConn`, `upstreamStream`, `closed` (`mu`); `sendMu` | `Connect`, `SendUpstream`, `reopenUpstream`, `reconnectLoop`, `Close` | the parent's `Server.Upstream` |
| **Client, downstream** `transport/client.go` | `downstreamConn`, `downstreamStream`, `downstreamCancel` | `reopenDownstream`, `recvLoop`, `reconnectLoop`, `Close` | the parent's `Server.Downstream`; `handleDownstreamFromParent` |
| **Server registry** `transport/server.go` | `children` (key to channel of 16), `anonSeq` | `registerChild`, `unregisterChild`, `BroadcastDownstream`, `SendToChild`, the `Downstream` handler, `Stop` | clients of the children |
| **Child approval** `Server.authorize`, `examples/node/allowlist.go`, admin handlers in `examples/node/main.go` | `Server.pending`, `childAllowList.allowed` | `authorize`, `recordRejection`, `clearRejection`, `Add`, `Remove` | runs first in both RPC handlers |
| **Node lifecycle** `node/node.go`, `options.go`, `main` | `n.client`, `n.server`, `grpcServer`, the context | `New`, `Start` (server in a goroutine, then client), `Stop`, handler registration | everything a process holds |
| **Example service** `examples/node/main.go`, `storage/`, `config.go` | the Bolt file, the HTTP server | agents' logs, approval, pushing configs, queries; start, and shutdown with a deadline | all of the above |
| **Example agent** `examples/agent` | none | posts a log line per tick, five seconds' patience, no retry | the service's HTTP API |
| `auth`, `resolver`, `metrics`, `proto`, `gencert`, `checkdb` | none that a decision reads | TLS configuration, a constant address, counters, generated code, one-shot tools | |

Each parent-child edge is two independent gRPC connections, so the two
directions share nothing but the approval hook and `closed`; they are modelled
apart.

### What is hard, and what correct means

* **Upstream.** `SendUpstream` is called at once by every child's RPC handler,
  by `SendUp` and by `retryLoop`; `reopenUpstream` runs under `sendMu` in
  senders and without it in `Connect` and `reconnectLoop`. `stream.Send`
  returns when a frame is buffered. Correct: at most one goroutine in
  `stream.Send`; nothing delivered twice; nothing the transport has not taken
  is dropped; no connection leaks; queues drain after an outage; and, as the
  tests and comments say, nothing is lost while the process runs.
* **Downstream.** A parent may hold a handler for a connection that is dead
  when the child's next one arrives; two children may claim one node-id;
  channels are bounded and sends do not block. Correct: the registry and the
  handlers agree, a child sees envelopes in order and once, addressed
  envelopes reach only their addressee, the stream comes back by itself.
* **Approval.** The hook and the map of rejected children use different
  mutexes, and a child's two RPCs are authorized independently. Correct: only
  approved children connect, a child that knocks is visible to the
  administrator, an approved one gets in and is no longer listed.
* **Propagation.** A branch re-broadcasts what it receives, in the goroutine
  that receives it, while its own administrator may push as well. Correct: one
  order everywhere, a slow child holds up nobody, and what is addressed to one
  child stays with it.
* **Levels upward.** A log climbs through several queues, each of which dies
  with its process, while connections between the levels break. Correct: no
  node handles a log twice, no handlers get a log that those of a node on the
  way have not had, and nothing stays half-way for ever while the way is open.
  Handlers are not stores: a failed save is only logged and the log climbs on.
* **Lifecycle.** `Start` spawns `Listen` before it assigns `n.client`; `Stop`
  may find `grpcServer` unassigned, waits for no handler, and comes after a
  `Shutdown` that gives up on requests; a reopen under way may outlive `Close`.
  Correct: what an agent was told is true of the disk, whatever ended the
  process and when; nothing goes up that was not recorded here first; the
  process ends.
* **Store.** Ids come from the clock and a save overwrites; failures are only
  logged. Both cost records that main.go:96-97 promises, so properties about
  the store name them as exceptions.

`PROJECT.json` lists these as `hazards`, each with its line and the properties
that cover it.

## 2. Modules

| module | models |
|---|---|
| `EnvelopeTransfer` | abstract: the life of an envelope in one hop or on a whole path, `new -> held -> flying -> arrived`, or `lost` |
| `OrderedLink` | abstract: links from parents to children that keep order, repeat nothing and never make the sender wait |
| `UpstreamLink` | one child's upstream side and its parent's `Upstream` handlers |
| `LogPath` | logs climbing a path of nodes; its hops are `EnvelopeTransfer`, which `UpstreamLink` implements, and so does the whole path |
| `DownstreamLink` | a parent's registry and `Downstream` handlers, and its children's clients |
| `ConfigTree` | the downward path over several levels: pushes, handlers, re-broadcast; its links are `OrderedLink`, which `DownstreamLink` implements |
| `ChildApproval` | `authorize`, the pending map, the allow-list, the administrator |
| `NodeService` | one process of the example service from start to exit: `Start`, `Stop`, `Listen`, the HTTP server's shutdown, the store, agents |
| `MC...` | the instances of each for TLC |
| `...Proofs` | the theorems about each, for TLAPS |
| `DownstreamLinkRefinement` | the proof, for TLAPS, that `DownstreamLink` implements `OrderedLink` |

### UpstreamLink

A goroutine is a program counter `pc[g]` and one local stream `held[g]`:
one per envelope (the RPC handler or `SendUp` caller that brings it), `Starter`
(inside `Connect`), `Looper` (`reconnectLoop`) and `Retrier` (`retryLoop`).
`sendMu` is held across network calls and is a variable; what `c.mu` and
`pending.mu` protect is done in single steps. The control points are

    lock -> (stream nil: openDial -> openInstall -> get ->) send -> done
                                                             |
                    failed Send:  swapDial -> swapInstall -> queue -> done

so a sender that reopened after a failed `Send` still reports the failure and
its envelope is queued, as in `client.go:310-317`. `Starter` and `Looper` enter
the same two reopen steps without `sendMu`. `pending` has no limit of its own;
`TypeOK` says what bounds it (`QueueOK`): an envelope is in the queue or in the
drained batch, and there once. `upstreamConn` and
`upstreamStream` are assigned together and are one variable; `conns` says
which conns are still open.

gRPC is external and modelled by what the code sees of it: opening a stream
succeeds before the parent's handler has decided anything; `Send` buffers up to
`Window` frames and then blocks, and fails on a stream the child's transport
knows to be over; a handler's return reaches the child some time later
(`NoticeEnd`), a child's close reaches the handler some time later
(`ServerNotice`), and frames already sent may still be received in between;
during an outage either side may give up on its own. Streams are identities
that are used again when nothing refers to them.

The four `Disturbances` switch the environment: `network` (outages and restarts
of the parent), `approval` (the parent's allow-list changes), `close`
(`Client.Close`), `cancel` (the context given to `Start`).

### DownstreamLink

Per child: the goroutine that opens streams (`Connect`, then `reconnectLoop`,
never both), `current` = `downstreamStream`, `installed` = the stream of
`downstreamConn`/`downstreamCancel` (which outlives `current`), the running
`recvLoops`, and the sequence `onDownstream` was called with. At the parent: a
handler per stream with its key and channel, and the map `children`. A key is a
node-id with a number, 0 for the plain node-id; a synthetic key
(`(anonymous-n)`, `id(dup-n)`) has a number no registered key has, which is all
that the growing `anonSeq` is used for. A node-id spelled like a synthetic key
is outside the model.

Seen as `OrderedLink`, a child is connected while the stream that brings it
envelopes (`Carrier(c)`: the one opened and not yet installed, else the one
installed) is live and its handler serves. What is under way to it
(`Underway(c)`) is that stream's wire followed by its channel; what is in a
channel whose child has given the stream up will reach nobody and does not
count. So a handler that returns, or a child that notices, cuts off the channel
and perhaps the wire: the newest part of what was under way.

### ChildApproval

Each RPC of each child is a call that goes through the steps of
`Server.authorize`: the hook's look at the list, and the later update of the
pending map. `hope` is a history variable: the calls whose node-id has been on
the list at some time since they began. `FirstSeen` and `LastReason` are left out,
so the pending map is a set. `Initial` is the configured list, to which every
restart goes back, whatever was approved or revoked before; `Revocable` says
whose approval the administrator may take back.

### ConfigTree

Per node below the root: `queue`, what its parent's channel, handler and
connection hold for it; `work`, what `recvLoop` has run the handlers for and not
yet broadcast (`recvLoop` does both, so no second envelope is received in
between); `applied`, the order in which its handlers ran, which a restart does
not undo because they save to a file. `Broadcast` is one step, as
`BroadcastDownstream` holds `Server.mu` from the first child to the last. When a
connection breaks, a node still receives any prefix of what was under way to it
(what was on the wire, while the parent's channel is gone), also after it has
broken, until it connects again with an empty link. Both this module and
`DownstreamLink` implement `OrderedLink`: what the tree assumes of a link is
what the streams, registrations and buffers provide. That an old `recvLoop` has
returned before a new stream is registered is `OneReceiver`. Administrators push at any node that has
children; the HTTP answers (how many were delivered, who was dropped) are left
out.

A config carries its number, `by`, the node it was pushed at, and `for`, that
node again if it goes to all children, or the addressee of `SendToChild`. The
code's envelope names no addressee, and no step of the model but the push looks
at `for`: it is there for `StaysInSubtree`. `Above[n]` is the node and its
ancestors, written as the least set closed under `Parent`, without recursion,
so that it can be proved about.

### LogPath

Nodes are numbered from the bottom to the root; `Origin[e]` is where a service
calls `SendUp`. `hop[<<n, e>>]` is the state of log `e` in the hop from `n` to
`n + 1`, `work` holds the logs whose handlers have run at a node and which are
not in `forwardUp` yet, and `runs` counts how often the handlers of a node ran
for a log. It says nothing of what they saved: main's handler only logs a failed
save, and the log goes on (main.go:101-105), so a store may lack what one above
it has; `NodeService` has the store. `links` are the hops whose parent is
reachable and approves of the child; `Reach` changes them at any time. `Emit` is a `SendUpstream` that returned
nil, at the first attempt or from `retryLoop`; `Disconnect` loses any part of
what is under way on a connection; `Crash` loses in addition the goroutines,
queue and batch of a process, also when it ends through `Stop`, which waits for
no envelope; `Restart` brings it back with an empty queue, since the store is
only read by the API.

### NodeService

`main` is the main goroutine's place between start and exit, `listener` the
goroutine that runs `Listen`, `client` what `n.client` is (nil; made by
`NewClient` but without `baseCtx`; connected; closed; closed, but with a
connection that a reopen under way installed after `Close`; cut off by the
context), `job[e]` the goroutine
that handles an envelope. An envelope comes from an agent's request, while the
API is served, or from a child, as soon as `Listen` serves. Its handlers save
it (`Put` overwrites what has the same id; the disk may refuse), then
`forwardUp` looks at the client: nil means nothing to do, a bare client panics
and ends the process, otherwise the send works or the envelope is queued, and
an agent gets its 202. The signal starts the shutdown: `Shutdown` waits for
requests until its deadline, `Stop` closes the client and then stops the server
if it is there, and of the deferred calls `cancel` comes first and the closing of
the store after it. `Close` does not end sending: a `reopenUpstream` that has
read `closed` before may still install a connection (`LateReopen`), on which
handlers that `Stop` did not wait for go on sending (`HasStream`). What ends it is
`Cancel`: every stream lives on the context given to `Start`, and so does
`retryLoop`. That a cancelled context fails a `Send` at once is what
`UpstreamLink` takes it to do too. `EndProcess`, by `Exit`, a crash or a panic,
clears memory and leaves the disk. `unsaved`, `overwritten` and `abandoned` are
history: envelopes the disk refused, envelopes whose entry another with the same
id has taken, and requests `Shutdown` gave up on. The handlers are registered before `Start`, as `main` does.

## 3. Runs

| run | instance | shows |
|---|---|---|
| `LinkSafety` | 2 envelopes, 3 streams, window 2, all disturbances | `TypeOK`, `AtMostOnce`, `SendSerialized`, `MutexNotForgotten`, `NoOrphanConn`, `ReopenUnderMutexLosesNothing`; `UpstreamLink` implements `EnvelopeTransfer` (`ImplementsTransfer`) |
| `LinkLiveness` | 2 envelopes, 2 streams, window 1, outages | `QueueDrains`, `SettledDelivers` |
| `DownSafety` | a named and an anonymous child, 3 streams, channel 1, 2 envelopes, outages | `TypeOK`, `InOrderOnce`, `OneReceiver`, `RegistryMatchesHandlers`, `NoMisroute` |
| `DownLiveness` | 1 child, 2 streams, channel 1, 2 envelopes, all disturbances | `DownstreamComesBack`, `EnqueuedArrives`; `DownstreamLink` implements `OrderedLink` (`ImplementsLink`) |
| `Approval` | a proper child, on the configured list and revocable; an impostor, an anonymous one | `TypeOK`, `OnlyApprovedConnect`, `KnockingIsSeen`, `ApprovedGetsIn` |
| `TreeOrder` | a root, a branch, two leaves, one of them slow; 3 pushes, links of 2 | `TypeOK`, `AgreeOnOrder`, `StaysInSubtree`, `AncestorsFirst`, `SlowChildBlocksNobody`; the tree's links are `OrderedLink` (`ImplementsLink`) |
| `Service` | two agents' logs with one id, a child's log; crashes, a failing disk, a failing `Listen` | `TypeOK`, `AnsweredIsRecorded`, `SentIsRecorded`, `AgentLogsGoUp`, `ShutdownEnds` |
| `LogPath` | 4 nodes, a log from the bottom and one from a relay, hops out of reach for any time | `TypeOK`, `HandledOnce`, `TrailComplete`, `NothingStuck`; each hop and the whole path implement `EnvelopeTransfer` (`EachHopTransfers`, `EndToEnd`) |

### Where the code and its texts disagree

Each of these runs checks one statement of the repository and ends in a
counterexample.

| run | statement | what the code does |
|---|---|---|
| `LinkRace` | integration_test.go:103-105, no envelope lost by concurrent forwarding | no failure needed: `Connect` is still inside `reopenUpstream` when a sender finds no stream, opens its own and sends on it; `Connect` then installs its stream and closes the sender's conn with the frame |
| `LinkIdle` | client.go:21-28, the client notices a dead stream "regardless of whether anything is being sent" | `upstreamStream` is never reset to nil, so the loop's check only ever succeeds before the first open |
| `ApprovalStale` | main.go:378-380, a pending entry disappears once the child is approved and successfully connects; server.go:97-98 | an Upstream call rejected just before the approval records its rejection after the Downstream call, accepted just after, has cleared it. No approval is revoked in this run, and the child stays connected |
| `ServiceStart` | node.go:211-213 and 199-200, a child's envelope is forwarded, and queued if the parent is unreachable | `Listen` serves children before `n.client` is assigned: `forwardUp` then finds nil and does nothing |

Further disagreements are plain from the code and have no run of their own:

* "keep a local record of every log Envelope that passes through this node"
  (main.go:96-97). Two logs made within one clock reading have one id, and the
  later overwrites the earlier (pending.go:38, bolt.go:34-42); a failed save is
  only logged, and the log is answered and forwarded all the same; and a request
  that `Shutdown` gave up on may find the store closed and be answered.
  `AnsweredIsRecorded` and `SentIsRecorded` name these exceptions and show that
  there are no others; `OwnLogOnDisk` is about logs that have their id to
  themselves. `Service` reaches all of them;
* an envelope buffered by `Send` when the parent goes away is lost, not queued
  (node.go:199-202; in `UpstreamLink` a step from `flying` to `lost`);
* what a child's channel holds when its handler returns is discarded after it
  was counted as delivered (server.go:190-195);
* a child that came back before its old handler was gone has a `(dup-n)` key for
  the life of its connection, and `SendToChild` reports it as not connected
  (server.go:226-229). No property forbids it: `RegistryMatchesHandlers` and
  `NoMisroute` hold for a child that cannot be addressed, too;
* what `SendToChild` sends is broadcast again by the addressee (node.go:184-187
  says it does not propagate further; `StaysInSubtree` states how far it goes,
  and does not forbid it);
* an empty `allowed_child_ids` rejects every child instead of accepting any
  (config.go:50-53; examples/README.md says it rejects).

### Bounds, and why they are enough

* `Link...`: two envelopes give two concurrent senders besides `retryLoop`, and
  a batch in which one element fails and the other does not. Together with
  `Connect` and `reconnectLoop` that is every kind of goroutine that reopens a
  stream.
* Streams: with three, the installed one, one about to be installed and one
  whose handler lingers exist together; identities are recycled, so the number
  of reconnections is not bounded. In the runs with two streams a third
  attempt waits until the oldest one is over on both sides.
* `Window` 1 makes `Send` block; 2 lets frames of two senders be lost together.
* `Down...`: `BufSize` 1 (16 in the code) is full after one envelope, so the
  second of the `MaxSends` 2 is dropped or follows it; two envelopes can be
  repeated or exchanged. An anonymous child and a child that meets its own dead
  registration give both kinds of synthetic key; two children that claim one
  node-id are covered by the proofs. `DownSafety` has outages only; rejection
  and `Close` are in `DownLiveness`, and in the proofs. `ImplementsLink` implies
  order, no repetition and bounds there too, and is checked in the smaller of
  the two runs because it is slow to check.
* `Approval`: `Generations` 1 is one call per child and kind at a time; a
  child's Upstream and Downstream calls are two, and they overlap. `Approval`
  starts from a list with the child on it and lets it be revoked, so a restart
  that undoes a revocation happens; `ApprovalStale` starts from an empty list and
  has no revocation, so that its counterexample is the race it is about.
* `TreeOrder`: the branch is the smallest node that both relays and pushes; two
  leaves can disagree; the third push finds the slow leaf's link full.
* `Service`: two logs with one id are enough for an overwritten record; the
  child's log arrives when no agent can, before `Start` has returned and after
  `Stop`. Envelopes meet each other only in the store, and one late connection is
  all that a closed client can get.
* `LogPath`: four nodes are an origin, two relays in a row and a root; logs meet
  only in the crashes and disconnections that hit both.
* Symmetry (of envelopes and streams) is used only by runs that check
  invariants and step properties, never for liveness. `EnvelopeTransfer` treats
  all envelopes alike, so refining it is such a property.
* Deadlock is not checked in the link runs, where the system may stop for good
  (closed, cancelled, everything sent); it is checked in all others.

### Fairness

Goroutines are scheduled (weak fairness for a sender's, an opener's and a
handler's next step), tickers keep ticking, and a goroutine waiting for `sendMu`
gets it in the end (strong fairness: after a millisecond of waiting a Go mutex
is handed over in order). While the parent is reachable its handlers run and a
reset or connection loss reaches the other side. In `NodeService` the steps of
the shutdown are taken and `Shutdown`'s deadline fires; nothing is assumed of the
handlers, whose sends may wait for ever, nor of the agent. In `LogPath` a handler
gets on, and a hop takes what it holds and delivers it or loses it, but this is
owed only by a hop that works (`Works`): whose parent, from some time on, is up,
reachable and approves of the child. That is `Healthy` in `UpstreamLink`, from
which `LinkLiveness` concludes it for the hop. While a hop is out of reach its logs
may stay queued for ever, and do in the model.

Nothing is assumed of the environment: outages, approvals, closing, cancelling,
signals, crashes and restarts need never happen, and need never end. Liveness
properties are therefore stated for behaviours in which the link is healthy, or
all nodes of the way stay up and in reach of each other, from some time on, or
until it is disturbed again.

## 4. Proofs

Every type invariant, safety invariant and refinement that a passing run checks
is proved for all values of the constants. Each proof module has an inductive
invariant, a lemma that `Init` establishes it, a lemma that every step keeps it
with one step per action, and theorems that read the properties off it. All of
these invariants use only what the named assumptions on the constants say.

| module | assumptions | theorems |
|---|---|---|
| `UpstreamLinkProofs` | `NamesAssumption`, `WindowAssumption` | `TypeCorrect`, `SendSafe`, `MutexReleased`, `NoConnLeak`, `MutexProtectsFrames`, `NoDuplicates`, `HopTransfers` |
| `DownstreamLinkProofs` | `ClaimAssumption`, `SizesAssumption` | `TypeCorrect`, `OneLoopPerChild`, `RegistryCorrect`, `RoutesCorrect`, `OrderCorrect` |
| `DownstreamLinkRefinement` | the same | `LinkCorrect` |
| `ChildApprovalProofs` | none | `TypeCorrect`, `ApprovedOnly` |
| `ConfigTreeProofs` | `TreeAssumption` | `TypeCorrect`, `OrderCorrect`, `SubtreeCorrect`, `AncestorsCorrect`, `LinksCorrect` |
| `NodeServiceProofs` | `EnvelopesAssumption` | `TypeCorrect`, `AnsweredOnDisk`, `OwnLogOnDisk`, `SentOnDisk`, `AgentLogsKept` |
| `LogPathProofs` | `LogPathAssumption` | `TypeCorrect`, `NoNodeTwice`, `HandledOnTheWay`, `HopsTransfer`, `PathTransfers` |

### UpstreamLink

None of the safety properties is inductive. The proof has four layers.

1. `TypeInv`: `Types`, the types alone, and a batch is not empty while
   `retryLoop` works on its head (`BatchOK`); without it `Head(batch)` is not an
   envelope.
2. `LinkInv`: who holds `sendMu` follows from the program counters (`MutexOK`);
   local streams of goroutines that have one are streams (`HeldOK`); `Connect`
   passes through a reopen once (`StartOK`); a stream opened and not yet
   installed is known to one goroutine and carries no frame (`PrivateOK`);
   and what a sender is about to replace carries none either (`UntouchedOK`).
   The last two are why a sender's reopen cannot destroy frames: the stream it
   replaces is one it saw fail, or a stream another goroutine installed
   meanwhile without `sendMu`, on which nobody can have sent. `MutexOK` says
   that whoever is inside `sendUpstream` holds `sendMu`; `MutexReleased` is the
   converse, that whoever holds it is inside (`HolderStep`). It is the safety
   half of `QueueDrains`: nobody waits for a goroutine that has left.
3. `OnePlace`: an envelope is at any time with its goroutine, or in the queue or
   the batch, or in one frame, or has arrived; each of those parts says that
   its envelope is in none of the later ones and only once in its own
   (`ForwardedOK`, `QueuedOK`, `SentOK`, `AtMostOnce`). With the first layer this
   gives `TypeOK`, whose `QueueOK` is the bound of the queue.
4. `HopTransfers`: with one place per envelope, the value of `status` can be
   read off that place (`StatusRead`), and every step is one of
   `EnvelopeTransfer`: `Submit` accepts, `SendFrame` emits, `Receive` arrives,
   and all others lose some envelopes or none (`LoseStep`). That `RetryTick`
   forgets nothing needs one more invariant: while `retryLoop` waits for its
   tick its batch is empty (`IdleBatch`).

### DownstreamLink

`DownstreamInv` has four parts besides `TypeOK`. `StreamsInv`: a stream that is
live or has frames belongs to the running `recvLoop` or is the one its child
has opened and not installed; this gives `OneReceiver`. `RegistryInv`:
`RegistryMatchesHandlers`, and handlers that do not serve have empty channels.
`RoutesInv`: every frame and every envelope in a channel is for its child.
`OrderInv`: at a child that a stream still reaches, `received`, wire and channel
are ascending, each before the next. A registration always finds a key that is
free: there are more numbers than streams (`FreshExists`, for finite `Streams`).

That the whole implements `OrderedLink` (`LinkCorrect`) needs one part more,
`CarrierInv`: the stream a child receives from has a `recvLoop` and is the
child's own, and nothing is sent on a stream before it is registered. With it every step maps to one of the abstract
specification. `Serve` moves an envelope from the channel to the wire, which
leaves the two in a row unchanged (`TwoBuffers`, `ServeMoves`); a broadcast
appends to those with room, and is new to all of them by `OrderInv`
(`EnqueueSends`); a registration connects a child with an empty link
(`RegisterConnects`); what ends a stream on either side leaves a prefix
(`ClientCuts`, `ServerCuts`, over `WireIsPrefix` and `LosesNewest`); the rest
stutters.

### ChildApproval

A call that has been let through had its node-id on the list at some time since
it began. To keep this when the hook answers, the invariant adds that a call
whose node-id is on the list now has that time already.

### ConfigTree

The order at a node is extended to `Way(c)`, what it has applied and what is
under way to it. `WaysAgree`: no two ways disagree on two configs. To keep it
when a node broadcasts, its own order must be that of all below it: a config has
been applied by every node between where it was pushed and where it is
(`PassedOn`), what a `recvLoop` is about to broadcast is what it applied last
(`WorkIsLast`), and a config is only in the part of the tree it was pushed to
(`CameDown`). `AboveBelow` is the fact about trees that all of this rests on.
`AncestorsCorrect` follows from `PassedOn`. `LinksCorrect` maps each step to one
of `OrderedLink`: a push or a re-broadcast is a `Send`, which must be new to the
children it reaches. A push has a number of its own (`PushIsNew`); and what a
node has yet to re-broadcast cannot be on any way below it, since by `PassedOn`
the node is done with all that is there (`RelayIsNew`).

### NodeService

`ServiceInv` ties the other variables to the place of `main`: what the client
may be at each of its places, a late connection included until `cancel`
(`ClientOfMain`), the emptiness of memory when the process is off
(`NothingWhenOff`) and the end of all requests that were not abandoned before
the node stops (`RequestsInTime`). With it, what has been handled is recorded,
overwritten, refused by the disk, or belongs to a job that came after the store
was closed (`HandledIsRecorded`); such a job cannot send any more, because the
client has been cut off before. `AnsweredOnDisk` and `SentOnDisk` follow, with
the exceptions their properties name. That a log which has its id to itself is
never overwritten (`OwnIdsStay`) makes `OwnLogOnDisk` of the first: there the
record is on the disk now.

### LogPath

`PathInv` adds where a log that some node has handled can be (`Located`) and
that a node above the origin has handled only what came through the hop below
(`CameUp`). A log is then in one place (`OnePlace`), from which `pathStatus` can
be read; a step changes the status of a log to what its new place says, and
crashes and disconnections are one case, places that become empty
(`PlacesEmptied`).

### Only model-checked

Liveness (`QueueDrains`, `SettledDelivers`, `DownstreamComesBack`,
`EnqueuedArrives`, `KnockingIsSeen`, `ApprovedGetsIn`, `SlowChildBlocksNobody`,
`ShutdownEnds`, `NothingStuck`): `ENABLED` and fairness are
outside what the prover can do. That `LinkLiveness` justifies `LogPath`'s
fairness is argued above and not a theorem. `OrderedLink` and
`EnvelopeTransfer` say what a link may do, never what it must: that links make
progress is in the liveness properties.

## 5. Not modelled

* Metrics, logging, TLS set-up, the resolver, generated code, `gencert`,
  `checkdb`, the dashboard and configuration parsing: no state that a decision
  reads, or a constant of the models.
* The store's `Query` (it only reads) and `Delete` (nothing calls it), and the
  HTTP queries.
* A root and a leaf in `NodeService`: they lack the client or the server, and
  so have fewer of its steps.
* On the downstream side, cancelling `Start`'s context: like `Close` it ends the
  stream and lets no other be opened.
* The agent's configuration, its ticker and its own shutdown.
* Payloads, kinds and handler functions: `onUpstream` and `onDownstream` are
  the step in which they run. Handlers registered after `Start`.
* A node-id that is spelled like a synthetic key.
* Bytes: partial writes and corruption are TCP's and TLS's concern.

## 6. Plan

Done, in this order: `EnvelopeTransfer`, `UpstreamLink`, `DownstreamLink`,
`ChildApproval`, `ConfigTree`, `NodeService`, `LogPath`, each with its runs and
the proofs of its safety properties; then `OrderedLink`, the refinement proofs
of the two modules that implement it, and the release of `sendMu`.

Left, in order of importance:

1. The safety facts under the remaining liveness properties, proved as
   `MutexReleased` is for `QueueDrains`: what keeps a rejected child's entry in
   the pending map, and what keeps a shutdown moving.
2. Statements the repository does not make yet: what `Close` promises of a reopen
   that installs after it (`NodeService` shows that the store is safe from it), a
   bound on the retry queue during a long outage and on the pending map, and what
   becomes of approvals at a restart.
3. `NodeService` for a root and a leaf, and handlers registered late.
