# Verification of redispipe

redispipe is a Go client for redis: one pipelined connection shared by all
callers (`redisconn`), and a cluster client on top of it (`rediscluster`).
This directory keeps TLA+ specifications of its concurrent core, the TLC
configurations that check them on small instances, and TLAPS proofs of the
invariants that matter most. Line numbers refer to the files under `src/`.

## 1. Inventory

| Part | State it keeps | Operations | Talks to |
|---|---|---|---|
| `redisconn.Connection` (`redisconn/conn.go`) | `state`, `c`, `mutex`, the queue `futures` with `futmtx`, `futsignal`, `futtimer`; per socket (`oneconn`) `control`, `futures` channel, `err` | `Connect`, `Send`, `SendAsk`, `SendMany`, `SendBatch(Flags)`, `SendTransaction`, `Ping`, `Close`; goroutines `control`, `writer`, `reader`, `reconnect` | a socket; callbacks (`redis.Future`) |
| `redis.Sender` (`redis/sender.go`, `redis/request.go`) | none: an interface | `Send`, `SendMany`, `SendTransaction`, `Scanner`, `EachShard`, `Close` | implemented by `Connection`, `Cluster`, `redisdumb.Conn` |
| cluster nodes (`cluster.go`, `mapping.go`, `slotrange.go`) | `config.nodes`, `prevNodes`, `node.refcnt`, `nodeWait.promises` | `NewCluster`, `updateMappings`, `addNode`, `ensureConnForAddress` | makes and closes Connections |
| slot table and control loop (`cluster.go`, `mapping.go`, `slotrange.go`) | `config.slots`, `config.shards`, `config.masters`, `commands`, `forceReload` | `control`, `reloadMapping`, `ForceReloading`, `sendCommand`, `execCommand`, `slotMarkAsking` | told by requests about MOVED and ASK |
| requests and transactions (`cluster.go`) | `request`, `transaction`: `lastconn`, `seen`, `hardErrs`, `redir` | `Send`, `SendWithPolicy`, `SendTransaction`, both `Resolve` | callbacks of Connections; send on other Connections |
| replica health (`slotrange.go`) | `shard.good`, a bit per replica | `setConnRoles`, `setReplicaInfo` | answers of connections to READONLY and INFO |
| connection choice (`mapping.go`, `roundrobin.go`, `rw_policy.go`) | a seed, `node.rr` | `connForSlot`, `getConn`, `nextRng` | reads the configuration and `shard.good` |
| scanners (`redis/sender.go`, `rediscluster/scan.go`, `redisconn/scan.go`), `EachShard` | `Iter`, `Err`, `cb`, list of masters; no lock | `Next`, `Resolve`, `Cancelled` | any Sender; the iterators of `Sync` and `SyncCtx` |
| `Sync`, `SyncCtx`, `ChanFutured` (`redis/sync*.go`, `redis/chan_future.go`) | a wait group or channel, results, claims `ctxBatch.o` | blocking versions of Send, six kinds of futures | a Sender and its callbacks; the caller's context |
| RESP (`redis/reader.go`, `request_writer.go`, `response.go`), command tables, errors | none | encode, decode, classify | |
| cluster utilities (`redisclusterutil`) | none | slot ranges, `CLUSTER NODES/SLOTS` parsing, CRC16 | |
| `redisdumb`, `testbed`, loggers | | tests and tools | |

**What is hard.** (a) In a Connection the queue is shared by callers, the
writers of the current and of dead sockets, and `dropFutures`; the fields that
decide who may use it are atomics outside the queue's lock. (b) Only the
request that finds the queue empty wakes the writer, so one lost wake-up stalls
the connection. (c) The reader learns of a batch after it was written. (d) Sockets
die while dialling, closing and other sockets' reconnects are under way.
(e) Nodes of a cluster are counted across maps that delayed functions still hold.
(f) Marking a slot is an unlocked store into a configuration that may have been
replaced. (g) Redirects, retries, cancellation and closing meet in `Resolve`.
(h) Callbacks run under the lock of a dying connection and take that of another.
(i) A cancelled caller and late replies write the same results. (j) Answers about
replicas come from many goroutines, some of an outdated configuration. (k) A
scanner relies on one request at a time. (l) A reload goes through the cluster it
repairs, in the goroutine that repairs it.

**What makes it right.** Every callback is resolved exactly once, with its own
reply or an error; an error with `ErrTraitNotSent` means that nothing was executed; wake-ups are not
lost; closing is final and leaves neither goroutine nor socket; a node in use
is open and an unused one gets closed; every slot leads to usable nodes; writes
run at most once; retries end; connections that go down together do not wait for each
other; a blocking call returns its own results; a scan that ends has seen all keys; the health of a replica is learned;
a choice of connections finds one if there is one. `PROJECT.json` lists the hazards line by line,
each with the properties that cover it.

## 2. Modules

| Module | Models |
|---|---|
| `Connection` | all of `redisconn/conn.go` |
| `Sender` | the promise of `redis.Sender`: the abstract specification |
| `ConnectionSender` | the refinement mapping, Connection implements Sender |
| `ClusterNodes` | nodes, their counts, delayed drops, promises of connections |
| `ClusterSlots` | the slot table, the control goroutine and its channels |
| `ClusterRequest` | one request or transaction through a cluster |
| `RetryLocks` | many Connections and the requests that move between them, as far as locks go |
| `SlotWords`, `SlotTables` | the words the slot table is kept in, the ranges it is filled from; both compared with `ClusterSlots` |
| `Replicas` | the mask of healthy replicas, across reloads and failovers |
| `ConnChoice`, `ReplicaChoice` | the choice of a connection; the same over the masks of `Replicas` |
| `SyncCalls`, `BlockingCall` | `Sync`, `SyncCtx`, `ChanFutured`; the promise they implement |
| `Scanning` | scanners, iterators, `EachShard`, next to `SyncCalls` |
| `MC...` | the constants of the small instances |
| `ConnectionProofs`, `ConnectionFutureProofs`, `ClusterNodesProofs`, `ClusterSlotsProofs`, `ClusterRequestProofs`, `RetryLocksProofs`, `ReplicasProofs`, `CallersProofs` | the TLAPS proofs: of the state machine of a connection, of its requests and its refinement of `Sender`, of the other machines, of `SyncCalls` and `Scanning` |

The modules compose by contract. `ClusterRequest` uses connections only through
what `Sender` promises, which `Connection` is shown to implement, and its
fairness assumptions are `EventuallyResolved` of `Connection` and `CallbackRuns`
of `ClusterNodes`. `ClusterSlots` sees of `ClusterNodes` just that `addNode` may
replace the configuration by a copy. `SlotTables` and `ReplicaChoice` join a machine with the functions that read or write its state. `RetriesElsewhere` is what `Connection`
needs from its callbacks, since `dropFutures` runs them under `futmtx`. `RetryLocks`
takes up where that ends: several connections at once, each reduced to its state,
queue and lock. `SyncCalls` and `Scanning` stand on any Sender: requests are
resolved once, from any goroutine, perhaps before `Send` returns, perhaps never.

Each module has, before the helper it distorts, a few operators marked
`Fault:`, for instance a dropped guard or a forgotten reset. No specification
uses them; replacing the helper by its fault must break the property that
`PROJECT.json` names next to it.

### Connection

A call (`Send`, `SendAsk`, `SendMany`, ...) is a record; a queued command is named
by its call and an index, ASKING and MULTI being -2 and -1. Each established
socket is an epoch `1 .. MaxConns` with a writer and a reader. Goroutines that
take `conn.mutex` have a program counter `pc[p]`: Connect itself, the dialling
goroutine it starts, `control`, and the `reconnect` goroutine of each epoch.

A section under `futmtx` is one step, because everything it touches is only
touched under that lock. `conn.state`, `conn.c` and the socket are written
elsewhere, so each such store is a step of its own (`cl_state`, `cl_sock`,
`cl_drop`; `cc_setup`, `cc_ok`, `cc_report`). In `doSend` the state check and the append
are one step: both are under `futmtx`, and `closeConnection` and
`createConnection` drop the queue under it after they store the state. `select` takes any
ready case, so the writer of a dead socket may consume a wake-up meant for its
successor. `futtimer.Stop()` does not recall a tick whose delivery has begun.
A failing write may have transmitted any prefix of the packet. The handshake
(AUTH, PING, SELECT) is one step that succeeds or fails. An answer is a `reply`, which
stands for Redis errors too, or `loading`: the error `ErrLoading` that carries
`ErrTraitNotSent` although the request was written (`AnswerKinds` says which are possible).

`Sender` is the abstract specification. Its `closing` is the call of `Close` (or the end of the
context), its `closed` the moment this takes effect, for a Connection the store of connClosed
in `closeConnection`. Requests are taken on until then, and not afterwards.

Abstracted: payloads, the text of errors (kinds are kept as far as the code or a
caller tells them apart), logging, except for the report that dereferences
`conn.c`; the length of pauses.

### ClusterNodes

A node is an address and a number, the i-th made for this address. A map holds
one number per address. `drops[n]` is what the `time.AfterFunc` of reload n has
still to release, one node per step, since nothing holds a lock across that loop.
`ensureConnForAddress` is split where the code releases `nodeWait`: look up, queue,
and in the goroutine addNode, delete the promise, run the callbacks. `promises`
maps an address to the call that started the goroutine. Since a reload replaces the
map, a goroutine may delete from one that is no longer used.

### ClusterSlots

A slot has a shard and the flag "asking". `control` is a loop over the cases of its
`select`; a reload succeeds with one of the `Topologies` (what `ParseSlotsInfo`
accepts) or changes nothing. Marking a slot takes two steps, loading the
configuration and storing the flag; `stale` says that `addNode` replaced the
configuration in between. Commands are dropped when the channel is full.
A reload takes two steps, so that commands, forced reloads and Close may come
while `control` waits for answers. One of its requests, for the master-only key,
goes through the cluster and may itself send commands to `control`; `Receives` says
that it does not wait for room in the channel.

### SlotWords

Pure functions: the ranges of `CLUSTER SLOTS` (`ParseSlotsInfo`) and of `CLUSTER NODES`
(`SlotsRanges`), the loop of `updateMappings` that fills the words, and the four
accessors of `mapping.go`, with the widths of the code. Shifts and masks are written
as division and remainder, loops as recursive functions of the iteration, sorting as the
choice of the sorted sequence, so that the module can be proved about. `SlotTables` compares
all of it with the entries of `ClusterSlots`.

### ClusterRequest

One request (write, read, replica read, transaction) over connections that go up and
down. A sent request may be executed, answered, fail before or after its execution,
or be redirected; `Resolve` then retries, restarts at another host, waits or resolves
the caller. `sends` and `execs` are histories that stop counting above the bound a
property talks about. Which of several live connections is taken is left open.

### RetryLocks

Connections are up or down; `drop[c]` follows the goroutine that closes c from the
store of the state (`GoDown`) through `futmtx.Lock` (`LockQueue`), the callbacks
(`DropNext`) to `Unlock`. A request waits for `futmtx` of its connection (`Enter`), is queued,
written, answered, or failed; a failed one picks a connection that may be connected
and that it has not tried (`Resolve`). `under[r]` is the connection whose lock is
held while r's callback runs. What keeps two connections from waiting for each other is
an order of stores: the state is stored before the lock is taken, so a callback
under a lock aims only at connections that were up after its own went down.
The history `downAt` makes that a number.

### SyncCalls and BlockingCall

One call of one kind. `pc[0]` is the caller, `pc[i]` the goroutine that resolves request
i; claiming (the compare-and-swap), writing the result, counting and closing the
channel are separate steps. Results are the slice that is returned, not a copy.
`BlockingCall` says what the caller may rely on: it returns at most once, only its own
results or `ErrRequestCancelled`, the latter only if it was cancelled, and nothing
changes after that (`Safe`); and it returns when it can (`Spec`).

### Scanning

One iteration of one kind: SCAN over all masters, over one key's master, over a
Connection, or `EachShard`. `DoNext` stores the callback and then sends; the Sender
asks `Cancelled` (`Accepts`), so the callback field is read by other goroutines while
the user may have left. Pages are named by master and cursor. `alive` says which masters can be
reached and changes at any time. A cancelled `Next` returns with its request under way, and the user
may stop or call `Next` again. The history `cut` tells a scan in which that has happened (`cancelled`), and one in
which the next request was sent before the old one was answered (`overlapped`).

### Replicas, ConnChoice

`Replicas` follows one shard. A `setConnRoles` goroutine per reload walks the
connections of the configuration it was started for; the server answers in order;
`setReplicaInfo` is its load and its compare-and-swap, in the reader of each
connection, or in the goroutine itself when the connection refuses the batch. The
answer to READWRITE goes to a callback that ignores it (`Ignore`).
Faults: a failover, a broken connection, replicas that lose their link or load. A kept shard keeps its mask,
a new one starts with all bits set.

`ConnChoice` has `connForSlot`, `getConn` and `nextRng` as functions of everything
they read: seed, mask, nodes, state of connections, connections seen. The code
reads these one by one while they change; here they are one snapshot. The generator
has `Width` bits: 32 in the code, 4 in the run, any even number in the proofs. `Walk` is a loop over a
mask after a whole period of the generator; if it has not ended by then it never will (`Endless`).
Masks are sets of indices; the code's
are uint32, and what is beyond their bits is never tried, so hosts and connections are at most `Width` (32 hosts in `Replicas`). The operator `^` is the constant `XorTable`, of which two facts are assumed; the run
gives it exclusive or.

## 3. Runs

| Run | Instance | Shows | Distinct states |
|---|---|---|---|
| `conn_signal` | Send + SendAsk, two sockets, wake-up by signal | nothing lost, mispaired or misreported; closing is final; no panic on `futsignal`; sockets are closed | 2.4M |
| `conn_timer` | SendMany in two chunks + transaction, wake-up by timer, `ReconnectPause < 0` | no lost wake-up; batches contiguous, with nothing lost or doubled between chunks; implements Sender | 813k |
| `conn_sync_unreachable` | SendMany + empty transaction + Ping, synchronous dial, no server | implements Sender while dialling fails for ever, before and after Close | 11k |
| `conn_live` | Send + Ping, one socket, then an unreachable server | requests are resolved, goroutines end after Close, dialling goes on | 78k |
| `cluster_nodes` | 3 hosts, 3 reloads, 2 redirects | counts exact, used nodes open, nothing leaks, callbacks run once, old nodes get closed | 194k |
| `cluster_slots` | 3 hosts, 1 slot, 2 reloads, channel of 2, 1 MOVED; tables of 4 slots and 2 masters | the slot is always served; flags and forced reloads arrive; `control` ends; the words hold what they should | 60k |
| `creq_retries` | 2 hosts with 2 connections, all kinds, 1 redirect | at most one execution of writes, bounded retries, never back to the failed connection, always resolved | 1.5M |
| `retry_locks` | 3 connections, 2 requests, 2 failures | no circle of locks, all requests are resolved | 218k |
| `callers` | every kind of blocking call (batches of 4) and of iteration (3 masters, 2 cursors) | channels are closed once; returned results are right and final; a scan misses nothing and ends; `EachShard` visits each shard once; no nil callback, unless `Next` is called again after a cancelled one | 251k |
| `replicas` | a master, 2 replicas, 2 `setConnRoles` at once, 1 fault; choices among 3 hosts or 2 hosts with 2 connections | no bit is lost, the master's bit stays; health, sickness and roles are learned; every choice is right | 481k |
| `conn_noreconnect_hang` | Send + Ping, `ReconnectPause < 0` | violated: a request is never resolved | |
| `creq_closed` | one read, cluster closed | violated: the callback gets a number | |

Some invariants are conjunctions of named parts: `SlotsInv`, `RequestInv`, `MaskInv`,
`IterationInv` (each with the type invariant of its module), `NoPanic`, `BatchesWhole`
and `HealthFollowed`; the parts carry their own comments. `WaitsForLater`, the
`TypeOK` of `ClusterNodes` and `RetryLocks`, `ClosedOnce` and `Safe` are proved and are
part of a run only within a larger property, or not at all.

**Why these bounds.** Two sockets let an obsolete writer, reader and reconnect
goroutine meet their successors. A channel of capacity 1 is full after one batch,
and a chunk of 2 splits a SendMany of 3 into a full and a short chunk. Three
reloads are what a node needs to go from the current map through `prevNodes` into
a delayed drop while it is taken over again. Two callbacks for one address make
one wait for the other's goroutine. One redirect suffices for `hardErrs` and
`seen` to be reset and for the limit to be met. Two connections per host give the
retry somewhere to go. Two failures make a pair of connections that revoke their queues at the same
time, with a third one to go to, and two requests make each wait for the other, were that possible; longer circles are left to the
theorem `NoLockCycles` (three failures also pass, in four minutes). The answers `reply` and `loading` are both possible in
`conn_signal`, where `NotSentHonest` is checked, and in the runs about liveness; in the other two runs of Connection
`loading` would only multiply the states. A batch of 4 has late replies on both sides of the index the
cancelled caller has reached. Two `setConnRoles` goroutines are an old and a new
one; a reload waits until what the previous ones asked for is sent and answered
(`MaxQueued` 0), unless their goroutines still run. That bound also keeps
compare-and-swap from failing for ever, which 32 bits and rare answers do in practice. `cluster_slots` also
passes with two MOVED (154k states, four minutes). Where a theorem exists it holds for every bound.

**Deadlock** is checked in all passing runs except `callers`, where a call that has returned and has nothing in flight really stops. `Connection`, `ClusterNodes` and `RetryLocks` have an explicit
stuttering step for the state in which everything has ended, so for a Connection
the absence of deadlock means that no goroutine is left behind. In `ClusterSlots`,
`ClusterRequest` and `Replicas` the environment never stops. Deadlock is not checked in
`conn_noreconnect_hang`, whose counterexample is a state of that kind.

**Fairness.** In `Connection`: goroutines that can run do run (Go's scheduler);
a goroutine waiting for `conn.mutex` gets it (Go's mutex hands over to starving
waiters), `select` picks ready cases at random and so does not overlook `ctx.Done()` for ever;
dialling is bounded by its timeout; handshake and reads by `IOTimeout`, which is
why `ReadFail` is fair only if `IOTimeout` is set. Replies, accepted writes,
callers and the network get no fairness; `AcceptingSpec` adds that writes are accepted
and is used for the counterexample, to exclude a blocked write as its cause.
In `ClusterNodes`: started goroutines and timers run. In
`ClusterSlots`: the cases of `select`, and that requests to a migrating slot keep
coming; a reload ends because its requests are resolved. In `ClusterRequest`: the promises of the two components below it.
In `RetryLocks`: goroutines that can run do run, a waiting one gets the mutex. In
`SyncCalls`: the caller and resolving goroutines go on; replies need not come. In `Scanning`: servers
answer and the user keeps asking. In `Replicas`: reloads go on, connections answer, goroutines run;
nothing says that faults end, so the properties speak of hosts that stay well or sick.

## 4. Findings

* `conn_noreconnect_hang`: with `ReconnectPause < 0`, `reconnect` (conn.go:742)
  only cancels the context. `Send` goes on queueing until `control` has closed the
  connection, but `control` may be blocked in its own `Ping`, queued at the same dead
  socket. Nobody is left to resolve either.
* `creq_closed`: on a closed cluster `request.Resolve` calls `r.resolve(r.off)`
  (cluster.go:538).

Met on the way, with an instance that shows it:

* `Connect` without `AsyncDial` calls `createConnection` (conn.go:155)
  without `conn.mutex`. If the new socket fails at once, `reconnect` may store
  connDisconnected and clear `conn.c` before `createConnection` stores connConnected
  and reads `conn.c` for its log message (`AsyncDial = FALSE` in `conn_signal.cfg`
  violates `CertainlyConnected`). Closing, wake-ups and
  the contract of Sender are not affected (section 5).
* `NewCluster` looks for known addresses in `config.masters`, which is empty
  (cluster.go:231); a seed given twice makes a node nobody can close
  (`Seeds == <<hostA, hostA>>` violates `NoLeakedNode`).
* error.go:18 says of `ErrTraitNotSent` that it "signals request were not written to wire". `ErrLoading` has the trait
  (error.go:73) and is made from the server's answer LOADING to a request that was written (reader.go:51). Retrying it is
  safe all the same, since a server that loads executes nothing. `NotSentHonest` makes this its one exception; without it
  `conn_signal` violates the property with a single Send that is answered LOADING.
* sender.go:32 says of Close "All following requests will be immediately resolved with error". `Connection.Close` only
  cancels the context (conn.go:202). Until `control` has noticed and stored connClosed (conn.go:667), `Send` queues
  requests (conn.go:290), and they may be written and answered. `Sender` therefore has two steps, `Close` and
  `TakeEffect`; with the promise as it is written, `~closing` in place of `~closed` in `Accept`, `conn_timer` violates
  `ImplementsSender`. What is accepted in between is still resolved once (`Conserved`, `EventuallyResolved`).
* `SyncCtxIterator.Next` returns when its context is cancelled, with its request
  still in flight. If `Next` is called once more, the reply of either request
  clears the callback of the other, and the second reply calls `Resolve` or
  `Cancelled` of nil in a reader goroutine (sender.go:118). Neither code nor docs forbid the call
  (sync_context.go:178). `HasCallback` says that nothing else leads to a nil callback; as `~paniced`
  it is violated in `callers`.
* The OK of READONLY sets the bit of a replica whose link is down until the answer to INFO
  clears it, at every reload (slotrange.go:175): `SicknessNoticed`, a part of `HealthFollowed`, can only say "time and again".
* One dead connection of a reachable replica clears the replica's bit; a connection
  that reconnects is not in READONLY mode until the next reload (slotrange.go:209).

Met while reading only:

* `ConnsPerHost` has no upper limit (cluster.go:188), but the round robin of `getConn` keeps a mask of 32 bits:
  connections from the 33rd on are never chosen (mapping.go:321); the same goes for the hosts of a shard (slotrange.go:119, mapping.go:229).
* `ScanResponse` indexes `arr[0]` and `arr[1]` without looking at the length (response.go:40): an answer of fewer than two elements
  panics. `Scanning` assumes that a server answers SCAN with two elements, or with an error.
* With `IOTimeout < 0`, `control` blocks in `Ping` on a silent server and does not notice Close (conn.go:712).
* `Cluster.SendTransaction` resolves a cancelled future at `off+len(reqs)` (cluster.go:632), otherwise at `off`.
* A repeated read may end with `ErrTraitNotSent` although its first attempt was executed (cluster.go:571).
* cluster.go:565 says that a request may be sent again after a reconnect "even with MasterOnly policy and single connection"; the connection is in `seen` then and is skipped.
* `NewCluster` returns on a resolve error without cancelling its context (cluster.go:228).
* `transaction.asked` is never reset after a later MOVED.
* `redisclusterutil/cluster.go:243`: `MergeWith` appends `iis[j:]` where the rest of the other list is meant.
* `SlotsRanges` lists replicas by uuid, `ParseSlotsInfo` by address; a shard counts as unchanged only if the order is the same (slotrange.go:107).
* `redisdumb/conn.go:121`: `SendTransaction` returns with the first QUEUED and leaves the server in MULTI; `Do` goes on with a nil connection when ASKING fails (conn.go:54).

## 5. Proofs

For any set of calls, any number of sockets, hosts, callbacks and reloads, all
capacities and options:

| Theorem | Says |
|---|---|
| `TypeCorrect` | `Connection` is well-typed |
| `ConnectedIsCertain`, `SocketsAreClosed` | `CertainlyConnected`, `NoLeakedSocket`, with `AsyncDial` |
| `SignalIsOpen`, `ClosedStaysClosed`, `NoWakeupIsLost` | `NoSendOnClosedSignal`, `ClosedIsFinal`, `NoLostWakeup`, also for a synchronous `Connect` |
| `NothingIsLost` | `Conserved`: a request waits in exactly one place or has exactly one result |
| `TraitIsHonest` | `NotSentHonest`: what is reported as not sent was never written, unless the server answered LOADING |
| `BatchesArriveWhole` | `BatchesWhole`: batches, transactions and chunks reach the wire contiguously and completely |
| `RepliesAreRight` | `RightReply`: a reply goes to its own request |
| `ConnectionIsSender` | `ImplementsSender`: a connection refines `Sender`, for every option: results once and right, nothing taken on after connClosed, which only a Close brings about |
| `NodesTypeCorrect`, `CurrentNodesStayOpen` | no count goes below 0; a node in the current map is open, for any seeds |
| `RefcountsAreExact`, `NothingLeaks` | `RefcountExact`, `NoLeakedNode`, for distinct seeds |
| `CallbacksRunOnce` | `CallbackOnce`: a callback waiting for a node is queued once or was run once |
| `SlotsAreServed` | `SlotsInv`: every slot leads to a shard all of whose addresses have nodes |
| `TableIsRight`, `EveryWordChangesRight` | `TableRight`: the 32-bit words hold the slot table, for any even number of slots up to 16384 and any masters, replicas, ranges and flags; `slotSetShard` and `slotMarkAsking` are right for all contents of a word |
| `WritesAreSafe`, `EffortIsBounded`, `RetriesGoElsewhere` | `RequestInv`, `BoundedEffort`, `RetriesElsewhere` |
| `LockInvariant`, `WaitsAreOrdered`, `NoLockCycles` | no circle of connections that wait for each other's `futmtx`: `WaitsForLater`, `NoLockCycle` |
| `MaskIsRight` | `MaskInv`: no update of a mask is lost, the master's bit stays |
| `FullPeriod` | from every seed the generator of `nextRng` runs through all its values, for every width |
| `EveryViewChoosesRight`, `ChoiceIsRight` | `ChoiceRight`: the search for a connection ends and finds the right one, for every width, seed, mask, node table, state of connections and set of seen ones, and as many hosts and connections as a mask has bits |
| `ChannelsCloseOnce`, `CallsAreSafe` | `ClosedOnce`; the blocking wrappers implement `BlockingCall!Safe`, for batches of any length |
| `NothingPanics`, `IterationsAreComplete` | `NoPanic`, `IterationInv`, for any finite set of masters and users who may call `Next` whenever the last one has returned |

*Connection: its state.* `TypeOK` alone is not inductive: the reader takes the head of a batch,
so `TypeInv` adds that no batch in the channel is empty and that a reader
fetches a batch only while it has a reply for it. The
state machine of dialling rests on `DialInv`: `LockInv` says that
the goroutine between `cc_loop` and its end holds `conn.mutex`, hence there is only one;
`PhaseInv` says what `state`, `c`, the socket and `futsignal` are at each of its program
counters and when nobody holds the mutex. `AsyncDial` is a hypothesis of the two theorems
about `conn.c` because a synchronous Connect breaks `LockInv`,
and their conclusion then really fails (section 4). Closing does not need it:
`CloseInv` exempts Connect from the mutex, and uses instead that `control` starts
only after Connect has returned and that, once connClosed is stored, no goroutine is at a
program counter (`Storing`) from which it would store another state. `WakeInv` adds
`BufferInv`: a writer that waits or is about to swap has an empty buffer, so that
the swap leaves an empty queue and the next request notifies again.

*Connection: its requests.* `Conserved` counts the places that hold a request: the queue, buffers of
writers, batches in channels, what readers have left. `FutureInv` makes it inductive:
`InOnePlace` (also for ASKING and MULTI, which no caller sees), `Unresolved` (what waits has no
result), `ResolvedOnce`, `NotLost`, `Fresh` (nothing has happened to commands not yet
handed over, so that handing them over makes no duplicate), `CallsInv` (a call under way
stands in front of a chunk) and `BuffersInv` (a swap or a fetch overwrites only empty buffers).
Every internal step is shown to be a move along an injective map of places that loses
exactly what it resolves (`Moves`, `MoveStep`). On top of it, `HonestInv` says that
nothing in the queue was ever written and that a claim about a written command is the server's own LOADING (`OwnClaims`, with
`RightReply` for whose it is), `OrderInv` that queue and buffers consist of whole
chunks, and `WireInv` that on a socket whose reader still reads, the
unanswered commands are, in order, a prefix of what the reader has left, the batches in the channel and
the part of the writer's buffer that was written. Offsets are a function rather
than a recursive sum, so that no induction is needed.

*Connection refines Sender.* `SenderFacts` says that a visible callback has seen nothing before it is
handed over, at most one result after, and no foreign reply; this takes `Fresh`, `ResolvedOnce` and
`RightReply` in both states. Then every step is one of three kinds (`SenderCases`): a
caller's step is `Accept`, `Refuse` or `Trivial`; one that leaves requests and
results alone is `Close`, `TakeEffect` or invisible, by `CloseInv` and `ContextInv` (connClosed is stored only after
the context has ended); one that only adds results is `Resolve`.

*ClusterNodes.* `NodeInv` consists of the types, `MapsBounded` (maps hold only nodes that
were made), `Counted` (`refcnt` is at least the number of maps that hold the node) and
`ClosedWhenReleased` (the closed nodes are those that were made and have count 0).
`CurrentNodesOpen` is not inductive without these: the
delayed drop closes a node on its count alone. The three balance lemmas
(`UpdateBalance`, `AddBalance`, `DropBalance`) say that a step changes `refcnt`
and the number of holders alike; from them follow `Counted`, and exactness if it
holds initially, which it does for distinct seeds (`DistinctSeeds`). With a seed given twice it fails
(section 4). `CallbackOnce` follows from `QueueInv`: a queued callback was passed in and not
run, and sits at one place of one queue; the promises map, which reloads replace, does not matter for it.

*ClusterSlots.* `SlotsServed` speaks of shards that serve a slot, but MOVED may make any shard
serve one, so the invariant `ShardsHaveNodes` is about all of them; `SlotsHaveShards` is the rest.

*Induction over data.* The provers cannot instantiate the library's induction theorems, but they can
use that a non-empty set of numbers has a least member (`LeastNumber`, from the
well-foundedness of `<`). `UpTo` is induction over numbers in that form, with a set
in place of a predicate; `LoopRuns` gives from it the function that a loop defines, so that what is known of one
iteration carries over to all.

*SlotWords.* `LoopInv` is the invariant of the loop of `updateMappings`: the range at hand is the first
that does not end before the next slot, the words written so far are right, and `sh` holds the even half of the
word in the making. It needs that sorted ranges are disjoint and ascending (`Listed`), which follows for
every way to cut an assignment into ranges (`RangeEnds`, `AnswerFacts`), that sorting finds a
sequence at all (`Sortable`), and that the masters of an answer are no more than its slots, hence at most 16384, so that
no shard number reaches the flag (`FewMasters`; `Fits` for the shards of `ClusterSlots`). For CLUSTER NODES, `ListInv` says
that after each line a master's list holds the instances of its family seen so far, the master
first once it was seen. The words themselves are `HalfParts`, `MarkWord` and `SetWord`: arithmetic on the two halves.

*ConnChoice.* A loop over a mask ends because the generator hits every index. `FullPeriod` is the argument of
Hull and Dobell for this generator, with the walk unwrapped into the natural numbers: after 2^k steps the state
has moved by an odd multiple of 2^k (`AllJumps`, by doubling, as the multiplier is 1 modulo 4), so the
values reached modulo 2^k become those modulo 2^(k+1) (`ReachesMore`). `v ^ v>>16` is onto
(`MixedOnto`): applied twice it gives `v` back. `WalkInv` then says that after t steps the mask is what it was
without the indices hit so far, none of which gave a connection; after a period nothing is left of it.
`RoundPicks` and `TwoRounds` put this together for the two rounds of `connForSlot`. The hypothesis
is that a shard has at most as many hosts, and a host as many connections, as a mask has bits, and that three times the
hosts are no more than 2^Width, since each has three places.

*ClusterRequest.* `ExecsInv` says that a write which may have been executed is in a state from
which it is not sent again. `EffortInv` is an account: each redirect pays for
`PerShard` sends, each hard error uses one up, and a waiting request has no hard
errors open. `ResultInv` says that a result ends the request.

*RetryLocks.* `WaitsForLater` is not inductive: whom a callback waits for depends on what was
up when it picked its connection. `LockInv` adds `StateStored` (a connection that is
being closed is down), `ClockBounds` (`downAt` is at most `clock`), `UnderHeld` (a callback runs under a
lock that is held) and `TargetLater` (the connection it aims at is up, or went down later than
the one whose lock is held). `GoDown` preserves it because the clock advances. A set of
connections that wait for each other has a member with the greatest `downAt`; what
it waits for went down later still, a contradiction.

*Replicas.* `MaskInv` needs that a loaded value belongs to the answer being handled and that
this is not the master's (`LoadsBacked`), that roles are given for an existing shard (`RolesBacked`), and
that all lists of addresses are permutations of the hosts (`ListsComplete`).

*SyncCalls, Scanning.* `CallInv`: where each goroutine may be (`PcInv`), that every claim
is counted once, by its claimant (`TallyInv`, over cardinalities), that only who brings the counter to its
end closes (`ClosesInv`), and that a result is the request's own, or a cancellation, and is
written unless its claimant is about to (`ResultInv`). `ScanInv`: whose turn it is between user,
scanner and Sender (`TurnInv`), `PagesInOrder`, how far the user has got (`PlaceInv`),
and the same for `EachShard` (`ShardsInv`). All this holds until a `Next` is cancelled. After that `LateInv` keeps
what is left: the context has ended, so the scanner's requests are refused and no more pages come (`CursorInv` says that the one
under way was not sent at the end of a shard); with one request under way it still finds a callback, and only two can leave one without.

Assumptions on constants (`CallsAssumption`, `BoundsAssumption`, `OptsAssumption`,
`NodesAssumption`, `TopologiesAssumption`, `SlotBoundsAssumption`, `RequestAssumption`,
`LocksAssumption`, `ReplicasAssumption`, `ScanAssumption`, `WordsAssumption`, `ShardsAssumption`, `WidthAssumption`,
`ShapesAssumption`) are types, bounds and finiteness; `ShardsAssumption` says that an answer has no more
shards than slots, `WidthAssumption` that the width is even, as `>>16` takes the upper half. `XorAssumption` says of `^` that it is undone by itself
and leaves the bits above its second operand alone. TLC evaluates all of them in the runs.

Only model-checked: all liveness, `WF_vars(Return)` of `BlockingCall` included, since fairness
is out of TLAPS's reach. Every invariant a passing run checks is stated by a theorem.

## 6. Not modelled, and the plan

Left out for good: RESP encoding and decoding (byte-level; a bad reply is a read
error, a bad request a rejected one), the text of `CLUSTER NODES`, CRC16, command tables, error declarations, loggers, `testbed`,
`redisdumb` (one goroutine, used by `testbed`), `MergeWith` and `HashSum` (for tools), `PolicyMan` and
the ticking of `TimedRoundRobinSeed`, which only supply a policy and a seed.

Every safety property of a passing run is proved. What may
follow: `conn.c` under a synchronous `Connect` (which of the properties of sockets survive
the race of section 4), and the parsing of the text of `CLUSTER NODES`.
