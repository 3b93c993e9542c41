# A verification of aiotruenas in TLA+

aiotruenas is an asyncio client library for TrueNAS. A program opens one
WebSocket, several of its tasks share it to make JSON-RPC calls, await jobs and
read subscriptions, and a layer above it keeps normalised snapshots of what the
server reported, to be polled by a consumer such as a Home Assistant coordinator.
This directory models the parts of it whose correctness depends on the order in
which things happen: the shared connection, and the snapshots that are published,
carried over and marked stale.

Line numbers below are of `src/src/aiotruenas/`. `PROJECT.json` maps each
definition to the lines it models.

## 1. Inventory

| Component | State | Operations | What is hard, and what makes it correct |
|---|---|---|---|
| **TrueNASClient: session** (`client.py`) | `_ws`, `_private_methods_ws`, `_pending_calls`, `_subscriptions`, `_next_id_value`, `_lock`, `_private_methods_lock`, the reader task | `connect`, `close`, `call`, `subscribe`, `unsubscribe`, `enable_private_methods`, `_read_loop` and the handlers it calls | Every method suspends several times, some of them with the lock held; a cancel or timeout may come at each. A connection may be lost, closed and replaced meanwhile. Tables must speak of the current connection only; nobody may be left waiting; no socket may be left open. |
| **TrueNASClient: jobs** | locals of `_wait_for_job` | `call` with a job: poll `core.get_jobs` until the job ends | The server may list a job late or forget it. The caller learns how the job ended, gives up only on a lost job, and does not wait forever. |
| **TrueNASClient: subscription queue** | one `asyncio.Queue` per subscription | `get_subscription_events`, `_drain_events` | One queue, possibly several consumers, one terminator. |
| **TrueNASState: pools and datasets** (`domain/state.py`) | `ds["pool"]`, `ds["dataset"]`, `_boot_pool_uid`, `_fallback_failing`, `_lock` | `get_pool`, `get_dataset` | `get_pool` makes three queries, each of which may fail alone; capacities are derived from the datasets. The two snapshots must belong together and `stale_endpoints` must tell the truth. |
| **TrueNASState: single-query endpoints** (`domain/state.py`, `domain/_normalize.py`) | `ds[...]`, `_fallback_failing` | eleven `get_...` methods, `parse_api` | Records are merged in place, over any number of replies, from entries of any shape. |
| **TrueNASState: UPS** | `ds["ups"]`, `_ups_stale_graphs`, two kinds of failing keys | `get_ups` | Discovery and one gathered query per graph; any subset fails. |
| **TrueNASState: containers, version** | `ds["container"]`, `_version` | `get_container`, `_detect_version` | A cached version decides which query and derivation run. It must not be guessed silently. |
| **TrueNASState: disks** | `ds["disk"]`, `_disk_temp_graph`, failing keys | `get_disk` | Temperatures come from a graph or, for what it does not cover, from a fallback; a value nobody refreshed must be noticed. |
| **TrueNASState: directory services, alerts, SMB, update, ARC** | one map each, four failing keys, `_smb_denied` | one `get_...` each | Validation by hand; a status carried into a fresh configuration; a refusal that lasts for the lifetime of the object. |
| **TrueNASState: system information and statistics** | `ds["system_info"]`, `_is_virtual`, `_systemstats_stale_graphs` | `get_systeminfo`, `get_systemstats` | Several graphs merged into one record, any of which fails alone; three methods share what they learn from `system.info`. |
| Value conversion (`domain/_helpers.py`, `_specs.py`) | none | numbers, dates, netdata rows | Pure functions over floats and text. |
| **TrueNASSystem** (`system.py`) | none | `get_system_stats`: a gather; the others: one call each | One graph's timeout closes the connection under its siblings; the cause has to be reported and not a symptom. |
| Exceptions (`exceptions.py`, `_errors.py`) | none | classification of error codes | - |

The components in bold are modelled, wholly or in part; `PROJECT.json` says which
and what is left out.

**How they interact.** `TrueNASState` and `TrueNASSystem` use the client through
`call()` only, whose outcomes they distinguish are: a value of any shape, an
exception, a cancel. That is the interface along which the models are cut:
`Client` shows that a call ends and what it may have done to the session by then;
the state modules take any outcome of a call. `_wait_for_job` is a loop of
ordinary calls, so `JobPoll` takes the answers as given. `TrueNASState` has a
lock of its own, held over a whole refresh, and a consumer reads `ds` and
`stale_endpoints` without it, between any two awaits.

## 2. Modules

| Module | Models | Run by |
|---|---|---|
| `SubscriptionFeed` | abstract: what `subscribe()` promises of its queue | implemented by `Client` |
| `Client` | the session | `MCClient`: three passing runs, two findings |
| `ClientDelivery` | `Client` with a history variable: the queues a message in hand is still due to | `MCClientDelivery` |
| `ClientProofs`, `ClientCallProofs`, `ClientFeedProofs` | theorems about `Client`: the connection, the calls, the subscriptions, their refinement and the delivery of notifications | TLAPS |
| `SubscriptionFeedProofs` | theorems about the feed | TLAPS |
| `SubscriptionReader` | the readers of a queue, composed with `SubscriptionFeed` | `MCCallers` |
| `JobPoll` | waiting for jobs | `MCCallers` |
| `SystemGraphs` | `get_system_stats` of `TrueNASSystem` | `MCCallers` |
| `CallerProofs` | theorems about the users of the client: `JobPoll`, `SystemGraphs`, `SubscriptionReader` | TLAPS |
| `PoolState` | pools and datasets | `MCPoolState` |
| `PoolStateProofs` | theorems about `PoolState` | TLAPS |
| `PoolCapacity` | the capacity figures of one pool | `MCState` |
| `QueryState` | the single-query endpoints, both kinds of containers, and `parse_api` | `MCQueryState`: one run, one finding |
| `QueryStateProofs` | theorems about `QueryState` | TLAPS |
| `Ups` | `get_ups` | `MCState` |
| `Disk` | `get_disk` | `MCState` |
| `SystemState` | system information and statistics, version detection, `get_container`'s dispatch | `MCState`; one finding |
| `FlatState` | directory services, alerts, SMB, update, ARC | `MCState` |
| `StateProofs` | theorems about `Ups`, `Disk`, `SystemState`, `FlatState` and `PoolCapacity` | TLAPS |

Definitions named `Fault...` are the plausible bugs each property is tried
against: a run with the definition below it replaced by the `Fault...` form must
violate the property. No specification uses them.

### Client

asyncio switches tasks only where a coroutine suspends, so **one action is what a
task does between two suspensions**, and `pc[t]` says where task `t` is
suspended:

| `pc` | suspended in | actions that leave it |
|---|---|---|
| `connLock`, `closeLock`, `callLock`, `failLock`, `unsubLock`, `forgetLock`, `pmLock` | `async with` a lock | `ConnectLock`, `CloseLock`, `CallSend`/`CallRefused`, `FailedCallLock`, `UnsubscribeLock`, `ForgetSubscription`, `EnableLock` |
| `opening`, `retrying` | the handshake and the retry after it timed out | `OpenWebsocket`, `OpenTimeout`, `OpenError` |
| `login`, `option`, `connClose` | login, `core.set_options`, closing a connection that failed to set up | `LoginOk`, `LoginError`, `OptionReply`, `ConnectClosed` |
| `sending`, `sendClose` | `ws.send`, `ws.close` after it failed | `SendOk`, `SendError`, `FailedCallClosed` |
| `await` | the call's future | `CallReply`, `CallLost`, `CallTimeout` |
| `failClose` | `ws.close` after a timeout | `FailedCallClosed` |
| `closeWs`, `closeReader`, `closeCancelled` | `close()`: the socket, then the reader | `CloseWebsocket`, `AwaitReader` |

`Cancel...` is the same suspension left through `CancelledError`, with the
`except` and `finally` blocks that run then. The reader of connection `c` is at
`rd[c]`: it receives (`Receive...`), waits for the lock to route the message
(`Handle...`; a collection notification takes the lock twice, `route` and
`route2`) and tears the connection down when `recv` fails
(`TeardownConnection`). `Drop(c)` is the network or the server closing the
socket.

A request is represented by its rpc id; its future, its queue, the connection it
was written to and the event it subscribes to are functions of that id. A
message put into a queue is represented by the connection it came from, so a
queue tells whether it was fed by two connections. A reply carries only what the
code tells apart: a result, a result that is no string, an error, neither. The
server may answer a request while it is unanswered, also after its caller has
given up; it may hand out a subscription id again on another connection.

**Refinement.** `SubscriptionFeed` states, without tasks, locks or messages, what a
consumer relies on: a queue is fed by the connection its request was sent on, and
only while tracked; one that `subscribe()` returned is untracked only together with
a terminator, the last thing it gets. `ImplementsFeed` maps `feed` to the contents
of the queues, `source` to the connection of the request, `open` to the queues in
`_subscriptions` and `returned` to those `subscribe()` returned; every step of
`Client` is then a step of the feed or a stutter. A detach that ends all queues of
a connection is one `End` step, a routed notification one `Deliver` step.

The detaching of a timed-out call that is cancelled while it waits for the lock
happens *without* the lock (lines 643 ff.); it is `CancelFailedCallLock`, and is
the reason why several invariants are not obvious. A task may be cancelled at a lock
also while the lock is free: that is the waiter the last release woke and that
has not run yet. At a lock nobody contends for, `acquire()` does not suspend, so there the
model allows a cancel more than the code; nothing found or proved rests on it.

**Delivery.** `ClientDelivery` restricts no step of `Client`. When a reader takes a
message, `due` becomes the tracked queues it is meant for, by `_subscriptions` and the
subscribed names; a queue leaves `due` when the message is put into it or when it is
tracked no longer. What the reader itself notes of the queues it has
notified (`seen`, the code's `notified_queues`) has no part in it, so a reader that
forgets to note one, skips one or looks it up on a newer connection shows.

### JobPoll

Per job: the server's side (`RunJob`, `EndJob`, `DropJob`, and `Answer`, which may
leave out a job it still has at most `MaxGap` times in a row) and the caller's
(`Begin`, `ReadAnswer`, `Wake`, `CallError`). An answer that is no list of jobs
ends the wait with an exception. `MissingCount` and `GivesUp` are
`_wait_for_job`'s counter and `_JOB_MISSING_RETRY_LIMIT`. `JobPollAssumption`
says that the server's gaps are shorter than that limit: it is what the limit is
for.

### SubscriptionReader

Readers of the queues of a feed: `get_subscription_events` with and without a
timeout (`GetEvents`, `Lookup`, `Get`, `GetTimeout`), cancelled anywhere, and a
program that reads the queue `subscribe()` gave it (`RawStart`, `RawGet`). The
client is any behaviour of `SubscriptionFeed` (`Environment`), which by the
refinement is all `Client` can do. `taken` counts what has left each queue and
`received` is what the program got, so a message that is lost by a reader that
gives up is one that was taken and not received.

### SystemGraphs

The calls of one `get_system_stats`, gathered over a connection that each of them
may close (a timeout, a failed send) and that may be closed and opened by others.
The choice of what is raised (`_reportable_failures` and what follows) is made
from the list of results. The lock serves the calls in the order in which
they asked for it, and all have the same timeout: this is what makes a cause
precede its symptoms for timeouts. For failed sends it does not.

### PoolState, QueryState, Ups, Disk, SystemState, FlatState, PoolCapacity

A value read from the server is represented, except in `QueryState` and
`PoolCapacity`, by the number of the refresh that read it. So "fresh", "carried over" and "derived from
an older snapshot" are comparisons, and a capacity is represented by the dataset
snapshot it was computed from.

`PoolState`: `Call`, `Acquire` (the lock), `GetDataset`, `ComputeDataset` and
`PoolQuery` and `GetPool` (the three queries of `get_pool`), `Raise` and
`CancelWaiting` at every await.

`QueryState`: one action per `get_...` method, which holds the lock from its await
to its return. `ParseApi` merges the entries of a reply one by one (`Merge`), as the
code does; `Derive...` are the loops after it. `Wanted` is the reference: what the map
should be, from the last usable reply alone. Of a record, the fields that some
derivation reads are kept; each may be absent, null, well-formed, or of a wrong
type where the code has a path for it.

`Ups`: `GetUps`, `DiscoveryFails`, `Discover`, `Publish` (every mix of outcomes of the
gathered queries), `RaiseResult` (one of them is an exception that is not an error
of the library), `Cancel`.

`Disk`: the four awaits of `get_disk` in turn: `disk.query`, the discovery of the
graph (made once), the graph, and `disk.temperatures` for every disk the graph did not
refresh. Two disks may share a name, by which readings are filed.

`SystemState`: the three methods that call `system.info`, which cache the
version and whether the system is virtual for one another; the gathered graphs,
applied one by one until one raises; the throughput query after them. `Upgrade`
is the appliance coming back with another version, after which the program
connects again and keeps its `TrueNASState`.

`FlatState`: `GetFlat(e)` and one action per reply. `SmbPc` is the latch.

`PoolCapacity`: `ApplyPoolCapacity` on whole numbers, with missing, zero, negative and
contradicting figures. An entry of the boot pool that was carried over goes
through it again with the figures it derived before (`BootCarried`).

`MCState` runs `Ups`, `Disk`, `SystemState`, `FlatState` and `PoolCapacity` in one model.
They share the lock of `TrueNASState`, which a call holds until it returns, and
`_fallback_failing`, in which each has keys of its own; so a behaviour of one part
does not depend on the others, which rest. `MCCallers` does the same for `JobPoll`,
`SystemGraphs` and `SubscriptionReader`.

## 3. Runs

| Run | Properties | What it shows |
|---|---|---|
| `client_calls` | `TypeOK`, `PendingOnCurrent`, `WaitingCallIsPending`, `PendingHasOwner`, `NoSocketLeak`, `CurrentHasReader`, `OptionWasSent`, `OptionNotResent`, `EnableTakesEffect`, `NewConnectionUntouched` | Two tasks call, and call `enable_private_methods()`, while a third closes and reconnects. A call that waits is always one a reply or a detach will end; no entry outlives its call; an open socket always has an owner; neither a late reader nor a late timeout touches a newer connection. The option, decided on outside `_lock`, is on the current connection when the method returns. |
| `client_subscriptions` | `SubscriptionsOnCurrent`, `TrackedHasReader`, `ImplementsFeed` | Subscriptions against close, loss and a reconnect that reuses the id: the session implements `SubscriptionFeed`. |
| `client_delivery` | `DeliveredOnce` | A notification reaches every queue it is meant for, and none twice, although one that names two collections is looked up twice and the lock is released in between, when subscriptions end and connections change. |
| `client_liveness` | `EveryCallEnds`, `LossIsNoticed` | `close()` awaits a reader that needs the lock; every method ends all the same, and a lost connection is noticed. |
| `callers` | `OutcomeIsFinal`, `GapsAreBridged`, `WaitEnds`, `RootCauseRaised`, `NothingLost`, `ReadEnds`, `RawReaderEnds` | The outcome is that of the job; only a dropped job is given up, however often the gaps come; the wait for a job that ended or was dropped ends. `get_system_stats` raises what closed the connection and not what came of it. A timeout or cancel that races with a message does not lose it; every read ends; a program that reads the queue itself sees the terminator unless a `get_subscription_events` took it. |
| `pool_state` | `BootPoolKept`, `FreshUnlessStale`, `StaleHasReason`, `PublishedTogether`, `NeverOlder` | Snapshots and flags over four refreshes by two tasks. `FreshUnlessStale` and `StaleHasReason` say together that an endpoint is stale when, and only when, something of it was carried over. |
| `query_state` | `SnapshotIsLastReply`, `StaleIffFellBack` | The merge in place computes what the last usable reply says; what a fallback derives once more from a kept record is only ever understated, and gone with the next usable reply; the test that sets the flag agrees with the one that keeps the map. |
| `state` | `FreshUnlessStale`, `StaleHasValue`, `KeyIsLastOutcome` (UPS); `FailingIffStuck` (disks); `InfoStaleIffKept`, `StatsFreshUnlessStale`, `DetectionHonest` (system); `StaleIffKept`, `DeniedForGood` (flat); `CapacityAddsUp` (capacities) | What each method marks as stale or failing is what it carried over, also after cancelled or raising calls; a failed detection is noticed where its default is used, and the default is not cached, so that it is tried again; what SMB refused stays refused; the figures of a pool fit together however often they are derived. |
| `client_unsubscribe_cancelled`, `client_bad_frame`, `query_vm_stale`, `container_version` | see section 6 | disagreements of the code with its own documentation |

**Bounds.** The client runs differ in who may call what (`Ops`), because two
connections, three tasks and every method at once is out of reach.

- Two connections are the least on which an old one can harm a new one; a third
  could only play the part of one of them, as every table is emptied when the
  connection changes. `client_liveness` needs one only.
- Three tasks in `client_calls`: two that compete and one that opens and
  closes. Two in the others, where the reader is the third party.
- `MaxRpc` bounds the requests of a behaviour, 2 or 3: two concurrent calls; a
  subscription, its unsubscription and one more on the next connection.
- `MaxQueue` bounds the notifications in a queue: it guards `Notifies`, so a
  message that is routed twice still shows. 1 suffices for what comes
  before and after the terminator.
- The first two client runs have tasks cancelled at every suspension;
  `client_liveness` has frames that break the reader instead (`BadFrames`). In
  `client_delivery` there are two connections and neither: a lost connection, a timeout, `close()` and `unsubscribe()` are
  what ends a subscription between the two lookups; the theorem has cancels too.
  `NoSocketLeak` is checked without such frames, see section 6.
- Readers of subscriptions: two queues, two readers and the program itself; three
  messages per queue, the terminator included (`MaxFeed`): one to be taken first and
  one that is drained with it.
- Job gaps reach `RetryLimit - 1 = 4`, the longest the limit tolerates. The waits for
  two jobs share nothing, so one job is enough.
- Four graphs, one of them optional, and two connections for `get_system_stats`: a
  cause, a symptom before and one after it in the list, one that is not affected.
- Four refreshes in `pool_state` and, for UPS, disks and the flat endpoints, in `state`:
  one that fills the cache, one that fails in part, one that fails in another
  part, one that recovers; three for the system methods, whose state is one
  record. Two pools besides the boot pool; three UPS graphs: one each that is
  read, fails and is absent; two disks and two names.
- Capacity figures -1, 0, 1, 3 and 4 and none: each plausibility test passes and
  fails, and sums that agree (1 + 3 = 4) and do not both occur.
- Replies of up to two entries over two ids in `query_state`: duplicates, a record
  that vanishes, a usable entry beside an unusable one. Behaviours are not
  bounded: the run visits all the states there are.

Symmetry is used on connections, pools, graphs, disks, record ids, and on
tasks with the same `Ops`; never in a run with a liveness property.

`CHECK_DEADLOCK FALSE` stands where a behaviour uses up its bound (requests,
connections, calls) or, for jobs, where every wait is over. `query_state` cannot
stop and checks deadlock.

**Fairness.** Only `client_liveness` and `callers` assume any.

- `WF(Progress(t))`: the handshake, the login, the option and the call's answer
  have timeouts of the client, and `ws.close()` has one of the websockets library;
  `send()` waits for buffer space at most until the keepalive ends the connection.
- `SF(Acquire(t))`, `SF(Route(c))`: `asyncio.Lock` wakes its waiters in FIFO order,
  so a waiter is passed over finitely often. Weak fairness would not say this, as
  the lock is taken and released meanwhile.
- `WF(ReceiveClosed(c))`: `recv()` raises on a closed connection.
- `WF(Lookup(k))`, `WF(GetTimeout(k))`, `WF(RawGet(r))` of `SubscriptionReader`: the lock
  is served in order and held for finite times; an `event_timeout` expires; a
  program that awaits `queue.get()` runs when there is something to get.
- `WF(Poll(j))`: each poll is a call, which ends by `EveryCallEnds`, and a sleep.

Nothing is assumed about the server: it may never answer or notify. In
`client_liveness` there are no cancels, which would only make methods end sooner.

## 4. Theorems

TLAPS proves 40 theorems. They hold
for any number of tasks, connections, ids, graphs, pools, disks and calls, and for replies of any length: the bounds of section 3
are constants here. The assumptions are the named `ASSUME`s of the modules, which
TLC evaluates on each run. They give the parameters their types and keep the marks
`None`, `TERM`, `Absent`, `Null`, `NoTask`, `NoFigure` apart from real values (for `QueryState`: from
the ids of records and from numbers; the memory of a container is a natural number of bytes); the only one that says
something about the world is `JobPollAssumption` (a gap of the server is shorter than
`_JOB_MISSING_RETRY_LIMIT`).

| Module | Theorems | Inductive invariant |
|---|---|---|
| `ClientProofs` | `TypeCorrect` | `TypeInv` |
| | `PendingAlwaysOnCurrent`, `SubscriptionsAlwaysOnCurrent`, `CurrentAlwaysHasReader` | `SessionInv` |
| `ClientCallProofs` | `WaitingCallAlwaysPending`, `PendingAlwaysHasOwner` | `CallInv` |
| | `OptionAlwaysSent`, `OptionNeverResent`, `EnableAlwaysTakesEffect` | `OptionInv` |
| | `SocketsNeverLeak`, `ReaderAlwaysKeepsOpenSocket` (where frames do not break the reader) | `SocketInv` |
| | `NewConnectionAlwaysUntouched` | `LocalsInv`, `CallInv` |
| | `UnsubscribeAlwaysEndsLocally` (where tasks are not cancelled) | `LocalsInv` |
| `ClientFeedProofs` | `TrackedAlwaysHasReader`, `FeedIsImplemented`, `ClientKeepsPromise` | `FeedInv` |
| | `AlwaysDeliveredOnce` (of `ClientDelivery`) | `DueInv`, `FeedInv` |
| `SubscriptionFeedProofs` | `FeedKeepsPromise` | `FeedSound` |
| `CallerProofs` | `JobOutcomeIsFinal`, `JobGapsAreBridged` | `JobInv` |
| | `GraphsRootCauseRaised` | `GraphsInv` |
| | `ReaderLosesNothing` | `ReaderInv` |
| `PoolStateProofs` | `PoolStateBootPoolKept`, `PoolStateFreshUnlessStale`, `PoolStateStaleHasReason`, `PoolStatePublishedTogether`, `PoolStateNeverOlder` | `PoolStateInv` |
| `StateProofs` | `UpsFreshUnlessStale`, `UpsStaleHasValue`, `UpsKeyIsLastOutcome` | `UpsInv` |
| | `DiskFailingIffStuck` | `DiskInv` |
| | `SystemInfoStaleIffKept`, `SystemStatsFreshUnlessStale`, `SystemDetectionHonest` | `SysInv` |
| | `FlatStaleIffKept`, `SmbDeniedForGood` | `FlatInv` |
| | `PoolCapacityAddsUp` | `CapacityInv` |
| `QueryStateProofs` | `SnapshotAlwaysLastReply`, `AlwaysStaleIffFellBack`, `StaleShowsPrevious` (virtual machines excepted) | `QueryInv` |

Each invariant is proved by one lemma for the initial states and one for a step,
with one step per action. Most actions leave most of the state alone, so what a
*kind* of step preserves is stated once, as a frame (`ConnectionFrame`, `OptionFrame`,
`ReaderFrame`, `FeedFrame`, `InHandFrame`, `DueFrame`; `Moves(t)`: only task `t` moves) with a lemma that the
invariant survives it, and an action that fits the frame cites that lemma.

### The session

None of the properties of `Client` is inductive. What has to be added:

- `TypeInv` adds `CallLocals`: a task inside a call has a request and a connection in
  its locals, without which `fut[trpc[t]]` and the like are not known to be defined.
- `SessionInv`. A call registers with the connection it finds and may do so only
  because nobody replaces it before the registration; a connection is published
  after a login during which the lock was held; and a detach may come without the
  lock. Hence
  - `LockHeld`: a task has the lock exactly while it is suspended inside it;
  - `TaskConnection`: whoever holds the lock and is not sending a request has found,
    or made, the client disconnected. So `connect()` publishes its connection
    when there is no other, with empty tables. What is being set up has no
    reader; what is being closed is not current;
  - `NewUnused`, `CurrentHasReader`;
  - `UsedIds`: ids in the tables are smaller than `nextId`, so that registering a
    new request does not change the connection of an entry;
  - `PendingOnCurrent`, `SubscriptionsOnCurrent`.
- `CallInv`. A task takes its entry out of `_pending_calls` by the id it remembers: that
  no other call loses its entry rests on `OwnRequest` and `RequestsDistinct`. `Wakeable` extends
  `WaitingCallIsPending` to the time in which `send()` is suspended, when a
  detach may already come.
- `OptionInv`. `enable_private_methods()` decides outside `_lock` and writes the option to
  whatever is current when it gets it. `EnableTask` says that it then either is the
  connection it decided for, or one whose `connect()` sent the option itself
  because the flag was set before; `ConnectTask` is the part of that `connect()`.
- `SocketInv`. An open socket is current or held by a task that sets it up or closes
  it, and a reader gives up the current connection only when its socket is closed.
  The second part is what a frame that is no JSON breaks (section 6), so
  both are stated for `~BadFrames`.
- `LocalsInv`: which locals of a method are set where. With it, a step of a task that
  remembers an older connection touches nothing of the current one.
- `FeedInv`. The queue of a request is empty and untracked while its future waits;
  a reply on its way to be routed has a subscription id that is new on its
  connection (`ReplyOnWay`); two subscriptions never share a queue
  (`SubscriptionTable`); the queue of a `subscribe()` that succeeded and has not
  returned yet is tracked or was ended (`SubscribeTask`). The last is the
  reason why a handed-out queue cannot be one that nobody will ever end, although
  the reply is routed by the reader and the queue returned by another task, with a
  detach between the two.
- `DueInv`. Before the first lookup a message is due to its whole audience, before the
  second to the queues that match and that the reader has not noted. So what
  the code notes is shown to be what was delivered, and a queue that came or went
  between the lookups is accounted for: a detach empties both sides, and a new
  subscription, tracked by this very reader, cannot appear while it has a message in hand.

**Refinement.** `FeedIsImplemented` is the refinement of section 2, proved step by
step: `CallSend` of a subscription is the feed's `Request`; the routing of a reply that is
waited for its `Track`; a routed notification its `Deliver`; a detach its `End` of all
queues and `ForgetSubscription` of one; a `subscribe()` that ends without its
queue its `Abandon`, and one that returns it its `Return`; all else
stutters. `SubscriptionFeedProofs` proves of the abstract feed what a consumer
relies on (`FeedPromise`: nothing comes after the terminator, a queue is fed by
one connection, a queue that was handed out is tracked or ended); `TrackedUnended` is what makes
it inductive. `ClientKeepsPromise` carries it over to the code's queues through the
refinement mapping, and `ReaderLosesNothing` builds on the same invariant: that
`_drain_events` may stop at a terminator loses nothing only because nothing
follows it.

### Waiting for jobs, gathered graphs

- `JobInv`: an answer on its way that says the job ended is still true when it is
  read (`AnswerIsFinal`); the caller's counter never exceeds the server's present gap
  (`CountIsGap`), the answer on its way included. Any number of gaps is bridged.
- `GraphsInv`: a call that closed the connection has ended, with the timeout or the
  failed send it closed it for (`CloserFailed`), so its own error is among the results
  when the gather is over and one is chosen to be raised.

### The snapshots

All but the capacities argue about the numbers of the refreshes that read a value.

- `PoolStateInv` says for each await of the lock's holder what it has read so far
  (`Numbered`, `DatasetsRead`, `PoolsRead`), and for the time between two methods that a
  snapshot is fresh or a key says why not (`DatasetSettled`, `PoolSettled`).
  `PoolSettled` is stated for the time of a `get_dataset()` too, which leaves the keys
  and the snapshot of `get_pool()` alone, so that it still holds when the lock is free again.
- `UpsInv` (`ReadByReturned`), `DiskInv` (`ReadByCall`, `AskedForStale`), `SysInv` (`SysCounted`, `ReadSoFar`)
  and `FlatInv` (`FlatCounted`, `UnderWay`): a cached reading is older than the call under way unless
  that call read it; otherwise a step that returns cannot tell carried-over
  readings from its own. Besides:
  - `Detected` (system): a cached version is that of the appliance, or the appliance was
    upgraded since; a cached virtuality is right; what is cached has no failing key; and a call that goes on without
    either has set the key of the failed detection;
  - `RefusedForGood` and `ConfigUsable` (flat): the latch of SMB, and that a status is
    only asked for after a usable configuration.
- `CapacityInv`: an entry is unknown or derived from a plausible pair of figures, for
  any integers. For the boot pool the figure it is derived from is also the one it
  shows, so that deriving a carried-over entry again changes nothing; for other
  pools, which are not derived twice, that is false.

### What parse_api makes of a reply

`parse_api` changes the cached map entry by entry, so what it leaves depends on what
was there, on the order of the entries and on those without an id.

- **One entry** (`ApplyEntryEffect`). The fields the entry brings are replaced,
  all of them, since `fill_vals` writes a default for what is missing; the throughput of an
  interface is kept; no other record changes.
- **All entries** (`MergeRounds`). By induction over the entries, `Rounds` holds after each
  round: a record that no entry has named is as it was, and one that was named has
  the fields of the *last* entry that named it. The induction is that of the
  well-founded `<` on the natural numbers (`NatSetInduction`: a set with 0 and the
  successor of each of its members has no least number outside it); it also shows that the
  recursive functions of the model, `Merge` and the filter of `Source`, exist (`MergeRuns`,
  `FilterRuns`). `LastIndex` finds the last entry of each id.
- **The reply** (`ParseApiKeeps`, `ParseApiReads`, `ForeignKept`). What is no list, or has
  entries and no id among them, leaves the map alone; any other reply leaves
  exactly the records it names. The first is also the test of
  `_note_primary_query_outcome`, hence `AlwaysStaleIffFellBack`.
- **The derivations** (`DeriveSame`, `DeriveSettles`, `DeriveAgain`). What a method derives depends on
  the fields the entry brought alone, so nothing of an older record shows. The loops
  after `parse_api` also run on the records that were kept when the reply was unusable:
  deriving again what was derived changes nothing, except for the four endpoints in
  `Rederived`, of which `DeriveAgain` says what is left.

`QueryInv` is what this needs of the cached map: its records have the fields of the endpoint and
no other (`KnownInv`); unless the last call raised they are derived (`SettledInv`), and agree
with the reference within what `SameRecord` grants a fallback; if it raised, the memory of a
virtual machine it raised for is still there, so it raises again until a usable
reply comes (`RaisedInv`). Without `RaisedInv` a fallback after a raise would
seem to publish half-derived records. Of the endpoints that report staleness only the
virtual machines are in `Rederived`, which is `StaleShowsPrevious`.

### Only model-checked

- Liveness (`EveryCallEnds`, `LossIsNoticed`, `ReadEnds`, `RawReaderEnds`, `WaitEnds`):
  fairness and `ENABLED` are out of the prover's reach.

Every other property of a passing run is a theorem. Of the four properties the code violates
(section 6), three are theorems once the cause is excluded
(`ReaderAlwaysKeepsOpenSocket`, `UnsubscribeAlwaysEndsLocally`, `StaleShowsPrevious`), and the fourth is
within `SystemDetectionHonest`, which says the same while the appliance was not
upgraded: the findings have no other cause than the one given.

## 5. Hazards

`PROJECT.json` lists the places where a test would hardly reach what can go wrong,
with the properties that would catch it. Each has at least one.

## 6. Where code and documentation disagree

- **A cancelled `unsubscribe()`** (`client_unsubscribe_cancelled`). The docstring
  (`client.py:880-882`) says that on cancellation "the subscription ends locally".
  If the cancel comes while `_forget_subscription` waits for the lock, the
  subscription stays tracked and its queue gets no terminator.
- **A frame that is not JSON** (`client_bad_frame`). `_parse_message` (line 337)
  promises "a JSON dict, or None on failure" and catches `JSONDecodeError` only. A
  binary frame that is not UTF-8 raises `UnicodeDecodeError`, which ends the
  reader; the client gives up a connection whose socket is open, and does not
  close it.
- **A stale VM** (`query_vm_stale`). `stale_endpoints` (`state.py:809-812`) says that
  a malformed payload makes the method "return the previous snapshot". `get_vm()`
  divides the cached memory by 1024 again.

- **A container query for the wrong version** (`container_version`). `get_container`
  (`state.py:1733-1735`) dispatches "depending on the connected TrueNAS version".
  The version is cached in an object that outlives a connection: after an
  upgrade and a reconnect the legacy API is asked, until a `get_systeminfo` call.

Smaller observations, not counted as findings:

- A replication whose `state` and job state are both null shows `null` after its
  reply and `"unknown"` after the first unusable reply. `SameRecord` grants that change and no other.
- Re-derivation also hits containers: when no entry of a reply has an id, the records
  that are kept have their memory divided again and a dropped `cpuset` counts
  as no CPU. `SameRecord` bounds both: memory between 0 and the true figure, CPUs 0, and
  only until the next usable reply. A container reply that is no list at
  all empties the map instead of keeping it.
- A malformed `disk.query` keeps the disks and is not listed in `stale_endpoints`,
  which has no key for it.
- A throughput graph that covers one of several interfaces, or a load graph with one of
  its three series, counts as fresh.
- `get_directoryservices` cancelled between its two calls has cleared the key of the
  first although the map still shows the older configuration. `StaleIffKept` speaks
  of calls that returned.
- The `cputemp` reading of a system later found to be virtual stays as it was.
- What is left in a queue when its subscription ends cannot be read by id any
  more, as the id is no longer tracked; it can from the queue `subscribe()` returned.

## 7. Not modelled

- Contents of messages, logging, error texts, TLS and URL handling.
- The FIFO order of lock waiters: any waiter may be next, which includes it.
- `_apply_pool_errors` (a sum over a tree), the levels and counts of
  `_aggregate_alerts`, the fields of an update and of `system.info`, the damping of
  `uptimeEpoch`, throughput and dates: floats and text without control of their own.
- The netdata parsers of `domain/_helpers.py` and of `system.py`, and the key
  for unexpected errors of disk temperatures, which no path reaches.
- Features of `parse_api` that no method uses; an unhashable `service` value, which raises at
  `state.py:1555` (of the values that raise, `QueryState` has the memory of a virtual machine;
  its properties are about calls that return).
- A subscription id given to another request while `get_subscription_events` reads by the
  older one: in `SubscriptionReader` an id stands for one request. `Client` has the reuse.
- Retries inside the websockets library, and its keepalive: `Drop` is their effect.
- A write while the socket is closing, and partial frames: `SendError`.
- The methods of `TrueNASSystem` that make one call and build a record of its
  result; the classification of error codes (`_errors.py`), a table; the examples.

## 8. Plan

Every property of a passing run that the installed provers can state is proved.
What is left is out of their reach (section 4), or would be more of the system:

1. The netdata rows of `domain/_helpers.py`, as sequences checked against a reference and,
   by the induction of `QueryStateProofs`, proved.
2. The damping of `uptimeEpoch`, on whole seconds.
