# pyservicelib: a verification project

`pyservicelib_gorundebug` is the runtime of generated stream-processing
services. A service is a graph of typed streams: data sources (Kafka, HTTP,
gRPC, cron, Temporal, in-process producers) feed values into operators (map,
filter, join, delay, parallel, merge, cycle links, ...) and sinks carry the
results out. Everything runs on one asyncio event loop, with a few threads at
the edges. This directory holds TLA+ modules for that runtime, from its pools
and locks over its sources, operators and sinks to the start and stop of the
whole service, TLC configurations that check them on small instances, and TLAPS
proofs of what matters most for every instance.

Source paths are relative to `src/src/pyservicelib_gorundebug/`.

## How to run

    tlc -config Pools.cfg MCPools.tla      # a run of PROJECT.json
    tlapm PoolsProofs.tla                  # the proofs of a module

`PROJECT.json` lists the runs with their properties, the source lines each
definition models ("map"), the hazards, the theorems and, for every property of
a passing run, one planted fault that makes TLC find it violated. The planted
faults are operators marked `Fault:` that stand just before the definition they
replace. No specification uses them.

## The system: inventory

### Concurrency model

One event loop runs all coroutines. Code between two awaits is atomic, and an
await suspends only if it has to: taking a free `asyncio.Lock` or asking for a
predicate that holds is *not* a point of interleaving, while `event.wait()`,
`sleep()` and every user callback are. A model's action is therefore a piece of
code from one suspension to the next. Threads exist in `ThreadPoolImpl`, in the
callbacks of `Context` and in the clients of Kafka and Temporal.

Background callbacks that raise are fatal by design:
`terminate_background_failure` (`runtime/_background.py`) ends the process with
`os._exit(2)`. The models keep this as a state from which nothing happens.

### Components

| Component | State | Operations | What is hard | Correct when |
|---|---|---|---|---|
| **Task pools** `runtime/pool/_queuedpool.py` | queue, workers, running tasks, wait group, wake-up event, target size | `add_task`, `start`, `_manager` (resize), `_executor`, `_promote`, `stop` | lost wake-ups, resize against running callbacks, replaced workers, drain | each accepted task runs once, in turn; at most the configured number together; `stop` returns and nothing is left |
| **Indexed heap** `runtime/pool/_scheduling.py` | list and positions | push, pop, remove, promote | removal from the middle | list, positions and content agree, least first |
| **Context watches** same file | callbacks, groups with a shared waiter, deadline heap, one timer | `add`, `remove`, `_wait`, `_expire` | a timer that fires early or was re-armed, a group that empties | every end of a request is noticed, none is invented |
| **Delay pool** `runtime/pool/delaypool.py` | heap of due times, one timer, wait group | `add_task`, `_ready`, `_cancel`, `stop` | cancellation against timer | never early without cause, always run, drain |
| **Thread pool** `runtime/pool/threadpool.py` | shared queue, threads with events | `add_task`, close, the threads | a thread that goes to sleep while another puts a task | each accepted task runs, a closed pool ends |
| **Read/write lock** `runtime/utils/asyncrwlock.py` | three counters under a condition | both sides, cancellation of a waiter | held-back readers after a writer gave up | exclusion, writers first, no lost wake-up |
| **Contexts** `runtime/context/context.py` | parent, flag, table of callbacks | cancel, add and remove a callback | threads cancel while callbacks are registered | a callback runs once for any number of cancellations, or was removed |
| **Rotating map, pending results** `runtime/store/rotatingmap.py` | two buckets, high-water mark | get, set, pop, rotate | rotation while results arrive | the id of a live request finds that request |
| **Join storage** `runtime/store/hashmap.py` | two buckets of items, expiry task per item, rotation task, gauge | `join_value`, `_after_func`, `_rotate`, `start`, `stop` | join against expiry, late expiry against a new generation, renewal, rotation | callbacks take turns, no open group is lost, each group settles, the gauge is exact |
| **Service lifecycle** `runtime/serviceapp.py` | what is up, the phase of stop(), the registry of parallel children | start and stop in phases | order of phases, work that makes work while it is drained, the deadline | nothing is stopped that accepted work may still reach |
| **Configuration** `runtime/serviceapp.py`, `runtime/config` | the loaded values, a watching task, the links | load, watch, reload; `service_init` | a change during loading, symlinks | a written version is applied; accepted links can be built |
| **Streams, callers, operators** `runtime/common.py`, `operators/` | the graph; delayed values; items of joins; a sub-stream's call | `consume`, callers, `build` | fan-out that fails half-way, delay against the end of the request, results after a call has ended | each value has one fate, each call ends |
| **Serialisation** `runtime/serde` | none | serialize, deserialize | width, sign, sizes | what was written is read back |
| **HTTP, gRPC, custom, Kafka requests** `datasource/*` | pending map, request states, gauges | begin, consume, result, timeout, cancel, end | a result that races a timeout, a cancellation and the rotation | end_request once and last, the id kept meanwhile |
| **Custom source admission** `datasource/localsource/custom.py` | semaphore, running tasks | `consume`, change of the limit, stop | semaphore replaced while in use | the limit is respected and used |
| **Cron source** `datasource/cron` | queue of submissions, shared drain | submit, fire, overlap, misfire, stop | a run that takes another's occurrence; several callers of stop | each run gets its own occurrence; the drain completes |
| **Kafka consumption** `datasource/kafka/aiokafkads.py` | per partition a queue, a lane task, a pause, an epoch; marks, commit lock | process, mark, commit, revoke, assign, drain | revoked partitions with running handlers, kept messages, failed commits | nothing unhandled is committed; nothing of an earlier assignment is committed in a later one |
| **Kafka lifecycle** same file | start task, admin client, consumers, shared drains | start, stop of source and endpoints | a start that outlives its caller, several stops | a stop that returns has left nothing behind |
| **Sinks** `datasink/*` | requests; sessions that messages share; sends in flight | consume, result, fail, stop | a callback that fails at any point; messages that join a session as it closes | end_request once and last; each message reported |
| **Temporal integration** `datasource/temporal`, `datasink/temporal` | executions, attempts, pending slots; a graph inside a Workflow | submit, activate, retry, stop; spawn, fail, wind up | an attempt that is retried while the first is in the graph; a branch that fails behind a result | attempts share one execution; a failure is seen |
| **Telemetry, logging, status page, test doubles** | observation | | | |

### How the components interact

* `ServiceApp` starts resources in one order and stops them in phases; a message
  goes from a source through callers (function calls, task pools, the delay
  pool, parallel children) to the sinks. `ServiceApp.tla` has one resource of
  each kind and abstracts an item of graph code; what a pool promises it is
  `TaskPool`'s business, and `QueuedPool` and `DelayPool` are shown to implement
  `TaskPool`.
* A pool registers every queued task that belongs to a request with its
  `ContextWatches`; these call `_promote` (task pools) or `_cancel` (delay pool)
  when the request's event is set or its deadline has passed. In the pool
  models, `Promote(t)` and `Cancel(t)` are these callbacks; `ContextWatches.tla`
  shows that they come exactly when they should.
* The priority pool, the delay pool and the watches keep their entries in the
  indexed heap. Their models use its contract ("the least key first");
  `IndexedHeap.tla` shows that the heap keeps it.
* The join storage takes its rotation lock for reading around a join and for
  writing around the rotation and `stop()`. Its model uses the contract that
  `AsyncRWLock.tla` establishes: a waiting writer keeps new readers out.
* Sources with results keep their requests in the rotating map, which
  `RequestSource` EXTENDS; a result comes back from the graph by stream id. The
  gRPC sink's sessions use the same map through get, set and pop.
* A Kafka source hands records to the graph from its lanes (`KafkaSource`), each
  record becomes a request (`RequestSource` with `transport = "kafka"`), and the
  endpoints are brought up and taken down by the source (`KafkaLifecycle`).
* `OperatorGraph` has the pools as "tasks that run at some time", a delayed value
  as an entry that a timer, the end of the request or a refusal settles, and a
  join as a group; `HashMapJoinStorage` and the pools say what is behind these.
* A failing background callback ends the process.

## The models

Modules marked * have proofs; "The proofs" below says in which module.

| Module | Models | State and actions |
|---|---|---|
| `TaskPool` | what a pool promises (abstract) | Accept, Refuse, Run, Finish, Seal, Close |
| `QueuedPool`* | the task pool (`Heap = FALSE`) and the priority pool (`Heap = TRUE`) | Add, Refuse, EndRequest, Promote, Take, Wait, Return, DoneCallback, Finish, Fail, Start, Reconfigure, Poll, ManagerReturns, Stop, ShutdownBegin, ShutdownDrained, ShutdownJoined |
| `IndexedHeap`* | the heap's algorithms, operation by operation | Push, Pop, Discard, Promote |
| `ContextWatches`* | the watches on the end of requests | Add, Remove, Waiter, Expire, SetEvent, Tick |
| `DelayPool`* | the delay pool | Add, Refuse, CancelRequest, Cancel, Ready, Finish, Fail, Discard, Stop, Shutdown, Tick |
| `ThreadPool`* | threads with loops of their own over one queue | AddTask, Close, Wake, Join, Run |
| `AsyncRWLock`* | the lock | AskRead, RetryRead, CancelRead, LeaveRead and the same for writing |
| `CancelContext`* | callbacks on a chain of contexts, between threads | Add, Install, Check, CheckLate, Clean, Cleaned, Remove, Cancel, Snapshot, Notify, NotifyCleans, NotifyActs |
| `RotatingMap` | the two-bucket map: Get, Has, Set, Pop, Rotate | one operator per method; `RequestSource` is its state machine |
| `HashMapJoinStorage`* | the join storage | Enter, Admit, Look, Create, Acquire, Complete, Keep, Raise, Cancel, AfterWakes, AfterAcquires, AfterReturns, AfterRemoves, Start, RotationDue, Rotate, StopCalled, StopLocked, Tick |
| `ServiceApp`* | start, messages, the phases of stop() | resources come up (StartNext, StartFails); Stop, Expire, the steps of a phase; items are admitted, dispatched, spawn, return |
| `ConfigLoader` | load() and the watching task over a file or a symlink | Write, Replace (the world); Resolve, StartWatching, ReadValues, InitService, Fail; Report, Consider, Reload, Stop |
| `StreamGraph`* | from accepted links to a message at a split | ServiceInit, MakeCaller, Build, Serve, Returns, Raises, Served |
| `OperatorGraph`* | a message on its way through a graph of operators | Build, Consume, one action per operator, Return, Raise, Delay, Wake, Due, Late, Join, Joining, Expire, EndRequest, Seal |
| `SubStream`* | one call of a sub-stream | Call, BodyReturns, Abandon, WaitEnds, Close; Arrive, Deliver, CollectorReturns, CollectorRaises, CancelDelivery, Drained |
| `IntegerCodec`, `IntegerSerde`* | what bytes an integer becomes (operators only); one integer written and read | Encode, Decode (of all bytes or fewer) |
| `Serde` | the binary serdes of all types, over `IntegerCodec`, and which one a type gets | Encode, Decode (of all bytes or fewer) |
| `RequestSource`* | a request of the HTTP, gRPC, custom or Kafka source | per transport Start, and the steps of a request from begin_request to end_request; Register, SetDone; deliveries; RotationTick |
| `CustomSource`* | the concurrency limit of the custom source | ChangeLimit, Refuse, ConsumeUnlimited, Consume, Resume, RequestEnds, StopCalled, StopReturns |
| `CronSource`* | submissions, occurrences, the shared drain | Start, Tick, Submit, Overlap, Misfire, Fire, FireReturns, Stop, GiveUp, StopReturns, Drained |
| `KafkaSource`* | one endpoint consumer, once started | Deliver; LaneStart, LaneRetry, LaneFinish, LaneRaise, LaneCancelled; Mark, Commit, AutoFlush, CommitDone, CommitFails; Revoke, Revoked, Join, Restore, RestoreFails, Elsewhere; Stop, StopAgain, DrainLanes, DrainFlush, DrainClose |
| `KafkaLifecycle`* | start and stop of a Kafka source with its endpoints | the start task, the launches, the shared drain of the source and the winding up of each endpoint |
| `GrpcSink`* | client- and bidi-streaming sessions | Reserve, Find, Creating, Join, SignalDone, Consumed, ConsumeFails, Cancel, Cut, Completing, PeerSends, ResponseHandled, HandleFails, PeerEnds, CloseSend |
| `RequestSink`* | the sinks that make one request of each message, and Kafka's sends | Start, Stop, Stopped, Drop, Open, Begun, BeginFails, KafkaOpen, Returns, Fail, EndRaises, Send, Produce, Delivered, ReportRaises |
| `WorkflowGraph`* | one activation of a graph inside a Workflow | Spawn, Take, End, Complete, Produce, Activated, Winding |
| `TemporalEndpoint`* | an endpoint run as an Activity | Start, StartAdmission, StopAdmission, Stop; Submit, Validate, Answer; Schedule, TimeOut, ForeignEnds, Activate, Invoked, Return, Raise, ConsumeResult |
| `MC...` | instances for TLC | see below |

### Instances side by side

The MC modules of the passing runs put several models next to each other. Their
variable `subject`, chosen at the start, says which one moves; the others stay
in one fixed initial state. The models of such a run do not influence each other,
so that a property of one is checked on exactly its own behaviours. A property of a
model that has the same name in the MC module is that model's, and a few names
are conjunctions:

| Property of a run | Stands for |
|---|---|
| `PoolServes` | AcceptedRuns and StopCompletes of the FIFO and the priority pool |
| `DelayedRuns` | of the delay pool: ImplementsTaskPool, NotEarly, AcceptedRuns, StopCompletes |
| `HeapSound` | HeapOrdered, PositionsExact, ContentKept |
| `CancelNoticed` | CancelNoticed of the contexts and EndsWatched of the watches |
| `IntegersSound` | ReadsBack and SortsAsNumber of an integer |
| `Released` | Released of the Kafka lifecycle; ClosedRanAll and NoneSleeps of the thread pool |
| `LanesSound` | NoStaleHandler, SlotsUsed, PauseHasLane |
| `EndIsNoticed` | of the watches: NotifiedForCause and EndIsNoticed |
| `ClosedEnds` | AddedRuns of the thread pool and StopEnds of the Kafka lifecycle |
| `CommitsSound` | CommitCovers and ClosedIsCommitted |
| `WindsUp` | DrainCompletes and StoppedIsQuiet of the cron source; FailureWakes and WorkAccounted of a Workflow's graph |
| `RequestsEnd` | EndMatchesBegin, ReportMatchesSend and SendReported |
| `WriteReaches` | of the loader: WriteNoticed and WriteReaches |
| `StoreSound` | GaugeExact, OpenItemStored, CallbackExclusive, ExpiryToCome |
| `LinksServed` | ValidatedBuilds and AsyncBranchesServed |
| `OneFate` | OneFate and RightBranch of the operators |

### Notes on single models

**QueuedPool.** `_executor` has one suspension inside its inner loop
(`_changed.wait()`) and one around it (awaiting the runner). A worker is `ready`
(new or woken), `waiting`, `busy` or `done`. What it does when it runs again is
one action: `Take` a task, `Wait` again or `Return`; if it comes back from a
runner, the same action first removes the runner from `_running_tasks` and wakes
the others, since the code does so without an await (`Left`, `Become`).
`_changed` is cleared and waited on in one step, so the flag is never observed
and `set()` is "every waiting worker becomes ready" (`Wake`). A finished worker
that `_ensure_executors` has replaced still owes its done-callback (`stale`),
which runs before the new worker's first step because it was scheduled first.
The queue is a set with keys: for the heap (priority, counter), where promotion
lowers the priority to minus infinity; for the `OrderedDict` a position, where
`move_to_end(last=False)` gives one below all others.

**ContextWatches and DelayPool** keep one timer for many deadlines and skip
re-arming when `armed_at` is already right. In the models `timer` is what the
loop has scheduled and `armed` what the code believes. `loop.call_at` may fire up
to a clock resolution early, which is why `_expire` and `_ready` look at the
clock again; the actions may happen one unit early for the same reason.
`close()` of the watches runs when the pool has drained and nothing is
registered; it is left out, as is the flag of `DelayPoolImpl.start` that
nothing reads.

**AsyncRWLock.** The condition's own lock is never held across an await, so each
section under it is one step. A task in `wait_for` sleeps until it is notified
and then evaluates its predicate again; it may be cancelled at any time in
between, notified or not.

**HashMapJoinStorage.** A call is `looking` while it is in the loop of
`_join_value`, which contains no await unless the item's lock is taken: no other
task runs meanwhile (`Yielded`) and only the clock moves. An item is named after
the call that created it. Values are the callback's affair: it completes the
group, waits for more, or raises. Cancellation of a caller while it waits for a
lock is not modelled.

**RequestSource.** The four sources share the pending map, the registration of
result callbacks and the gauges, and differ in what they reserve, whom they
cancel and how callbacks are fenced; `transport` says which one a behaviour is
about. A request that shutdown (or, for Kafka, the revocation of its partition)
cancels inside `consume_message` gets no end_request and leaves its reservation
in an HTTP, custom or Kafka source; `ReservationKept` states this exception,
because the code has it. The id of a request is the user's, except for Kafka
(made anew for each record).

**CustomSource.** `consume()` waits on the semaphore it found and releases the
one that is there when it ends. `LimitHeld` therefore speaks of a limit that
stays what it is. Even then a call may wait beside a free slot for a moment: the
semaphore lets nobody overtake a call that was handed a slot, and it is that call
which hands on what is free, when it returns from `acquire()`. `waiters` is the
semaphore's queue of futures that are not done, and `granted` those that are
while their calls have not run.

**KafkaSource.** `restoring` is chosen once: with broker positions there is no
listener and a rebalance is one step of `Join`; in checkpoint mode it is
`Revoke`, `Revoked`, `Join`, then `Restore` or `RestoreFails`. A lane is `created`
until its task first runs, then `handling`, or `waiting` for a slot and `woken`
by `notify_all()`. A cancelled lane that has begun runs its `finally`; one that
is still `created` does not (`LaneCancelled`). `given` holds the messages that
handlers have had, each with the epoch its closure captured: a handler may mark
or commit one at any later time. When the drain cancels the periodic flush, the
commit may have reached the broker or not. A drain that meets a handler's error
or a failed commit ends in `failed` and the next `stop()` begins another.
External, and modelled from how the code uses it: `aiokafka` gives a new
assignment the committed positions and no pauses, sends only offsets of
partitions it has, and revokes all it has before it joins again; other members
read what this one does not have; a restored checkpoint covers only records that
some member has handled. The code always passes a prefetch of 1; with a larger one
a lane that raises would drop the records queued behind it.

**TemporalEndpoint.** Only an endpoint with a result stream (`hasResult`) enters
`_pending` and waits for a result, and only a sink with a result serde (`waits`)
waits for the Workflow; the two are configured apart. `pending` is that dict as the
set of attempts whose futures are in it, by the stream id of their envelopes
(`Entry`). The stream id is the context's, and the message's id only where the
context has none, so that two messages, and so two Workflows, may share one: the second
activation raises while the first is there. Without a result stream nothing keeps
two attempts of a message from being in the graph together, and `OneExecution` does
not say so. A Workflow keeps the envelope of the submission that started it, which
is why the stream id belongs to the message here.

**RequestSink.** A `CancelledError` passes every `except Exception` of the sinks, so a
request whose task is cancelled leaves through the `finally` at once (`Cancel`):
on_request_end counts it out, with the error recorded before, if any, and
end_request does not follow. `EndMatchesBegin` states this exception, because
the code has it. A Kafka message goes out in a task of `create_task`: if a report of a
failure raises there the process exits (`Exit`), if stop() cancels the task at its
deadline the message is `lost`, without a report (`CancelSend`); the report of a
success is inside the `try` of send_message and is followed by a second one.

**SubStream.** What a delivery raises goes up to the task that delivers (`RaisedIn`):
the caller's own task leaves the body; a task of a pool or of `create_task` ends
and with it the process, unless something on the way catches it or it was
cancelled. `CallEnds` ends there too.

**GrpcSink.** A session is named by the message that created its cell. In bidi
mode, `Creating` stands for the same sequence of the bidi consumer.

**ServiceApp.** Graph code itself does not fail here, so that an exit is the
shutdown's doing. `Order` and `Phases` are the sequences of start() and stop();
the phases share one deadline (`expired`). Messages come in at four kinds of
`Roots`: HTTP, the sources, the admission of managed connectors, and components with
inbound admission (`AdmissionLifecycle`), which start() brings up before the sinks and
stop() closes and drains first. `early` has the items such a component let in
and what these handed on; for them, and only for them, `DownstreamOpen` does not ask
the sinks to be up.

**OperatorGraph.** A task is a stack of frames, one per operator whose `consume`
is under way. A failure unwinds it as the code's `except` clauses do: to the error
stream of a process, to the error callback of a delay, to the caller. A delayed
value that raises when it is delivered is delivered *and* reported in a Workflow,
while a service's process exits; `OneFate` states both.

**IntegerCodec, IntegerSerde and Serde.** `int8` and `uint8` are themselves and
`int16`/`uint16` stand for all wider integers, since only one byte and several
bytes differ in the code; `Byte` is the number of values of a byte (256) and `Wide`
the bytes of the wider integers, so that the theorem about them is about
every width. Overflow wraps or raises as the code does. In TLC's instances
`Byte = 4` and `SizeBytes = 3` stand for 256 and 8. `IntegerSerde` writes and reads one
integer; `Serde` does so with values of every type, through recursive operators, and is
therefore a module of its own. A list of a service has a serde of its own for every
element type `_get_serde_type` knows, `[]uint8` among them, and a stub for runes and
bytes. Floats are `struct`'s conversion.

**ThreadPool.** A thread clears its event, looks at the shared queue, and waits for
the event only if it found nothing; `add_task` puts the task first and then has
each thread's own loop set that thread's event (`wakes`). Each access of the queue
or of an event is a step of its own.

## The runs

| Run | Models | Distinct states | Shows |
|---|---|---|---|
| `pools` | QueuedPool twice, DelayPool | 323 560 | `NoLostWakeup`, `StartsInTurn`, `ImplementsTaskPool`; under fairness `PoolServes`, `DelayedRuns` |
| `primitives` | AsyncRWLock, IndexedHeap, ContextWatches, CancelContext, ThreadPool, IntegerSerde, KafkaLifecycle | 413 984 | `Exclusion`, `HeapSound`, `CancelNoticed`, `IntegersSound`, `Released`; under fairness `WritersServed`, `EndIsNoticed`, `ClosedEnds` |
| `sources` | RequestSource with RotatingMap, CustomSource, CronSource, WorkflowGraph, TemporalEndpoint | 717 090 | `ReservationKept`, `EndedOnce`, `LimitHeld`, `OneExecution`, `FiresOwnOccurrence`, `FailureNotHidden`; under fairness `AnsweredEnds`, `WindsUp` |
| `kafka_source` | KafkaSource | 1 450 970 | `LanesSound`, `CommitsSound`, `FencedCommits`; under fairness `PausedResumes` |
| `sinks` | GrpcSink, RequestSink, Serde | 180 054 | `EndIsLast`, `OneSession`, `ReadsBack`; under fairness `SessionEnds`, `RequestsEnd` |
| `operators` | HashMapJoinStorage, SubStream | 236 321 | `StoreSound`, `CollectorInCall`; under fairness `GroupsSettle`, `CallEnds` |
| `service` | ServiceApp, ConfigLoader, StreamGraph, OperatorGraph | 410 660 | `DownstreamOpen`, `LinksServed`, `OneFate`; under fairness `StopReturns`, `WriteReaches`, `MessageSettles` |
| `service_exit` | ServiceApp | | **violation** of `DrainSurvives` |
| `configmap_update` | ConfigLoader | | **violation** of `ReplacementReaches` |
| `hashmap_retry` | HashMapJoinStorage | | **violation** of `RetryAdmitsAnew` |
| `hashmap_linger` | HashMapJoinStorage | | **violation** of `NothingLingers` |
| `kafka_stall` | KafkaSource | | **violation** of `QueueHasLane` |

### Bounds, and why they are enough

* *Pools.* Two tasks, two slots, two priorities, one request, one
  reconfiguration: a slot is given up while its callback runs, a finished worker
  is replaced, and a task that waits is expedited past another. The proofs cover
  every number. Two delayed callbacks and time up to 3 give "past", "due",
  "future" and a timer that fires early.
* *Lock.* Two readers and two writers may be any of four tasks; proofs cover the
  rest.
* *Heap.* With six tasks it has three levels, the least depth in which the last
  element, put in place of a removed one, has to rise.
* *Watches.* Three registrations, so that a group keeps one and loses two; one
  event; time 0..2.
* *Contexts.* A chain of two with two subscribers: the subscription is carried to
  a parent, and two threads act on one table.
* *Integers.* Every number of each type and one beyond either end, in a buffer that
  is empty or not, cut at every length.
* *Thread pool.* Two threads, three tasks: a thread sleeps while one task is taken
  and another put.
* *Kafka lifecycle.* Two endpoints, one of which may fail while the other starts.
  One explicit `stop()` besides a `start()` that may be abandoned.
* *Requests.* Two requests over two ids, so that they share an id or not, one
  callback and one delivery in flight; a map that rotates with one entry.
* *Custom source.* Four calls, limits 1 and 2 or none, and one change: with four a
  call can arrive while another has been handed a slot and one more is free.
* *Cron.* Two submissions, two callers, three slots of the schedule: a backlog,
  an overlap and a misfire all occur.
* *Temporal.* Two submissions with two attempts: of one message, whose Workflow is
  ours or not, with and without results on either side; or of two messages of an
  endpoint with a result stream, whose stream ids are the same or not
  (`TemporalCases`; messages of an endpoint without one share nothing). Three pieces of
  work in a Workflow, two of them in a pool with one executor.
* *Kafka source.* Two partitions compete for one slot, so that a lane waits and
  has to be told. Two records of one partition let a kept message of the first
  lie behind the offset at which a second assignment starts; one rebalance after
  the first join makes that second assignment. What these bounds do not reach is
  a partition that leaves, is read elsewhere and returns.
* *Sinks.* Three messages, two of which share a stream id, so that one may join, miss or
  reopen a session; two requests of the others.
* *Join storage.* Two calls of one key give the group and the generation that
  replaces it. `Horizon` ends arrivals; afterwards time goes on until every item
  has expired. `ShrinkFactor = 1` lets rotation happen with one entry.
* *Sub-stream.* Three results, one of them in the caller's own task.
* *Service.* Three items, so that a parallel child creates another while a third
  is in a pool; they are interchangeable and come in the order of their names.
  Three versions of the values file over two targets; two branches of a split; graphs of up
  to seven nodes with at most four tasks and two delayed values at a time: delays
  whose consumer is called or started, a process with its error stream, a switch
  that joins, and one whose branches share a type, so that binding fails.

`CHECK_DEADLOCK FALSE` stands in every run because each has a model that may come
to rest: a pool that has stopped, a heap after its last push, a store whose
calls have all left.

### Fairness, and why the code justifies it

The event loop runs ready tasks in order, so a ready worker, waiter, timer,
shutdown or drain task is eventually run: weak fairness of each. User callbacks
are assumed to return (weak fairness of `Finish`, `Complete`, `Consumed`, ...):
no pool and no request can end otherwise. Nothing is assumed about callers,
producers, cancellations, resizes or failures, nor that a result ever arrives.

* In the join storage the rotation asks for its lock again and again, so
  `WriterWaits` may come and go; a reader that waits is served in between
  (`asyncio.Condition` notifies all, and the rotation sleeps for a whole TTL
  between two attempts): strong fairness of `Admit` and `AfterRemoves`, in
  `hashmap_linger`, which has to refute under all of it. `GroupsSettle` needs neither:
  in `operators` it holds with weak fairness of ready steps, callbacks and time.
* The lanes of the Kafka source get weak fairness of each lane's next step, which
  includes that a handler returns. Offsets are finite, so that a lane is not
  passed over for ever by lanes that take the slot before it wakes; whether
  that could happen with an endless stream is not examined.
* A half-closed gRPC peer ends its side (strong fairness of `PeerEnds`, since a
  response in hand may disable it for a while).
* The watching task of the configuration gets the events of its directory;
  nothing is assumed about writers except the bound on versions.
* The operating system schedules every thread of the thread pool.

### The five violations

* `service_exit` (`runtime/serviceapp.py:625`). stop() seals the delay pool and
  every task pool in one `gather`. What one of them accepted before may hand its
  message to a link that another pool serves; `add_task` raises
  `PoolStoppedError` and the failure of a background callback ends the process.
  The comment above that code expects accepted tasks to go on while they drain,
  and the project's README promises "graceful shutdown".
* `configmap_update` (`runtime/serviceapp.py:834`, used at 786). `_get_path`
  resolves symlinks, so the watch is on the directory which the symlink named at
  start. A ConfigMap update makes a new directory and swaps the symlink; the
  watched one only sees its file go. The README promises reloading "including
  Kubernetes ConfigMap-style atomic symlink replacement".
* `kafka_stall` (`datasource/kafka/aiokafkads.py:472`). A revocation that runs
  after `_process_record` has created a lane and before the lane's first step
  cancels a coroutine that never enters its `try`. Its queue stays registered;
  after the next assignment no lane is made and the partition is paused for good,
  and the first drain fails with the kept `CancelledError`. The comment at line
  762 and `tests/test_kafka_checkpoint.py:85` say otherwise; the test revokes
  only after the lane has begun. For this reason `PausedResumes` speaks of broker
  positions only.
* `hashmap_retry` (`runtime/store/hashmap.py:250`). An expiry marks its group
  processed and awaits its callback. If the group's own deadline still lies
  ahead, because the request was cancelled or the deadline renewed, a join of
  the same key finds that group again on every turn of its loop. No turn awaits,
  so the event loop is held until the deadline passes. The comment at line 153
  expects that "a new generation was admitted".
* `hashmap_linger` (`runtime/store/hashmap.py:218`). A first value whose
  request's deadline has passed gets a TTL of zero, which means *no* expiry. The
  docstring at line 115 says that expiry "ensures items don't linger after
  context expiry". The repository disagrees with itself here: the comment at line 217
  says that zero "mirrors Go's zero time.Time (no individual expiry)", and
  `tests/test_store.py:496` and `:569` assert the infinite deadline.

### Differences seen while reading, without a run

* `datasource/temporal/workflow_environment.py:462` says "Keep Workflow execution
  aligned with ServiceApp.get_type_serde()", but arrays of some types get a stub
  or another list serde than in the service. Each side reads what it wrote
  (`ReadsBack` covers both); data does not cross between the two at these types.
* `api/models/join_type.py:23` names join types that a multi-join ignores
  (`operators/multijoin.py:92`), and the callback of a left or outer join reads
  `values[1]` of a group that may have left values only (`operators/join.py:106`).
* `api/models/call_semantics.py:23` has `Inherited`, which `service_init`
  (`runtime/serviceapp.py:278`) answers with a `ValueError`.
* A local sink calls a failing end_request a second time
  (`datasink/localsink/custom.py:153`); `EndMatchesBegin` allows for it.
* The Kafka sink describes a handler's life as "get_stream_id → begin_request →
  consume_message → end_request" (`datasink/kafka/aiokafkads.py:118`). A request
  whose task is cancelled gets no end_request in any of the sinks, and unless it had
  failed before it is counted as processed; `EndMatchesBegin` excepts it.
* `runtime/serviceapp.py:499` says "Open admission only after every downstream graph
  resource and sink is ready", of managed connectors, and line 504 calls the sources "the
  final graph admission boundary". A component with inbound admission is started at
  line 489, before the sinks; `DownstreamOpen` excepts the sinks for what it lets in.

## The proofs

tlapm checks every step. What the proofs assume is named:

* on the constants: finite sets, natural bounds, and markers such as `NoRequest`,
  `NoCell`, `NoHolder` or `Never` outside the sets they mark; `PoolsAssumption`
  (no pool has the name that stands for "none"); `ContextAssumption` (a chain has
  at least one context); `GraphsAssumption` (`IsGraph`: a branch of a case has
  the case before it, as `WhenStream.__init__` requires, and inputs go to nodes
  there are); `PrioritiesAssumption` (priorities are numbers from 0 on: `Lowest` is
  the minus infinity below them); `ThreadAssumption` (a thread pool has at least
  one thread, whose state is no task); `ByteAssumption` (a byte has an even
  number of values, one half for each sign, and the wider integers at least one byte);
* in the theorems: `EveryBeginHasItsEnd` speaks of finitely many requests, and
  the part `CommitsSound` of `NoCommitLosesAMessage` has `Prefetch = 1` for its
  hypothesis, which is what the code passes
  (`datasource/kafka/aiokafkads.py:396`). Its part `ClosedIsCommitted` has none.

No theorem bounds the number of tasks, requests, executors, partitions, runs,
branches or calls, and the bounds that only keep TLC's instances finite (`MaxTime`,
`Horizon`, `MaxRebalances`, `MaxChanges`, ...) are any numbers.

| Proofs | About | Theorems |
|---|---|---|
| `PoolsProofs` | QueuedPool | `TypeCorrect`, `InductiveInvariant`; `WakeupsNotLost`: `[]NoLostWakeup`; `WaitGroupCounts`: `[]WaitGroupExact`; `DrainedWhenStopped`: `[]StoppedIsDrained`; `TasksStartInTurn`: `StartsInTurn`; `Refinement`: `ImplementsTaskPool` |
| | DelayPool | `TimerIsSet`: the timer is that of the first callback; `NothingEarly`: `NotEarly`; `DelayRefinement`: `ImplementsTaskPool` |
| `PrimitivesProofs` | AsyncRWLock | `LockInvariant`; `WritersExclude`: `[]Exclusion`; `LockWakeups`: `[]NoLostWakeup`; `WritersFirst`: `WriterFirst` |
| | IndexedHeap | `HeapStaysSound`: `[]HeapSound` |
| | CancelContext | `CallbackRunsOnce`: `[]Context!CancelNoticed` |
| | ContextWatches | `ToldForCause`: `NotifiedForCause`; with CancelContext, `EndsAreNoticed`: `[]CancelNoticed` |
| | ThreadPool | `ThreadsAwake`: `[]NoneSleeps` |
| | KafkaLifecycle | `StopLeavesNothing`: `[]Kafka!Released`; with ThreadPool, `NothingLeft`: `[]Released` |
| | IntegerSerde | `IntegersKept`: `[]IntegersSound` |
| `RequestSourceProofs` | RequestSource | `EndFollowsBegin`: `[]EndedOnce`; `IdFindsRequest`: `[]ReservationKept` |
| `KafkaSourceProofs` | KafkaSource | `HandlersOfAssignment`: `[]NoStaleHandler`; `LanesServe`: `[]LanesSound`; `CommitsOfAssignment`: `FencedCommits`; `NoCommitLosesAMessage`: `[](ClosedIsCommitted /\ (Prefetch = 1 => CommitsSound))` |
| `SourcesProofs` | CustomSource | `CustomLimitHeld`: `[]LimitHeld` |
| | TemporalEndpoint | `SharedExecution`: `[]OneExecution` |
| | WorkflowGraph | `NoFailureHidden`: `[]FailureNotHidden`; `WorkIsAccounted`: `[]WorkAccounted` |
| | CronSource | `CronOccurrences`: `[]FiresOwnOccurrence`; `CronStopsQuietly`: `StoppedIsQuiet` |
| `SinksProofs` | GrpcSink | `RequestEndsLast`: `[]EndIsLast`; `SessionsApart`: `[]OneSession` |
| | RequestSink | `EveryBeginHasItsEnd`: `[]EndMatchesBegin`; `ReportsMatchSends`: `[]ReportMatchesSend` |
| `OperatorsProofs` | SubStream | `CollectorStaysInCall`: `[]CollectorInCall` |
| | HashMapJoinStorage | `JoinStoreSound`: `[]StoreSound` |
| `ServiceProofs` | ServiceApp | `OpenWhileAlive`: `[]DownstreamOpen` |
| | ConfigLoader | `WritesAreNoticed`: `[]WriteNoticed` |
| | StreamGraph | `ValidLinksServed`: `[]LinksServed` |
| | OperatorGraph | `DelayedValuesSettle`: `[]OneFate` |

Each follows the same plan: an inductive invariant made of named parts; a lemma
that the initial states have it; one lemma per group of actions that a step keeps
it; and the property from the invariant. What is not obvious is how each property has
to be strengthened.

**QueuedPool.** `NoLostWakeup` is not inductive. That a worker may sleep depends
on how many runners count against the limit, and a runner frees its place only
if some worker awaits it. So `IInv` adds `RunnersOwned`: every runner is held by
exactly one busy worker. `WaitGroupExact` and `QueueIsDelayed` tie the counter
and the queue to the tasks' states; `SealedByStop` ties the steps of `_shutdown`
to the wait group, so that nothing can be accepted once it has reached zero; and
`JoinTerminates` says that `gather` cannot wait for a sleeping worker. The
refinement maps each action to one of `TaskPool` or a stutter; the bound on
concurrency comes from `RoomToRun`: a worker takes a task only if fewer than
`target` runners are left, and every running callback has a runner among them.
`TasksStartInTurn` adds `Turns`: no two queued tasks share a place, all places
lie between the front and the counter, and what was expedited is before what was
not. A promotion has to keep the last of these in both disciplines: the heap
lowers a priority, the dictionary moves a task to the front unless it is there.

**DelayPool.** `DelayInv`: a callback is in the queue exactly as long as it is
delayed and among the runners as long as it runs, the wait group counts both,
no callback is queued later than its delay (a deadline only brings it forward), and
timer, `armed_at` and the least time of the queue are one. `DispatchStep` serves
both `_ready` and `_cancel`, the two ways out of the queue, and also in the
refinement, where each is a run of `TaskPool`.

**AsyncRWLock.** Exclusion rests on `CountsExact`, since the code decides by
counters alone: they equal the number of tasks that read and that wait to write.
`Move` says how one task's change of place changes the size of two groups.

**IndexedHeap.** `HeapInv` is `HeapSound` with types and exact positions
(`Located`). The work is in what a loop of unknown length does. `UpPasses` and
`DownPasses` read `_up` and `_down` as a function applied again and again;
`UpFit` and `DownFit` are their loop invariants: only the moving entry may be out
of order, with those above it or with those below. `RaiseStep` and `LowerStep`
take one pass, `UpResult` and `DownResult` all of them, by induction on the pass:
the place of the entry bounds how many are left. A removal needs both loops, since
the replacement comes from another branch (`RemovedResult`). Operators cannot be
passed to the library's induction theorems here, so `Counting` and `Iterated` take
induction from `WFMin`, the least number that is not in a set.

**CancelContext.** `ContextInv` has a claim for every notification nobody has
made: `ClaimTells` says where such a one may be, `Told` that every cancellation
will come to it (it is in the table of a canceller that has not looked yet, or on
the list of one that has), and `Swept` that each entry of an unclaimed one has
somebody who will take it out.

**ContextWatches.** What is watched has not been told, and is in the group of its
own event (`Registered`); `ForgetStep` is shared by all ways off the watch. For the
other direction `EndsInv` says that what is registered is in the group of its
event and in the heap of deadlines, that `armed_at` tells the truth about the timer,
and that the timer is no later than any deadline of the heap: `add` keeps it
because it takes the least of the two, a removal because it arms for what is
left (`EarliestFacts`).

**ThreadPool.** `SentinelsLast` is about aclose(): behind all tasks the queue has a
sentinel for each thread that is left, so that a thread that took one leaves no
task behind, and the last thread leaves an empty queue. `TasksKept` follows each
task from the queue through a thread to its end. `NoneSleeps` is inductive with
these: a thread that is about to wait has cleared its event *before* it found the
queue empty, so that whoever put a task since then has still to set it.

**IntegerSerde.** The bytes of a number are its quotients by the powers of `Byte`,
each modulo `Byte`. `Powers` reads the recursive `Power` as iterated multiplication
(`Iterated`, as for the heap), `Upper` says that a quotient is `Byte` times the next
and the byte between them, from `DivisionTwice`; by induction on the position
`BytesRead` has `Number` invert `BigEndian`. `BytesSort` takes the first place
where the quotients of two numbers differ (`FirstOf`): above it they agree, at it
the smaller number has the smaller byte. `RawFacts` says that the exclusive or is
an addition of half the range modulo the range, which is its own inverse
and takes the numbers of a signed type in order to those from 0 on. The provers know
nothing of division by a variable; `Division` and `DivisionFacts` derive what is
needed from the uniqueness of quotient and remainder.

**KafkaLifecycle.** `Begun`: nothing of an endpoint exists until the start task
has come to it. `Wound` and `DrainedSoFar` say for each step of the two kinds of
drain what can no longer be there. The start task of a source survives the
caller that gave up on it, so both have to wait for that task and not for the
caller.

**RequestSource.** `EndedOnce` is a matter of where a coroutine is: `EndsByStage`
says for each stage how often end_request was called, and each transport has a
lemma. `ReservationKept` is about the map. `Lookup` reads the two buckets as one
function from ids to requests, and three lemmas say what Set, Pop and Rotate do to
it: set one id, clear one id, nothing. On `Lookup`, `Found` (what an id finds has
that id) and `Kept` (the two directions of the property) are inductive; `Apart`
(Kafka's ids differ), `Unstarted` and `AdmitsStarted` say who can be there.

**KafkaSource.** A commit in the assignment in force is about marks that were made
in it, from messages given in it, from records that were queued in it. `Bounds`
says that each of these lies at or behind `restored`: positions, queues, current records,
messages of the current epoch, marks and what is in flight. `Fence` says that in
checkpoint mode lanes exist only for assigned partitions, except while they are
cancelled. The lemma `AdmitIInv` has the rule by which a lane gets a slot and
`LaneGoneIInv` the rule by which it ends, each of which several actions share.
`SlotInv` is `SlotsUsed` with types. A lane waits only while all slots are taken;
a slot is given back only together with a notification of all who wait
(`SlotGivenBack`), and nothing else lowers the count. `PauseInv` adds to
`PauseHasLane` that with broker positions nobody cancels a lane, so that a queue
always has one; the pause goes when that lane ends, and what is paused is in
`held`, which is how the lane knows. In checkpoint mode this fails (`kafka_stall`).
For `CommitsSound`, `Payment` says that what a handler has marked and nobody has
committed is never more than what is marked, that the last commit of a drain
carries all of it, and that no lane is left to mark more; `Coverage` says that
whatever may be committed has been handled with all before it. The latter is
inductive because a lane holds one record: `InOrder` gives for each place of the
lane which record that is. With two, a handler that raises would drop the second,
and the commit of a third would cover it.

**CustomSource.** The slots of a semaphore are free, held by a request, or handed
to a call that has not run yet (`granted`); their sum is the limit
(`SlotsCounted`). `QueueExact` says that who waits is in the queue once or was
handed a slot, and `NoneIdle` that a free slot beside a queue belongs with a call
that was handed one. The step that needed both is a call that returns from
`acquire()` and hands on the next free slot.

**TemporalEndpoint.** `EntriesTell`: with a result stream the entries are those of
the attempts in the graph, one of a stream id. Since an attempt takes out the entry
of its stream id and not its own, both halves are needed together. The rest is a chain
from an answered request over the completed execution to the attempt that returned.

**WorkflowGraph.** `NoneForgotten`: work that is queued, running, or has failed
without the failure being recorded is known to the pool or the environment.
`Concluded`: an execution that is over and succeeded knows of none. `Accounted` is
the other direction, and what keeps the endpoint from waiting for nothing: what
the pool and the environment know of is under way or has just ended, and a pool that
is awaited has work, because the last piece to end clears the wait.

**CronSource.** A coalescing task takes the *first* of the queued occurrences, so
the property is about two orders that must agree: `Awaiting` gives the tasks that
have not begun an order of creation along which the queue has the occurrence of
each. It holds while the source accepts; when it does not, no task that could take
one is left (`Quiet`). The same part says what `stop()` leaves, whether its
callers stay or not: no submission, no task that fires anew, and after the drain
no task.

**GrpcSink.** `OneSession` rests on `Reserved`: a session that is not over has its
stream id in the map. `EndIsLast` rests on `Ending`: how far completion has come
tells who has left, because a closing session admits nobody.

**RequestSink.** `EndsSoFar` says for each place of the coroutine whether the
request was begun and how often it was ended, with the exception of a callback that
raises in a local sink and of a cancelled task; `GaugeMoves` has the gauge follow the
set of unfinished requests. Kafka's messages outlive their request; `ReportInv` adds to
`ReportMatchesSend` that a report raises only once the message is over.

**SubStream.** `LockTells` (the lock names the result whose collector runs),
`CompleteCloses` and `OverClosed`. The first two are also the reason that nobody
waits in vain: `done` is set exactly when the collector is done or has failed, and
the lock is never held by a delivery that is over.

**HashMapJoinStorage.** `Placed`: a key is in one bucket at most, with an item of
its own, which was created. `Counted`: the gauge is the number of keys. `Created`:
an expiry that has fired has marked its item, which is what keeps a late one from
the next generation, and an item that is not marked has its expiry to come.

**ServiceApp.** Graph code comes in kinds (components' admission, http, source,
admission, delay or pool, parallel). `Drains` says until which phase each may be alive, and the step
is that a kind can be fed only by kinds that are drained later or together with it, which
is why the order of the phases is right: delay and pool feed each other and are
drained in one phase, parallel children feed each other and are drained by
snapshots until the registry is empty. `Ups` and `Seals` tie the resources to the
start and to the phases; `Ups` has two bounds, one for what a component let in
and one for everything else. `Registered` is what the snapshots rely on: the
registry has the parallel tasks that run, no more and no less.

**ConfigLoader.** load() starts the watch before it reads the file, and the watching
task considers nothing before the service is ready. `InPlace`: a plain file
stays where load() found it, so that whoever reads it reads the newest version.
`ReadOrReported`: a version that load() has not read is among the changes to report.
With `Reporting` (a batch exists only while it is considered) these carry
`WriteNoticed` over the moment the service becomes ready. Through a symlink nothing
like it holds (`configmap_update`).

**StreamGraph.** `Validated` (what service_init let pass has its pools),
`CallersMatch` and `Sorted`: after build() no branch that runs inside consume() is
before an asynchronous one. The split's list is modelled as the relation
"before" over its links, so that sorting it is one step whatever their number.

**OperatorGraph.** The state is any number of stacks of any depth. `OperatorInv`
says of every frame what its operator may be doing (`Suited`), and of every delayed
value that exactly one place has it: an entry of the pool (`Pooled`) or the one
frame that sleeps on it or delivers it (`Holders`). A step replaces the
top of one stack, or drops frames down to the one that catches; the relation
`Reshaped` describes both, and one lemma says that a step of that shape keeps each
part. `Routed` is what makes a case hand on values of the branch's type: the
selector of a switch that was bound leads there or nowhere.

### What stays with TLC

* Liveness (`PoolServes`, `WritersServed`, `AnsweredEnds`, `GroupsSettle`,
  `StopReturns`, ...): tlapm handles neither fairness nor ENABLED.
* `ReadsBack` of strings, lists, dicts, key-values and structures: the codecs of
  `Serde` are recursive operators over types and values; what such a definition
  computes for every input needs an induction over the structure of both. Of
  integers it is proved (`IntegersKept`).

## Plan

What is left, by how much of the service rests on it:

1. Compose `ServiceApp` with two instances of `TaskPool` in place of its items'
   own states, so that the phase of the producers is shown against the contract.
2. An abstract specification of a committed offset for `KafkaSource` to refine,
   and instances in which a partition leaves, is read elsewhere and returns.
3. Direct and child Workflows of the Temporal integration.

## Not modelled, and why

* Telemetry, logging, status page, transport metrics: they observe and do not
  act. Gauges whose updates are spread over code that races are modelled (the
  join storage's count, active and pending requests).
* Test doubles and the generated API and configuration models: data only.
* Direct and child Workflows (`datasource/temporal/workflow.py`), durable calls,
  schedules and the propagation of contexts: what they do is decided by the
  Temporal server and its replay, which the repository does not contain.
* Topic creation beyond its place in the start of a Kafka source, client options,
  HTTP routing, gRPC channels and metadata: configuration handed to libraries.
* Floats and JSON: conversions of the standard library.
* With broker positions `CommitCovers` does not hold: a lane whose request raises
  clears the records behind it, which a partition that left and returned may
  have put there. It is listed among the hazards; the repository promises
  nothing about it.
