# HL-cli: a TLA+ verification of the execution engine and the data service

HL-cli is a trading system: market data services write candles, books and quotes
to PostgreSQL and Redis, Python code computes features and signals, and a C++
engine (`cpp_exec`) turns quotes and signals into orders at the exchange over
signed REST requests and follows them over the exchange's order WebSocket. This
directory holds TLA+ modules that model the engine, its predictor, the C++ market
data service and the reader of its tables, TLC configurations that check them on
small instances, and TLAPS proofs.

Paths below are relative to `src/`; EB is `cpp_exec/exec_bridge.cpp`, DS is
`data_ingestion/backpack_data_service.cpp`.

## 1. Inventory

| component | state it keeps | operations | talks to | what is hard | what makes it correct |
|---|---|---|---|---|---|
| Request pacing (EB 1033–1132) | one atomic word per `RestClass` | `rate_limit`, `precise_sleep_us` | every REST call | lock-free slot claims, relative sleep, EINTR | slots an interval apart, nobody early, no slot wasted, calls return |
| Signed requests (EB 1143–1420) | none between calls | `execute_signed_request`, `cancel_order`, ... | pacing, server time, exchange | timeout against a late answer, 429 retries, lost answers | nothing carried out twice, callers told the truth, calls end |
| Server time (EB 931–988) | two function statics | `get_server_time` | exchange, every signed request | unsynchronised statics, a cached time aged in whole seconds | stamps inside the exchange's window |
| Order WebSocket (EB 1847–1979, 2138–2231) | five atomic flags, `order_cache_` | handlers, `bootstrapOrderCache`, `stop` | SDK callbacks, REST, detached threads | a bootstrap outliving its connection | flags agree with the connection and the cache |
| Life cycle (`main.cpp`, EB 218–361, 612–617) | `running_`, `g_signal_status`, threads | constructor, `stop`, destructor, signal handlers | all threads | signals in any thread at any moment, a second engine, joins and detached threads | the process ends, threads do not outlive what they use |
| Order placement and tracking (EB 428–914, 2053–2554, helpers) | quote cache, `openOrders_`, `trade_id_map_`, two mutexes | `handleL1Update`, `check_for_new_signal`, `send_*`, circuit breaker, `processSdkOrderUpdate` | subscriber, callers, SDK thread, signal file | lock order, a count that is stale when used, torn files | no wait cycle, calls end, signals acted on |
| Entries (EB 564–584, 1671–1800) | `active_positions_`, `trade_state_mutex_` | ladder entry, stop loss, post-only maker | exchange, risk manager, every tick | partial failures, retries, mutexes taken twice | no answered order forgotten, no more orders answered than levels, calls and ticks end |
| Fills, polling (EB 1424–1642) | positions, polling threads | `process_fill_response`, `poll_order_status` | pacing, mutexes | reached only from positions that are never opened | - |
| C++ risk manager (`cpp_exec/risk_manager.cpp`) | limits, `mutex_`, `is_sleeping_` | `checkRiskLimits`; the rest has no caller | post-only maker | nested lock | checks return |
| Ring buffer, predictor (`ring_buffer.hpp`, `low_latency_predictor.cpp`) | two indices, `running_` | `try_enqueue`, `try_dequeue`, `start`, `stop`, `inference_loop` | one producer, one consumer | index races, full and empty, a stop while it is busy | a bounded FIFO, a stop that ends |
| Market data service (DS) | `PgPool`, write queue, order book cache, three threads | acquire and release, `AsyncDBWriter`, handlers, `run`, `stop` | PostgreSQL, Redis, exchange socket | a counter that misses, lost wake-ups, failed writes, joins | writes once and in order, connections accounted for, snapshots true, a stop that ends |
| Tail cursor (`pg_tail.py`) | `last_seen_ts`, connection | poll, reconnect | PostgreSQL | equal stamps, broken connections | rows delivered once, in order; every row delivered |
| Redis layer (`redis_pubsub.hpp`, `redis_client.cpp`, `redis_l1_feeder`) | queue, sequence numbers | publish, loop | Redis | - | no program uses the first two |
| Python book client (`ws_client.py`) | book, `last_sequence_id` | snapshot, update, reconnect | exchange | closes its connection as it opens it | - |
| Python strategy, paper execution, risk (`strategy/`, `risk_management/`, `config/risk_management/`) | positions, drawdown level, breaker | loop, trade, record, close | engine or simulation | sequences of legal calls | accounts consistent, a breach stops trading |
| Signal producers (`scripts/*signal_producer.py`) | `signal.json` | rewrite in place | engine | torn reads | - |
| Features, training, analysis, monitoring, set-up | data frames | numerical code | - | - | not a subject of this development |

`PROJECT.json` lists every component with its files and its status, and under
`hazards` each place in the code that a test would hardly reach, with the
properties that cover it, or why none does yet.

## 2. Modules and what they correspond to

```
Pacer  <--refines--  RateLimit       <--EXTENDS--  RateLimitProofs, MCRateLimit
  ^ EXTENDS
SignedRequest        <--EXTENDS--  SignedRequestProofs, MCSignedRequest
ServerClock          <--EXTENDS--  SignedRequestProofs, MCServerClock
OrderWs              <--EXTENDS--  OrderWsProofs
ExecBridge           <--EXTENDS--  ExecBridgeProofs
Lifecycle            <--EXTENDS--  ExecBridgeProofs
Entries              <--EXTENDS--  EntriesProofs
Snapshots            <--EXTENDS--  SnapshotsProofs

Fifo  <--refines--  RingBuffer
  ^                     ^ EXTENDS
  |                 Predictor   <--EXTENDS--  PredictorProofs
  +----refines----  DataService <--EXTENDS--  DataServiceProofs
```

The modules fit together by assume and guarantee: SignedRequest uses the promise
`Pacer` that RateLimit implements, and is proved to keep to it (`KeepsToPacer`); OrderWs and ExecBridge assume of a REST call
that it ends, which is SignedRequest's `EveryCallEnds`; ExecBridge's `subscribed`
is the outcome of OrderWs' `SubscribeOk` or `SubscribeFailed`; Lifecycle treats
one message (all of ExecBridge's subscriber pass) as a step `Handled`, or, when that pass ends in
ExecBridge's `Stuck` or behind Entries' `inJson`, as `Starved`; Entries reduces the
subscriber to its tick. Snapshots writes through a queue, which is what DataService's writer
is shown (and proved) to be; it adds what the rows hold.

Each module that takes mutants has a section of *faulty variants*, operators that are in
no specification: each is a plausible slip in the code, and the property named in
`PROJECT.json` fails when it stands in for the real step.

**Pacer** is the abstract promise: a set of booked slots per class and a permit
per thread. `SignalElsewhere` is a signal that strikes another sleep: a back-off is one.
**RateLimit** is the code: `nextSlot` is `next_slot_us`, `snap`,
`seen` and `slot` are the locals `current_time_snapshot`,
`previous_next_slot_val` and `reserved_slot_start_time`; `Load`, `CasOk`,
`CasFail` are the load and the weak compare-and-swap (which may fail for no reason),
`BeginSleep` starts the relative sleep later than the snapshot was taken, `Interrupt`
is EINTR, logged and not resumed. `reserved` and `early` are history.

**SignedRequest** follows one REST call: paced once, then the retry loop. The
exchange may carry a request out and have the answer lost, or come to it after
the caller gave up (`stray`); a 5xx leaves open whether it was carried out. A
429 backs off and tries again without pacing, every other failure throws. Each attempt
needs a time stamp: `AskTime` is the request that `get_server_time` sends for it, past the pacing,
when no cached time serves; `Send` comes with or without it. Whether the cache serves is left open here.

**ServerClock** splits `get_server_time` into the reads and writes of its two
statics, as another thread can see them. That is a data race; each access is taken
as indivisible, a 64-bit load or store as the compiler emits it, and a static that was read or
written before may be read again, or not (`Reread`): in the stamp of a hit (EB 942) and in the return of
a fetch (EB 979). `Seconds` is the `duration_cast`: the age is cut to whole seconds, before it is compared
with the life of a cached time and before it is added to it. `skew` is history: the error of
each thread's last stamp; the fallback's is `HostSkew`, whatever that is.

**OrderWs** models each store of each handler as a step, the bootstrap thread with
the REST call and `order_cache_mutex_`, and `stop()`: its test of the connection, the `disconnect()`
that may throw, and its two stores. The SDK is external: one
handler at a time, on its own thread, while the connection opens and breaks by itself, during `stop()` and after it too.
`filled` says that the cache holds what a REST answer listed; an answer that is no list
leaves it empty and still counts.

**Lifecycle** has two engines: main's and the singleton that the SIGINT handler
constructs on first use. Any thread may take a SIGINT: main, either subscriber, or another (`Takers`); it
stands still in its own work meanwhile and takes no second one, the others may. Two handlers meet in
`getInstance` (the guard of the static: `Constructing`) and in `stop()`, where a join beside another
join, or of the joining thread itself, throws; an exception out of a handler has no defined effect, so the process ends or the thread
stands (`Thrown`). The handler logs and allocates, which is not async-signal-safe: where it interrupted a
thread that may hold such a lock it may wait for ever (`hung`, `hungInside`: `MayInterruptLock`). `Return` is followed by the
destruction of the singleton at exit. `Starved` is a message whose handling never ends, behind a mutex that
ExecBridge and Entries show nobody gives back. What can hold the process up for ever is named `Wedged`. Once an engine is
destroyed what its logger thread reads of `running_` is undefined, hence any value.

**ExecBridge** runs the subscriber, the callers and the SDK thread step by step
through both mutexes. Orders are numbers; prices and quotes are data; a partial fill takes
the path of a fill; callers send the trading symbol and updates of other symbols do not
reach the map. `file` is the signal file, half written between the producer's open and its
write. `open_positions_` is filled nowhere in this build, so `onTick`'s loop body and the
position's update after a fill have nothing to do. Once the SDK thread is stuck the updates
it will not read are left out.

**Entries** has callers that enter a ladder, a stop loss or a post-only order and the
subscriber's tick. A POST has three outcomes: answered, carried out with the answer lost or
without a number, not carried out. `positions_to_json` locks the mutex its callers hold and
`checkRiskLimits` with three arguments the one it holds itself: a thread that comes there
stays (`inJson`, `inRisk`), so `positions.json`, the stop of a ladder (called after the
position is recorded) and the order of a maker are no actions. `SkipStop` is a stop whose price is not positive. On the platforms built
for `std::mutex` waits; that is the one outcome modelled.

**RingBuffer** splits each call into the test, the access of the slot and the store of the
index. `Waiting` is the refinement mapping: the slots from `tail` up to `head` are
`Fifo`'s queue, `StoreHead` is its `Put`, `StoreTail` its `Get`. The acquire and release
orders of the code make the indices sequentially consistent for one producer and one consumer.
**Predictor** adds the inference thread, `start` and `stop`, with `main`'s announced loop as a
source of items. `out_result` is an empty vector whose null pointer is handed to LightGBM: a
prediction kills the process unless it fails.

**DataService** has a step for every place where its four threads can be interrupted:
`main` with the signal, `stop()` (close, flag, notify, joins) and the end of the process; the
service thread with its handlers; the thread that fetches history; and the writer, whose
`wait_for` is split into the test, the moment before it blocks (`blocking`: it has the mutex and is not
yet asleep) and the sleep, so that a notification can be lost. `pool` and `used` are
`PgPool`'s; `used` is modulo a word. A row of the history has three values for ten columns: its insert
always fails. `settled` is history.

**Snapshots** follows one book: `HandleDepth` is an update, gone through to its end (`Depth`) or cut
off by a number that does not parse (`DepthCut`: bids before asks). An entry with fewer than two elements is skipped without
a word, so only a subset `told` of what changed reaches the cache; an update without `"u"` leaves the number of
the one before; the stamp may be missing. `ToMs`, `ShouldWrite`,
`Applied` and `Snapshot` are the code's functions on scaled constants. `unsure` is history: the levels of
which the service has not been told since it started, or whose last change was skipped or cut off. The query is
taken apart as it is written: `NewRows` is its WHERE, on the places of the rows in the table, `Orders` its ORDER
BY (rows of one stamp could come in any order), `BatchLen` its LIMIT. The cursor's column is `BIGINT`, as in
`setup_db.sql` and the tail's test: its maximum in a data frame is a `numpy.int64`, which psycopg2 does not adapt, so that
only the first value of `last_seen_ts`, the number 0, can be sent (`Adapts`). Where other schemas of the repository
give a table a TIMESTAMPTZ of this name, the comparison with 0 already fails in the first query.

## 3. What is checked

| run | instance | shows |
|---|---|---|
| `rate_limit` | 2 threads, 2 classes with intervals 2 and 1, calls until time 1, one interrupt | `TypeOK`, `SlotsSpaced`, `NeverEarly`, `BacklogBounded` (failed attempts leave no gaps), `EveryCallReturns`, and `RefinesPacer` |
| `signed_request` | 2 threads, 2 calls, 2 attempts, one interrupt, retry-after or back-off | `AtMostOnce`, `VerdictHonest`, `AttemptsBounded` (with the requests for the time), `ResendOnlyRefused`, `EveryCallEnds` |
| `server_clock` | 2 threads, seconds of 2 ticks, life 2 seconds, fetch at most 2, pauses at most 1, a host clock behind by 20 | `StampNotStale`: racing threads never make a stamp that is a fetch, three pauses and a second old; `StampNotAhead`: nor one that is ahead by more than a cached time's life |
| `order_ws` | 3 connections, 3 bootstraps, `stop()` at any moment | `InitializedMeansFilled` on the first connection, `ConnectedMeansLink`, `LossNoticed`, `ProgressEnds` |
| `lifecycle` | 2 SIGINTs, 1 SIGTERM at any moment, in any thread | `OneLateMessage`, `SubscriberOutlived`, `StatusEnds` |
| `lifecycle_ctrl_c` | 1 SIGINT | `CtrlCEnds` fails |
| `exec_bridge` | subscriber, 1 caller, 3 orders (one from before the start), limit 1, 1 signal | `NoCrossWait`, `OneOrderPastStuck`, `SendEnds`, `SignalTaken` |
| `predictor` | ring of 3, 2 items, 5 enqueues | `NoSlotRace`, `RefinesFifo`, `OneLateItem`, `StopEnds` |
| `data_service` | pool of 2 to 3, word 8, 2 messages, 2 rows | `RefinesFifo`, `PoolBalanced`, `CleanExit`, `BacklogDrains`, `StopEnds` |
| `snapshots` | 1 bid, 1 ask, 3 updates, batches of 2, 1 restart, 1 broken connection | `SnapshotTrue`, `DeliveredInOrder` |
| `snapshots_tail` | 2 updates, no restart, no broken connection | `CatchesUp` fails |
| `entries` | 2 callers, 2 models, 2 levels, 2 attempts, a bid that leaves no price and one that leaves all | `NothingHidden`, `OneLadder`, `LastRecord`, `LadderEnds`, `TickGoesOn` |

**Why the bounds are enough.** A slot conflict needs two threads with one snapshot of
the word, and the theorems hold for any number of them; the intervals 2 and 1
show the division that rounds down and slots that fill up; one interrupt lets a thread
through before its slot, so that later calls meet a backlog longer than the number of
waiters. Two attempts are the first, the retried and the last one; two calls let one
be stray while another runs. For the clock the order of `Timeout` and
`Life` matters, not their size; a second of two ticks is the shortest of which a cut drops something;
a host clock behind by 20 is beyond what any stamp of the exchange's time can be. Two SIGINTs let two handlers
meet in the singleton, in each pair of threads. Three connections allow a bootstrap of the first to end on
the third. With `MaxOpenOrders = 1` the breaker trips at every order, so
`cancelAllOrdersForSymbol` and its second lock are reached; a prior order can be filled
or cancelled before any send, and three orders are one more than `OneOrderPastStuck`
allows a thread. A ring of three holds two items: it is empty, half
full and full, and five enqueues take both indices past its end. A word of 8 is larger than the
pool and wraps with two releases too many; four operations exceed the pool of 2, so that connections
are opened, lost and returned. Quantities 0, 1 and 2 are gone, dust and shown; three
updates give two rows of one batch and one beyond, on either side of a restart; the clock starts at 9 and its values lie
above `Big` (microseconds) and a missing stamp below `Small`. Two attempts of a ladder are the
first and the last one. `MaxOpens`, `Horizon`, `ClockHorizon`, `LastCall`, `MaxSignals`, `MaxCalls`, `MaxOrders`,
`MaxSigints`, `MaxSigterms`, `MaxFeeds`, `MaxMsgs`, `MaxHist`, `MaxNow`, `MaxUpdates`, `MaxRestarts`
bound only the environment; `MaxFaults` bounds the failures of the database. Where deadlock is not checked the clock, the
connections, the items, the messages or the orders simply run out (the bound), or, in ExecBridge
and Entries, threads may be stuck in a lock of their own, which is what their
properties are about.

**Fairness.** Threads inside a call keep running (WF per thread or step). A weak
compare-and-swap that is possible again and again succeeds some time (SF on `CasOk`). libcurl's
timeouts (5 s for the time, 10 s for requests) end every transfer, so `Resolve` and `Send` are
weakly fair and nothing is assumed of the exchange. A mutex that keeps
coming free is not withheld from one thread for ever (SF on the senders and the SDK
thread). The subscriber is fair because the L1 feeder publishes at every poll;
Lifecycle's `LifeFairSpec` says so explicitly (`FeedSteps`), and of the threads of the engine only that they run on where
nothing holds them up: a message's handling ends or is `Starved`, a handler gets through or is hung, and
`StatusEnds` excuses both by name (`Wedged`), because the code gives no more. The SDK calls the handlers it owes. In Entries a mutex that is free
again and again is got by who waits for it. In DataService PostgreSQL answers or breaks off,
libcurl's 30 s end a fetch, and the threads run; a publish to Redis is assumed to be answered or broken off, which the code does not
see to (its socket timeout is commented out, DS 903). Nothing makes the exchange send, break off or answer the
close handshake, so `StopEnds` begins after `close()`. The predictor's thread runs while `main` only waits for it. In Snapshots
only the reader's endless loop is fair.
Nothing is assumed of signals, connections, callers or the producer, except that it
finishes a write it began. `SendEnds` and `SignalTaken` excuse the stuck SDK
thread, by name.

## 4. What is proved

Each of the eight `*Proofs` modules proves its statements for every value of the constants
that the named assumptions allow: any number of threads or callers, calls, connections, orders, items,
messages, and so on. Everything named below is listed in `PROJECT.json` under `theorems`; the lemmas are
in the modules. An invariant proved by induction over the steps is stated there with the
reason for each of its parts.

`RateLimitProofs` proves, for every set of threads and classes and every rate from one to
`Second` requests a second:

- `Typing`: `Spec => []TypeOK`;
- `Invariance`: `Spec => []IInv`;
- `Spacing` and `Punctuality`: `Spec => []SlotsSpaced`, `Spec => []NeverEarly`;
- `Refinement`: `Spec => RefinesPacer`, i.e. `rate_limit` implements `Pacer`;
- `Backlog`: `Spec => []BacklogBounded`.

`SlotsSpaced` is not inductive: a thread that claims a slot could come too close to a slot
handed out long ago. `IInv` adds `WordFollowsSlots` (the shared word is an interval
past *every* slot claimed so far, and directly follows one of them) and `WaitsOut` (a
slot that is held was claimed, snapshots are never in the future, a sleeper's wake-up time is
not before its slot). A successful compare-and-swap claims a slot at or past the word,
hence an interval past all others; the second half of `WordFollowsSlots` shows that
the slot is one `Pacer` calls `Free`: not put off without need. `WaitsOut` gives
`NeverEarly`, because the relative sleep begins at or after the snapshot it was
computed from. The assumptions are `SecondAssumption`, `ThreadsAssumption`,
`RateAssumption` (a rate above `Second` would make the interval zero; the code's rates are
12, 3 and 5) and `BoundAssumption`. `BacklogBounded` counts;
its invariant is stated for every moment `x` from now on, so that a tick preserves it by itself: the word is at
most one interval past `x` for each slot claimed after `x`, and one more, and each such slot has a thread that
waits for it or was given up to a signal. `TypeOK` is part of what is proved on the way: that waits, which
the code computes in unsigned 64-bit numbers, are never negative.

`SignedRequestProofs` proves `Once` (`[]AtMostOnce`), `Honesty` (`[]VerdictHonest`), `FewAttempts`
(`[]AttemptsBounded`), `Resending` (`RSpec => ResendOnlyRefused`, an action property) and `RequestTyping`.
`AtMostOnce` speaks of what the exchange did; the invariant ties it to the thread: while a call is `Clean`
(not sent, or refused) nothing was carried out, a success on the way means it was carried out once, a stray
request belongs to a call that was given up on, and no call is in two threads (`Apart`). The number of
requests sent is the attempt counter, plus one from the send on; each attempt has at most one question for the time, so that
`FewAttempts` bounds both together by `2 * (MaxRetries + 1)`. Assumptions: `MethodsAssumption`,
`RetryAssumption`, `BackoffAssumption` and `ClassAssumption` (intervals are positive).

The same module proves how the retry loop and the pacing fit: `KeepsToPacer` (`RSpec => Spec`, Pacer's `Spec`), and
from it `PacedApart` (`[]SlotsApart`), by an invariant of Pacer's own steps. `SlotsPaid` (`[]OneSlotPerCall`) counts:
a free slot is new because intervals are positive, so slots and calls of a class grow together; the retries take none.
With `FewAttempts` that is what the exchange has to bear for each slot: at most `MaxRetries + 1` requests, and as many for the time.

Its last part is about ServerClock: `StampsInWindow`
(`ClockSpec => []StampNotStale`, with its other side `StampNotAhead` and `TypeOK`). A cached time and its
date are two words that racing threads overwrite in any order, so that they need not belong to each other. What holds is
`Dated`: every date in `last_fetch`, or read from it into an `elapsed`, is at most a timeout
later than the time that is cached now, whoever stored it. It survives a store of another time, since an answer is stored within a
timeout of being given (`OthersKnow`). `Local` counts the pauses of a thread since it read the clock: one for each
of its three steps. The cut to seconds drops less than a second of the age (`Seconds`), which is the last part of the bound; what a thread
reads again is `Dated` as what it read first (`Reread`). The assumption is `ClockAssumption`.

`OrderWsProofs` proves `FlagFollowsLink` (`[]ConnectedMeansLink`: a set flag means a connection, or that the
handler which clears it is due or has just begun, at whatever step `stop()` is), `FirstCacheFilled` (`[]InitializedMeansFilled`: as long as
there was one connection there was one authentication and so one bootstrap, which alone decides about flag
and cache) and `OrderWsTyping`, from `OpensAssumption`.

`ExecBridgeProofs` proves `NoCircle` (`[]NoCrossWait`), `OnlyOneMore` (`[]OneOrderPastStuck`) and
`ExecBridgeTyping`. The invariant says at which steps each thread holds which mutex, in both directions, and that
a sender acknowledged after the SDK thread got stuck still is at the steps before the circuit breaker's lock.
For the types the queue of updates must hold updates only, and a half written file implies a signal that may
still be written.

Its last part is about Lifecycle: `LastMessage` (`[]OneLateMessage`), `SubscriberFirst`
(`[]SubscriberOutlived`) and `LifecycleTyping`, for any number of signals in whatever threads, from `SignalAssumption`. `EngineInv` says
of each engine that a message after the stop is followed by the test of `running_`, which is not set again
since an engine is only started when there is none (`LifeInv`: main constructs one, and the guard of the singleton's static lets one handler in, only while there is none); and main is past its join only when the subscriber is done, so an
engine is destroyed after it. Assumptions of the main part: `OrdersAssumption`, `ThreadsAssumption`, `OwnersAssumption` (the SDK thread is
no sender, a free mutex has no owner).

`PredictorProofs` proves, for every size and every set of items, `RingSpec => []NoSlotRace`
(`SlotExclusion`) and `RingSpec => RefinesFifo` (`RingRefinement`). The invariant says that both sides'
program counters agree with the indices: a producer that writes has passed the test for a full ring, which the
consumer can only make more true, and the other way round. The refinement rests on lemmas about
`Count`, `SlotOf` and `Waiting` across the end of the array: a store of `head` appends the
slot just written, a store of `tail` takes the first, the other steps leave `Waiting` alone.
It then shows that the predictor uses the ring as `RingSpec` demands, so that both hold
of its `Spec` (`PredictorExclusion`, `PredictorRefinement`); it adds `LastItem` (`[]OneLateItem`: an item
taken late is followed by the test of `running_`, which only `start()` sets) and `PredictorTyping`.
Assumptions: `SizeAssumption`, `NoneAssumption`, `FeedsAssumption`.

`DataServiceProofs` proves, for every pool with `0 < MinConn < MaxConn < Word` and any number
of messages and rows: `PoolBalance` (`[]PoolBalanced`; the invariant adds that a connection is out of the
pool exactly while the writer is in `write`, and that a connection is only opened by an empty
pool), `CleanEnd` (`[]CleanExit`; the invariant follows `main` through its joins),
`ServiceTyping`, and `WriterRefinesFifo` (`Spec => RefinesFifo`): each `Push` is a `Put`, the end of each operation a
`Get`, and everything else, the swap of the batch included, leaves the backlog alone.

`EntriesProofs` proves, for any callers, models, levels and attempts, `RecordsEnd`
(`[]LastRecord`: whoever is in `positions_to_json` owns the mutex, and a recorded position has
such a caller), `NoOrderHidden` (`[]NothingHidden`: it rests on `RecordsEnd`'s invariant,
since recording a position over another would forget the orders of that one, and adds
that a caller outside a ladder holds no orders), `EntriesTyping`, which needs that `orders` is finite, and
`LadderOnce` (`[]OneLadder`: fewer orders are answered than levels passed, an attempt begins with none). The
assumptions say that there are levels, attempts and prices in ticks, and that the owners of the mutexes differ.

`SnapshotsProofs` proves `RowsTrue` (`Spec => SnapshotTrue`, an action property) for any levels, quantities, stamps
and numbers of updates: cache and exchange agree on each level that is not `unsure`, an update applied as a whole
tells the levels of its well-formed entries, a cut one what it did, both leave the rest of what changed unsure, a restart leaves all unsure;
the number in the cache is never past the last update's.

It proves `DeliveryOrder` (`[]DeliveredInOrder`, of however much the reader yields; the run `snapshots_tail` shows that it is one batch), `OneOrder` (`Orders` always has exactly one element: the database never has
a choice) and `SnapshotsTyping`. The cursor is a time stamp, so everything rests on stamps being distinct and
committed in their order. `Stamps` says so of the table followed by the queue; it needs that `lastWriteTime` is the
last of them, or that after a restart, when it is 0 again, the clock is a millisecond past all of them
(`StampsAge`), and that an update without a stamp (0) never passes `ShouldWrite`. `Follows` says that the reader has
the first rows of the table and that its cursor is the stamp of the last. Then the rows past the cursor are
an interval of places (`NewRowsAreNext`), and a choice of all of them in the order of their stamps is that
interval: its values are distinct and as many as the places, so none is left out
(`SortedIsAll`, by counting; no induction). Assumptions: `LevelsAssumption`, `ClockAssumption` (the
exchange's clock is past `to_ms`'s limit for microseconds, as it has been since January 1970), `SizeAssumption`, `DustAssumption`.

Two modules with proofs extend two specifications, each with variables of its own: SignedRequestProofs also ServerClock and
ExecBridgeProofs also Lifecycle, whose definitions `ClockInit`, `ClockNext`, `LifeInit`, `LifeNext` and so on are named apart for that.

**Only model-checked** are the liveness properties, since fairness and ENABLED are out of the prover's reach:
`EveryCallReturns`, `EveryCallEnds`, `LossNoticed`, `ProgressEnds`, `StatusEnds`, `SendEnds`, `SignalTaken`, `StopEnds`
of the predictor and of the service, `BacklogDrains`, `LadderEnds` and
`TickGoesOn`; and the two violated ones, `CtrlCEnds` and `CatchesUp`. Every other property of the runs, invariant or action property, is a theorem. The
type invariants of SignedRequest, OrderWs, ExecBridge, Predictor, DataService, Entries, ServerClock, Lifecycle and
Snapshots are proved rather than run, as are `SlotsApart`, `OneSlotPerCall` and `OneOrder`; RateLimit's is both.

## 5. Findings

Places where the code does not do what its own comments, docs or tests say; each is a run that fails.

- **Ctrl+C** (`lifecycle_ctrl_c`, EB 615). "Press Ctrl+C to exit..." (`main.cpp` 99): the
  handler stops the singleton, another engine, and main's loop goes on.
- **Tail cursor** (`snapshots_tail`, `pg_tail.py` 180). It "continuously tails a PostgreSQL table" (18) whose column is, "e.g., BIGINT
  epoch ms" (35), and its test expects a throughput on such a column (`data_ingestion/tests/pg_tail_integration_test.py` 46, 200). The
  first batch makes `last_seen_ts` a `numpy.int64`; every later `execute` throws, is caught and tried again: the reader never yields another row.

Read off the models, and not runs of their own:

- *Nested lock*: `enforceOpenOrderLimit` is "called when the lock is NOT held by the caller" (EB 2102);
  `processSdkOrderUpdate` calls it (EB 2301, 2504) with the lock held, and it locks it again (EB 2111): `SdkEnforce` of ExecBridge
  never comes free. The first new or filled order stops the SDK thread for good; each
  sender then gets at most one more acknowledged order (`OneOrderPastStuck`), and a subscriber that waits there is not joined any more: `stop()` hangs.
- *Signals*: the SIGINT handler runs `spdlog`, the allocator and a constructor in the context of whatever thread it interrupts.
- *Server time*: the fetched time is stored before its date (EB 976). A reader between the
  two adds the age of the old fetch to the new time: a stamp up to 29 s ahead, although EB
  1187 gives stamps a "5-second validity window".
- *Bootstrap*: the error handler's reset, "Crucial: reset initialization state on error" (EB
  1853), is undone by a bootstrap in flight (EB 1965); the handler also clears
  `bootstrap_in_progress_` under it, so that two can overlap.
- *Quotes*: "handleL1Update will filter by trading_symbol_ internally" (EB 381), but the quote of every
  symbol is stored (EB 448), and `send_market` prices orders with it (EB 654).
- *Engine*: the destructor leaves the detached logger and sweeper running; without a message on the feed
  `stop()` waits for a blocked `consume()`; one signal places an order at every message; without an order
  subscription the circuit breaker counts an empty map.
- *Entries*: the first recorded position leaves its caller and, from then on, every tick and
  fill waiting for `trade_state_mutex_`; the stop loss of a ladder is never placed;
  a level whose answer is lost is placed again by the next attempt (`OneLadder` counts answered orders only); and
  `postOnlyMaker` waits in `checkRiskLimits`, which `cpp_exec/test_exec.cpp` expects to return.
- *Predictor*: the first prediction that succeeds writes through a null pointer; what waits in the ring when
  `stop()` is called stays there.
- *Data service*: a `stop()` that comes before the service thread has made the thread of the history (DS 484, 498) leaves it
  unjoined, and its destructor ends the process (`CleanExit` speaks of the later stops); after a read error there is no reconnection; without Redis the first book ticker
  is a call through a null pointer; historical rows never reach the table; operations left when `stop()` is
  called may stay unwritten; the book starts empty instead of from a snapshot; `to_ms` takes
  millisecond stamps of today (above 10^12) for microseconds.

## 6. What is not modelled

Signing, URL building, JSON and logging are data; trade ids and the trade event
log are left out of ExecBridge, as nothing it states depends on them.

- Without behaviour: fills and polling (EB 1424–1642) are reached only through positions that nothing opens,
  `sleepOnDrawdown` has no caller, `redis_pubsub.hpp` is included by nothing,
  `redis_client.cpp` does not compile against its header, and `ws_client.py` returns its
  socket out of the `async with` that closes it.
- A step at a time on one thread: the Python risk managers, the circuit breaker, paper execution, the stores,
  the fill persistor and the L1 feeder. The hazards list the two places in the risk manager that a
  sequence of calls reaches.
- Data: feature code, training, analysis, dashboards, schemas; vendored headers.

By lines, the vendored `include/nlohmann/json.hpp` alone is three quarters of what is in the repository.

## 7. Plan

1. The Python risk manager with its circuit breaker and paper execution, as one module: a breach stops
   trading in later calls too; positions of `update_position` and `record_trade` agree.
2. Theorems: the queue of Snapshots as an instance of Fifo, so that DataService's `WriterRefinesFifo` and
   `DeliveryOrder` meet in one statement; the lock discipline of ExecBridge (each unlock by its owner).
3. Composition of Entries with ExecBridge's SDK thread, once positions are opened.
