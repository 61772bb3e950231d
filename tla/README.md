# tqsdk-rs: a TLA+ model of the client

`tqsdk-rs` is a Rust SDK for the TqSdk (DIFF protocol) market data and trading
service.  This directory holds TLA+ modules translated from its source, the TLC
configurations that check them on small instances, and TLAPS proofs.  Paths below
are relative to `src/src/` unless they start with `src/`.

## The system

| Part | State | Operations | Talks to |
|---|---|---|---|
| Reliable trade events (`trade_session/events.rs`) | three bounded journals, subscribers' cursors, de-duplication tables, `next_seq`, closed flags | `publish_order/trade/notification/transport_error`, `subscribe_tail`, `recv`, drop, `close` | written by the session's watch task, by websocket callbacks and by the replay; read by applications and target position tasks |
| Message backlog (`websocket/backpressure.rs`) | bounded channel, backlog, `draining`, `overflow_notified` | `enqueue` (from a callback that may not wait), `drain_backlog` (spawned task) | feeds the processing task of each websocket; its overflow handler calls `force_reconnect_due_to_backpressure` |
| Websocket connection (`websocket/core.rs`) | `status`, `connecting`, `should_reconnect`, `reconnect_times`, the I/O handle, `connection_id`, offline queue, `pending_peek` | `init`, `send`, `send_or_fail`, `flush_queue`, `reconnect`, `close`, the I/O actor | `on_open`, `on_close`, `on_message`, `on_notify` callbacks of the websockets above it |
| Trade websocket (`websocket/trade.rs`, `reconnect.rs`) | recorded login, reconnect flag, buffered diffs, temporary data manager, positions before the loss | processing task; `on_close` clears and reconnects; `on_open` and the 'reconnected' notice log in again | merges into the session's data manager |
| Trade session (`trade_session/{core,ops,watch}.rs`) | `running`, `logged_in`, `snapshot_ready`, watch task | `connect`, `close`, `wait_ready`, `is_ready`, orders | trade websocket, data manager, event hub |
| Quote and trading-status websockets (`websocket/quote.rs`, `websocket/trading_status.rs`) | what was last requested, buffers of a resynchronisation | requests, resends after a reconnect, buffering of answers | websocket connection, data manager, market data |
| Subscriptions (`quote/`, `series/subscription.rs`, `ins/trading_status.rs`) | who wants which symbols and charts, reference counts, life cycle flags | add, remove, start, refresh, close, drop | the two websockets above |
| Data manager (`datamanager/`) | JSON tree with an epoch per node, global epoch, path watchers, index cache | `merge_data`, windows and aligned rows, `watch_register`, `subscribe_epoch` | every session, series and query |
| Market data (`marketdata/`) | latest values with epochs, broadcast of keys | `update_*`, `wait_update`, `drain_updates` | fed by the quote websocket's processing task |
| Historical requests and disk cache (`series/api.rs`, `cache/`, `types/rangeset.rs`) | files named by id range, two locks | look for missing ranges, download, store, merge, read, evict | processes that share a directory; the replay's history |
| Runtime (`runtime/`) | task registry, progress counters, order owners | target position tasks, scheduler | trade session or replay through adapters |
| Replay (`replay/`) | feeds, synthesized quotes, series rows, simulated broker, day and step | `quote`, `kline`, `tick`, `step`, `finish`, orders, settlement, report | runtime tasks run inside a step |
| Option queries (`ins/parse.rs`, `ins/query.rs`) | none | which options, at the money, levels, near months | the server's answers |
| The rest (`client/`, `auth/`, `download/`, `polars_ext/`, logging) | configuration, tokens, conversions | assembly, HTTP, parsing, formatting | – |

Everything runs on tokio's multi-threaded scheduler; callbacks run on the I/O
actor's task; shared state is atomics and short-lived locks, so a handler is a
sequence of separate accesses with other tasks in between.  Connections fail at any
point; losses are noticed by several parties at once; the server repeats its snapshot
after every login.  `PROJECT.json` lists under `hazards` where exactly this bites.

What makes each part correct:

* events: a subscriber misses nothing silently and is not alarmed falsely; a trade is
  emitted once; waiting readers are always woken.
* backlog: one drain task at most, nothing stranded, every diff accounted for, a loss
  forces a resynchronisation.
* connection: one attempt at a time; a loss is always attended to; `Open` means
  connected; a critical message (order, cancel) is never sent late; an accepted one
  is not lost unnoticed.
* trade session: ready means that data and connection belong together; positions
  after a reconnect are the server's; a session whose connection holds becomes ready.
* subscriptions: what is requested is what the holders want, what the server streams
  is what was requested last, and its answers reach the readers after a reconnect.
* data manager and market data: whoever follows or waits for news gets the newest.
* history: a range that counts as cached is there; a result is the whole window.
* target positions: orders never overshoot; a plan does not close more than there is;
  no order or trade is left behind; a step of the replay does not wait for ever.
* replay: frozen volumes balance; money is neither made nor lost; days settle once;
  fills are published once; bars come in order; the report explains the money.

## Modules

| Module | Models | State and actions |
|---|---|---|
| `EventHub` | `trade_session/events.rs` | `log[j]`/`head[j]` are a journal's deque with its history; `pub[p]` is where a `publish_*` call is: `PublishDedup`, `PublishTakeSeq`, `PublishCheck`, `PublishPush` (push and trim, one critical section), `PublishNotify`; `RecvArm`, `RecvLook`, `RecvWake` are the loop of `recv`; `closing` the steps of `close` |
| `ReliableStream` | what a stream promises | events in order without gaps until more than the retention limit is outstanding; `EventHub` implements it with one publisher |
| `Backpressure` | `websocket/backpressure.rs` | `producer` is where `enqueue` is, `at[d]` where each drain task is, a step per shared access; a frame is only whether it merges and which diffs it carries |
| `WsConnection` | `websocket/core.rs` | `at[t]` is where each thread is in `init`, `send`, `reconnect`, `close` or the overflow handler; `actor[c]` the I/O actor of each connection |
| `TradeSession` | `trade_session/{ops,core,watch}.rs`, `websocket/trade.rs`, the trade part of `websocket/reconnect.rs` | processing task `proc`, watch task `watch`, `on_close` callback `closer`, application `app`, and the server as the environment |
| `Subscriptions` | `quote/lifecycle.rs`, `series/subscription.rs` (life cycle), `ins/trading_status.rs`, the requests and resends of `websocket/quote.rs` and `websocket/trading_status.rs` | three kinds of request (`Slots`), each with its intent, what was recorded and what the server was told; `caller[c]` is where a call is between table, record and send; `resend` the two tasks that resend after a reconnect |
| `Resync` | reconnect buffering in `websocket/quote.rs`, the market part of `websocket/reconnect.rs` | extends `Subscriptions` by the server's answers, `pending`/`diffs`/`apart` (the three buffers), what readers see, the message handler `handler` and the close handler beside it |
| `Market` | `datamanager/{merge,watch,core}.rs`, `marketdata/mod.rs`, the watch task of `series/subscription.rs` | `merge[m]` is where a merge is: taking its epoch, writing, publishing, notifying; `watch[w]` a path watcher with its channel; `series` the task that follows the epochs; `entries`, `user[u]`, `api` the updates and those who wait for or drain them |
| `SeriesWindow` | `datamanager/query.rs`, `series/processing.rs` | pure: windows, aligned rows with the index cache, what an update is said to have changed |
| `OptionChain` | `ins/parse.rs`, `ins/query.rs` | pure: filters, near months, at the money, levels |
| `History` | `cache/data_series.rs`, the request loop of `series/api.rs` | `files` maps an id range to rows; `user[u]` is where a request is: looking, downloading pages, storing, merging file by file, reading, evicting; `holder` the lock of a series; crashes |
| `RangeSets` | `types/rangeset.rs` | pure: the sorted lists of half-open ranges `History` computes with |
| `SimBroker` | `replay/sim.rs` | the broker as one record; each method an operator from a record to the next |
| `Replay` | `replay/{session,kernel,feed,quote,series,runtime}.rs` | extends `SimBroker`: feeds, quotes, rows, the steps of `step()` and `finish()` (`session`), and callers that insert and cancel between them (`task[t]`) |
| `ReplayReport` | `replay/report.rs` | extends `Replay`: the report as functions of the broker's record |
| `TargetPos` | `runtime/tasks/*`, `runtime/{registry,core,engine,account,execution}.rs`, the flush of `replay/session.rs` | `task[h]` a handle and its run loop, `runner[h, k]` its child orders, `registry`, `call[c]`, `sched`, `session`, and `orders`/`pos` of an exchange that may refuse, kill, fill in parts or late |
| `MC*` | instances | model values, loads, and the comparisons of the pure modules as assumptions that TLC evaluates |
| `EventHubProofs`, `BackpressureProofs`, `WsConnectionProofs`, `SubscriptionsProofs`, `MarketProofs`, `TradeSessionProofs`, `TargetPosProofs`, `ReplayProofs` | proofs | see below |

How they compose.  `TradeSession` is where trade websocket, reconnect rules, session
and data manager meet; the websocket under it is `WsConnection` abstracted to what its
properties provide (one connection at a time, each loss followed by `on_close`), and
its inbox is an unbounded FIFO, its overflow being the subject of `Backpressure`.
`Resync` extends `Subscriptions`, so that what the server is told and what readers see
of its answers are one state machine.  `ReplayReport` extends `Replay`, which extends
`SimBroker`.  `TargetPos` abstracts both the live session and the replay to one exchange.
Two places assume that the network is slow: `Calm` in `TradeSession` delays the
success of a dial until the process has digested earlier notices (a reconnect delay
of 3 s and a TLS handshake against a step of a task), and `Calm` in `WsConnection` lets a
back-off timer fire only when every thread rests or waits for the network.

An operator marked `mutant` is a broken form of the definition that follows it, used
nowhere else; put in that definition's place it makes TLC report the property that
`PROJECT.json` pairs with it.  So each property is known to be violable by a
plausible bug.

## Runs

Bounds are the constants marked BOUND in each module.  Where one instance with every
call would be too large, the constant `Loads` is a set of small workloads, one of which
is chosen in the initial state; a run explores all of them.

| Run | Instance | Shows |
|---|---|---|
| `EventHub_single` | one publisher of notifications, two readers of `all`, retention 2, 3 events, fair | `SingleWriterLossless`, `LaggedMeansLost`: nothing is missed silently, no false alarm; `ImplementsReliableStream`; `EventuallyDelivered`, `WaitersLearnOfClose`: no lost wakeup.  Three events exceed the retention by one, so that trimming, order and invalidation all matter, for one reader while the other keeps up |
| `EventHub_live` | watch task (two versions of an order, a trade) and a callback (notification), one reader of `all`, retention 1 | `TradeOnce`; `LastOrderIsCurrent`; `OnlyOvertakenSkipped`: an event is skipped only if another publisher overtook it between its number and the lock |
| `Backpressure_buffer` | two drain tasks, channel 2, backlog 2, batch 2, 5 diffs, 2 connections, fair | `OneDrainer`, `NothingStuck`, `Conserved`, `TwoLanes`, `FirstLossAnnounced`, `NeverForgotten`.  Five diffs fill channel, batch and backlog and overflow them |
| `WsConnection_losses` | two reconnect tasks, an ordinary and a critical sender, queue of 1, two connections, one loss, three calls of `init` or `close`, within the constraint `Budget` (below) | `LossIsAttended`, `OneDial`, `OpenMeansUp`, `CriticalNeverQueued`, `AcceptedIsAccounted` |
| `WsConnection_reconnect` | no senders, two losses | *violation* of `AutoReconnect` |
| `TradeSession_reconnect` | one symbol, two connections, one loss, two calls of `connect`/`close`, one change of the account, fair | `ReadyAfterReconnect`, `PositionsCurrent`, `BecomesReady`, with the loss and the calls crossing at every point of the snapshot |
| `Subscriptions_wire` | nine loads for two callers, two subscriptions, two symbols, one chart; queue of 2; up to two breaks; symmetry of the subscriptions | `IntentRecorded`: what is requested is what the holders want; `ServerFollows`: the server has what was requested last; `Resynced`: its answers reach the readers.  Each load crosses calls that can disturb each other: two subscriptions closed by another caller, three calls on one, a chart beside a list or opened and closed while the connection breaks, receivers of trading status, a resynchronisation that is broken itself |
| `Market_readers` | six loads: two or three merging tasks with a series, two with a watcher, a watcher with a channel of 1 that is dropped after 2 failed sends, a user that drains with an event channel of 2, three users and a close | `SeriesCurrent`, `WatchersTold`, `NewsArrives` |
| `History_windows` | five loads for two processes; five bars with a gap of a weekend, pages of 2 bars, new bars, evictions, a crash | `CacheIsHonest`, `WindowIsWhole` |
| `History_ends` | one request for one bar, fair | *violation* of `RequestEnds` |
| `Replay_day` | a future under the SHFE rules and a call on it (DCE rules), two trading days, bars and ticks, a task that inserts two of five kinds of order and cancels them at any moment | `FrozenVolumes`, `MoneyConserved`, `DaysSettleOnce`, `FillsArePublished`, `BarsInOrder`, `ReportExplainsMoney` |
| `TargetPos_plan` | two handles, two callers, a schedule of two steps, targets 1 and 4 on one lot of today and one of history, orders of one lot, two calls, one mishap, at most 6 orders | `NoOvershoot`, `PlanFits`, `AllReported`, `FlushCompletes` |

The bounds: two reconnect tasks and two drain tasks are enough for every race between an
ending and a starting one; a third would repeat the same hand-off.  A channel, queue or
retention of 1 or 2 makes the full case happen with few messages.  One loss interrupts
a recovery at each of its steps when a call, a second connection or a broken
resynchronisation can follow it.  In `WsConnection_losses` dials, losses and calls together
may reach six; `Budget` lets a behaviour use four of them, which is a connection, a loss, a
reconnect and a call that crosses it, and a fifth after a `close()` has cut into that
reconnect, which is what a second attempt beside the first takes.  Five bars give two adjacent files, a gap in time
without a gap in ids, and a growing last bar.  Two close orders of different kinds on a
position with today's and yesterday's volume are what the freezing rules distinguish.

`CHECK_DEADLOCK FALSE` is set everywhere: with its bounds used up, or closed, each of
these systems really comes to rest; and a flush of the replay whose requests crossed
really waits for ever (below).

Some results have no state and are assumptions that TLC evaluates over all small inputs
when the run starts: `UnorderedMerge`, `OperationsOnSets` (`MCHistory`: the range
operations against sets of integers); `WindowIsNewest`, `RowsAreAligned`, `CacheIsFresh`,
`NewsToldOnce` (`MCMarket`); `SidesAreRight`, `LevelsCountFromAtm`, `NearMonthsAreAlive`,
`QueriesAgree` (`MCSubscriptions`: the option queries); `DrawdownIsLargest`,
`YieldsCompound` (`MCReplay`).

### Fairness

Only where a liveness property needs it.  `EventHub`: a publish call, once begun,
goes on, and a reader keeps calling `recv` and is polled when woken (weak fairness per
thread; tokio polls woken tasks; nothing in these steps blocks but short mutexes).
That anybody publishes, subscribes, closes or drops is not assumed.  `Backpressure`:
the callback runs to its end, spawned drain tasks are polled, the processing task
takes what is in its channel as long as it lives; it may end.  `TradeSession`: its
tasks are polled, the server answers a login, and a reconnect that is due succeeds
eventually; losses, trades and the application's calls are not fair, and `BecomesReady` is
conditional on a connection that holds in the end.  `TargetPos`: run loops, child order
runners and calls are polled, the exchange answers a cancel and reports trades in the
end, and the market moves on; that an order is filled, or anybody calls, is not assumed.
`History` (in `History_ends` only): a request goes on.

## What is proved

Checked by TLAPS for every value of the constants, under the modules' named
assumptions.  `HubAssumption`, `BackpressureAssumption` and the numbers in the others say
that limits and capacities are positive (a bound may be 0) and that items, readers, paths
and loads are well formed.  `WsAssumption` says besides that application, overflow handler,
reconnect tasks and senders are different threads and that a peek is none of the messages;
`SubscriptionsAssumption` and `ResyncAssumption` that the value for "none" is no request and no
data, and that the callers are finitely many, as counts of them occur in the proof; `MarketAssumption` that the
handler of the quote websocket is none of the other tasks that merge; `TargetPosAssumption`
that the handles are finitely many and enough for a task per step of the schedule, and that
the offset priority is what `parse_offset_priority` lets through, which takes no empty group and
no action twice;
`ReplayAssumption` that bars, ticks, requests and what is asked for are well formed, that
the bars of a series are in the order of their times, one at a time (the history comes
through `dedup_sort_klines_by_id`, whose ids follow the times), that every symbol has the bars
that drive its quote, and that no option is its own underlying.

* `EventHubProofs!TypeCorrect`: `Spec => []TypeOK`, including that a journal's head
  never passes its end.
* `EventHubProofs!SingleWriterLosesNothing`: `Spec => []SingleWriterLossless`.  That
  property is not inductive: it needs that a journal with one publisher is sorted
  by sequence number (`Sorted`), that what the publisher still has to write to it
  is ahead of all that is there (`Ahead`), that numbers are bounded by `nextSeq`
  (`SeqBounds`), that a publisher publishes its own items in the journals they
  belong to (`OwnItems`), and that a cursor is the number of an event of its
  journal (`CursorsInLog`).  `LosslessInv` is their conjunction.  The hard
  case is `LosslessPush`: what the three trimming passes remove has been seen by
  every valid reader, or its readers are invalidated.
* `EventHubProofs!LaggedIsNoFalseAlarm`: `Spec => []LaggedMeansLost`.  On top of
  `LosslessInv` it needs where a subscription starts (`StartsAtTail`), that what a reader
  got is what its cursor has passed (`GotSeen`) and that only a subscribed reader reads
  (`OnlyReadersRead`); then a reader that trimming invalidates has lost an event that it
  was owed.  It is stated of journals with one publisher: with two, an event can be
  numbered before and pushed after the subscription.
* `EventHubProofs!JournalIsReliableStream`: `Spec => ImplementsReliableStream`, the
  refinement, when the journal of all events has one publisher.  `StreamInv` is what the
  abstract state stands for: what a reader got is an unbroken run of events from where it
  subscribed (`InOrder`), and its cursor, which is a sequence number, separates what the
  journal still has into what lies before its place and after it (`AtPlace`).  A receive is
  then the delivery of the next event, and the second trimming pass cuts off the readers
  more than `MaxRetained` behind and nobody else; the other two cut nobody off.
* `EventHubProofs!FillsPublishedOnce`: `Spec => []TradeOnce`, for any publishers.
  `TradeInv` says that until the close the de-duplication table has every fill that is in
  the trade journal or carried to it, that at most one publisher carries it, and that
  none does when the journal has it.
* `EventHubProofs!SkippedWereOvertaken`: `Spec => []OnlyOvertakenSkipped`, for any
  publishers.  `Distinct` says that no two events of a journal share a number and none
  still to be written has one that is there; a cursor being the number of an event of its
  journal, what lies behind it and was never delivered stands after a higher number.
* `EventHubProofs!OrdersEndCurrent`: `Spec => []LastOrderIsCurrent`, of an order
  journal with one publisher.  `OrderInv` says where the remembered value of an order is
  until the hub closes: each order event is it, is followed by another of its order, or
  somebody carries one, and what is carried is what is remembered.
* `BackpressureProofs!DrainersExclude` and `!BacklogAttended`: the drain task
  protocol, from `TasksInv`, whose core is that `draining` holds exactly while
  some task is entitled to the backlog.  The proof does not depend on what frames are.
* `BackpressureProofs!FirstLossIsTold`: `Spec => []FirstLossAnnounced`.  `LossInv` adds
  that, while frames are processed, a loss, a set `overflowNotified`, a cut or a later
  connection each imply that the first connection was cut, and that no drain task is
  where it clears the backlog.
* `BackpressureProofs!BufferTyped`, `!LanesInOrder` and `!DiffsConserved`: `Spec => []TypeOK`,
  `[]TwoLanes` and `[]Conserved`.  `FlowInv` says of the five places where a diff can be
  (processed, channel, hands of a task, backlog, the frame at hand) and of those lost that
  together they are all that was received, and in which order they lie: what is in a task's
  hands is older than the backlog, that older than the frame at hand, and all of it newer than
  what went through the backlog before.  That no diff is in two places follows from the order,
  so it is not carried along.  `HandsInv` says who has something in hand, `QueuesInv` that
  frames and queues are in order themselves.
* `WsConnectionProofs!AttemptsKeptApart`: `Spec => []OneDial`.  The bound of one
  attempt plus one for every `close()` that met a reconnect inside `init()` is inductive as
  `DialInv`: there are no more attempts than such calls that have let go of `connecting`,
  plus one while it is set.  A `close()` that has not reached that point must not be counted
  yet, or the reset would let in two; and one that met no reconnect there lets in none,
  because until it resets the flag reconnecting is switched off and nobody gets there
  (`Quiet`).
* `WsConnectionProofs!CriticalStaysOffQueue`: `Spec => []CriticalNeverQueued`.  `CriticalInv`
  says what everybody carries: a flushing thread, the queue and the overflow handler only
  what is not critical, a critical sender only its own message and at steps at which it
  cannot queue it, and a message is written only while its sender is not refused.

* `WsConnectionProofs!WsTypesHold`: `Spec => []TypeOK`.  `CountInv` relates the numbers
  given to connections to the dials made and to those under way; the rest is what each
  kind of thread may be doing (`ThreadInv`) and carrying (`CriticalInv`).
* `WsConnectionProofs!AcceptedStaysAccounted`: `Spec => []AcceptedIsAccounted`.
  `AccountedInv` says where a message is: it is carried by one thread, or once in the
  queue, or written on one connection and then nowhere else.  Whoever takes the queue to
  flush it must have had empty hands (`HandsInv`), or what it held would be lost.
* `WsConnectionProofs!LossesAreAttended` and `!OpenStaysTrue`: `Spec => []LossIsAttended`
  and `Spec => []OpenMeansUp`, from one invariant, `LossInv`.  Attempts are kept apart and
  say so in `connecting` (`Apart`, `Honest`); the one there is holds the connection
  numbered last (`Numbered`); an `Open` status has a live actor or the attempt that is
  about to install it (`LiveOrComing`); and for every connection that is gone somebody is on
  the way (`Attended`).  A thread that is entering `init()` counts for that only while no
  attempt has got past installing its actor: otherwise it finds `connecting` set and turns
  back, and when that actor is lost nobody else might come.  The invariant failed in two
  places when it was first tried, and both were real: see Findings.
* `SubscriptionsProofs!ServerFollowsHolds` (and `!ServerFollowsResync`, for `ResyncSpec`):
  `Spec => []ServerFollows`.  Each request has an age, the number of requests recorded for
  its slot when it was made.  `WireInv` says that whatever is on its way, in a queue, a flush
  or a resend, is the request recorded or an older one (`PoolRight`), and that the one
  recorded last was written on this connection, is on its way, was dropped, or waits for a
  connection to come (`NeverLost`).
* `SubscriptionsProofs!IntentRecordedHolds` (and `!IntentRecordedResync`):
  `Spec => []IntentRecorded`.  `IntentInv` has a part per kind of intent: of a subscription
  whose calls did not overlap there is at most one call under way, and it is about to put the
  table right (`SubsInv`, `ChartInv`); the count of a symbol exceeds its receivers by the
  leaks and by the calls that took one for a receiver still to be made (`CountsInv`); and a
  list as old as the last change of what is wanted is what is wanted, and is recorded
  or about to be (`ListsInv`).
* `SubscriptionsProofs!ResyncedHolds`: `ResyncSpec => []Resynced`.  `AnswersInv` follows what
  the server was told last of a slot: its answer is the newest of the slot in the inbox and no
  notice is behind it, or the inbox has nothing of the slot and the answer is the newest that
  the handler has taken of it: in its hands, kept apart, or published.  `BuffersInv` says that
  what is kept apart is, per slot, the newest of the frames kept, so that merging these frames
  into the published data publishes it; and `WaitsInv` that a handler that waits for the
  answers to be complete has one to come.  With nothing in motion none is to come, so it does
  not wait.
* `MarketProofs!MarketTypesHold`: every variable of `Market` keeps its type.
* `MarketProofs!WatchersToldHolds`: `Spec => []WatchersTold`.  A value that its watcher was
  not told of is carried by the merge that wrote it, while no newer epoch has been taken
  before that merge compares its own with the newest (`WatchInv`).
* `MarketProofs!SeriesCurrentHolds`: `Spec => []SeriesCurrent`.  What was written before its
  epoch was published is newer than all that had been published, hence than what the task
  has processed; `SeriesInv` follows it through the steps of the task's loop.
* `MarketProofs!NewsArrivesHolds`: `Spec => []NewsArrives`.  Epochs and events go together
  (`FeedInv`), epochs that are waited for only grow (`WaitInv`), and an event that the
  collector of drains no longer holds was returned, or a newer one of its key was, unless the
  reader was told that it lagged (`DrainInv`).

* `TradeSessionProofs!SessionTypesHold`: `Spec => []TypeOK`, from `SessionTypesAll`, a
  part per kind of variable.
* `TradeSessionProofs!PositionsHold`: `Spec => []PositionsCurrent`.  `FlowInv` says, of a
  connection that is up and for each step of the processing task, that what the server has
  sent of its positions is exactly what is in the inbox, in the frame at hand, and in the
  buffers or, outside a reconnect, in the merged data (`WaitingInv` before the notice
  is acted on, `BufferInv`, `CompleteInv` while buffers are committed and `DirectInv`).  While
  the buffers are committed the positions known from before, less those the code takes out as
  gone, add nothing to them: that is the one place where stale positions could survive.
* `TradeSessionProofs!ReadyHolds`: `Spec => []ReadyAfterReconnect`.  `ReadyInv` says that the
  watch task has seen, or was told to ignore, all data that are not of this connection, and
  that the flag it sets is taken back by a notice that is still to come; it needs `OnceInv`,
  that a session never closed is watched from before it logs in.  Without `closes = 0` the
  property fails (Findings).

* `TargetPosProofs!AllReportedHolds`: `Spec => []AllReported`.  What a plan decides and what
  volumes are does not matter for it; `ReportInv` follows who holds an order.  Each order of
  a task is over, with all its trades seen, or one of the task's runners looks at it or waits
  for it (`HeldInv`), and runners exist only while a batch runs (`LifeInv`): so `join_all`
  returns, without an error, with every order over.  The registry has the orders of each
  task that has not ended (`OwnersInv`), so `capture_owned_trades` misses none, and it
  forgets a task only after that.  Only handles of one key share an id and the scheduler's
  guard is no task's (`IdsInv`), so ending one task takes nothing from another, and there are
  ids for all (`CountInv`).  `SchedInv` says that the scheduler has the trades of every step
  before the one at hand.
* `TargetPosProofs!NoOvershootHolds` and `!PlanFitsHolds`: `Spec => []NoOvershoot` and
  `Spec => []PlanFits`.  Both follow from one invariant, `AimedInv`.  While no error left an
  order behind and no handles share an id there is one task that has not ended (`AloneInv`), and every
  order is some task's (`OwnedInv`), so with `ReportInv` a plan is made when nothing is working.
  All orders of a plan go in one direction.  Each class of offsets has a room (`Room`): all of
  them together what is missing to the target, those that close what is held in the bucket
  they close.  `Aims` says that the room holds what the runners have still to trade
  (`Wanted`) and the batches to come (`Fits`).  A fill takes as much from what is wanted as from the
  room (`TradedFits`), a retry wants what is left and no more, and a batch that ends only wants
  less.  `PlanIsOK` shows that `compute_plan` starts it off right, group by group and action by
  action.  It needs that no action occurs twice: the second would be planned as if what the
  first is to close were still there.

* `ReplayProofs!ReplayTyped` and `!FrozenHold`: `Spec => []Typed`, `Spec => []FrozenVolumes`.
  `Typed` has what the session, the tasks and the feeds hold at each place, and that the
  broker is `Sound` between two operations: its books balance (`Balanced`, the frozen
  volumes of each side against the sums over the close orders that work), an order that was
  filled is over, and no order is filled twice.  Each operation of the broker has a lemma that says how
  the broker after it follows the one before it: with its settlements and with no trade
  less (`Follows`), with the same trades (`Keeps`), or with one day more settled
  (`Settles`).  The steps of a fold over working orders balance only between two of them, so a
  fold is followed step by step (`Runs`).
* `ReplayProofs!DaysOnce`: `Spec => []DaysSettleOnce`.  `DaysInOrder` says that no settled day
  is later than the clock's, and that the clock's own is settled only if it is the last that
  was; and a quote after a day's end is of a later trading day, weekends and night sessions
  included (`TradingDayFacts`).
* `ReplayProofs!FillsPublished`: `Spec => []FillsArePublished`.  `TradesTold`: the broker's
  trades are those told, those the session is about to publish and those that tasks are.
* `ReplayProofs!BarsOrdered`: `Spec => []BarsInOrder`.  `Tracked` says that each of the kernel's
  feeds is what is left of the events of one registered feed, no two of the same, and that the
  rows of a series are what the events its feed has delivered make them (`RowsAt`): an odd
  number of them leaves the last bar open, an even one closes it.  A step applies the events of all
  feeds that are due one after another, so the rows are followed feed by feed and in each event by
  event (`Stage`, `FlattenPlaces`); a feed that is asked for late is not registered yet, and
  starts with all its events before it (`MissingFresh`).

The library's induction theorems cannot be instantiated here, but where the proofs above need
what a recursive definition computes (a batch of frames in `Backpressure`, the fold over the
frames kept apart in `Resync`, the folds over orders, quotes, events and trades in `Replay`,
the plan and the sums over orders in `TargetPos`) they take the least number for which it fails
(`LeastElement`, from the well-foundedness of `<`).

Only model-checked: liveness under fairness and `ENABLED` (`FlushCompletes` among it),
which the prover does not reach; the module `History`, whose properties rest on what
sorting, merging ranges and paging compute of a file, an induction over its data; and of
the replay `MoneyConserved`, which holds of prices whose averages are whole numbers and so
of no arbitrary constants, and `ReportExplainsMoney`, which rests on it.

## Findings

The two that a run shows (`PROJECT.json` quotes the documentation they contradict):

1. `websocket/core.rs:399` (`AutoReconnect`): after one failed reconnect attempt
   `status` stays `Connecting`; the loop takes the next `init()`'s early return for
   success, and nobody reconnects any more.
2. `cache/data_series.rs:552` (`RequestEnds`): the last cached bar does not count as
   cached, so that a window of a single bar is downloaded and stored for ever.

Three more that TLC found with the properties named, which the modules still define
and the runs do not check:

3. `trade_session/events.rs:264` (`EventHub!NothingSkipped`): the number is taken
   outside the journal's lock, so with two publishers of one journal an event can be
   skipped without `Lagged`.  A live session has two on `all`: the watch task, and the
   notification and error callbacks.
   `src/docs/archive/superpowers/specs/2026-04-11-trade-session-reliable-events-design.md:273`
   promises that loss is explicit rather than silent.  `OnlyOvertakenSkipped` is what holds.
4. `websocket/backpressure.rs:107` (`Backpressure!BacklogIsBounded`): merging into the
   backlog's tail escapes its bound (`src/README.md:16`).
5. `trade_session/watch.rs:24` (`TradeSession!ReadyIsCurrent`): after `close()` and
   `connect()` the new watch task starts at epoch 0 on the old data, and the session is
   ready at once (`src/README.md:565`).  `ReadyAfterReconnect` is what holds.

Further facts that TLC or the translation established, which the properties therefore
do not claim; where a property has an exception, it is one of these.

Events, backlog, connection, session:

* with two publishers a fresh subscriber may be handed an event numbered before it
  subscribed; a publish call that overlaps `close()` can refill the de-duplication tables;
* a frame sent to the channel directly may overtake older ones in the backlog, so the
  newest value is not always merged last; an overflow on a second connection may drop a
  frame without cutting it (`overflow_notified` is reset only when the backlog has been empty);
* a dial in flight during `close()` may open a connection after it; a peek that fails at
  the end of `init()` leaves `connecting` set, and later calls return Ok without connecting;
* a `close()` that runs while a reconnect is inside `init()` resets `connecting` under it: a
  second attempt may run beside the first, the status be `Open` with the actor of neither,
  and a later loss be attended to by nobody (`cuts`).  A `close()` that meets no reconnect
  there does none of this, whatever else it crosses;
* two reconnect loops share `reconnect_times`: one may count the other's attempts and give
  up while the connection is wanted (`failed`);
* frames of a trade reconnect that breaks may be merged directly, so that the main data
  mixes two connections until the next snapshot is complete
  (`src/docs/architecture.md:117` describes reconnect data as merged as a whole);
* `wait_order_update_reliable` (`trade_session/core.rs:316`) subscribes after its caller
  has looked at the order; one that finishes in between is waited for without end.

Subscriptions and resynchronisation:

* a resend after a reconnect may be written after a newer request (`Overtaken`), or a full
  queue drop one (`dropped`); if the server's last list is not the recorded one,
  `is_md_reconnect_complete` stays false and all market data is held back;
* two callers may record their lists in the other order (`Late`); a call that crosses a
  `close()` of the same subscription puts it back in the table (`crossed`);
* a chart whose cancel could not be sent stays with the server if an older resend of it
  is written later;
* the close handler clears the buffers while the message handler works, so that leftover
  frames of a broken resynchronisation may be merged directly;
* a trading status call whose send failed leaks its count (`leaked`);
* a loss while nobody has an interest ends automatic reconnecting of the quote
  connection; what is subscribed later is queued (`websocket/quote.rs:503`);
* `close()` beside `refresh()` of a series may leave it running without a task.

Market data:

* a merge publishes the newest epoch taken, whose merge may not have been written, and
  an older epoch may be published last: the series task then waits for the next merge
  (`SeriesCurrent`'s exceptions);
* two merges before `notify_watchers` runs hide the first from its watcher
  (`datamanager/watch.rs:44` compares for equality; `crowded`).

History:

* if the first missing range is empty (a weekend), the loop stops and what is missing
  after it is never downloaded, though the result is Ok (`gaveUp`);
* a bar that was still growing when a later range was stored stays in the cache as it was
  (`frozen`, `stale`); two requests at once may store ranges that shadow each other;
* eviction takes no lock between processes, and evicts a file whose rows another's name
  claims: holes without an error (`gone`, `lost`); a crash in a merge leaves its temporary
  file behind, after the files it has merged were removed;
* a result may have one bar before the window (intended: the bar the start falls in).

Target positions:

* of two targets at once the older may be sent last (`Overtaken`); one that is set while
  the replay's flush runs is observed only by the next (`Late`); a call may come too late
  for its task (`Orphan`).  The flush then waits for ever: `Crossed`;
* handles with the same configuration share a task id while each has its task
  (`Sharing`): the properties of one task's orders do not hold of such handles.

Replay and report, option queries:

* cancels at a settlement are not published; quotes of one instant overwrite each other's
  paths; two registrations that cross in an await deliver the events of a feed twice;
* the report pairs lots over all accounts and takes balances from the first;
* several options of one strike count as levels of their own; expired ones are only
  filtered when months are asked for or the caller says so.

Conversely, the concern in
`src/docs/archive/2026-04-15-design-perf-audit/review-2026-04-15-design-perf-audit-kiro.md:131`
that several drain tasks may work at once is refuted by `OneDrainer` and its proof.

## Not modelled

Of the modelled parts:

* connection: idle detection (an idle timeout is one of the losses), rate limits, TLS;
  the spreading of reconnects over a maintenance window, which only chooses a delay;
* trade session: brokers and settlement information, the confirmation of a settlement,
  getters; the first connection of a quote websocket, whose answers are merged directly;
* subscriptions: `quote_subscribe_only_add`, pending instrument queries (one that times
  out is never removed), the mapping from options to underlyings, and more than one resend
  task of each kind at a time;
* data manager: the structure of the tree, derived fields, merges without an epoch, the
  focus of history charts;
* history: the binary layout of rows, dividend adjustments, assembly of realtime charts;
* target positions: prices (a quote may make any working order's price the worse one),
  steps that pause, deadlines in trading time, manual order guards beyond the conflict with a task,
  the ungated live mode (the replay's gate is the one modelled);
* replay: aligned series in the kernel, auxiliary data by day, loading of history; the
  annualized figures, Sharpe and Sortino ratios of the report (roots and powers).

Whole parts, left aside for good because they are I/O or pure conversion without state
that outlives a call: types, client facade, authentication, query texts and symbol
parsing of the instrument services, download of CSV files, DataFrames, logging,
decoding of websocket messages.  `PROJECT.json` gives the reason for each component.

What would extend the project most: a composition of `Backpressure` and `TradeSession`, so
that an overflow is one of the losses; and the live adapter's order wait in `TargetPos`.
