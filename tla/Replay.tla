------------------------------- MODULE Replay -------------------------------
(* A replay: the kernel that takes the events of its feeds in the order of    *)
(* time (replay/kernel.rs, feed.rs), the quotes synthesized from them         *)
(* (replay/quote.rs), the session that steps it and settles its days          *)
(* (replay/session.rs), and the runtime's access to the simulated broker      *)
(* (replay/runtime.rs), which other tasks use while the session steps.        *)
(*                                                                            *)
(* The session's methods take &mut self and exclude each other; the tasks'    *)
(* calls interleave with them at every lock.  Target position tasks, which    *)
(* step() waits for first, are TargetPos's subject.                           *)
(* A definition marked "mutant" is a deliberately broken form of the one      *)
(* after it; no other definition uses it.                                     *)
EXTENDS SimBroker

CONSTANTS
    Tasks,              \* callers of the runtime's insert_order and cancel_order
    Bars,               \* history of each <<symbol, duration>>: [t, open, high, low, close]
    Ticks,              \* history of each symbol: [t, last, ask, bid]
    ImplicitDuration,   \* the bars that drive quotes nobody asked a series for
    Asks,               \* what the application asks the session for: [symbol, dur, source]
    Requests,           \* the orders tasks insert
    Width,              \* rows a series keeps
    MaxOrders           \* BOUND: orders inserted

(* load_klines brings the bars sorted by their ids, which follow their times, *)
(* and one bar of an id (dedup_sort_klines_by_id).  No option is its own      *)
(* underlying.                                                                *)
ASSUME ReplayAssumption ==
    /\ \A f \in DOMAIN Bars :
          /\ f \in Symbols \X (Nat \ {0})
          /\ Bars[f] \in Seq([t : Int, open : Int, high : Int, low : Int, close : Int])
          /\ \A i, k \in DOMAIN Bars[f] : i < k => Bars[f][i].t < Bars[f][k].t
    /\ DOMAIN Ticks = Symbols
    /\ \A s \in Symbols :
          /\ <<s, ImplicitDuration>> \in DOMAIN Bars /\ Meta[s].underlying # s
          /\ Ticks[s] \in Seq([t : Int, last : Int, ask : Int \cup {NoPrice}, bid : Int \cup {NoPrice}])
    /\ \A q \in Asks : q.symbol \in Symbols /\ (q.dur = 0 \/ <<q.symbol, q.dur>> \in DOMAIN Bars)
    /\ Requests \subseteq [symbol : Symbols, dir : {"BUY", "SELL"}, offset : {"OPEN", "CLOSE", "CLOSETODAY"},
                           price : Int \cup {NoPrice}, volume : Nat \ {0}]
    /\ NoPrice \notin [day : Int, end : Int]
    /\ Width \in Nat \ {0} /\ MaxOrders \in Nat

VARIABLES
    feeds,      \* the kernel's feeds: what each has still to deliver
    registered, \* registered_feeds; duration 0 is the ticks
    selected,   \* the source of each symbol's quote, as its priority
    visible,    \* the synthesizer's quote of each symbol
    rows,       \* the series store and the handles' windows of bars
    market,     \* ReplayMarketState: known symbols, quotes, which are active
    broker,     \* the broker of the runtime; NoBroker before runtime()
    clock,      \* active trading day and its end
    session,    \* where the session is in a method
    task,       \* where each task is in a call
    told        \* what the event hubs have published of orders and trades

kernel == <<feeds, selected, visible, rows>>
vars == <<kernel, registered, market, broker, clock, session, task, told>>

None == NoPrice
NoBroker == <<>>
Idle == [at |-> "idle"]

-----------------------------------------------------------------------------
(* Feeds. *)

(* A bar is seen twice: open, with its open price only, and closed.  A daily  *)
(* bar opens and closes with the sessions of its trading day.                 *)
OpenTime(bar, d) == IF d < Day THEN bar.t ELSE TradingDayStart(bar.t)
CloseTime(bar, d) == IF d < Day THEN bar.t + d - 1 ELSE TradingDayStart(bar.t + d) - 1

BarEvents(s, d) ==
    FlattenSeq([i \in DOMAIN Bars[s, d] |->
        LET bar == Bars[s, d][i] IN
        <<[kind |-> "open", symbol |-> s, dur |-> d, t |-> OpenTime(bar, d), bar |-> bar],
          [kind |-> "close", symbol |-> s, dur |-> d, t |-> CloseTime(bar, d), bar |-> bar]>>])
TickEvents(s) ==
    [i \in DOMAIN Ticks[s] |-> [kind |-> "tick", symbol |-> s, dur |-> 0, t |-> Ticks[s][i].t, bar |-> Ticks[s][i]]]
FeedEvents(f) == IF f[2] = 0 THEN TickEvents(f[1]) ELSE BarEvents(f[1], f[2])

Pending == {k \in DOMAIN feeds : feeds[k] # <<>>}
NextTime == Min({Head(feeds[k]).t : k \in Pending})

(* What a feed delivers at an instant, events of it until one is of another,   *)
(* and what it keeps.                                                         *)
DueCount(k, t) == Max({n \in 0 .. Len(feeds[k]) : \A i \in 1 .. n : feeds[k][i].t = t})
Due(k, t) == SubSeq(feeds[k], 1, DueCount(k, t))
Rest(k, t) == SubSeq(feeds[k], DueCount(k, t) + 1, Len(feeds[k]))

-----------------------------------------------------------------------------
(* Quotes from ticks and bars. *)

(* selection_priority, which is also what identifies a selection. *)
TickSource == <<2, 0>>
BarSource(d) == <<1, -d>>
ImplicitSource == <<0, 0>>
NoSource == <<-1, 0>>
Prefer(a, b) == IF b[1] > a[1] \/ (b[1] = a[1] /\ b[2] > a[2]) THEN b ELSE a

Source(e) == IF e.kind = "tick" THEN TickSource ELSE BarSource(e.dur)

BarQuote(s, t, price) ==
    [t |-> t, last |-> price, ask |-> price + Meta[s].tick, bid |-> price - Meta[s].tick]
PathOf(e) ==
    CASE e.kind = "tick" -> <<[t |-> e.t, last |-> e.bar.last, ask |-> e.bar.ask, bid |-> e.bar.bid]>>
      [] e.kind = "open" -> <<BarQuote(e.symbol, e.t, e.bar.open)>>
      [] OTHER -> [i \in 1 .. 4 |-> BarQuote(e.symbol, e.t,
                       <<e.bar.open, e.bar.high, e.bar.low, e.bar.close>>[i])]

(* A closed bar replaces its opening row; an opening row is new. *)
BarRow(e) == [t |-> e.bar.t, closed |-> e.kind = "close"]
Windowed(seq) == SubSeq(seq, Max({1, Len(seq) - Width + 1}), Len(seq))
PushAlways(seq, row) == Windowed(Append(seq, row))                  \* mutant
PushRow(seq, row) ==
    IF row.closed /\ seq # <<>> /\ Last(seq).t = row.t
    THEN [seq EXCEPT ![Len(seq)] = row]
    ELSE Windowed(Append(seq, row))

(* apply_event, on the part of the kernel's state that events change.  The    *)
(* event's path replaces one the symbol already has at this instant, and that *)
(* of a bar whose source is not selected is empty.                            *)
ApplyEvent(k, e) ==
    LET s == e.symbol
        chosen == Prefer(k.selected[s], Source(e))
        hit == chosen = Source(e)
        path == PathOf(e)
    IN  [selected |-> [k.selected EXCEPT ![s] = chosen],
         visible |-> IF hit THEN [k.visible EXCEPT ![s] = Last(path)] ELSE k.visible,
         paths |-> [k.paths EXCEPT ![s] = IF hit \/ e.kind = "tick" THEN path ELSE <<>>],
         rows |-> IF e.kind = "tick" THEN k.rows
                  ELSE [k.rows EXCEPT ![<<s, e.dur>>] = PushRow(@, BarRow(e))],
         updated |-> IF hit /\ ~Contains(k.updated, s) THEN Append(k.updated, s) ELSE k.updated]

AfterEvents(events) ==
    FoldLeft(ApplyEvent,
             [selected |-> selected, visible |-> visible, paths |-> [s \in Symbols |-> <<>>],
              rows |-> rows, updated |-> <<>>],
             events)

-----------------------------------------------------------------------------
(* Registering symbols and feeds: ReplayBootstrapper. *)

(* The symbols an operation on s makes known: an option brings its underlying. *)
Underlying(s) == IF IsOption(s) /\ Meta[s].underlying # None THEN <<Meta[s].underlying>> ELSE <<>>

(* The feeds ensure_quote_driver, kline and tick need, in their order. *)
FeedsFor(s, d) == Append([i \in DOMAIN Underlying(s) |-> <<Underlying(s)[i], ImplicitDuration>>], <<s, d>>)

SeedQuote(f) ==
    IF f[2] = 0 THEN PathOf(TickEvents(f[1])[1])[1]
    ELSE BarQuote(f[1], OpenTime(Bars[f][1], f[2]), Bars[f][1].open)

Missing(fs) == FlattenSeq([i \in DOMAIN fs |-> IF fs[i] \in registered THEN <<>> ELSE <<fs[i]>>])

(* ensure_symbol, ensure_kline_feed and ensure_tick_feed: what is missing is  *)
(* loaded and pushed, starting where the replay did, whatever time it is now; *)
(* a symbol without a quote shows its feed's first one, inactive.             *)
Seeded(m, f) ==
    IF m.quotes[f[1]] # None \/ FeedEvents(f) = <<>> THEN m
    ELSE [m EXCEPT !.quotes[f[1]] = SeedQuote(f), !.active = @ \ {f[1]}]

Ensure(fs, s, source) ==
    LET symbols == {fs[i][1] : i \in DOMAIN fs} IN
    /\ feeds' = feeds \o [i \in DOMAIN Missing(fs) |-> FeedEvents(Missing(fs)[i])]
    /\ registered' = registered \cup ToSet(fs)
    /\ market' = [FoldLeft(Seeded, market, Missing(fs)) EXCEPT !.known = @ \cup symbols]
    /\ selected' = [x \in Symbols |->
          LET shown == IF x \in symbols \ market.known THEN Prefer(selected[x], ImplicitSource)
                       ELSE selected[x]
          IN  IF x = s THEN Prefer(shown, source) ELSE shown]

Registered(b, s) == FoldLeft(RegisterSymbol, b, <<s>> \o Underlying(s))

-----------------------------------------------------------------------------
(* The session's methods: quote, kline, tick, runtime, step, finish. *)

Init ==
    /\ feeds = <<>> /\ registered = {}
    /\ selected = [s \in Symbols |-> NoSource]
    /\ visible = [s \in Symbols |-> None]
    /\ rows = [f \in DOMAIN Bars |-> <<>>]
    /\ market = [known |-> {}, quotes |-> [s \in Symbols |-> None], active |-> {}]
    /\ broker = NoBroker /\ clock = None
    /\ session = Idle
    /\ task = [t \in Tasks |-> Idle]
    /\ told = [orders |-> <<>>, trades |-> <<>>]

(* quote, kline, tick: the feeds, the broker's metadata, and the source that  *)
(* the handle registers with the synthesizer.  The awaits of the history are  *)
(* not steps of their own: two calls that load the same feed at once push it  *)
(* twice, which delivers its events twice.                                    *)
Ask(s, d, source) ==
    /\ session = Idle
    /\ Ensure(FeedsFor(s, d), s, source)
    /\ broker' = IF broker = NoBroker THEN broker ELSE Registered(broker, s)
    /\ UNCHANGED <<visible, rows, clock, session, task, told>>

Runtime ==
    /\ session = Idle /\ broker = NoBroker
    /\ broker' = [NewBroker EXCEPT !.meta = market.known]
    /\ UNCHANGED <<kernel, registered, market, clock, session, task, told>>

StepGoesOn(todo, paths) ==
    IF todo = <<>> THEN Idle ELSE [at |-> "quotes", todo |-> todo, paths |-> paths]

(* kernel.step(), under the kernel's lock. *)
Step ==
    /\ session = Idle /\ Pending # {}
    /\ LET t == NextTime
           after == AfterEvents(FlattenSeq([k \in DOMAIN feeds |-> Due(k, t)]))
       IN  /\ feeds' = [k \in DOMAIN feeds |-> Rest(k, t)]
           /\ selected' = after.selected
           /\ visible' = after.visible
           /\ rows' = after.rows
           /\ session' = StepGoesOn(after.updated, after.paths)
    /\ UNCHANGED <<registered, market, broker, clock, task, told>>

(* advance_trading_day_clock: a quote later than the active day ends it. *)
DayOf(t) == [day |-> TradingDay(t), end |-> TradingDayEnd(TradingDay(t))]
DayEnds(t) == clock # None /\ t > clock.end

(* The day's end settles the broker before the market shows the quote. *)
StepQuote ==
    /\ session.at = "quotes"
    /\ LET s == Head(session.todo)
           t == visible[s].t
       IN  /\ broker' = IF DayEnds(t) /\ broker # NoBroker THEN SettleDay(broker, clock.day) ELSE broker
           /\ clock' = IF clock = None \/ DayEnds(t) THEN DayOf(t) ELSE clock
           /\ market' = [market EXCEPT !.quotes[s] = visible[s], !.active = @ \cup {s}]
    /\ session' = [session EXCEPT !.at = "broker"]
    /\ UNCHANGED <<kernel, registered, task, told>>

(* What an operation on the broker changed, to be published after its lock is *)
(* released: the orders whose state is another, the trades that are new.      *)
ChangesButOne(b, c) ==                                              \* mutant
    [orders |-> [i \in DOMAIN c.orders |-> c.orders[i].status],
     trades |-> SubSeq(c.trades, Len(b.trades) + 2, Len(c.trades))]
Changes(b, c) ==
    [orders |-> [i \in {j \in DOMAIN c.orders : j \notin DOMAIN b.orders \/ b.orders[j] # c.orders[j]} |->
                    c.orders[i].status],
     trades |-> SubSeq(c.trades, Len(b.trades) + 1, Len(c.trades))]
NoChanges == [orders |-> [i \in {} |-> ""], trades |-> <<>>]

(* The hub keeps what was published last of an order, and trades once. *)
Announced(trades, t) == IF Contains(trades, t) THEN trades ELSE Append(trades, t)
Publish(changes) ==
    told' = [orders |-> changes.orders @@ told.orders,
             trades |-> FoldLeft(Announced, told.trades, changes.trades)]

Matching == session.paths[Head(session.todo)]
StepBroker ==
    /\ session.at = "broker"
    /\ LET s == Head(session.todo)
           after == IF broker = NoBroker THEN broker ELSE ApplyPath(broker, s, Matching)
       IN  /\ broker' = after
           /\ session' = [at |-> "publish", todo |-> session.todo, paths |-> session.paths,
                           changes |-> IF broker = NoBroker THEN NoChanges ELSE Changes(broker, after)]
    /\ UNCHANGED <<kernel, registered, market, clock, task, told>>

StepPublishes ==
    /\ session.at = "publish"
    /\ Publish(session.changes)
    /\ session' = StepGoesOn(Tail(session.todo), session.paths)
    /\ UNCHANGED <<kernel, registered, market, broker, clock, task>>

(* finish() settles the day under way; the session may go on after it. *)
Finish ==
    /\ session = Idle
    /\ broker # NoBroker /\ clock # None
    /\ broker' = SettleDay(broker, clock.day)
    /\ UNCHANGED <<kernel, registered, market, clock, session, task, told>>

-----------------------------------------------------------------------------
(* The tasks' calls: insert_order_internal and cancel_order. *)

(* The feeds are ensured and the quotes read before the broker's lock is      *)
(* taken: the session may step between.  The caller of                        *)
(* insert_order_with_quote_hint brings the quote it has seen, and its order   *)
(* may be matched by one that is only a preview.                              *)
InsertReads(t) ==
    /\ task[t] = Idle /\ broker # NoBroker /\ Len(broker.orders) < MaxOrders
    /\ \E a \in Accounts, req \in Requests, hinted \in BOOLEAN :
         LET s == req.symbol IN
         /\ hinted => market.quotes[s] # None
         /\ Ensure(FeedsFor(s, ImplicitDuration), s, ImplicitSource)
         /\ broker' = Registered(broker, s)
         /\ task' = [task EXCEPT ![t] =
               [at |-> "insert", account |-> a, req |-> req, shown |-> market'.quotes[s],
                match |-> IF hinted \/ s \in market'.active THEN market'.quotes[s] ELSE None,
                under |-> [i \in DOMAIN Underlying(s) |-> market'.quotes[Underlying(s)[i]]]]]
    /\ UNCHANGED <<visible, rows, clock, session, told>>

(* The broker's lock: the quotes that were read become the broker's, the     *)
(* order goes in, and all of the symbol's orders meet the quote at once.     *)
Synced(b, s, q) == IF q = None THEN b ELSE SyncQuote(b, s, q)
Inserted(b, op) ==
    LET s == op.req.symbol
        under == IF op.under = <<>> THEN b ELSE Synced(b, Underlying(s)[1], op.under[1])
    IN  InsertOrder(Synced(under, s, op.shown), op.account, op.req)

InsertOrderIn(t) ==
    /\ task[t].at = "insert"
    /\ LET op == task[t]
           inserted == Inserted(broker, op)
           id == Len(inserted.orders)
           after == IF op.match = None THEN inserted ELSE ApplyQuote(inserted, op.req.symbol, op.match)
       IN  /\ broker' = after
           /\ task' = [task EXCEPT ![t] =
                 [at |-> "publish", order |-> id, status |-> inserted.orders[id].status,
                  changes |-> Changes(inserted, after)]]
    /\ UNCHANGED <<kernel, registered, market, clock, session, told>>

(* The order as it went in, then what its match changed. *)
TaskPublishes(t) ==
    /\ task[t].at = "publish"
    /\ Publish([task[t].changes EXCEPT !.orders = @ @@ (task[t].order :> task[t].status)])
    /\ task' = [task EXCEPT ![t] = Idle]
    /\ UNCHANGED <<kernel, registered, market, broker, clock, session>>

(* Of an order that is over, cancel_order only publishes the state again.     *)
Cancel(t) ==
    /\ task[t] = Idle /\ broker # NoBroker
    /\ \E i \in DOMAIN broker.orders :
         /\ i \in DOMAIN told.orders => told.orders[i] # "FINISHED"
         /\ broker' = CancelOrder(broker, i)
         /\ task' = [task EXCEPT ![t] = [at |-> "publish", order |-> i, status |-> "FINISHED", changes |-> NoChanges]]
    /\ UNCHANGED <<kernel, registered, market, clock, session, told>>

-----------------------------------------------------------------------------
SessionStep ==
    \/ \E q \in Asks : Ask(q.symbol, q.dur, q.source)
    \/ Runtime \/ Step \/ StepQuote \/ StepBroker \/ StepPublishes
    \/ Finish

TaskStep(t) == InsertReads(t) \/ InsertOrderIn(t) \/ TaskPublishes(t) \/ Cancel(t)

Next == SessionStep \/ \E t \in Tasks : TaskStep(t)

Spec == Init /\ [][Next]_vars

-----------------------------------------------------------------------------
(* Properties. *)

(* Whatever orders tasks insert and cancel while quotes fill them and days    *)
(* are settled, a position's frozen volume is what its working close orders   *)
(* will take, and never more than there is (replay/sim.rs).                   *)
FrozenVolumes == broker # NoBroker => FrozenIsClosing(broker)

(* No money is made or lost: the balance is the initial one, what the trades  *)
(* paid and received, and what the positions are worth at their last price    *)
(* (replay/sim.rs).                                                           *)
MoneyConserved == broker # NoBroker => ExactAverages(broker) /\ MoneyBalances(broker)

(* Each trading day is settled once, in order, although finish() may be       *)
(* followed by steps, and late feeds take the replay back to where it began.  *)
DaysSettleOnce ==
    broker # NoBroker =>
        \A i, k \in DOMAIN broker.settlements :
            i < k => broker.settlements[i].day < broker.settlements[k].day

(* Every fill is published, once, whoever of the session and the tasks made   *)
(* it, whether the order was its own or another task's; no order is filled    *)
(* twice, by whose id the hub tells trades apart (replay/runtime.rs, sim.rs). *)
Quiet == session = Idle /\ \A t \in Tasks : task[t] = Idle
FillsArePublished ==
    /\ broker # NoBroker /\ Quiet => ToSet(told.trades) = ToSet(broker.trades)
    /\ IsInjective(told.trades)
    /\ broker # NoBroker =>
          \A i, k \in DOMAIN broker.trades : broker.trades[i].order = broker.trades[k].order => i = k

(* A series shows each bar once and in order, all but the last one closed.    *)
BarsInOrder ==
    \A f \in DOMAIN Bars :
        \A i, k \in DOMAIN rows[f] : i < k => rows[f][i].t < rows[f][k].t /\ rows[f][i].closed
=============================================================================
