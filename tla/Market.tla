------------------------------- MODULE Market -------------------------------
(* Market data on its way from the websockets to the readers.                 *)
(*                                                                            *)
(* One DataManager is shared by every websocket of a client: the message      *)
(* handler of the quote websocket (Handler), the handlers of the trade        *)
(* sessions and the callback of the trading status (Others) all merge into    *)
(* it, each from a task of its own (datamanager/merge.rs).  A merge takes an  *)
(* epoch, writes under the data lock, publishes the newest epoch taken and    *)
(* notifies the path watchers.  The task of a series subscription follows the *)
(* published epochs (series/subscription.rs).  The handler of the quote       *)
(* websocket then copies what changed into the MarketDataState                *)
(* (marketdata/mod.rs), where TqApi and the references wait for news.         *)
(*                                                                            *)
(* Values are version numbers: the n-th write of a path gives it the value n. *)
EXTENDS Integers, Sequences, FiniteSets, FiniteSetsExt, Functions

CONSTANTS
    Handler,    \* the message handler of the quote websocket
    Others,     \* the other tasks that merge; each owns one subtree
    Loads,      \* the loads explored (a bound): the sets of paths a frame of the
                \*   quote websocket may touch, how many frames each task merges,
                \*   which watchers register, whether a series is followed, how
                \*   many calls each user makes, whether the market is closed
    Watchers,   \* path watchers, and the path each one watches
    WatchOf,
    BoxSize,    \* watch_channel_capacity (1024 in the code)
    MaxFulls,   \* MAX_CONSECUTIVE_FULL_WATCHER_SENDS (16 in the code)
    Users,      \* tasks that call wait_update, and what each one waits on:
    On,         \*   "all" for TqApi, a key for a QuoteRef or KlineRef
    Retained    \* capacity of the channel of update events (65536 in the code)

Keys == {"quote", "kline"}
Paths == Keys \cup {"chart"} \cup Others
Mergers == {Handler} \cup Others
Slots == Keys \cup {"all"}

ASSUME MarketAssumption ==
    /\ Handler \notin Others
    /\ \A l \in Loads : \A paths \in l.frames : paths \subseteq Paths
    /\ WatchOf \in [Watchers -> Paths] /\ On \in [Users -> Slots]
    /\ {BoxSize, MaxFulls, Retained} \subseteq Nat \ {0}

VARIABLES
    load,       \* the load of this behaviour
    epoch,      \* DataManager.epoch: the newest epoch taken
    published,  \* DataManager.epoch_tx: its value and how often it was sent, and
                \*   (history) the newest epoch it has had
    data,       \* per path its value and its _epoch
    chartReady, \* chart.ready /\ ~chart.more_data
    merge,      \* per merging task: the merge it is in
    merged,     \* how many merges each task began
    watch,      \* per watcher: its registration, its channel, its failed sends
    series,     \* the watch task of a series subscription
    entries,    \* MarketDataState: per key its value and its epoch
    feed,       \* the update events sent: the n-th has epoch n, feed[n] its key
    globalTx,   \* MarketDataState.global_tx
    api,        \* TqApi: seen epochs, the receiver of events, the event kept
    user,       \* per user: the call it is in
    active,
    closed,
    seenMost,   \* history: the highest epoch handed out per slot
    reported,   \* history: the newest event of each key a drain returned
    early,      \* history: paths written after their epoch, or a newer one, was
                \*   published
    crowded     \* history: paths whose merge overlapped another one's epoch

dmVars == <<load, epoch, published, data, chartReady, merged, early, crowded>>
stateVars == <<entries, feed, globalTx>>
apiVars == <<api, user, active, closed, seenMost, reported>>
vars == <<dmVars, merge, watch, series, stateVars, apiVars>>

NoMerge == [pc |-> "idle", at |-> 0, paths |-> {}, got |-> 0]

Init ==
    /\ load \in Loads
    /\ epoch = 0
    /\ published = [epoch |-> 0, sent |-> 0, most |-> 0]
    /\ data = [p \in Paths |-> [val |-> 0, epoch |-> 0]]
    /\ chartReady = FALSE
    /\ merge = [m \in Mergers |-> NoMerge]
    /\ merged = [m \in Mergers |-> 0]
    /\ watch = [w \in Watchers |->
                  [state |-> "none", since |-> 0, told |-> 0, box |-> <<>>, fulls |-> 0]]
    /\ series = [pc |-> "look", cur |-> 0, seen |-> 0, last |-> 0,
                 changed |-> FALSE, shown |-> 0]
    /\ entries = [k \in Keys |-> [val |-> 0, epoch |-> 0]]
    /\ feed = <<>>
    /\ globalTx = 0
    /\ api = [seen |-> [s \in Slots |-> 0], pos |-> 0, pending |-> 0, drained |-> 0,
              lagged |-> FALSE]
    /\ user = [u \in Users |-> [pc |-> "idle", cur |-> 0, ver |-> 0, calls |-> 0]]
    /\ active = TRUE
    /\ closed = FALSE
    /\ seenMost = [s \in Slots |-> 0]
    /\ reported = [k \in Keys |-> 0]
    /\ early = {}
    /\ crowded = {}

-----------------------------------------------------------------------------
(* DataManager::merge_data                                                    *)

AtStep(m, pc) == merge[m].pc = pc
Goto(m, pc) == merge' = [merge EXCEPT ![m].pc = pc]

(* The paths of the merges that have taken an epoch and not yet compared it   *)
(* with the newest one.                                                       *)
Overlapped(m) ==
    UNION {merge[n].paths : n \in {o \in Mergers \ {m} :
                                     merge[o].pc \in {"write", "load", "publish", "look"}}}

FramesOf(m) == IF m = Handler THEN load.frames ELSE {{m}}

(* The epoch is taken before the lock.                                        *)
TakeEpoch(m) ==
    /\ AtStep(m, "idle") /\ merged[m] < load.merges[m]
    /\ epoch' = epoch + 1
    /\ merged' = [merged EXCEPT ![m] = @ + 1]
    /\ \E paths \in FramesOf(m) :
          merge' = [merge EXCEPT ![m] = [pc |-> "write", at |-> epoch + 1,
                                         paths |-> paths, got |-> 0]]
    /\ crowded' = crowded \cup Overlapped(m)
    /\ UNCHANGED <<load, published, data, chartReady, early, watch, series, stateVars, apiVars>>

(* A source that is neither an array nor an object is refused, its epoch is   *)
(* gone.  The handler of the quote websocket only passes arrays.              *)
RefuseSource(m) ==
    /\ m # Handler
    /\ AtStep(m, "idle") /\ merged[m] < load.merges[m]
    /\ epoch' = epoch + 1
    /\ merged' = [merged EXCEPT ![m] = @ + 1]
    /\ crowded' = crowded \cup Overlapped(m)
    /\ UNCHANGED <<load, published, data, chartReady, early, merge, watch, series, stateVars, apiVars>>

(* merge_into under the write lock: every object touched gets the epoch.      *)
Stamped(m) ==
    [p \in Paths |-> IF p \in merge[m].paths
                       THEN [val |-> data[p].val + 1, epoch |-> merge[m].at]
                       ELSE data[p]]

Write(m) ==
    LET touched == merge[m].paths IN
    /\ AtStep(m, "write")
    /\ data' = Stamped(m)
    /\ \/ "chart" \in touched /\ chartReady' \in BOOLEAN
       \/ "chart" \notin touched /\ UNCHANGED chartReady
    /\ Goto(m, "load")
    /\ early' = (early \ touched)
                  \cup (IF published.most >= merge[m].at THEN touched ELSE {})
    /\ crowded' = (crowded \ touched)
                    \cup (IF epoch # merge[m].at THEN touched ELSE {})
    /\ UNCHANGED <<load, epoch, published, merged, watch, series, stateVars, apiVars>>

(* "The latest completed epoch" is the newest one taken.                      *)
Completed(m) == epoch

LoadEpoch(m) ==
    /\ AtStep(m, "load")
    /\ merge' = [merge EXCEPT ![m].pc = "publish", ![m].got = Completed(m)]
    /\ UNCHANGED <<dmVars, watch, series, stateVars, apiVars>>

Publish(m) ==
    /\ AtStep(m, "publish")
    /\ published' = [epoch |-> merge[m].got, sent |-> published.sent + 1,
                     most |-> Max({published.most, merge[m].got})]
    /\ Goto(m, "look")
    /\ UNCHANGED <<load, epoch, data, chartReady, merged, early, crowded, watch, series,
                   stateVars, apiVars>>

-----------------------------------------------------------------------------
(* Path watchers                                                              *)

Register(w) ==
    /\ w \in load.watchers /\ watch[w].state = "none"
    /\ watch' = [watch EXCEPT ![w].state = "on", ![w].since = data[WatchOf[w]].val]
    /\ UNCHANGED <<dmVars, merge, series, stateVars, apiVars>>

Receive(w) ==
    /\ watch[w].box # <<>>
    /\ watch' = [watch EXCEPT ![w].box = Tail(@)]
    /\ UNCHANGED <<dmVars, merge, series, stateVars, apiVars>>

(* cancel, or the drop of the handle: the registration and its channel go.    *)
Cancel(w) ==
    /\ watch[w].state = "on"
    /\ watch' = [watch EXCEPT ![w].state = "cancelled", ![w].box = <<>>]
    /\ UNCHANGED <<dmVars, merge, series, stateVars, apiVars>>

LookAtEpoch(m) ==
    /\ AtStep(m, "look")
    /\ merge' = [merge EXCEPT ![m].pc = "notify", ![m].got = epoch]
    /\ UNCHANGED <<dmVars, watch, series, stateVars, apiVars>>

(* Mutant: the first full channel costs the watcher its registration.         *)
SentOrDropped(e, payload) ==
    IF Len(e.box) < BoxSize
      THEN [e EXCEPT !.box = Append(@, payload), !.told = payload, !.fulls = 0]
      ELSE [e EXCEPT !.fulls = @ + 1, !.state = "dropped"]

(* try_send: a full channel loses the payload, and at last the watcher.       *)
Sent(e, payload) ==
    IF Len(e.box) < BoxSize
      THEN [e EXCEPT !.box = Append(@, payload), !.told = payload, !.fulls = 0]
      ELSE [e EXCEPT !.fulls = @ + 1,
                     !.state = IF e.fulls + 1 >= MaxFulls THEN "dropped" ELSE @]

(* Only a path that carries the newest epoch counts as changed.               *)
Notify(m) ==
    /\ AtStep(m, "notify")
    /\ watch' = [w \in Watchers |->
                   IF watch[w].state = "on" /\ data[WatchOf[w]].epoch = merge[m].got
                     THEN Sent(watch[w], data[WatchOf[w]].val)
                     ELSE watch[w]]
    /\ merge' = [merge EXCEPT ![m] =
                   IF m = Handler /\ @.paths \cap Keys # {}
                     THEN [@ EXCEPT !.pc = "sync"]
                     ELSE NoMerge]
    /\ UNCHANGED <<dmVars, series, stateVars, apiVars>>

-----------------------------------------------------------------------------
(* The watch task of a series subscription                                    *)

(* borrow_and_update: what is not newer than the last epoch is slept on.      *)
SeriesLook ==
    /\ load.series /\ series.pc = "look"
    /\ series' = [series EXCEPT
                    !.cur = published.epoch, !.seen = published.sent,
                    !.pc = IF published.epoch <= series.last THEN "sleep" ELSE "chart"]
    /\ UNCHANGED <<dmVars, merge, watch, stateVars, apiVars>>

SeriesWake ==
    /\ series.pc = "sleep" /\ series.seen # published.sent
    /\ series' = [series EXCEPT !.pc = "look", !.seen = published.sent]
    /\ UNCHANGED <<dmVars, merge, watch, stateVars, apiVars>>

Newer(p) == data[p].epoch > series.last

SeriesChartEpoch ==
    /\ series.pc = "chart"
    /\ series' = [series EXCEPT !.pc = "data", !.changed = Newer("chart")]
    /\ UNCHANGED <<dmVars, merge, watch, stateVars, apiVars>>

SeriesDataEpoch ==
    /\ series.pc = "data"
    /\ series' = [series EXCEPT !.pc = "decide", !.changed = @ \/ Newer("kline")]
    /\ UNCHANGED <<dmVars, merge, watch, stateVars, apiVars>>

(* Mutant: an epoch is taken for processed that was not published yet.         *)
ProcessedNow == epoch

(* The epoch that counts as processed is the one read at the start.           *)
Processed == series.cur

SeriesDecide ==
    /\ series.pc = "decide"
    /\ series' = IF series.changed /\ chartReady
                   THEN [series EXCEPT !.pc = "show"]
                   ELSE [series EXCEPT !.pc = "look", !.last = Processed]
    /\ UNCHANGED <<dmVars, merge, watch, stateVars, apiVars>>

(* process_series_update reads the window of the chart anew.                  *)
Window == data["kline"].val

SeriesShow ==
    /\ series.pc = "show"
    /\ series' = [series EXCEPT !.pc = "look", !.shown = Window,
                                !.last = Processed]
    /\ UNCHANGED <<dmVars, merge, watch, stateVars, apiVars>>

-----------------------------------------------------------------------------
(* sync_market_state: what the merge changed, key after key.  Nobody else      *)
(* writes the MarketDataState once the websocket is up.                       *)

UpdateEntry(k) ==
    /\ AtStep(Handler, "sync") /\ k \in merge[Handler].paths
    /\ entries' = [entries EXCEPT ![k] = [val |-> data[k].val, epoch |-> Len(feed) + 1]]
    /\ merge' = [merge EXCEPT ![Handler].pc = "event", ![Handler].paths = @ \ {k}]
    /\ feed' = feed
    /\ UNCHANGED <<dmVars, watch, series, globalTx, apiVars>>

Newest == CHOOSE k \in Keys : \A j \in Keys : entries[j].epoch <= entries[k].epoch

(* The event is sent first, the global epoch after it.                        *)
SendEvent ==
    /\ AtStep(Handler, "event")
    /\ feed' = Append(feed, Newest)
    /\ Goto(Handler, "global")
    /\ UNCHANGED <<dmVars, watch, series, entries, globalTx, apiVars>>

SendGlobal ==
    /\ AtStep(Handler, "global")
    /\ globalTx' = entries[Newest].epoch
    /\ merge' = [merge EXCEPT ![Handler] =
                   IF @.paths \cap Keys # {} THEN [@ EXCEPT !.pc = "sync"] ELSE NoMerge]
    /\ UNCHANGED <<dmVars, watch, series, entries, feed, apiVars>>

-----------------------------------------------------------------------------
(* wait_update of TqApi and of the references, and drain_updates              *)

Source(u) == IF On[u] = "all" THEN globalTx ELSE entries[On[u]].epoch
Turn(u, pc) == user' = [user EXCEPT ![u].pc = pc]

(* The receivers are made: what was sent before counts as seen by them.       *)
Begin(u) ==
    /\ user[u].pc = "idle" /\ user[u].calls < load.calls[u]
    /\ user' = [user EXCEPT ![u] = [pc |-> "look", cur |-> 0, ver |-> Source(u),
                                    calls |-> @.calls + 1]]
    /\ UNCHANGED <<dmVars, merge, watch, series, stateVars, api, active, closed, seenMost,
                   reported>>

(* ensure_wait_capability, then the current epoch against the one seen.       *)
Look(u) ==
    /\ user[u].pc = "look"
    /\ user' = [user EXCEPT ![u] =
                  IF closed \/ ~active THEN [@ EXCEPT !.pc = "idle"]
                  ELSE IF Source(u) > api.seen[On[u]]
                         THEN [@ EXCEPT !.pc = "store", !.cur = Source(u)]
                         ELSE [@ EXCEPT !.pc = "sleep"]]
    /\ UNCHANGED <<dmVars, merge, watch, series, stateVars, api, active, closed, seenMost,
                   reported>>

Wake(u) ==
    /\ user[u].pc = "sleep"
    /\ Source(u) # user[u].ver \/ closed
    /\ user' = [user EXCEPT ![u].pc = "look", ![u].ver = Source(u)]
    /\ UNCHANGED <<dmVars, merge, watch, series, stateVars, api, active, closed, seenMost,
                   reported>>

(* The seen epoch is stored, whatever was stored since it was compared.       *)
Store(u) ==
    LET slot == On[u] IN
    /\ user[u].pc = "store"
    /\ api' = [api EXCEPT !.seen = [@ EXCEPT ![slot] = user[u].cur]]
    /\ seenMost' = [seenMost EXCEPT ![slot] = IF user[u].cur > @ THEN user[u].cur ELSE @]
    /\ Turn(u, IF slot = "all" THEN "drain" ELSE "idle")
    /\ UNCHANGED <<dmVars, merge, watch, series, stateVars, active, closed, reported>>

(* What the collector still holds: the event kept, then those not received.   *)
Held == {n \in 1..Len(feed) : n > api.pos \/ n = api.pending}

(* Mutant: the event that ended a drain is thrown away.                       *)
KeptNever(boundary) == 0

(* An event past the boundary is kept for the next drain.                     *)
Kept(boundary) ==
    LET past == {n \in Held : n > boundary}
    IN  IF past = {} THEN 0 ELSE Min(past)

Collect(boundary) ==
    LET taken == {n \in Held : n <= boundary}
        kept == Kept(boundary)
    IN  /\ reported' = [k \in Keys |->
                          Max({reported[k]} \cup {n \in taken : feed[n] = k})]
        /\ api' = [api EXCEPT !.pending = kept, !.drained = Max({@, boundary}),
                              !.pos = IF kept = 0 THEN Len(feed) ELSE Max({@, kept})]

(* The receiver fell behind: the oldest events are gone, and so is the one    *)
(* that was kept; the caller is told.                                         *)
Lag ==
    /\ api' = [api EXCEPT !.pending = 0, !.pos = Len(feed) - Retained, !.lagged = TRUE]
    /\ UNCHANGED reported

(* drain_updates holds the collector's lock throughout.  Events sent meanwhile *)
(* are past the boundary: an event is sent before its epoch is published.     *)
Drain(u) ==
    LET boundary == api.seen["all"]
        receives == api.pending = 0 \/ api.pending <= boundary
    IN
    /\ user[u].pc = "drain"
    /\ Turn(u, "idle")
    /\ IF receives /\ Len(feed) - api.pos > Retained THEN Lag ELSE Collect(boundary)
    /\ UNCHANGED <<dmVars, merge, watch, series, stateVars, active, closed, seenMost>>

(* close: the market is deactivated, then those who wait are woken.           *)
Deactivate ==
    /\ load.closes /\ active
    /\ active' = FALSE
    /\ UNCHANGED <<dmVars, merge, watch, series, stateVars, api, user, closed, seenMost,
                   reported>>

Close ==
    /\ ~active /\ ~closed
    /\ closed' = TRUE
    /\ UNCHANGED <<dmVars, merge, watch, series, stateVars, api, user, active, seenMost,
                   reported>>

-----------------------------------------------------------------------------
MergeStep(m) ==
    \/ TakeEpoch(m) \/ RefuseSource(m) \/ Write(m)
    \/ LoadEpoch(m) \/ Publish(m) \/ LookAtEpoch(m) \/ Notify(m)

SeriesStep ==
    \/ SeriesLook \/ SeriesWake \/ SeriesChartEpoch
    \/ SeriesDataEpoch \/ SeriesDecide \/ SeriesShow

SyncStep == (\E k \in Keys : UpdateEntry(k)) \/ SendEvent \/ SendGlobal

UserStep(u) == Begin(u) \/ Look(u) \/ Wake(u) \/ Store(u) \/ Drain(u)

WatchStep(w) == Register(w) \/ Receive(w) \/ Cancel(w)

Next ==
    \/ \E m \in Mergers : MergeStep(m)
    \/ SeriesStep \/ SyncStep
    \/ \E u \in Users : UserStep(u)
    \/ \E w \in Watchers : WatchStep(w)
    \/ Deactivate \/ Close

Spec == Init /\ [][Next]_vars

-----------------------------------------------------------------------------
Merging == \E m \in Mergers : merge[m].pc \in {"write", "load", "publish", "look", "notify"}

(* Once every merge is over and its task sleeps, a series subscription whose   *)
(* chart is ready shows the newest bars, unless tasks merged at a time and an  *)
(* epoch that is not older had been published before they were written, or    *)
(* an older one was published last: then they wait for the next merge that    *)
(* touches the chart, or the next merge of all (series/subscription.rs).      *)
SeriesCurrent ==
    (~Merging /\ series.pc = "sleep" /\ series.seen = published.sent /\ chartReady)
        => \/ series.shown = data["kline"].val
           \/ early \cap {"kline", "chart"} # {}
           \/ \E p \in {"kline", "chart"} : data[p].epoch > published.epoch

(* A path watcher is told of the newest value of its path, unless its channel  *)
(* was full at the last send or the merge overlapped another one's epoch; and  *)
(* it is only dropped for a channel that stayed full (datamanager/watch.rs).  *)
WatchersTold ==
    \A w \in Watchers :
        LET p == WatchOf[w] IN
        /\ (watch[w].state = "on" /\ ~Merging)
             => \/ watch[w].told = data[p].val
                \/ watch[w].since = data[p].val
                \/ watch[w].fulls > 0
                \/ p \in crowded
        /\ watch[w].state = "dropped" => watch[w].fulls >= MaxFulls

(* News reaches those who wait for it.  Nobody sleeps on an epoch that was    *)
(* handed to no one; and once a drain has passed an update's epoch, that      *)
(* update has been returned by a drain, unless the receiver fell behind and   *)
(* a caller was told so (marketdata/mod.rs).                                  *)
NewsArrives ==
    /\ \A u \in Users :
          (user[u].pc = "sleep" /\ Source(u) > seenMost[On[u]]) => Source(u) # user[u].ver
    /\ \A k \in Keys :
          entries[k].epoch <= api.drained => (api.lagged \/ reported[k] = entries[k].epoch)
=============================================================================
