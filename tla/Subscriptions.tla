---------------------------- MODULE Subscriptions ----------------------------
(* What the client wants from the market server, and what the server was told. *)
(*                                                                            *)
(* Quote subscriptions (quote/lifecycle.rs) each hold a set of symbols, and    *)
(* the quote websocket keeps their union (websocket/quote.rs); a series       *)
(* subscription holds a chart (series/subscription.rs); the receivers of      *)
(* trading status share reference counts (ins/trading_status.rs).  Every one  *)
(* of these is a slot: the intent is turned into a message, recorded as the   *)
(* last request of the slot, and sent.  A connection that is not ready queues *)
(* messages; once it opens again the recorded requests are resent by tasks of *)
(* their own, beside the queue that is flushed and beside new requests.       *)
EXTENDS Integers, Sequences, FiniteSets, SequencesExt, FiniteSetsExt

CONSTANTS
    Subs,       \* QuoteSubscription objects
    Symbols,
    None,       \* no value
    Callers,    \* tasks that call the subscription API
    Loads,      \* the loads explored (a bound): the calls each caller may make,
                \*   how many, which connections break and how often, whether the
                \*   answers of the market server are followed (Resync)
    QueueMax    \* pending_queue_max of a connection

Slots == {"list", "chart", "status"}
Channels == {"quote", "status"}
ChannelOf(slot) == IF slot = "status" THEN "status" ELSE "quote"
Tasks == {"open", "notify"}     \* what spawns a task that resends

ASSUME SubscriptionsAssumption ==
    /\ None # "on" /\ (\A S \in SUBSET Symbols : None # S)
    /\ IsFiniteSet(Callers)
    /\ \A l \in Loads : l.first \subseteq Symbols
    /\ QueueMax \in Nat \ {0}

VARIABLES
    load,
    subs,       \* per quote subscription its symbols, and whether it was made and
                \*   is running
    held,       \* quote_subscriptions: per id the symbols, None when absent
    chart,      \* the series subscription: whether it exists, its running and
                \*   unsubscribe_sent flags
    counts,     \* trading_status_symbols
    recorded,   \* subscribe_quote, charts, subscribe_trading_status
    caller,     \* per caller: the call it is in
    conn,       \* per connection its status, its queue, what is being flushed, and
                \*   whether the notice of a reconnect is still to be handled
    resend,     \* per connection and task: the messages it has still to send
    server,     \* what the server was last told on this connection
    inbox,      \* the answers of the market server, not yet handled
    losses,     \* how often a connection broke
    stamps,     \* history: ages of the intent, of the records and of the writes
    receivers,  \* history: receivers of trading status alive per symbol
    leaked,     \* history: counts taken by calls whose send failed
    dropped,    \* history: slots of the messages dropped from a full queue
    crossed     \* history: subscriptions and charts whose calls overlapped or
                \*   failed

intents == <<subs, held, chart, counts>>
history == <<receivers, leaked, dropped, crossed>>
wires == <<conn, resend, server, inbox, losses>>
vars == <<load, intents, recorded, caller, wires, stamps, history>>

Message(slot, val, age) == [slot |-> slot, val |-> val, age |-> age]
Idle == [pc |-> "idle", op |-> None, on |-> None, val |-> None, age |-> 0, calls |-> 0]

Init ==
    /\ load \in Loads
    /\ subs = [s \in Subs |-> [symbols |-> load.first, made |-> FALSE, running |-> FALSE]]
    /\ held = [s \in Subs |-> None]
    /\ chart = [made |-> FALSE, running |-> FALSE, unsubscribed |-> FALSE]
    /\ counts = [x \in Symbols |-> 0]
    /\ recorded = [s \in Slots |-> None]
    /\ caller = [c \in Callers |-> Idle]
    /\ conn = [ch \in Channels |-> [state |-> "up", queue |-> <<>>, flush |-> <<>>, notice |-> FALSE]]
    /\ resend = [ch \in Channels |-> [t \in Tasks |-> <<>>]]
    /\ server = [s \in Slots |-> None]
    /\ inbox = <<>>
    /\ losses = 0
    /\ stamps = [intent |-> [s \in Slots |-> 0], record |-> [s \in Slots |-> 0],
                 recordMost |-> [s \in Slots |-> 0], write |-> [s \in Slots |-> 0],
                 writeMost |-> [s \in Slots |-> 0], version |-> [s \in Slots |-> 0]]
    /\ receivers = [x \in Symbols |-> 0]
    /\ leaked = [x \in Symbols |-> 0]
    /\ dropped = {}
    /\ crossed = {}

Goto(c, pc) == caller' = [caller EXCEPT ![c].pc = pc]

-----------------------------------------------------------------------------
(* The calls.  A call starts with what it does first.                         *)

MayStart(c, op) ==
    /\ caller[c].pc = "idle" /\ caller[c].calls < load.calls[c]
    /\ op \in load.ops[c]

Started(c, op, on, pc) ==
    [pc |-> pc, op |-> op, on |-> on, val |-> None, age |-> 0, calls |-> caller[c].calls + 1]

Start(c, op, on, pc) ==
    /\ caller' = [caller EXCEPT ![c] = Started(c, op, on, pc)]
    /\ crossed' = crossed \cup
                    (IF \E d \in Callers : caller[d].pc # "idle" /\ caller[d].on = on
                       THEN {on} ELSE {})

(* QuoteSubscription::new and activate                                        *)
Activate(c) ==
    \E s \in Subs :
        /\ MayStart(c, "activate") /\ ~subs[s].made
        /\ Start(c, "activate", s, "symbols")
        /\ subs' = [subs EXCEPT ![s].made = TRUE, ![s].running = TRUE]
        /\ UNCHANGED <<load, held, chart, counts, recorded, wires, stamps, receivers, leaked, dropped>>

(* The caller has the subscription once new has returned.                     *)
Usable(s) ==
    /\ subs[s].made
    /\ \A d \in Callers : ~(caller[d].pc # "idle" /\ caller[d].on = s
                              /\ caller[d].op \in {"activate", "undo", "drop"})

AddSymbol(c) ==
    \E s \in Subs, x \in Symbols :
        /\ MayStart(c, "add") /\ Usable(s) /\ x \notin subs[s].symbols
        /\ Start(c, "add", s, "running")
        /\ subs' = [subs EXCEPT ![s].symbols = @ \cup {x}]
        /\ UNCHANGED <<load, held, chart, counts, recorded, wires, stamps, receivers, leaked, dropped>>

RemoveSymbol(c) ==
    \E s \in Subs, x \in Symbols :
        /\ MayStart(c, "remove") /\ Usable(s) /\ x \in subs[s].symbols
        /\ Start(c, "remove", s, "running")
        /\ subs' = [subs EXCEPT ![s].symbols = @ \ {x}]
        /\ UNCHANGED <<load, held, chart, counts, recorded, wires, stamps, receivers, leaked, dropped>>

(* close, and the drop of the subscription                                    *)
CloseSub(c) ==
    \E s \in Subs :
        /\ MayStart(c, "close") /\ Usable(s)
        /\ Start(c, "close", s, "forget")
        /\ subs' = [subs EXCEPT ![s].running = FALSE]
        /\ UNCHANGED <<load, held, chart, counts, recorded, wires, stamps, receivers, leaked, dropped>>

(* SeriesSubscription: activate, refresh, close                               *)
ChartCall(c, op, pc, flags) ==
    /\ MayStart(c, op)
    /\ Start(c, op, "chart", pc)
    /\ chart' = flags
    /\ UNCHANGED <<load, subs, held, counts, recorded, wires, stamps, receivers, leaked, dropped>>

Shown == [made |-> TRUE, running |-> TRUE, unsubscribed |-> FALSE]

ChartUsable ==
    /\ chart.made
    /\ \A d \in Callers : caller[d].pc = "idle" \/ caller[d].op # "chart"

ChartOn(c) == ~chart.made /\ ChartCall(c, "chart", "record", Shown)

Refresh(c) == ChartUsable /\ ChartCall(c, "refresh", "record", Shown)

ChartOff(c) ==
    /\ ChartUsable
    /\ ChartCall(c, "unchart", IF chart.unsubscribed THEN "idle" ELSE "record",
                 [made |-> TRUE, running |-> FALSE, unsubscribed |-> TRUE])

(* get_trading_status: the count and the list, under one lock                 *)
Counted(x) == [counts EXCEPT ![x] = @ + 1]
Uncounted(x) == [counts EXCEPT ![x] = IF @ > 0 THEN @ - 1 ELSE 0]
Listed(n) == {x \in Symbols : n[x] > 0}

CountAndList(c, op, x, n) ==
    /\ counts' = n
    /\ stamps' = [stamps EXCEPT !.intent["status"] = @ + 1]
    /\ caller' = [caller EXCEPT ![c] =
                    [Started(c, op, x, "record") EXCEPT
                       !.val = Listed(n), !.age = stamps.intent["status"] + 1]]

AcquireStatus(c) ==
    \E x \in Symbols :
        /\ MayStart(c, "acquire")
        /\ CountAndList(c, "acquire", x, Counted(x))
        /\ UNCHANGED <<load, subs, held, chart, recorded, wires, history>>

(* The task of a receiver sees that the receiver is gone.                     *)
ReleaseStatus(c) ==
    \E x \in Symbols :
        /\ MayStart(c, "release") /\ receivers[x] > 0
        /\ CountAndList(c, "release", x, Uncounted(x))
        /\ receivers' = [receivers EXCEPT ![x] = @ - 1]
        /\ UNCHANGED <<load, subs, held, chart, recorded, wires, leaked, dropped, crossed>>

-----------------------------------------------------------------------------
(* Quote subscriptions: from the set of one subscription to the list of all.  *)

CheckRunning(c) ==
    /\ caller[c].pc = "running"
    /\ Goto(c, IF subs[caller[c].on].running THEN "symbols" ELSE "idle")
    /\ UNCHANGED <<load, intents, recorded, wires, stamps, history>>

ReadSymbols(c) ==
    /\ caller[c].pc = "symbols"
    /\ caller' = [caller EXCEPT ![c].pc = "hold", ![c].val = subs[caller[c].on].symbols]
    /\ UNCHANGED <<load, intents, recorded, wires, stamps, history>>

SetHeld(c, val) ==
    /\ held' = [held EXCEPT ![caller[c].on] = val]
    /\ stamps' = [stamps EXCEPT !.intent["list"] = @ + 1]
    /\ Goto(c, "gather")
    /\ UNCHANGED <<load, subs, chart, counts, recorded, wires, history>>

(* update_quote_subscription                                                  *)
Hold(c) == caller[c].pc = "hold" /\ SetHeld(c, caller[c].val)

(* remove_quote_subscription                                                  *)
Forget(c) == caller[c].pc = "forget" /\ SetHeld(c, None)

Wanted == UNION {held[s] : s \in {z \in Subs : held[z] # None}}

(* sync_quote_subscriptions: the list is made under the lock, used after it.  *)
Gather(c) ==
    /\ caller[c].pc = "gather"
    /\ caller' = [caller EXCEPT ![c].pc = "record", ![c].val = Wanted,
                                ![c].age = stamps.intent["list"]]
    /\ UNCHANGED <<load, intents, recorded, wires, stamps, history>>

-----------------------------------------------------------------------------
(* send: the request is recorded, then given to the connection.               *)

SlotOf(c) ==
    CASE caller[c].op \in {"chart", "refresh", "unchart"} -> "chart"
      [] caller[c].op \in {"acquire", "release"} -> "status"
      [] OTHER -> "list"

Request(c) ==
    CASE caller[c].op \in {"chart", "refresh"} -> "on"
      [] caller[c].op = "unchart" -> None
      [] OTHER -> caller[c].val

(* A call ends.  A receiver of trading status exists once its request was      *)
(* sent; a subscription that could not be made is dropped, which removes it.   *)
End(c) ==
    /\ caller' = [caller EXCEPT ![c].pc = IF caller[c].op = "undo" THEN "forget" ELSE "idle",
                                ![c].op = IF @ = "undo" THEN "drop" ELSE @]
    /\ receivers' = IF caller[c].op = "acquire"
                      THEN [receivers EXCEPT ![caller[c].on] = @ + 1] ELSE receivers

(* Mutant: a list of nothing new is taken for one that was sent.              *)
SkipsNarrower(c) ==
    SlotOf(c) # "chart" /\ recorded[SlotOf(c)] # None /\ Request(c) \subseteq recorded[SlotOf(c)]

(* Charts are sent always, lists only when they differ from the last one.     *)
Skips(c) == SlotOf(c) # "chart" /\ recorded[SlotOf(c)] = Request(c)

Record(c) ==
    LET slot == SlotOf(c)
        age == IF slot = "chart" THEN stamps.record[slot] + 1 ELSE caller[c].age
    IN
    /\ caller[c].pc = "record"
    /\ stamps' = [stamps EXCEPT !.record[slot] = age,
                                !.recordMost[slot] = Max({@, age}),
                                !.version[slot] = IF Skips(c) THEN @ ELSE @ + 1]
    /\ \/ /\ Skips(c)
          /\ End(c)
          /\ UNCHANGED recorded
       \/ /\ ~Skips(c)
          /\ recorded' = [recorded EXCEPT ![slot] = Request(c)]
          /\ caller' = [caller EXCEPT ![c].pc = "send", ![c].age = stamps.version[slot] + 1]
          /\ UNCHANGED receivers
    /\ UNCHANGED <<load, intents, wires, leaked, dropped, crossed>>

Connected(ch) == conn[ch].state = "up"

(* The market server answers a list with its echo, a chart first with its      *)
(* state, then with its bars.                                                 *)
Answers(m) ==
    IF m.slot = "status" \/ ~load.answers THEN <<>>
    ELSE (IF m.slot = "chart" /\ m.val = "on" THEN <<Message("chart", "more", 0)>> ELSE <<>>)
           \o <<Message(m.slot, m.val, 0)>>

(* A frame is written: the server takes the newest one it reads.              *)
Written(m) ==
    /\ server' = [server EXCEPT ![m.slot] = m.val]
    /\ inbox' = inbox \o Answers(m)
    /\ stamps' = [stamps EXCEPT !.write[m.slot] = m.age,
                                !.writeMost[m.slot] = Max({@, m.age})]

(* enqueue_pending_message: the oldest goes when the queue is full.           *)
Queued(ch, m) ==
    [conn EXCEPT ![ch].queue = IF Len(@) >= QueueMax THEN Append(Tail(@), m) ELSE Append(@, m)]

Overflow(ch) ==
    IF Len(conn[ch].queue) >= QueueMax THEN {Head(conn[ch].queue).slot} ELSE {}

(* The connection is told to send; while it is not connected it queues.       *)
Deliver(m) ==
    LET ch == ChannelOf(m.slot) IN
    IF Connected(ch)
      THEN Written(m) /\ UNCHANGED <<conn, dropped>>
      ELSE /\ conn' = Queued(ch, m)
           /\ dropped' = dropped \cup Overflow(ch)
           /\ UNCHANGED <<server, inbox, stamps>>

MessageOf(c) == Message(SlotOf(c), Request(c), caller[c].age)

Send(c) ==
    /\ caller[c].pc = "send"
    /\ Deliver(MessageOf(c))
    /\ End(c)
    /\ UNCHANGED <<load, intents, recorded, resend, losses, leaked, crossed>>

-----------------------------------------------------------------------------
(* The connections                                                            *)

(* The close handler of the quote websocket reconnects only for somebody.     *)
Interest(ch) ==
    ch = "status" \/ recorded["list"] \notin {None, {}} \/ recorded["chart"] # None

(* What was queued or not yet flushed stays in the queue.                     *)
Broken(ch) ==
    [conn EXCEPT ![ch].state = IF Interest(ch) THEN "down" ELSE "left",
                 ![ch].queue = @ \o conn[ch].flush, ![ch].flush = <<>>]

(* Answers of the connection that were on their way are lost with it.         *)
Received(ch) ==
    LET notices == {n \in DOMAIN inbox : inbox[n].slot = "notice"} IN
    IF ch = "status" THEN {inbox}
    ELSE {SubSeq(inbox, 1, n) : n \in Max({0} \cup notices) .. Len(inbox)}

Lose(ch) ==
    /\ Connected(ch) /\ ch \in load.breaking /\ losses < load.losses
    /\ inbox' \in Received(ch)
    /\ losses' = losses + 1
    /\ conn' = Broken(ch)
    /\ UNCHANGED <<load, intents, recorded, caller, resend, server, stamps, history>>

(* The frame cannot be written: the caller is told and the connection closed. *)
(* A call that makes a subscription undoes it, a refresh that fails leaves the *)
(* request recorded, and a count that was taken stays taken.                   *)
SendFails(c) ==
    LET ch == ChannelOf(SlotOf(c))
        on == caller[c].on
        Fails(op) == caller[c].op = op
        After(pc, op) == [caller EXCEPT ![c].pc = pc, ![c].op = op]
    IN
    /\ caller[c].pc = "send" /\ Connected(ch) /\ losses < load.losses
    /\ inbox' \in Received(ch)
    /\ losses' = losses + 1
    /\ conn' = Broken(ch)
    /\ caller' = CASE Fails("activate") -> After("forget", "undo")
                   [] Fails("undo") -> After("forget", "drop")
                   [] Fails("chart") -> After("record", "unchart")
                   [] OTHER -> After("idle", caller[c].op)
    /\ subs' = IF Fails("activate") THEN [subs EXCEPT ![on].running = FALSE] ELSE subs
    /\ chart' = CASE Fails("chart") -> [made |-> FALSE, running |-> FALSE, unsubscribed |-> TRUE]
                  [] Fails("refresh") -> [chart EXCEPT !.running = FALSE]
                  [] OTHER -> chart
    /\ leaked' = IF Fails("acquire") THEN [leaked EXCEPT ![on] = @ + 1] ELSE leaked
    /\ crossed' = crossed \cup {x \in {"chart"} : Fails("refresh")}
    /\ UNCHANGED <<load, held, counts, recorded, resend, server, stamps, receivers, dropped>>

(* The last request of a slot, if there is one.                               *)
Again(slot) ==
    IF recorded[slot] = None THEN <<>>
    ELSE <<Message(slot, recorded[slot], stamps.version[slot])>>

(* Mutant: a reconnect resends the lists and forgets the charts.              *)
ListsRecorded(ch) == IF ch = "quote" THEN Again("list") ELSE Again("status")

(* What the open handler and the handler of a reconnect notice resend.        *)
Recorded(ch) ==
    IF ch = "quote" THEN Again("list") \o Again("chart") ELSE Again("status")

(* The connection is open, its I/O task not yet installed; the server of a    *)
(* new connection knows nothing, which is all it has to know of a slot that   *)
(* has no request.  One task of each kind resends at a time (a bound).        *)
Open(ch) ==
    LET told == [s \in Slots |-> IF recorded[s] = None THEN stamps.version[s] ELSE 0]
        fresh(f) == [s \in Slots |-> IF ChannelOf(s) = ch THEN told[s] ELSE f[s]]
    IN
    /\ conn[ch].state = "down" /\ resend[ch]["open"] = <<>>
    /\ conn' = [conn EXCEPT ![ch].state = "open", ![ch].notice = TRUE]
    /\ inbox' = IF ch = "quote" /\ load.answers THEN Append(inbox, Message("notice", None, 0)) ELSE inbox
    /\ resend' = [resend EXCEPT ![ch]["open"] = Recorded(ch)]
    /\ server' = [s \in Slots |-> IF ChannelOf(s) = ch THEN None ELSE server[s]]
    /\ stamps' = [stamps EXCEPT !.write = fresh(stamps.write),
                                !.writeMost = fresh(stamps.writeMost)]
    /\ UNCHANGED <<load, intents, recorded, caller, losses, history>>

Install(ch) ==
    /\ conn[ch].state = "open"
    /\ conn' = [conn EXCEPT ![ch].state = "up", ![ch].queue = <<>>,
                            ![ch].flush = conn[ch].queue]
    /\ UNCHANGED <<load, intents, recorded, caller, resend, server, inbox, losses, stamps, history>>

(* The handler sees the notice of the new connection.                         *)
Notice(ch) ==
    /\ conn[ch].notice /\ resend[ch]["notify"] = <<>>
    /\ resend' = [resend EXCEPT ![ch]["notify"] = Recorded(ch)]
    /\ conn' = [conn EXCEPT ![ch].notice = FALSE]
    /\ UNCHANGED <<load, intents, recorded, caller, server, inbox, losses, stamps, history>>

Flush(ch) ==
    /\ Connected(ch) /\ conn[ch].flush # <<>>
    /\ Written(Head(conn[ch].flush))
    /\ conn' = [conn EXCEPT ![ch].flush = Tail(@)]
    /\ UNCHANGED <<load, intents, recorded, caller, resend, losses, history>>

Resend(ch, t) ==
    /\ resend[ch][t] # <<>>
    /\ Deliver(Head(resend[ch][t]))
    /\ resend' = [resend EXCEPT ![ch][t] = Tail(@)]
    /\ UNCHANGED <<load, intents, recorded, caller, losses, receivers, leaked, crossed>>

-----------------------------------------------------------------------------
CallStart(c) ==
    \/ Activate(c) \/ AddSymbol(c) \/ RemoveSymbol(c) \/ CloseSub(c)
    \/ ChartOn(c) \/ Refresh(c) \/ ChartOff(c) \/ AcquireStatus(c) \/ ReleaseStatus(c)

CallStep(c) ==
    \/ CheckRunning(c) \/ ReadSymbols(c) \/ Hold(c) \/ Forget(c)
    \/ Gather(c) \/ Record(c) \/ Send(c) \/ SendFails(c)

ConnStep(ch) ==
    \/ Lose(ch) \/ Open(ch) \/ Install(ch) \/ Flush(ch)
    \/ \E t \in Tasks : Resend(ch, t)

Next ==
    \/ \E c \in Callers : CallStart(c) \/ CallStep(c)
    \/ \E ch \in Channels : ConnStep(ch) \/ Notice(ch)

Spec == Init /\ [][Next]_vars

-----------------------------------------------------------------------------
AtRest(ch) ==
    /\ \A c \in Callers : caller[c].pc = "idle"
    /\ conn[ch].flush = <<>> /\ ~conn[ch].notice
    /\ \A t \in Tasks : resend[ch][t] = <<>>

(* A resend or a queued message may be older than what was written directly,   *)
(* and two callers may record their lists in the other order.                 *)
Overtaken(slot) == stamps.write[slot] < stamps.writeMost[slot]
Late(slot) == stamps.record[slot] < stamps.recordMost[slot]

(* When nothing is under way on a connection that is up, the server has the    *)
(* request the client recorded last, however often the connection broke and   *)
(* whatever was queued meanwhile -- unless an older request was written after *)
(* a newer one, or the queue overflowed (websocket/quote.rs,                  *)
(* websocket/trading_status.rs).                                              *)
ServerFollows ==
    \A slot \in Slots :
        (Connected(ChannelOf(slot)) /\ AtRest(ChannelOf(slot)))
            => server[slot] = recorded[slot] \/ Overtaken(slot) \/ slot \in dropped

(* Nothing is recorded before the first request.                              *)
Told(slot, val) == recorded[slot] = IF recorded[slot] = None /\ val = {} THEN None ELSE val

(* When no call is under way, the request recorded is what the holders want:   *)
(* the union of the sets of the running subscriptions, the chart of a running *)
(* series, the symbols with a receiver.  Exceptions: a list made earlier and  *)
(* recorded later; calls on one subscription that overlapped; a count taken   *)
(* by a call whose send failed (quote/lifecycle.rs, ins/trading_status.rs).   *)
IntentRecorded ==
    (\A c \in Callers : caller[c].pc = "idle") =>
        /\ \A s \in Subs \ crossed :
              held[s] = IF subs[s].running THEN subs[s].symbols ELSE None
        /\ Late("list") \/ Told("list", Wanted)
        /\ "chart" \in crossed \/ (recorded["chart"] = "on") = chart.running
        /\ \A x \in Symbols : counts[x] = receivers[x] + leaked[x]
        /\ Late("status") \/ Told("status", Listed(counts))
=============================================================================
