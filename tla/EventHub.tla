------------------------------ MODULE EventHub ------------------------------
(***************************************************************************)
(* The reliable event stream of a trading session                         *)
(* (src/src/trade_session/events.rs): a TradeEventHub fans every event out *)
(* to bounded journals, and every subscriber of a journal reads it with    *)
(* its own cursor.  Publishers, subscribers and the closer are threads;    *)
(* an action is what one of them does between two points at which another  *)
(* can run: an atomic load or store, or a critical section of a mutex.     *)
(*                                                                         *)
(* A journal keeps its whole history in log[j]; the VecDeque of the code   *)
(* is log[j] from head[j] + 1 on, push_back appends to the log and         *)
(* pop_front advances the head.                                            *)
(*                                                                         *)
(* A definition marked "mutant" is a deliberately broken form of the one   *)
(* it precedes and is used nowhere: put in its place, it must make TLC     *)
(* find a property violated.                                               *)
(***************************************************************************)
EXTENDS Integers, Sequences, FiniteSets

CONSTANTS
    Publishers,      \* threads that call publish_*: the watch task, ws callbacks, replay
    Readers,         \* event streams; each is subscribed at most once
    Emits,           \* Emits[p]: the items publisher p may publish
    JournalOf,       \* JournalOf[r]: the journal reader r subscribes to
    MaxRetained,     \* max_retained_events
    MaxSeq           \* BOUND of the model: no publish call starts at or beyond it

Journals == {"all", "orders", "trades"}

(* What is published.  "note" stands for notifications and transport errors. *)
Kinds == {"order", "trade", "note"}
Items == UNION {Emits[p] : p \in Publishers}
Events == [seq : Nat, item : Items]

ASSUME HubAssumption ==
    /\ MaxRetained \in Nat \ {0}
    /\ MaxSeq \in Nat
    /\ JournalOf \in [Readers -> Journals]
    /\ \A p \in Publishers : \A e \in Emits[p] : e.kind \in Kinds

VARIABLES
    nextSeq,        \* TradeEventHub.next_seq
    hubClosed,      \* TradeEventHub.closed
    jClosed,        \* EventJournal.closed
    log, head,      \* EventJournal.state.events
    emitted,        \* PublishState: last_emitted_orders and seen_trade_ids
    pub,            \* what each publisher is doing
    closing,        \* what is left for the thread that closes the hub
    sub,            \* SubscriberState: present in `subscribers`, not yet, or dropped
    lastSeen,       \* SubscriberState.last_seen_seq
    invalid,        \* SubscriberState.invalidated_before_seq, 0 for None
    recv,           \* the recv() future: not running, armed, or awaiting `notified`
    woken,          \* the Notified future of recv() has been signalled
    base,           \* history: Len(log) when the reader subscribed
    got             \* history: indices of the log delivered to the reader

pubVars    == <<nextSeq, emitted, pub>>
logVars    == <<log, head>>
readerVars == <<sub, lastSeen, invalid, recv, woken, base, got>>
vars == <<pubVars, logVars, readerVars, hubClosed, jClosed, closing>>

Idle == [at |-> "idle"]

(* An event goes to the journal of all events first, and then, by its kind,  *)
(* to the one of its own: the journal that comes after j, if any.            *)
After(j, item) ==
    IF j = "all" /\ item.kind = "order" THEN "orders"
    ELSE IF j = "all" /\ item.kind = "trade" THEN "trades"
    ELSE "none"

PubStates ==
    {Idle}
      \cup [at : {"dedup", "seq"}, item : Items]
      \cup [at : {"check", "push", "notify"}, event : Events, journal : Journals]

CloseSteps ==
    {<<"hub">>, <<"clear">>}
      \cup {<<op, j>> : op \in {"store", "notify"}, j \in Journals}

TypeOK ==
    /\ nextSeq \in Nat
    /\ hubClosed \in BOOLEAN
    /\ jClosed \in [Journals -> BOOLEAN]
    /\ log \in [Journals -> Seq(Events)]
    /\ head \in [Journals -> Nat]
    /\ \A j \in Journals : head[j] <= Len(log[j])
    /\ emitted \subseteq Items
    /\ pub \in [Publishers -> PubStates]
    /\ closing \in Seq(CloseSteps)
    /\ sub \in [Readers -> {"none", "live", "dropped"}]
    /\ lastSeen \in [Readers -> Nat]
    /\ invalid \in [Readers -> Nat]
    /\ recv \in [Readers -> {"out", "armed", "waiting"}]
    /\ woken \in [Readers -> BOOLEAN]
    /\ base \in [Readers -> Nat]
    /\ got \in [Readers -> SUBSET Nat]

(* EventJournal::close: the flag first, then the wakeup of those who wait. *)
NotifyFirst(j) == <<<<"notify", j>>, <<"store", j>>>>               \* mutant
CloseOf(j) == <<<<"store", j>>, <<"notify", j>>>>

Init ==
    /\ nextSeq = 0
    /\ hubClosed = FALSE
    /\ jClosed = [j \in Journals |-> FALSE]
    /\ log = [j \in Journals |-> <<>>]
    /\ head = [j \in Journals |-> 0]
    /\ emitted = {}
    /\ pub = [p \in Publishers |-> Idle]
    /\ closing = <<<<"hub">>, <<"clear">>>>
                   \o CloseOf("all") \o CloseOf("orders") \o CloseOf("trades")
    /\ sub = [r \in Readers |-> "none"]
    /\ lastSeen = [r \in Readers |-> 0]
    /\ invalid = [r \in Readers |-> 0]
    /\ recv = [r \in Readers |-> "out"]
    /\ woken = [r \in Readers |-> FALSE]
    /\ base = [r \in Readers |-> 0]
    /\ got = [r \in Readers |-> {}]

-----------------------------------------------------------------------------
(* The journal. *)

(* Subscribers that are still owed events. *)
Valid(j, inv) == {r \in Readers : JournalOf[r] = j /\ sub[r] = "live" /\ inv[r] = 0}

(* trim_consumed_locked: pop from the front what every valid subscriber has  *)
(* seen; with no valid subscriber that is everything.                        *)
TrimsSeenBySome(lg, h, valid, t) ==                                 \* mutant
    /\ t \in h .. Len(lg)
    /\ \A i \in h + 1 .. t : \E r \in valid : lg[i].seq <= lastSeen[r]
    /\ t < Len(lg) => \A r \in valid : lg[t + 1].seq > lastSeen[r]
TrimsTo(lg, h, valid, t) ==
    /\ t \in h .. Len(lg)
    /\ \A i \in h + 1 .. t : \A r \in valid : lg[i].seq <= lastSeen[r]
    /\ t < Len(lg) => \E r \in valid : lg[t + 1].seq > lastSeen[r]

(* trim_locked: the front once no more than max_retained_events are left, and *)
(* what that takes from a subscriber that has not seen it.                    *)
Limited(lg, t) == IF Len(lg) - t > MaxRetained THEN Len(lg) - MaxRetained ELSE t

AllTaken(r, lg, t1, t2) == t1 + 1 .. t2                             \* mutant
TakenButNext(r, lg, t1, t2) == {i \in t1 + 1 .. t2 : lastSeen[r] + 1 < lg[i].seq}  \* mutant
Taken(r, lg, t1, t2) == {i \in t1 + 1 .. t2 : lastSeen[r] < lg[i].seq}

(* subscribe_tail: the cursor starts at the last retained event, 0 if none. *)
TailCursor(j) == IF head[j] = Len(log[j]) THEN 0 ELSE log[j][Len(log[j])].seq

(* The retained events that are ahead of the reader's cursor. *)
Unseen(r) ==
    LET j == JournalOf[r] IN
    {i \in head[j] + 1 .. Len(log[j]) : log[j][i].seq > lastSeen[r]}

IsLast(i, S) == i \in S /\ \A k \in S : i >= k                      \* mutant
IsFirst(i, S) == i \in S /\ \A k \in S : i <= k
FirstOf(S) == CHOOSE i \in S : IsFirst(i, S)

(* Notify::notify_waiters: wakes the futures that exist now, and only those. *)
NotifyOne(j) ==                                                     \* mutant
    woken' = IF \A r \in Readers : JournalOf[r] = j => recv[r] = "out" THEN woken
             ELSE [woken EXCEPT ![CHOOSE r \in Readers : JournalOf[r] = j /\ recv[r] # "out"] = TRUE]
NotifyWaiters(j) ==
    woken' = [r \in Readers |->
                 IF JournalOf[r] = j /\ recv[r] # "out" THEN TRUE ELSE woken[r]]

-----------------------------------------------------------------------------
(* Publishing. *)

(* A publish_* call that finds the hub open; one that finds it closed does nothing. *)
PublishBegin(p) ==
    /\ pub[p] = Idle
    /\ ~hubClosed
    /\ nextSeq < MaxSeq
    /\ \E item \in Emits[p] :
         pub' = [pub EXCEPT ![p] =
                    [at |-> IF item.kind = "note" THEN "seq" ELSE "dedup", item |-> item]]
    /\ UNCHANGED <<nextSeq, emitted, logVars, readerVars, hubClosed, jClosed, closing>>

(* The dedup table: an order is remembered with its last published value, a  *)
(* trade by its id.                                                          *)
Superseded(item) ==
    IF item.kind = "order" THEN {e \in emitted : e.kind = "order" /\ e.id = item.id} ELSE {}

RememberFirst(item) ==                                              \* mutant
    IF Superseded(item) = {} THEN emitted \cup {item} ELSE emitted
RememberOrders(item) ==                                             \* mutant
    IF item.kind = "order" THEN (emitted \ Superseded(item)) \cup {item} ELSE emitted
Remember(item) == (emitted \ Superseded(item)) \cup {item}

PublishDedup(p) ==
    /\ pub[p].at = "dedup"
    /\ LET item == pub[p].item IN
         IF item \in emitted
         THEN /\ pub' = [pub EXCEPT ![p] = Idle]
              /\ UNCHANGED emitted
         ELSE /\ pub' = [pub EXCEPT ![p] = [at |-> "seq", item |-> item]]
              /\ emitted' = Remember(item)
    /\ UNCHANGED <<nextSeq, logVars, readerVars, hubClosed, jClosed, closing>>

(* next_event: the sequence number is taken outside every lock. *)
PublishTakeSeq(p) ==
    /\ pub[p].at = "seq"
    /\ nextSeq' = nextSeq + 1
    /\ pub' = [pub EXCEPT ![p] = [at |-> "check",
                                  event |-> [seq |-> nextSeq + 1, item |-> pub[p].item],
                                  journal |-> "all"]]
    /\ UNCHANGED <<emitted, logVars, readerVars, hubClosed, jClosed, closing>>

(* Done with one journal: on to the next one, or the call returns. *)
Continue(p) ==
    LET next == After(pub[p].journal, pub[p].event.item) IN
    IF next = "none" THEN Idle
    ELSE [at |-> "check", event |-> pub[p].event, journal |-> next]

At(p, step) == [at |-> step, event |-> pub[p].event, journal |-> pub[p].journal]

(* EventJournal::publish reads `closed` before it locks. *)
PublishCheck(p) ==
    /\ pub[p].at = "check"
    /\ pub' = [pub EXCEPT ![p] = IF jClosed[pub[p].journal] THEN Continue(p)
                                 ELSE At(p, "push")]
    /\ UNCHANGED <<nextSeq, emitted, logVars, readerVars, hubClosed, jClosed, closing>>

(* The critical section of EventJournal::publish: push_back and trim_locked. *)
PublishPush(p) ==
    /\ pub[p].at = "push"
    /\ LET j  == pub[p].journal
           lg == Append(log[j], pub[p].event)
       IN  \E t1 \in head[j] .. Len(lg) :
             LET t2 == Limited(lg, t1)
                 hit(r) == Taken(r, lg, t1, t2)
             IN  /\ TrimsTo(lg, head[j], Valid(j, invalid), t1)
                 /\ invalid' = [r \in Readers |->
                        IF r \in Valid(j, invalid) /\ hit(r) # {}
                        THEN lg[FirstOf(hit(r))].seq
                        ELSE invalid[r]]
                 /\ \E t3 \in t2 .. Len(lg) :
                        /\ TrimsTo(lg, t2, Valid(j, invalid'), t3)
                        /\ head' = [head EXCEPT ![j] = t3]
                 /\ log' = [log EXCEPT ![j] = lg]
    /\ pub' = [pub EXCEPT ![p] = At(p, "notify")]
    /\ UNCHANGED <<nextSeq, emitted, sub, lastSeen, recv, woken, base, got,
                   hubClosed, jClosed, closing>>

PublishNotify(p) ==
    /\ pub[p].at = "notify"
    /\ NotifyWaiters(pub[p].journal)
    /\ pub' = [pub EXCEPT ![p] = Continue(p)]
    /\ UNCHANGED <<nextSeq, emitted, logVars, sub, lastSeen, invalid, recv, base, got,
                   hubClosed, jClosed, closing>>

PublishStep(p) ==
    PublishDedup(p) \/ PublishTakeSeq(p) \/ PublishCheck(p) \/ PublishPush(p) \/ PublishNotify(p)

-----------------------------------------------------------------------------
(* Subscribing and reading. *)

Subscribe(r) ==
    /\ sub[r] = "none"
    /\ lastSeen' = [lastSeen EXCEPT ![r] = TailCursor(JournalOf[r])]
    /\ base' = [base EXCEPT ![r] = Len(log[JournalOf[r]])]
    /\ sub' = [sub EXCEPT ![r] = "live"]
    /\ UNCHANGED <<pubVars, logVars, invalid, recv, woken, got,
                   hubClosed, jClosed, closing>>

(* recv creates its Notified future before it looks at the journal. *)
RecvArm(r) ==
    /\ sub[r] = "live"
    /\ recv[r] = "out"
    /\ recv' = [recv EXCEPT ![r] = "armed"]
    /\ woken' = [woken EXCEPT ![r] = FALSE]
    /\ UNCHANGED <<pubVars, logVars, sub, lastSeen, invalid, base, got,
                   hubClosed, jClosed, closing>>

(* recv returns and its Notified future is dropped with it. *)
RecvReturn(r) ==
    /\ recv' = [recv EXCEPT ![r] = "out"]
    /\ woken' = [woken EXCEPT ![r] = FALSE]

RecvLagged(r) ==
    /\ invalid[r] # 0
    /\ RecvReturn(r)
    /\ UNCHANGED <<lastSeen, got>>

RecvEvent(r) ==
    /\ invalid[r] = 0
    /\ \E i \in Unseen(r) :
          /\ IsFirst(i, Unseen(r))
          /\ lastSeen' = [lastSeen EXCEPT ![r] = log[JournalOf[r]][i].seq]
          /\ got' = [got EXCEPT ![r] = @ \cup {i}]
    /\ RecvReturn(r)

RecvClosed(r) ==
    /\ invalid[r] = 0
    /\ Unseen(r) = {}
    /\ jClosed[JournalOf[r]]
    /\ RecvReturn(r)
    /\ UNCHANGED <<lastSeen, got>>

RecvWait(r) ==
    /\ invalid[r] = 0
    /\ Unseen(r) = {}
    /\ ~jClosed[JournalOf[r]]
    /\ recv' = [recv EXCEPT ![r] = "waiting"]
    /\ UNCHANGED <<lastSeen, got, woken>>

(* The critical section of recv. *)
RecvLook(r) ==
    /\ recv[r] = "armed"
    /\ RecvLagged(r) \/ RecvEvent(r) \/ RecvClosed(r) \/ RecvWait(r)
    /\ UNCHANGED <<pubVars, logVars, sub, invalid, base, hubClosed, jClosed, closing>>

(* notified.await completes and the loop of recv starts over. *)
RecvWake(r) ==
    /\ recv[r] = "waiting"
    /\ woken[r]
    /\ recv' = [recv EXCEPT ![r] = "armed"]
    /\ woken' = [woken EXCEPT ![r] = FALSE]
    /\ UNCHANGED <<pubVars, logVars, sub, lastSeen, invalid, base, got,
                   hubClosed, jClosed, closing>>

(* Drop for TradeEventStream; the borrow checker lets no recv() be running. *)
DropStream(r) ==
    /\ sub[r] = "live"
    /\ recv[r] = "out"
    /\ sub' = [sub EXCEPT ![r] = "dropped"]
    /\ LET j == JournalOf[r] IN
         \E t \in head[j] .. Len(log[j]) :
            /\ TrimsTo(log[j], head[j], Valid(j, invalid) \ {r}, t)
            /\ head' = [head EXCEPT ![j] = t]
    /\ UNCHANGED <<pubVars, log, lastSeen, invalid, recv, woken, base, got,
                   hubClosed, jClosed, closing>>

-----------------------------------------------------------------------------
(* TradeEventHub::close, one store, critical section or notification a step. *)

CloseStep ==
    /\ closing # <<>>
    /\ closing' = Tail(closing)
    /\ LET step == Head(closing) IN
         /\ hubClosed' = (hubClosed \/ step[1] = "hub")
         /\ emitted' = IF step[1] = "clear" THEN {} ELSE emitted
         /\ jClosed' = IF step[1] = "store" THEN [jClosed EXCEPT ![step[2]] = TRUE] ELSE jClosed
         /\ IF step[1] = "notify" THEN NotifyWaiters(step[2]) ELSE UNCHANGED woken
    /\ UNCHANGED <<nextSeq, pub, logVars, sub, lastSeen, invalid, recv, base, got>>

-----------------------------------------------------------------------------
Next ==
    \/ \E p \in Publishers :
          \/ PublishBegin(p)
          \/ PublishDedup(p)
          \/ PublishTakeSeq(p)
          \/ PublishCheck(p)
          \/ PublishPush(p)
          \/ PublishNotify(p)
    \/ \E r \in Readers :
          \/ Subscribe(r)
          \/ RecvArm(r)
          \/ RecvLook(r)
          \/ RecvWake(r)
          \/ DropStream(r)
    \/ CloseStep

Spec == Init /\ [][Next]_vars

(* A publish call, once begun, returns; a reader keeps calling recv().  That *)
(* anybody publishes, subscribes, drops or closes is not assumed.            *)
Fairness ==
    /\ \A p \in Publishers : WF_vars(PublishStep(p))
    /\ \A r \in Readers : WF_vars(RecvArm(r)) /\ WF_vars(RecvLook(r) \/ RecvWake(r))

FairSpec == Spec /\ Fairness

-----------------------------------------------------------------------------
(* Properties. *)

LogOf(r) == log[JournalOf[r]]
Retained(r) == head[JournalOf[r]] + 1 .. Len(LogOf(r))
SinceSubscribed(r) == base[r] + 1 .. Len(LogOf(r))
Reading(r) == sub[r] = "live" /\ invalid[r] = 0

(* Published to the reader since it subscribed, not delivered, and never to be: *)
(* gone from the journal or behind the reader's cursor.                         *)
Skipped(r) ==
    {i \in SinceSubscribed(r) :
        /\ i \notin got[r]
        /\ i \notin Retained(r) \/ LogOf(r)[i].seq <= lastSeen[r]}

(* A reader that has not been told Lagged has lost no event that was written *)
(* to its journal after it subscribed ("loss is explicit rather than silent").*)
(* TLC refutes it of a journal with two publishers (README, Findings).        *)
NothingSkippedIn(j) == \A r \in Readers : (JournalOf[r] = j /\ Reading(r)) => Skipped(r) = {}
NothingSkipped == \A j \in Journals : NothingSkippedIn(j)

(* The same of the journals that only one publisher writes, such as the      *)
(* order and trade journals of a live session.                               *)
Writes(p, j) == \E item \in Emits[p] : j \in {"all", After("all", item)}
SingleWriter(j) == \A p, q \in Publishers : Writes(p, j) /\ Writes(q, j) => p = q
SingleWriterLossless == \A j \in Journals : SingleWriter(j) => NothingSkippedIn(j)

(* Whatever the publishers do, an event is lost silently only if one with a  *)
(* higher sequence number had been written to the journal before it.         *)
OnlyOvertakenSkipped ==
    \A r \in Readers : Reading(r) =>
        \A i \in Skipped(r) : \E k \in 1 .. i - 1 : LogOf(r)[k].seq > LogOf(r)[i].seq

(* No false alarm: a reader of a journal with one publisher that is told      *)
(* Lagged has really lost an event of its own, the one it is told of.         *)
Lost(r) ==
    {i \in SinceSubscribed(r) : i \notin got[r] /\ i \notin Retained(r)}
LaggedMeansLost == \A r \in Readers : SingleWriter(JournalOf[r]) /\ invalid[r] # 0 =>
    \E i \in Lost(r) : LogOf(r)[i].seq = invalid[r]

(* A fill is published once, however often the snapshot that carries it is   *)
(* merged; only a call that overlaps close() may repeat it.                  *)
TradeOnce == ~hubClosed =>
    \A i, k \in 1 .. Len(log["trades"]) :
        log["trades"][i].item = log["trades"][k].item => i = k

(* Once no publish call is running, the last event of an order in the order  *)
(* journal, if one publisher writes it, carries the value the dedup table    *)
(* remembers: no reader is left with an older state of the order.            *)
LastOrderIsCurrent ==
    (~hubClosed /\ SingleWriter("orders") /\ \A p \in Publishers : pub[p] = Idle) =>
        \A i \in 1 .. Len(log["orders"]) :
            \/ log["orders"][i].item \in emitted
            \/ \E k \in i + 1 .. Len(log["orders"]) :
                  log["orders"][k].item.id = log["orders"][i].item.id

(* An event waiting for a reader that keeps calling recv() reaches it, unless *)
(* the reader is told Lagged or drops the stream: no wakeup is lost.          *)
EventuallyDelivered ==
    \A r \in Readers : (Reading(r) /\ Unseen(r) # {}) ~> (~Reading(r) \/ Unseen(r) = {})

(* A reader waiting when the hub is closed is told so. *)
WaitersLearnOfClose ==
    \A r \in Readers :
        (recv[r] = "waiting" /\ closing = <<>>) ~> (recv[r] # "waiting")

(* The journal of all events implements the abstract stream, for the runs in *)
(* which it has a single publisher.                                          *)
Stream == INSTANCE ReliableStream WITH
    Readers   <- {r \in Readers : JournalOf[r] = "all"},
    Events    <- [seq : 1 .. MaxSeq, item : Items],
    stream    <- log["all"],
    start     <- [r \in {q \in Readers : JournalOf[q] = "all"} |-> base[r]],
    delivered <- [r \in {q \in Readers : JournalOf[q] = "all"} |-> got[r]],
    status    <- [r \in {q \in Readers : JournalOf[q] = "all"} |->
                    IF sub[r] # "live" THEN sub[r]
                    ELSE IF invalid[r] # 0 THEN "lagged" ELSE "reading"]

ImplementsReliableStream == Stream!Spec
=============================================================================
