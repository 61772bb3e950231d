----------------------------- MODULE TargetPos -----------------------------
(* Target position tasks of one account and symbol (runtime/tasks): handles   *)
(* that are told a target volume, their run loops, the plans and the child    *)
(* orders these make, the registry of who may trade the symbol, the scheduler *)
(* that runs one task after another, and the replay session that gates the    *)
(* tasks by its steps.                                                        *)
(*                                                                            *)
(* The exchange is behind the ExecutionAdapter trait and modelled from what   *)
(* its two implementations allow: an order may be refused, filled in parts,   *)
(* killed at the day's end, or filled after a cancel was sent, and its trades *)
(* may be seen after the order itself.  wait_order_update is the replay's,    *)
(* which looks again after it has subscribed.  Prices are left out: a quote   *)
(* may make any working order's price the worse one.                          *)
(*                                                                            *)
(* A definition marked "mutant" is a deliberately broken form of the one      *)
(* after it.                                                                  *)
EXTENDS Integers, Sequences, FiniteSets, SequencesExt, FiniteSetsExt

CONSTANTS
    Handles,        \* TargetPosTask values
    Direct,         \* BOUND: those that callers build, not the scheduler
    Callers,        \* threads that call them
    Targets,        \* volumes asked for
    Schedule,       \* the scheduler's steps: target volumes
    Positions,      \* what the account may hold at first
    Priority,       \* offset_priority: a sequence of groups of actions
    ShfeRules,      \* today and history are closed apart (SHFE, INE)
    MaxSplit,       \* volume_split_policy: the largest order
    MaxCalls,       \* BOUND: set_target_volume and cancel calls
    MaxMishaps,     \* BOUND: refusals, kills, worse prices and failures
    MaxOrders       \* BOUND: orders; handles that share a symbol may fight on

Ids == 1 .. Cardinality(Handles) + 1
Slots == 1 .. 3                     \* child orders of a batch: one for each action
Holdings == [longToday : Nat, longHis : Nat, shortToday : Nat, shortHis : Nat]

(* parse_offset_priority takes no empty group and no action twice.  The       *)
(* scheduler makes a task of its own for each step.                           *)
ASSUME TargetPosAssumption ==
    /\ MaxSplit \in Nat \ {0} /\ {MaxCalls, MaxMishaps, MaxOrders} \subseteq Nat
    /\ Targets \subseteq Int /\ Direct \subseteq Handles /\ Positions \subseteq Holdings
    /\ Priority \in Seq(Seq({"today", "yesterday", "open"}) \ {<<>>})
    /\ \A i, j \in DOMAIN Priority : \A x \in DOMAIN Priority[i], y \in DOMAIN Priority[j] :
          Priority[i][x] = Priority[j][y] => i = j /\ x = y
    /\ IsFiniteSet(Handles)
    /\ Schedule \in Seq(Int) /\ Len(Schedule) <= Cardinality(Handles)

VARIABLES
    task,       \* each handle's TargetPosTaskInner and where its run loop is
    runner,     \* each handle's child order runners
    registry,   \* TaskRegistry
    pos,        \* the position at the exchange
    orders,     \* the orders at the exchange
    call,       \* where each caller is in a call
    session,    \* the replay session: its step gate and where its flush is
    sched,      \* the scheduler; "off" when handles are used directly
    bounds      \* calls and mishaps so far

vars == <<task, runner, registry, pos, orders, call, session, sched, bounds>>

-----------------------------------------------------------------------------
(* compute_plan. *)

Net(p) == p.longToday + p.longHis - p.shortToday - p.shortHis
Signed(dir, volume) == IF dir = "BUY" THEN volume ELSE -volume

HeldToday(p, dir) == IF dir = "BUY" THEN p.shortToday ELSE p.longToday
HeldHis(p, dir) == IF dir = "BUY" THEN p.shortHis ELSE p.longHis

Alive(o) == o.status = "alive"
Frozen(dir, offsets) ==
    MapThenSumSet(LAMBDA i : orders[i].left,
        {i \in DOMAIN orders : Alive(orders[i]) /\ orders[i].dir = dir /\ orders[i].offset \in offsets})
FrozenToday(dir) == Frozen(dir, {"CLOSETODAY"})
FrozenHis(dir) == Frozen(dir, {"CLOSE"})

(* What an action may close; elsewhere than at SHFE the exchange closes today *)
(* and history in its own order, and history waits until today is used up.    *)
IgnorePending(action, dir, pending) ==                              \* mutant
    HeldToday(pos, dir) + HeldHis(pos, dir)
Closable(action, dir, pending) ==
    LET today == HeldToday(pos, dir)
        his == HeldHis(pos, dir)
        frozen == pending + FrozenToday(dir) + FrozenHis(dir)
    IN  IF ShfeRules
        THEN IF action = "today" THEN today - FrozenToday(dir) ELSE his - FrozenHis(dir)
        ELSE IF action = "today" THEN today - frozen
        ELSE IF today - frozen > 0 THEN 0 ELSE today + his - frozen

Magnitude(n) == IF n < 0 THEN -n ELSE n
PlannedOrder(action, delta, pending) ==
    LET dir == IF delta > 0 THEN "BUY" ELSE "SELL"
        room == IF action = "open" THEN Magnitude(delta) ELSE Closable(action, dir, pending)
    IN  [dir |-> dir, volume |-> Min({Magnitude(delta), Max({room, 0})}),
         offset |-> IF action = "open" THEN "OPEN"
                    ELSE IF action = "today" /\ ShfeRules THEN "CLOSETODAY" ELSE "CLOSE"]

Once(Op(_), value) == CHOOSE r \in {Op(v) : v \in {value}} : TRUE   \* value evaluated once
AddAction(batch, action) ==
    Once(LAMBDA b : Once(LAMBDA o :
             IF b.delta = 0 \/ o.volume = 0 THEN b
             ELSE [delta |-> b.delta - Signed(o.dir, o.volume),
                   pending |-> b.pending + (IF o.offset = "OPEN" THEN 0 ELSE o.volume),
                   orders |-> Append(b.orders, o)],
           PlannedOrder(action, b.delta, b.pending)), batch)

AddGroup(plan, group) ==
    Once(LAMBDA p : Once(LAMBDA batch :
             [delta |-> batch.delta,
              batches |-> IF batch.orders = <<>> THEN p.batches ELSE Append(p.batches, batch.orders)],
           FoldLeft(AddAction, [delta |-> p.delta, pending |-> 0, orders |-> <<>>], group)), plan)

Plan(target) == FoldLeft(AddGroup, [delta |-> target - Net(pos), batches |-> <<>>], Priority).batches

-----------------------------------------------------------------------------
(* TaskRegistry. *)

None == [asked |-> 0, seen |-> 0, over |-> TRUE, busy |-> 0]        \* no entry
NewProgress == [asked |-> 0, seen |-> 0, over |-> FALSE, busy |-> 0]

(* entry().or_default(), which counts a task as running again. *)
ProgressOf(reg, id) == IF reg.known[id] THEN reg.progress[id] ELSE NewProgress
WithProgress(reg, id, p) == [reg EXCEPT !.progress[id] = p, !.known[id] = TRUE]

MarkRequested(reg, id, seq) ==
    LET p == ProgressOf(reg, id) IN
    WithProgress(reg, id, [p EXCEPT !.asked = Max({@, seq}), !.over = FALSE])
MarkObserved(reg, id, seq) ==
    LET p == ProgressOf(reg, id) IN WithProgress(reg, id, [p EXCEPT !.seen = Max({@, seq})])
MarkBusy(reg, id) ==
    LET p == ProgressOf(reg, id) IN WithProgress(reg, id, [p EXCEPT !.busy = @ + 1])
MarkNever(reg, id) == reg                                           \* mutant
MarkIdle(reg, id) ==
    IF reg.known[id] THEN [reg EXCEPT !.progress[id].busy = Max({@ - 1, 0})] ELSE reg

Unregister(reg, id) ==
    [reg EXCEPT !.key = IF @ = id THEN 0 ELSE @, !.guard = IF @ = id THEN 0 ELSE @,
                !.orders[id] = {}, !.known[id] = FALSE, !.progress[id] = None]

Pending(reg) == \E id \in Ids : reg.known[id] /\ ~reg.progress[id].over /\ reg.progress[id].asked > reg.progress[id].seen
Inflight(reg) == \E id \in Ids : reg.known[id] /\ ~reg.progress[id].over /\ reg.progress[id].busy > 0

-----------------------------------------------------------------------------
(* Handles and calls. *)

NoCommand == [kind |-> "idle", seq |-> 0, volume |-> 0, gate |-> 0]
NewTask == [id |-> 0, closed |-> FALSE, started |-> "no", cmd |-> NoCommand, seq |-> 0,
            reached |-> 0, finished |-> FALSE, failed |-> FALSE, trades |-> {},
            at |-> "off", req |-> NoCommand, plan |-> <<>>, mine |-> {}]
NoRunner == [at |-> "off", order |-> 0, dir |-> "BUY", offset |-> "OPEN", left |-> 0,
             interrupted |-> FALSE, repriced |-> FALSE, tick |-> FALSE, saw |-> 0]

Init ==
    /\ task = [h \in Handles |-> NewTask]
    /\ runner = [k \in Handles \X Slots |-> NoRunner]
    /\ registry = [next |-> 0, key |-> 0, guard |-> 0, known |-> [id \in Ids |-> FALSE],
                   progress |-> [id \in Ids |-> None], orders |-> [id \in Ids |-> {}]]
    /\ pos \in Positions
    /\ orders = <<>>
    /\ call = [c \in Callers |-> [at |-> "idle"]]
    /\ session = [at |-> "idle", gate |-> 0]
    /\ sched = [at |-> "off", step |-> 0, cancelled |-> FALSE, failed |-> FALSE, trades |-> {}]
    /\ bounds = [calls |-> 0, mishaps |-> 0]

Mishap ==
    /\ bounds.mishaps < MaxMishaps
    /\ bounds' = [bounds EXCEPT !.mishaps = @ + 1]

(* build(): a second handle with the same configuration is given the id of    *)
(* the first.                                                                 *)
Register(h, reg, id) ==
    /\ registry' = [reg EXCEPT !.known[id] = TRUE, !.progress[id] = ProgressOf(reg, id)]
    /\ task' = [task EXCEPT ![h].id = id]
Build(h) ==
    /\ h \in Direct /\ task[h] = NewTask /\ registry.guard = 0 /\ sched.at = "off"
    /\ IF registry.key # 0 THEN Register(h, registry, registry.key)
       ELSE LET id == registry.next + 1 IN
            Register(h, [registry EXCEPT !.next = id, !.key = id], id)
    /\ UNCHANGED <<runner, pos, orders, call, session, sched, bounds>>

(* The last clone of a handle goes before its run loop was started; later the *)
(* loop holds it, and has unregistered it when it ends.                       *)
Drop(h) ==
    /\ task[h].id # 0 /\ task[h].started = "no" /\ sched.at = "off"
    /\ \A c \in Callers : call[c].at # "idle" => call[c].h # h
    /\ registry' = Unregister(registry, task[h].id)
    /\ task' = [task EXCEPT ![h].started = "dropped", ![h].closed = TRUE]
    /\ UNCHANGED <<runner, pos, orders, call, session, sched, bounds>>

(* ensure_started: a task that has ended without an error is not started again. *)
Startable(t) == t.id # 0 /\ ~(t.started = "done" /\ t.failed) /\ t.started # "dropped"
Started(t) == IF t.started = "no" THEN [t EXCEPT !.started = "run", !.at = "command"] ELSE t

BeginTarget(c, h, volume) ==
    /\ ~task[h].closed /\ Startable(task[h])
    /\ LET t == Started(task[h]) IN
         /\ task' = [task EXCEPT ![h] = [t EXCEPT !.seq = @ + 1]]
         /\ call' = [call EXCEPT ![c] = [at |-> "send", h |-> h,
               cmd |-> [kind |-> "target", seq |-> t.seq + 1, volume |-> volume, gate |-> session.gate]]]

BeginCancel(c, h) ==
    /\ Startable(task[h])
    /\ task' = [task EXCEPT ![h] = [Started(task[h]) EXCEPT !.closed = TRUE]]
    /\ call' = [call EXCEPT ![c] = [at |-> "send", h |-> h, cmd |-> [NoCommand EXCEPT !.kind = "cancel"]]]

Call(c) ==
    /\ call[c].at = "idle" /\ sched.at = "off" /\ bounds.calls < MaxCalls
    /\ bounds' = [bounds EXCEPT !.calls = @ + 1]
    /\ \E h \in Handles : BeginCancel(c, h) \/ \E v \in Targets : BeginTarget(c, h, v)
    /\ UNCHANGED <<runner, registry, pos, orders, session, sched>>

Idle(c) == call' = [call EXCEPT ![c] = [at |-> "idle"]]

(* command_tx.send_replace: of two calls at once, the later one to send wins. *)
Send(c) ==
    /\ call[c].at = "send"
    /\ task' = [task EXCEPT ![call[c].h].cmd = call[c].cmd]
    /\ IF call[c].cmd.kind = "cancel" THEN Idle(c) ELSE call' = [call EXCEPT ![c].at = "mark"]
    /\ UNCHANGED <<runner, registry, pos, orders, session, sched, bounds>>

Mark(c) ==
    /\ call[c].at = "mark"
    /\ registry' = MarkRequested(registry, task[call[c].h].id, call[c].cmd.seq)
    /\ Idle(c)
    /\ UNCHANGED <<task, runner, pos, orders, session, sched, bounds>>

CallStep(c) == Send(c) \/ Mark(c)

-----------------------------------------------------------------------------
(* The run loop: run, run_loop, drive_target, run_batch. *)

Goto(h, at) == task' = [task EXCEPT ![h].at = at]
Stop(h) == task[h].cmd # task[h].req

(* A target waits for the step after the one it was asked for in. *)
Command(h) ==
    /\ task[h].at = "command"
    /\ LET cmd == task[h].cmd IN
         \/ /\ cmd.kind = "cancel" /\ UNCHANGED registry
            /\ task' = [task EXCEPT ![h].at = "cancel", ![h].req = cmd]
         \/ /\ cmd.kind = "target" /\ session.gate > cmd.gate
            /\ registry' = MarkObserved(registry, task[h].id, cmd.seq)
            /\ task' = [task EXCEPT ![h].at = "drive", ![h].req = cmd]
    /\ UNCHANGED <<runner, pos, orders, call, session, sched, bounds>>

Drive(h) ==
    /\ task[h].at = "drive"
    /\ LET plan == Plan(task[h].req.volume) IN
         task' = IF Stop(h)
                 THEN [task EXCEPT ![h].at = IF task[h].cmd.kind = "cancel" THEN "cancel" ELSE "command"]
                 ELSE IF plan = <<>> THEN [task EXCEPT ![h].at = "settled", ![h].reached = task[h].req.seq]
                 ELSE [task EXCEPT ![h].at = "batch", ![h].plan = plan]
    /\ UNCHANGED <<runner, registry, pos, orders, call, session, sched, bounds>>

(* A quote that does not come, an open limit that the plan exceeds. *)
DriveFails(h) ==
    /\ task[h].at = "drive" /\ ~Stop(h)
    /\ Mishap
    /\ task' = [task EXCEPT ![h].at = "end", ![h].failed = TRUE]
    /\ UNCHANGED <<runner, registry, pos, orders, call, session, sched>>

Settled(h) ==
    /\ task[h].at = "settled" /\ Stop(h)
    /\ Goto(h, "command")
    /\ UNCHANGED <<runner, registry, pos, orders, call, session, sched, bounds>>

Batch(h) ==
    /\ task[h].at = "batch"
    /\ LET batch == Head(task[h].plan) IN
         IF Stop(h) THEN Goto(h, "command") /\ UNCHANGED runner
         ELSE /\ Goto(h, "running")
              /\ runner' = [k \in DOMAIN runner |->
                    IF k[1] # h \/ k[2] \notin DOMAIN batch THEN runner[k]
                    ELSE [NoRunner EXCEPT !.at = "start", !.dir = batch[k[2]].dir,
                                          !.offset = batch[k[2]].offset, !.left = batch[k[2]].volume]]
    /\ UNCHANGED <<registry, pos, orders, call, session, sched, bounds>>

(* join_all: every child order of the batch has come to its end. *)
Ends == {"off", "completed", "interrupted", "replan", "error"}
Join(h) ==
    /\ task[h].at = "running"
    /\ LET ends == {runner[h, k].at : k \in Slots}
           rest == Tail(task[h].plan)
       IN  /\ ends \subseteq Ends
           /\ task' = [task EXCEPT ![h].plan = rest,
                          ![h].failed = @ \/ "error" \in ends,
                          ![h].at = IF "error" \in ends THEN "end"
                                    ELSE IF "interrupted" \in ends THEN "command"
                                    ELSE IF "replan" \in ends \/ rest = <<>> THEN "drive"
                                    ELSE "batch"]
    /\ runner' = [k \in DOMAIN runner |-> IF k[1] = h THEN NoRunner ELSE runner[k]]
    /\ UNCHANGED <<registry, pos, orders, call, session, sched, bounds>>

(* cancel_owned_orders: it cancels and waits until none is alive; in          *)
(* drive_target's own call the command is read again afterwards.              *)
Owned(h) == registry.orders[task[h].id]
AliveOf(is) == {i \in is : Alive(orders[i])}
Cancelling(is) == [i \in DOMAIN orders |-> IF i \in is THEN [orders[i] EXCEPT !.cancelling = TRUE] ELSE orders[i]]

CancelOwned(h) ==
    /\ task[h].at = "cancel"
    /\ Goto(h, IF AliveOf(Owned(h)) # {} THEN "cancel"
               ELSE IF task[h].req.kind = "cancel" THEN "end" ELSE "command")
    /\ orders' = Cancelling(AliveOf(Owned(h)))
    /\ UNCHANGED <<runner, registry, pos, call, session, sched, bounds>>

(* capture_owned_trades, then the registry forgets the task, then waiters are *)
(* told.  An order left working by an error stays so.                         *)
Capture(h) ==
    /\ task[h].at = "end"
    /\ task' = [task EXCEPT ![h].at = "finish", ![h].trades = {<<i, orders[i].told>> : i \in Owned(h)}]
    /\ UNCHANGED <<runner, registry, pos, orders, call, session, sched, bounds>>

Finish(h) ==
    /\ task[h].at = "finish"
    /\ registry' = Unregister(registry, task[h].id)
    /\ Goto(h, "announce")
    /\ UNCHANGED <<runner, pos, orders, call, session, sched, bounds>>

Announce(h) ==
    /\ task[h].at = "announce"
    /\ task' = [task EXCEPT ![h].at = "off", ![h].started = "done", ![h].finished = TRUE]
    /\ UNCHANGED <<runner, registry, pos, orders, call, session, sched, bounds>>

LoopStep(h) ==
    \/ Command(h) \/ Drive(h) \/ Settled(h) \/ Batch(h) \/ Join(h)
    \/ CancelOwned(h) \/ Capture(h) \/ Finish(h) \/ Announce(h)

-----------------------------------------------------------------------------
(* ChildOrderRunner::run: one order after another until the volume is traded. *)

RunnerAt(h, k, at) == runner[h, k].at = at
Becomes(h, k, r) == runner' = [runner EXCEPT ![<<h, k>>] = r]
Filled(o) == o.volume - o.left

RunnerStart(h, k) ==
    /\ RunnerAt(h, k, "start")
    /\ IF Stop(h)
       THEN Becomes(h, k, [runner[h, k] EXCEPT !.at = "interrupted"]) /\ UNCHANGED registry
       ELSE /\ registry' = MarkBusy(registry, task[h].id)
            /\ Becomes(h, k, [runner[h, k] EXCEPT !.at = "insert"])
    /\ UNCHANGED <<task, pos, orders, call, session, sched, bounds>>

(* insert_order and bind_order_owner.  The exchange refuses to close more     *)
(* than there is, or for reasons of its own.                                  *)
NewOrder(r, refused) ==
    LET volume == Min({r.left, MaxSplit}) IN
    [dir |-> r.dir, offset |-> r.offset, volume |-> volume, left |-> volume, told |-> 0,
     status |-> IF refused THEN "finished" ELSE "alive", error |-> refused, cancelling |-> FALSE]
Exceeds(o) ==
    /\ o.offset # "OPEN"
    /\ o.volume > IF ShfeRules
                  THEN (IF o.offset = "CLOSETODAY" THEN HeldToday(pos, o.dir) ELSE HeldHis(pos, o.dir))
                       - Frozen(o.dir, {o.offset})
                  ELSE HeldToday(pos, o.dir) + HeldHis(pos, o.dir) - Frozen(o.dir, {"CLOSE"})

RunnerInsert(h, k) ==
    /\ RunnerAt(h, k, "insert") /\ Len(orders) < MaxOrders
    /\ LET r == runner[h, k]
           i == Len(orders) + 1
           must == Exceeds(NewOrder(r, FALSE))
       IN  /\ \/ orders' = Append(orders, NewOrder(r, must)) /\ UNCHANGED bounds
              \/ ~must /\ Mishap /\ orders' = Append(orders, NewOrder(r, TRUE))
           /\ registry' = [registry EXCEPT !.orders[task[h].id] = @ \cup {i}]
           /\ task' = [task EXCEPT ![h].mine = @ \cup {i}]
           /\ Becomes(h, k, [r EXCEPT !.at = "look", !.order = i, !.repriced = FALSE, !.interrupted = FALSE])
    /\ UNCHANGED <<pos, call, session, sched>>

(* No price, no connection: the runner returns and stays counted as busy. *)
RunnerFails(h, k) ==
    /\ RunnerAt(h, k, "insert") \/ RunnerAt(h, k, "look")
    /\ Mishap
    /\ Becomes(h, k, [runner[h, k] EXCEPT !.at = "error"])
    /\ UNCHANGED <<task, registry, pos, orders, call, session, sched>>

(* The order is over, and all of its trades are seen. *)
OverUntold(o) == ~Alive(o)                                          \* mutant
Over(o) == ~Alive(o) /\ o.told = Filled(o)

ForgetFilled(r, o) == r.left                                        \* mutant
Remaining(r, o) == r.left - Filled(o)

RunnerLooks(h, k) ==
    /\ RunnerAt(h, k, "look")
    /\ LET r == runner[h, k]
           o == orders[r.order]
           left == Remaining(r, o)
           stops == Stop(h) /\ ~Over(o)
       IN  /\ Becomes(h, k,
                IF ~Over(o) THEN [r EXCEPT !.at = "wait", !.tick = FALSE, !.saw = o.left,
                                           !.interrupted = @ \/ stops, !.repriced = @ \/ (stops /\ Alive(o))]
                ELSE IF r.interrupted THEN [r EXCEPT !.at = "interrupted"]
                ELSE IF o.left > 0 /\ ~r.repriced THEN [r EXCEPT !.at = "quote", !.tick = FALSE]
                ELSE [r EXCEPT !.at = IF left = 0 THEN "completed" ELSE "start", !.left = left])
           /\ orders' = IF stops /\ Alive(o) THEN Cancelling({r.order}) ELSE orders
    /\ registry' = MarkIdle(registry, task[h].id)
    /\ UNCHANGED <<task, pos, call, session, sched, bounds>>

(* It waits for the order, a quote, or its task's word, which once given ends *)
(* every later wait at once; a quote that makes the price the worse one has   *)
(* the order cancelled.                                                       *)
RunnerWakes(h, k) ==
    /\ RunnerAt(h, k, "wait")
    /\ LET r == runner[h, k]
           o == orders[r.order]
       IN  \/ /\ \/ ~Alive(o) \/ o.left # r.saw
                 \/ r.tick /\ ~r.repriced
                 \/ Stop(h)
              /\ Becomes(h, k, [r EXCEPT !.at = "look"])
              /\ UNCHANGED <<orders, bounds>>
           \/ /\ r.tick /\ ~r.repriced /\ Alive(o)
              /\ Mishap
              /\ orders' = Cancelling({r.order})
              /\ Becomes(h, k, [r EXCEPT !.at = "look", !.repriced = TRUE])
    /\ registry' = MarkBusy(registry, task[h].id)
    /\ UNCHANGED <<task, pos, call, session, sched>>

(* After an order that was refused or killed it waits for the market. *)
RunnerRetries(h, k) ==
    /\ RunnerAt(h, k, "quote")
    /\ LET r == runner[h, k]
           o == orders[r.order]
       IN  /\ r.tick \/ Stop(h)
           /\ Becomes(h, k,
                IF Stop(h) THEN [r EXCEPT !.at = "interrupted"]
                ELSE IF r.offset = "CLOSETODAY" THEN [r EXCEPT !.at = "replan"]
                ELSE IF o.error THEN [r EXCEPT !.at = "error"]
                ELSE [r EXCEPT !.at = "start", !.left = Remaining(r, o)])
    /\ UNCHANGED <<task, registry, pos, orders, call, session, sched, bounds>>

RunnerStep(h, k) ==
    RunnerStart(h, k) \/ RunnerInsert(h, k) \/ RunnerLooks(h, k) \/ RunnerWakes(h, k) \/ RunnerRetries(h, k)

-----------------------------------------------------------------------------
(* The exchange. *)

(* Closing takes the named bucket under the SHFE rules, history first elsewhere. *)
Traded(p, o, volume) ==
    LET his == IF o.offset = "OPEN" THEN 0
               ELSE IF ShfeRules THEN IF o.offset = "CLOSE" THEN volume ELSE 0
               ELSE Min({HeldHis(p, o.dir), volume})
        today == volume - his
    IN  IF o.offset = "OPEN"
        THEN IF o.dir = "BUY" THEN [p EXCEPT !.longToday = @ + volume] ELSE [p EXCEPT !.shortToday = @ + volume]
        ELSE IF o.dir = "BUY" THEN [p EXCEPT !.shortToday = @ - today, !.shortHis = @ - his]
        ELSE [p EXCEPT !.longToday = @ - today, !.longHis = @ - his]

Fill(i) ==
    /\ Alive(orders[i])
    /\ \E volume \in 1 .. orders[i].left :
         /\ pos' = Traded(pos, orders[i], volume)
         /\ orders' = [orders EXCEPT ![i].left = @ - volume,
                                     ![i].status = IF orders[i].left = volume THEN "finished" ELSE @]
    /\ UNCHANGED <<task, runner, registry, call, session, sched, bounds>>

Ended(i) == orders' = [orders EXCEPT ![i].status = "finished"]
CancelLands(i) ==
    /\ Alive(orders[i]) /\ orders[i].cancelling
    /\ Ended(i)
    /\ UNCHANGED <<task, runner, registry, pos, call, session, sched, bounds>>
Kill(i) ==
    /\ Alive(orders[i]) /\ Mishap
    /\ Ended(i)
    /\ UNCHANGED <<task, runner, registry, pos, call, session, sched>>
Tell(i) ==
    /\ orders[i].told < Filled(orders[i])
    /\ orders' = [orders EXCEPT ![i].told = Filled(orders[i])]
    /\ UNCHANGED <<task, runner, registry, pos, call, session, sched, bounds>>

-----------------------------------------------------------------------------
(* The session's step: flush_runtime_tasks lets tasks start and waits for     *)
(* them, unless the market's next time is on another trading day.             *)

FlushAll ==
    /\ session.at = "idle" /\ Pending(registry)
    /\ session' = [at |-> "all", gate |-> session.gate + 1]
    /\ UNCHANGED <<task, runner, registry, pos, orders, call, sched, bounds>>

(* Then the market moves.  With nothing to start, or nothing more today, the  *)
(* session only waits for what is in flight.                                  *)
MarketMoves ==
    /\ ~Inflight(registry) /\ (session.at = "all" => ~Pending(registry))
    /\ session' = [session EXCEPT !.at = "idle"]
    /\ runner' = [k \in DOMAIN runner |->
          IF runner[k].at \in {"wait", "quote"} THEN [runner[k] EXCEPT !.tick = TRUE] ELSE runner[k]]
    /\ UNCHANGED <<task, registry, pos, orders, call, sched, bounds>>

SessionStep == FlushAll \/ MarketMoves

-----------------------------------------------------------------------------
(* TargetPosScheduler.  A pause is a step without a task and is left out.     *)

LastStep == sched.step = Len(Schedule)
SchedAt(at) == sched' = [sched EXCEPT !.at = at]

StepTask == CHOOSE h \in Handles : task[h].id = registry.next

(* build: the guard keeps everybody else off the symbol. *)
SchedStart ==
    /\ sched.at = "off" /\ Schedule # <<>>
    /\ registry.key = 0 /\ \A h \in Handles : task[h] = NewTask
    /\ registry' = [registry EXCEPT !.next = @ + 1, !.guard = registry.next + 1]
    /\ sched' = [sched EXCEPT !.at = "build", !.step = 1]
    /\ UNCHANGED <<task, runner, pos, orders, call, session, bounds>>

(* build_step_task: build_internal and set_target_volume. *)
SchedBuild ==
    /\ sched.at = "build"
    /\ IF sched.cancelled THEN SchedAt("end") /\ UNCHANGED <<task, registry>>
       ELSE LET h == CHOOSE h \in Handles : task[h].id = 0
                id == registry.next + 1
                new == [NewTask EXCEPT !.id = id, !.seq = 1, !.cmd =
                          [kind |-> "target", seq |-> 1, volume |-> Schedule[sched.step], gate |-> session.gate]]
            IN  /\ task' = [task EXCEPT ![h] = Started(new)]
                /\ registry' = MarkRequested([registry EXCEPT !.next = id], id, 1)
                /\ SchedAt("wait")
    /\ UNCHANGED <<runner, pos, orders, call, session, bounds>>

(* wait_step_deadline, wait_last_step; the market decides the deadline. *)
SchedWait ==
    /\ sched.at = "wait"
    /\ sched.cancelled \/ ~LastStep \/ task[StepTask].reached >= 1 \/ task[StepTask].finished
    /\ SchedAt("finish")
    /\ UNCHANGED <<task, runner, registry, pos, orders, call, session, bounds>>

(* The deadline cannot be computed: the step's task is left running. *)
SchedWaitFails ==
    /\ sched.at = "wait" /\ ~LastStep
    /\ Mishap
    /\ sched' = [sched EXCEPT !.at = "end", !.failed = TRUE]
    /\ UNCHANGED <<task, runner, registry, pos, orders, call, session>>

(* finish_step_task: cancel, wait, collect the trades. *)
SchedCancelTask ==
    /\ sched.at = "finish"
    /\ LET h == StepTask IN
         task' = IF task[h].finished THEN task
                 ELSE [task EXCEPT ![h].closed = TRUE, ![h].cmd = [NoCommand EXCEPT !.kind = "cancel"]]
    /\ SchedAt("join")
    /\ UNCHANGED <<runner, registry, pos, orders, call, session, bounds>>

SchedNext ==
    /\ sched.at = "join" /\ task[StepTask].finished
    /\ LET t == task[StepTask]
           over == LastStep \/ sched.cancelled \/ t.failed
       IN  sched' = [sched EXCEPT !.trades = @ \cup t.trades, !.failed = t.failed,
                        !.at = IF over THEN "end" ELSE "build", !.step = IF over THEN @ ELSE @ + 1]
    /\ UNCHANGED <<task, runner, registry, pos, orders, call, session, bounds>>

SchedEnd ==
    /\ sched.at = "end"
    /\ registry' = Unregister(registry, registry.guard)
    /\ SchedAt("done")
    /\ UNCHANGED <<task, runner, pos, orders, call, session, bounds>>

SchedCancel ==
    /\ sched.at \in {"build", "wait", "finish", "join"} /\ ~sched.cancelled
    /\ sched' = [sched EXCEPT !.cancelled = TRUE]
    /\ UNCHANGED <<task, runner, registry, pos, orders, call, session, bounds>>

SchedStep == SchedBuild \/ SchedWait \/ SchedCancelTask \/ SchedNext \/ SchedEnd

-----------------------------------------------------------------------------
ExchangeAnswers(i) == CancelLands(i) \/ Tell(i)

Next ==
    \/ \E h \in Handles : Build(h) \/ Drop(h) \/ LoopStep(h) \/ DriveFails(h)
    \/ \E h \in Handles, k \in Slots : RunnerStep(h, k) \/ RunnerFails(h, k)
    \/ \E c \in Callers : Call(c) \/ CallStep(c)
    \/ \E i \in DOMAIN orders : Fill(i) \/ Kill(i) \/ ExchangeAnswers(i)
    \/ SessionStep
    \/ SchedStart \/ SchedStep \/ SchedWaitFails \/ SchedCancel

(* Tasks and calls run on; the exchange answers a cancel and reports trades,  *)
(* and owes nobody a trade.                                                   *)
Fairness ==
    /\ \A h \in Handles : WF_vars(LoopStep(h))
    /\ \A h \in Handles, k \in Slots : WF_vars(RunnerStep(h, k))
    /\ \A c \in Callers : WF_vars(CallStep(c))
    /\ \A i \in 1 .. MaxOrders : WF_vars(i \in DOMAIN orders /\ ExchangeAnswers(i))
    /\ WF_vars(MarketMoves)

Spec == Init /\ [][Next]_vars /\ Fairness

-----------------------------------------------------------------------------
(* Properties. *)

(* A handle that no other shared the symbol with, and no error of which left  *)
(* an order behind.                                                           *)
Erring == \E h \in Handles : task[h].failed \/ \E k \in Slots : RunnerAt(h, k, "error")
Sharing == \E h, g \in Handles : h # g /\ task[h].id # 0 /\ task[h].id = task[g].id
Lone(h) ==
    /\ ~Erring /\ ~Sharing /\ ~sched.failed
    /\ \A g \in Handles \ {h} : AliveOf(task[g].mine) = {} /\ task[g].at \notin {"batch", "running"}

Signs(is) == MapThenSumSet(LAMBDA i : Signed(orders[i].dir, orders[i].left), is)
Between(x, goal) == (0 <= x /\ x <= goal) \/ (goal <= x /\ x <= 0)

(* The orders a task has working never carry the position past the target it  *)
(* is driving at, whatever of them is filled, killed, repriced or cut off by  *)
(* a newer target; before it plans anew it has none (run_batch's join and the *)
(* runner's count of what is left).                                           *)
NoOvershoot ==
    \A h \in Handles : Lone(h) =>
        IF task[h].at = "running"
        THEN Between(Signs(AliveOf(task[h].mine)), task[h].req.volume - Net(pos))
        ELSE AliveOf(task[h].mine) = {}

(* What a plan closes is there to be closed when its orders are made: several *)
(* orders of a batch, split and retried, do not together exceed what is held  *)
(* (planned_order_for_action's frozen volumes).                               *)
PlanFits ==
    \A h \in Handles, k \in Slots :
        Lone(h) /\ RunnerAt(h, k, "insert") => ~Exceeds(NewOrder(runner[h, k], FALSE))

(* A task that finishes without an error leaves no order working, and its     *)
(* trades are all that its orders were filled with; the scheduler's report    *)
(* has those of every step (capture_owned_trades, finish_step_task).          *)
Trades(h) == {<<i, Filled(orders[i])>> : i \in task[h].mine}
AllReported ==
    /\ \A h \in Handles : task[h].finished /\ ~Erring /\ ~Sharing =>
           AliveOf(task[h].mine) = {} /\ task[h].trades = Trades(h)
    /\ sched.at = "done" /\ ~sched.failed /\ ~Erring =>
           sched.trades = UNION {Trades(h) : h \in Handles}

(* A flush of the session ends, unless calls crossed each other or it: a      *)
(* target set while it runs waits for a step that only the next flush begins; *)
(* of two at once the older may be sent last, and a call may come too late    *)
(* for its task: nobody will observe these requests; an error may leave an    *)
(* order counted as in flight (flush_runtime_tasks, set_target_volume).       *)
Late(h) == task[h].cmd.kind = "target" /\ task[h].cmd.gate = session.gate
Overtaken(h) == task[h].cmd.kind = "target" /\ registry.progress[task[h].id].asked > task[h].cmd.seq
Orphan == \E id \in Ids : registry.known[id] /\ \A h \in Handles : task[h].id = id => task[h].finished
Crossed == Orphan \/ \E h \in Handles : Late(h) \/ Overtaken(h)
FlushCompletes == session.at = "all" ~> (session.at = "idle" \/ Crossed \/ Erring \/ Sharing)
=============================================================================
