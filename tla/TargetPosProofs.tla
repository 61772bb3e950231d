-------------------------- MODULE TargetPosProofs --------------------------
(***************************************************************************)
(* Proofs about TargetPos, for any handles, callers, targets, schedule,    *)
(* offset priority and exchange.                                           *)
(*                                                                         *)
(* A task that ends without an error leaves no order working, and it and   *)
(* the scheduler report all trades.  What a plan decides, what volumes are *)
(* and when a runner is interrupted does not matter for that: the argument *)
(* is about who holds an order, and ends in AllReportedHolds.              *)
(*                                                                         *)
(* What a task has working never carries the position past its target, and *)
(* a plan's orders close no more than there is.  These are about volumes,  *)
(* and their argument is told where it begins, before Sole.                *)
(***************************************************************************)
EXTENDS TargetPos, FiniteSetTheorems, SequenceTheorems, WellFoundedInduction, TLAPS

-----------------------------------------------------------------------------
(* The fields of the records that the state is made of. *)
TaskFields == {"id", "closed", "started", "cmd", "seq", "reached", "finished", "failed",
               "trades", "at", "req", "plan", "mine"}
RunnerFields == {"at", "order", "dir", "offset", "left", "interrupted", "repriced", "tick", "saw"}
OrderFields == {"dir", "offset", "volume", "left", "told", "status", "error", "cancelling"}

FieldsOK ==
    /\ DOMAIN task = Handles /\ \A h \in Handles : DOMAIN task[h] = TaskFields
    /\ DOMAIN runner = Handles \X Slots /\ \A k \in Handles \X Slots : DOMAIN runner[k] = RunnerFields
    /\ DOMAIN registry = {"next", "key", "guard", "known", "progress", "orders"}
    /\ DOMAIN registry.orders = Ids
    /\ orders \in Seq(Range(orders)) /\ \A i \in DOMAIN orders : DOMAIN orders[i] = OrderFields
    /\ DOMAIN sched = {"at", "step", "cancelled", "failed", "trades"}
    /\ DOMAIN call = Callers

(* Ids are given out in order, one for each handle and one for the scheduler's *)
(* guard, so there are enough of them.                                         *)
Built == {h \in Handles : task[h].id # 0}
Stepping == {"wait", "finish", "join"}
CountInv ==
    /\ registry.next \in Nat /\ sched.step \in Nat
    /\ registry.next <= Cardinality(Built) + (IF sched.at = "off" THEN 0 ELSE 1)
    /\ sched.at \in {"off", "end", "done", "build"} \cup Stepping
    /\ sched.at = "build" => sched.step <= Len(Schedule) /\ Cardinality(Built) = sched.step - 1
    /\ sched.at \in Stepping => sched.step <= Len(Schedule) /\ Cardinality(Built) = sched.step

(* Nobody but tasks of one key share an id, and the scheduler's have none.    *)
IdsInv ==
    /\ registry.key \in 0 .. registry.next /\ registry.guard \in 0 .. registry.next
    /\ registry.key # 0 => \E h \in Handles : task[h].id = registry.key
    /\ \A h \in Handles : task[h].id \in 0 .. registry.next /\ (task[h].id = 0 => task[h] = NewTask)
    /\ \A id \in Ids : id > registry.next => registry.orders[id] = {}
    /\ IF sched.at = "off" THEN registry.guard = 0
       ELSE /\ ~Sharing /\ registry.next # 0
            /\ sched.at # "done" => registry.guard # 0
            /\ \A h \in Handles : task[h].id # 0 => task[h].id # registry.guard

(* Who calls has a handle that was built. *)
CallsInv ==
    \A c \in Callers : call[c].at # "idle" =>
        DOMAIN call[c] = {"at", "h", "cmd"} /\ call[c].h \in Handles /\ task[call[c].h].id # 0

(* Where a task is in its life. *)
Working == {"command", "drive", "settled", "batch", "running", "cancel", "end", "finish"}
LifeFor(h) ==
    /\ task[h].at # "off" => task[h].started = "run" /\ task[h].id # 0 /\ ~task[h].finished
    /\ task[h].started = "no" => task[h].at = "off" /\ task[h].mine = {} /\ ~task[h].finished
    /\ task[h].finished => task[h].started = "done"
    /\ task[h].at # "running" => \A k \in Slots : runner[<<h, k>>].at = "off"
    /\ task[h].mine \subseteq DOMAIN orders
LifeInv == \A h \in Handles : LifeFor(h)

(* The registry knows the orders of every task that has not ended. *)
Registered(h) == task[h].id # 0 /\ (task[h].started = "no" \/ task[h].at \in Working)
OwnersFor(h) == Registered(h) => Owned(h) = task[h].mine
OwnersInv == ~Sharing => \A h \in Handles : OwnersFor(h)

(* Each order of a task is over, or one of its runners is at it; what was     *)
(* captured at its end is all.                                                *)
Busy == {"look", "wait"}
Held(h, i) == \E k \in Slots : runner[<<h, k>>].at \in Busy /\ runner[<<h, k>>].order = i
Captured(h) == task[h].at \in {"finish", "announce"} \/ task[h].finished
HeldFor(h) ==
    /\ \A i \in task[h].mine : Over(orders[i]) \/ Held(h, i)
    /\ Captured(h) => task[h].trades = Trades(h)
HeldInv == ~Erring /\ ~Sharing => \A h \in Handles : HeldFor(h)

(* The scheduler has the trades of every step before the one at hand. *)
Collected == {h \in Built : sched.at \in Stepping => task[h].id # registry.next}
SchedInv ==
    /\ sched.failed => sched.at \in {"end", "done"}
    /\ sched.at = "off" => sched.trades = {}
    /\ sched.at \in Stepping => \E h \in Handles : task[h].id = registry.next
    /\ sched.at # "off" /\ ~sched.failed /\ ~Erring =>
          /\ \A h \in Collected : task[h].finished
          /\ sched.trades = UNION {task[h].trades : h \in Collected}

ReportInv == FieldsOK /\ CountInv /\ IdsInv /\ CallsInv /\ LifeInv /\ OwnersInv /\ HeldInv /\ SchedInv

-----------------------------------------------------------------------------
(* What steps do to the tasks, the registry and the orders. *)
Kept(h) ==
    /\ task'[h].id = task[h].id /\ task'[h].started = task[h].started
    /\ task'[h].finished = task[h].finished /\ task'[h].trades = task[h].trades
    /\ task'[h].mine = task[h].mine
Still(h) ==
    /\ Kept(h) /\ task'[h].at = task[h].at /\ task'[h].failed = task[h].failed
    /\ task[h].id = 0 => task'[h] = task[h]
SameIds == registry'.next = registry.next /\ registry'.key = registry.key /\ registry'.guard = registry.guard
SameSched == sched'.at = sched.at /\ sched'.step = sched.step /\ sched'.failed = sched.failed
             /\ sched'.trades = sched.trades
SameRunners ==
    \A h \in Handles, k \in Slots : runner'[h, k].at = runner[h, k].at /\ runner'[h, k].order = runner[h, k].order

(* An order that is over stays as it is. *)
OrdersGoOn ==
    /\ DOMAIN orders \subseteq DOMAIN orders'
    /\ \A i \in DOMAIN orders :
          Over(orders[i]) => Over(orders'[i]) /\ Filled(orders'[i]) = Filled(orders[i])

LEMMA OrdersSame ==
    ASSUME UNCHANGED orders
    PROVE  OrdersGoOn
BY DEF OrdersGoOn

LEMMA FunctionIsSeq ==
    ASSUME NEW n \in Nat, NEW S, NEW s \in [1 .. n -> S]
    PROVE  s \in Seq(S)
OBVIOUS

(* An order may be asked to be cancelled. *)
LEMMA CancellingGoesOn ==
    ASSUME FieldsOK, NEW is, orders' = Cancelling(is)
    PROVE  /\ OrdersGoOn
           /\ orders' \in Seq(Range(orders')) /\ \A i \in DOMAIN orders' : DOMAIN orders'[i] = OrderFields
<1>1. DOMAIN orders' = DOMAIN orders
  BY DEF Cancelling
<1>2. ASSUME NEW i \in DOMAIN orders
      PROVE  /\ DOMAIN orders'[i] = OrderFields
             /\ orders'[i].status = orders[i].status /\ orders'[i].told = orders[i].told
             /\ orders'[i].volume = orders[i].volume /\ orders'[i].left = orders[i].left
  <2>1. orders'[i] = IF i \in is THEN [orders[i] EXCEPT !.cancelling = TRUE] ELSE orders[i]
    BY DEF Cancelling
  <2>2. DOMAIN orders[i] = OrderFields
    BY DEF FieldsOK
  <2> QED BY <2>1, <2>2 DEF OrderFields
<1>3. orders' \in Seq(Range(orders'))
  <2>1. Len(orders) \in Nat /\ DOMAIN orders = 1 .. Len(orders)
    BY DEF FieldsOK
  <2>2. orders' \in [1 .. Len(orders) -> Range(orders')]
    BY <2>1, <1>1 DEF Cancelling, Range
  <2> QED BY <2>1, <2>2, FunctionIsSeq
<1> QED BY <1>1, <1>2, <1>3 DEF OrdersGoOn, Over, Alive, Filled

(* A change to one order that leaves alone those that are over. *)
LEMMA OrderChanged ==
    ASSUME FieldsOK, NEW i \in DOMAIN orders, NEW o, DOMAIN o = OrderFields,
           orders' = [orders EXCEPT ![i] = o],
           Over(orders[i]) => Over(o) /\ Filled(o) = Filled(orders[i])
    PROVE  /\ OrdersGoOn
           /\ orders' \in Seq(Range(orders')) /\ \A k \in DOMAIN orders' : DOMAIN orders'[k] = OrderFields
<1>1. /\ Len(orders) \in Nat /\ DOMAIN orders = 1 .. Len(orders)
      /\ \A k \in DOMAIN orders : DOMAIN orders[k] = OrderFields
  BY DEF FieldsOK
<1>2. DOMAIN orders' = DOMAIN orders
  OBVIOUS
<1>3. \A k \in DOMAIN orders : orders'[k] = IF k = i THEN o ELSE orders[k]
  OBVIOUS
<1>4. orders' \in Seq(Range(orders'))
  <2>1. orders' \in [1 .. Len(orders) -> Range(orders')]
    BY <1>1, <1>2 DEF Range
  <2> QED BY <1>1, <2>1, FunctionIsSeq
<1>5. \A k \in DOMAIN orders' : DOMAIN orders'[k] = OrderFields
  BY <1>1, <1>2, <1>3
<1> QED BY <1>2, <1>3, <1>4, <1>5 DEF OrdersGoOn

(* The steps of the exchange. *)
Exchange(i) == Fill(i) \/ Kill(i) \/ ExchangeAnswers(i)
LEMMA ExchangeEffect ==
    ASSUME FieldsOK, NEW i \in DOMAIN orders, Exchange(i)
    PROVE  FieldsOK' /\ OrdersGoOn /\ UNCHANGED <<task, runner, registry, call, sched>>
<1> DEFINE fields == orders' \in Seq(Range(orders')) /\ \A k \in DOMAIN orders' : DOMAIN orders'[k] = OrderFields
<1>1. UNCHANGED <<task, runner, registry, call, sched>>
  BY DEF Exchange, Fill, Kill, ExchangeAnswers, CancelLands, Tell, Mishap
<1>2. DOMAIN orders[i] = OrderFields
  BY DEF FieldsOK
<1>3. OrdersGoOn /\ fields
  <2>1. CASE Fill(i)
    <3>1. PICK volume \in 1 .. orders[i].left :
             orders' = [orders EXCEPT ![i].left = @ - volume,
                                      ![i].status = IF orders[i].left = volume THEN "finished" ELSE @]
      BY <2>1 DEF Fill
    <3> DEFINE o == [[orders[i] EXCEPT !.left = @ - volume] EXCEPT
                        !.status = IF orders[i].left = volume THEN "finished" ELSE @]
    <3>2. orders' = [orders EXCEPT ![i] = o] /\ DOMAIN o = OrderFields
      BY <3>1, <1>2 DEF OrderFields
    <3>3. ~ Over(orders[i])
      BY <2>1 DEF Fill, Over
    <3> HIDE DEF o
    <3> QED BY <3>2, <3>3, OrderChanged
  <2>2. CASE Kill(i) \/ CancelLands(i)
    <3> DEFINE o == [orders[i] EXCEPT !.status = "finished"]
    <3>1. orders' = [orders EXCEPT ![i] = o] /\ DOMAIN o = OrderFields
      BY <2>2, <1>2 DEF OrderFields, Kill, CancelLands, Ended
    <3>2. ~ Over(orders[i])
      BY <2>2 DEF Kill, CancelLands, Over
    <3> HIDE DEF o
    <3> QED BY <3>1, <3>2, OrderChanged
  <2>3. CASE Tell(i)
    <3> DEFINE o == [orders[i] EXCEPT !.told = Filled(orders[i])]
    <3>1. orders' = [orders EXCEPT ![i] = o] /\ DOMAIN o = OrderFields
      BY <2>3, <1>2 DEF OrderFields, Tell
    <3>2. Over(orders[i]) => Over(o) /\ Filled(o) = Filled(orders[i])
      BY <1>2 DEF Over, Alive, Filled, OrderFields
    <3> HIDE DEF o
    <3> QED BY <3>1, <3>2, OrderChanged
  <2> QED BY <2>1, <2>2, <2>3 DEF Exchange, ExchangeAnswers
<1> QED BY <1>1, <1>3 DEF FieldsOK, Ids

(* The registry's counts of requests and of what is in flight. *)
LEMMA MarksKeep ==
    ASSUME FieldsOK, NEW id, NEW seq,
           \/ registry' = MarkRequested(registry, id, seq)
           \/ registry' = MarkObserved(registry, id, seq)
           \/ registry' = MarkBusy(registry, id)
           \/ registry' = MarkIdle(registry, id)
    PROVE  /\ SameIds /\ registry'.orders = registry.orders
           /\ DOMAIN registry' = {"next", "key", "guard", "known", "progress", "orders"}
<1>1. DOMAIN registry = {"next", "key", "guard", "known", "progress", "orders"}
  BY DEF FieldsOK
<1>2. ASSUME NEW p, registry' = WithProgress(registry, id, p)
      PROVE  /\ SameIds /\ registry'.orders = registry.orders
             /\ DOMAIN registry' = {"next", "key", "guard", "known", "progress", "orders"}
  BY <1>1, <1>2 DEF WithProgress, SameIds
<1>3. CASE registry' = MarkIdle(registry, id)
  BY <1>1, <1>3 DEF MarkIdle, SameIds
<1> QED BY <1>2, <1>3 DEF MarkRequested, MarkObserved, MarkBusy

(* Steps that nothing of what follows depends on: a command on its way, a      *)
(* flush of the session, the market's next quote, fills and reports.           *)
LEMMA SendEffect ==
    ASSUME FieldsOK, CallsInv, NEW c \in Callers, CallStep(c)
    PROVE  /\ FieldsOK' /\ \A h \in Handles : Still(h)
           /\ UNCHANGED <<runner, orders, sched>> /\ SameIds /\ registry'.orders = registry.orders
           /\ \A d \in Callers \ {c} : call'[d] = call[d]
           /\ call'[c].at # "idle" => DOMAIN call'[c] = {"at", "h", "cmd"} /\ call'[c].h = call[c].h
           /\ call[c].at # "idle"
<1>1. /\ DOMAIN task = Handles /\ \A h \in Handles : DOMAIN task[h] = TaskFields
      /\ DOMAIN call = Callers
  BY DEF FieldsOK
<1>2. call[c].at # "idle"
  BY DEF CallStep, Send, Mark
<1>3. DOMAIN call[c] = {"at", "h", "cmd"} /\ call[c].h \in Handles /\ task[call[c].h].id # 0
  BY <1>2 DEF CallsInv
<1>4. /\ DOMAIN call' = Callers /\ \A d \in Callers \ {c} : call'[d] = call[d]
      /\ call'[c].at # "idle" => DOMAIN call'[c] = {"at", "h", "cmd"} /\ call'[c].h = call[c].h
  <2>1. call' = [call EXCEPT ![c] = [at |-> "idle"]] \/ call' = [call EXCEPT ![c].at = "mark"]
    BY DEF CallStep, Send, Mark, Idle
  <2> QED BY <2>1, <1>1, <1>3
<1>5. CASE Send(c)
  <2>1. task' = [task EXCEPT ![call[c].h].cmd = call[c].cmd] /\ UNCHANGED <<runner, registry, orders, sched>>
    BY <1>5 DEF Send
  <2>2. /\ DOMAIN task' = Handles /\ \A h \in Handles : DOMAIN task'[h] = TaskFields
        /\ \A h \in Handles : Still(h)
    BY <2>1, <1>1, <1>3 DEF Still, Kept, TaskFields
  <2> QED BY <1>2, <1>4, <2>1, <2>2 DEF FieldsOK, SameIds, Ids
<1>6. CASE Mark(c)
  <2>1. UNCHANGED <<task, runner, orders, sched>>
    BY <1>6 DEF Mark
  <2>2. /\ SameIds /\ registry'.orders = registry.orders
        /\ DOMAIN registry' = {"next", "key", "guard", "known", "progress", "orders"}
    BY <1>6, MarksKeep DEF Mark
  <2> QED BY <1>2, <1>4, <2>1, <2>2 DEF FieldsOK, Still, Kept, Ids
<1> QED BY <1>5, <1>6 DEF CallStep

LEMMA SessionEffect ==
    ASSUME FieldsOK, SessionStep
    PROVE  FieldsOK' /\ SameRunners /\ UNCHANGED <<task, registry, orders, call, sched>>
<1>1. CASE FlushAll
  BY <1>1 DEF FlushAll, FieldsOK, SameRunners, Ids
<1>2. CASE MarketMoves
  <2>1. runner' = [k \in DOMAIN runner |->
          IF runner[k].at \in {"wait", "quote"} THEN [runner[k] EXCEPT !.tick = TRUE] ELSE runner[k]]
    BY <1>2 DEF MarketMoves
  <2>2. DOMAIN runner' = Handles \X Slots
    BY <2>1 DEF FieldsOK
  <2>3. ASSUME NEW k \in Handles \X Slots
        PROVE  DOMAIN runner'[k] = RunnerFields /\ runner'[k].at = runner[k].at
               /\ runner'[k].order = runner[k].order
    BY <2>1 DEF FieldsOK, RunnerFields
  <2>4. UNCHANGED <<task, registry, orders, call, sched>>
    BY <1>2 DEF MarketMoves
  <2> QED BY <2>2, <2>3, <2>4 DEF FieldsOK, SameRunners, Ids
<1> QED BY <1>1, <1>2 DEF SessionStep

(* A call begins: the loop of a handle that had none starts. *)
LEMMA CallEffect ==
    ASSUME FieldsOK, NEW c \in Callers, Call(c)
    PROVE  /\ FieldsOK' /\ UNCHANGED <<runner, registry, orders, sched>>
           /\ \A d \in Callers \ {c} : call'[d] = call[d]
           /\ \E h \in Handles :
                 /\ task[h].id # 0 /\ \A g \in Handles \ {h} : Still(g)
                 /\ Kept(h) \/ task[h].started = "no"
                 /\ task'[h].id = task[h].id /\ task'[h].finished = task[h].finished
                 /\ task'[h].failed = task[h].failed
                 /\ task'[h].trades = task[h].trades /\ task'[h].mine = task[h].mine
                 /\ IF task[h].started = "no" THEN task'[h].started = "run" /\ task'[h].at = "command"
                    ELSE task'[h].at = task[h].at
                 /\ DOMAIN call'[c] = {"at", "h", "cmd"} /\ call'[c].h = h
<1>1. UNCHANGED <<runner, registry, orders, sched>>
  BY DEF Call
<1>2. /\ DOMAIN task = Handles /\ \A h \in Handles : DOMAIN task[h] = TaskFields
      /\ DOMAIN call = Callers
  BY DEF FieldsOK
<1>3. PICK h \in Handles : BeginCancel(c, h) \/ \E v \in Targets : BeginTarget(c, h, v)
  BY DEF Call
<1>4. /\ task[h].id # 0
      /\ DOMAIN call' = Callers /\ \A d \in Callers \ {c} : call'[d] = call[d]
      /\ DOMAIN call'[c] = {"at", "h", "cmd"} /\ call'[c].h = h
  BY <1>2, <1>3 DEF BeginCancel, BeginTarget, Startable
<1>5. LET t == Started(task[h]) IN
      \/ task' = [task EXCEPT ![h] = [t EXCEPT !.closed = TRUE]]
      \/ task' = [task EXCEPT ![h] = [t EXCEPT !.seq = @ + 1]]
  BY <1>3 DEF BeginCancel, BeginTarget
<1> DEFINE t == Started(task[h])
<1>6. /\ DOMAIN t = TaskFields /\ t.id = task[h].id /\ t.finished = task[h].finished
      /\ t.failed = task[h].failed /\ t.trades = task[h].trades /\ t.mine = task[h].mine
      /\ IF task[h].started = "no" THEN t.started = "run" /\ t.at = "command"
         ELSE t.at = task[h].at /\ t.started = task[h].started
  BY <1>2 DEF Started, TaskFields
<1> HIDE DEF t
<1>7. /\ DOMAIN task' = Handles /\ DOMAIN task'[h] = TaskFields
      /\ \A g \in Handles \ {h} : task'[g] = task[g]
      /\ task'[h].id = t.id /\ task'[h].finished = t.finished /\ task'[h].failed = t.failed
      /\ task'[h].trades = t.trades /\ task'[h].mine = t.mine /\ task'[h].at = t.at
      /\ task'[h].started = t.started
  BY <1>2, <1>5, <1>6 DEF t, TaskFields
<1>8. FieldsOK'
  BY <1>1, <1>2, <1>4, <1>7 DEF FieldsOK, Ids
<1>9. /\ \A g \in Handles \ {h} : Still(g)
      /\ Kept(h) \/ task[h].started = "no"
  BY <1>2, <1>6, <1>7 DEF Still, Kept
<1> QED BY <1>1, <1>3, <1>4, <1>6, <1>7, <1>8, <1>9

(* A runner goes on: it lets go of an order only when that is over, or fails. *)
RunnerGoesOn(h, k) ==
    /\ \A g \in Handles, l \in Slots : g # h \/ l # k => runner'[<<g, l>>] = runner[<<g, l>>]
    /\ runner[<<h, k>>].at \notin {"off", "error"} /\ runner'[<<h, k>>].at # "off"
    /\ runner[<<h, k>>].at \in Busy =>
          \/ runner'[<<h, k>>].at \in Busy /\ runner'[<<h, k>>].order = runner[<<h, k>>].order
          \/ Over(orders'[runner[<<h, k>>].order])
          \/ runner'[<<h, k>>].at = "error"

LEMMA RunnerBecomes ==
    ASSUME FieldsOK, NEW h \in Handles, NEW k \in Slots, NEW r, DOMAIN r = RunnerFields, Becomes(h, k, r)
    PROVE  /\ DOMAIN runner' = Handles \X Slots
           /\ \A l \in Handles \X Slots : DOMAIN runner'[l] = RunnerFields
           /\ runner'[<<h, k>>] = r
           /\ \A g \in Handles, l \in Slots : g # h \/ l # k => runner'[<<g, l>>] = runner[<<g, l>>]
BY DEF FieldsOK, Becomes

(* A runner gives its order up only when it is over, or with an error. *)
LEMMA RunnerEffect ==
    ASSUME FieldsOK, NEW h \in Handles, NEW k \in Slots,
           RunnerStart(h, k) \/ RunnerLooks(h, k) \/ RunnerWakes(h, k) \/ RunnerRetries(h, k) \/ RunnerFails(h, k)
    PROVE  /\ FieldsOK' /\ RunnerGoesOn(h, k) /\ OrdersGoOn
           /\ UNCHANGED <<task, call, sched>> /\ SameIds /\ registry'.orders = registry.orders
<1> DEFINE r == runner[<<h, k>>]
           o == orders[r.order]
           fields == orders' \in Seq(Range(orders')) /\ \A i \in DOMAIN orders' : DOMAIN orders'[i] = OrderFields
<1>1. DOMAIN r = RunnerFields /\ runner[h, k] = r
  BY DEF FieldsOK
<1>2. UNCHANGED <<task, call, sched>>
  BY DEF RunnerStart, RunnerLooks, RunnerWakes, RunnerRetries, RunnerFails
<1>3. /\ SameIds /\ registry'.orders = registry.orders
      /\ DOMAIN registry' = {"next", "key", "guard", "known", "progress", "orders"}
  <2>1. \/ registry' = MarkBusy(registry, task[h].id) \/ registry' = MarkIdle(registry, task[h].id)
        \/ UNCHANGED registry
    BY DEF RunnerStart, RunnerLooks, RunnerWakes, RunnerRetries, RunnerFails
  <2>2. CASE UNCHANGED registry
    BY <2>2 DEF SameIds, FieldsOK
  <2> QED BY <2>1, <2>2, MarksKeep
<1>4. fields /\ OrdersGoOn
  <2>1. UNCHANGED orders \/ orders' = Cancelling({r.order})
    BY <1>1 DEF RunnerStart, RunnerLooks, RunnerWakes, RunnerRetries, RunnerFails
  <2>2. CASE UNCHANGED orders
    BY <2>2, OrdersSame DEF FieldsOK
  <2> QED BY <2>1, <2>2, CancellingGoesOn
<1>5. PICK q : /\ DOMAIN q = RunnerFields /\ Becomes(h, k, q) /\ r.at \notin {"off", "error"} /\ q.at # "off"
               /\ r.at \in Busy =>
                     \/ q.at \in Busy /\ q.order = r.order
                     \/ Over(o) /\ UNCHANGED orders
                     \/ q.at = "error"
  <2> HIDE DEF r
  <2>1. CASE RunnerStart(h, k)
    <3>1. /\ r.at = "start"
          /\ \/ Becomes(h, k, [r EXCEPT !.at = "interrupted"]) \/ Becomes(h, k, [r EXCEPT !.at = "insert"])
      BY <2>1, <1>1 DEF RunnerStart, RunnerAt
    <3> QED BY <3>1, <1>1 DEF RunnerFields, Busy
  <2>2. CASE RunnerLooks(h, k)
    <3> DEFINE left == Remaining(r, o)
               stops == Stop(h) /\ ~Over(o)
               z == IF ~Over(o) THEN [r EXCEPT !.at = "wait", !.tick = FALSE, !.saw = o.left,
                                           !.interrupted = @ \/ stops, !.repriced = @ \/ (stops /\ Alive(o))]
                    ELSE IF r.interrupted THEN [r EXCEPT !.at = "interrupted"]
                    ELSE IF o.left > 0 /\ ~r.repriced THEN [r EXCEPT !.at = "quote", !.tick = FALSE]
                    ELSE [r EXCEPT !.at = IF left = 0 THEN "completed" ELSE "start", !.left = left]
    <3>1. r.at = "look" /\ Becomes(h, k, z)
      BY <2>2, <1>1 DEF RunnerLooks, RunnerAt
    <3>2. /\ DOMAIN z = RunnerFields /\ z.at # "off"
          /\ ~Over(o) => z.at = "wait" /\ z.order = r.order
      <4> HIDE DEF left, stops, o
      <4> QED BY <1>1 DEF RunnerFields
    <3>3. Over(o) => UNCHANGED orders
      BY <2>2, <1>1 DEF RunnerLooks
    <3> HIDE DEF z
    <3> QED BY <3>1, <3>2, <3>3 DEF Busy
  <2>3. CASE RunnerWakes(h, k)
    <3>1. PICK z \in {[r EXCEPT !.at = "look"], [r EXCEPT !.at = "look", !.repriced = TRUE]} :
             r.at = "wait" /\ Becomes(h, k, z)
      BY <2>3, <1>1 DEF RunnerWakes, RunnerAt
    <3>2. DOMAIN z = RunnerFields /\ z.at = "look" /\ z.order = r.order
      BY <1>1 DEF RunnerFields
    <3> QED BY <3>1, <3>2 DEF Busy
  <2>4. CASE RunnerRetries(h, k)
    <3> DEFINE z == IF Stop(h) THEN [r EXCEPT !.at = "interrupted"]
                    ELSE IF r.offset = "CLOSETODAY" THEN [r EXCEPT !.at = "replan"]
                    ELSE IF o.error THEN [r EXCEPT !.at = "error"]
                    ELSE [r EXCEPT !.at = "start", !.left = Remaining(r, o)]
    <3>1. r.at = "quote" /\ Becomes(h, k, z)
      BY <2>4, <1>1 DEF RunnerRetries, RunnerAt
    <3>2. DOMAIN z = RunnerFields /\ z.at # "off"
      <4> HIDE DEF o
      <4> QED BY <1>1 DEF RunnerFields
    <3> HIDE DEF z
    <3> QED BY <3>1, <3>2 DEF Busy
  <2>5. CASE RunnerFails(h, k)
    <3> DEFINE z == [r EXCEPT !.at = "error"]
    <3>1. r.at \in {"insert", "look"} /\ Becomes(h, k, z)
      BY <2>5, <1>1 DEF RunnerFails, RunnerAt
    <3>2. DOMAIN z = RunnerFields /\ z.at = "error"
      BY <1>1 DEF RunnerFields
    <3> HIDE DEF z
    <3> QED BY <3>1, <3>2 DEF Busy
  <2> QED BY <2>1, <2>2, <2>3, <2>4, <2>5
<1>6. Over(o) /\ UNCHANGED orders => Over(orders'[r.order])
  OBVIOUS
<1>7. FieldsOK'
  BY <1>2, <1>3, <1>4, <1>5, RunnerBecomes DEF FieldsOK, Ids, SameIds
<1>8. RunnerGoesOn(h, k)
  BY <1>5, <1>6, RunnerBecomes DEF RunnerGoesOn
<1> QED BY <1>2, <1>3, <1>4, <1>7, <1>8

LEMMA TaskBecomes ==
    ASSUME FieldsOK, NEW h \in Handles, NEW t, DOMAIN t = TaskFields, task' = [task EXCEPT ![h] = t]
    PROVE  /\ DOMAIN task' = Handles /\ \A g \in Handles : DOMAIN task'[g] = TaskFields
           /\ task'[h] = t /\ \A g \in Handles \ {h} : Still(g) /\ task'[g] = task[g]
BY DEF FieldsOK, Still, Kept

(* An order is made: the registry and the task know it from the start. *)
LEMMA InsertEffect ==
    ASSUME FieldsOK, NEW h \in Handles, NEW k \in Slots, RunnerInsert(h, k)
    PROVE  /\ FieldsOK' /\ UNCHANGED <<call, sched>> /\ SameIds
           /\ \A g \in Handles, l \in Slots : g # h \/ l # k => runner'[<<g, l>>] = runner[<<g, l>>]
           /\ \A g \in Handles \ {h} : Still(g)
           /\ task'[h].id = task[h].id /\ task'[h].started = task[h].started /\ task'[h].at = task[h].at
           /\ task'[h].finished = task[h].finished /\ task'[h].trades = task[h].trades
           /\ task'[h].failed = task[h].failed
           /\ runner[<<h, k>>].at = "insert" /\ runner'[<<h, k>>].at = "look"
           /\ OrdersGoOn
           /\ LET i == runner'[<<h, k>>].order IN
                /\ i \in DOMAIN orders' \ DOMAIN orders
                /\ task'[h].mine = task[h].mine \cup {i}
                /\ registry'.orders = [registry.orders EXCEPT ![task[h].id] = @ \cup {i}]
<1> DEFINE r == runner[h, k]
           i == Len(orders) + 1
           z == [r EXCEPT !.at = "look", !.order = i, !.repriced = FALSE, !.interrupted = FALSE]
<1>1. r = runner[<<h, k>>] /\ DOMAIN r = RunnerFields
  BY DEF FieldsOK
<1>2. DOMAIN z = RunnerFields /\ z.at = "look" /\ z.order = i
  BY <1>1 DEF RunnerFields
<1>3. /\ UNCHANGED <<call, sched>> /\ r.at = "insert" /\ Becomes(h, k, z)
      /\ registry' = [registry EXCEPT !.orders[task[h].id] = @ \cup {i}]
      /\ task' = [task EXCEPT ![h].mine = @ \cup {i}]
  BY DEF RunnerInsert, RunnerAt
<1>4. PICK o : DOMAIN o = OrderFields /\ orders' = Append(orders, o)
  <2>1. PICK refused \in {Exceeds(NewOrder(r, FALSE)), TRUE} : orders' = Append(orders, NewOrder(r, refused))
    BY DEF RunnerInsert
  <2>2. DOMAIN NewOrder(r, refused) = OrderFields
    BY DEF NewOrder, OrderFields
  <2> QED BY <2>1, <2>2
<1>5. /\ DOMAIN orders' = DOMAIN orders \cup {i} /\ i \notin DOMAIN orders
      /\ \A j \in DOMAIN orders : orders'[j] = orders[j]
      /\ orders'[i] = o /\ orders' \in Seq(Range(orders'))
  <2> DEFINE S == Range(orders) \cup {o}
  <2>1. orders \in Seq(S)
    <3>1. orders \in Seq(Range(orders)) /\ Range(orders) \subseteq S
      BY DEF FieldsOK
    <3> HIDE DEF S
    <3> QED BY <3>1, SeqMonotonic
  <2>2. o \in S
    OBVIOUS
  <2> HIDE DEF S
  <2>3. /\ orders' \in Seq(S) /\ Len(orders') = i /\ orders'[i] = o /\ Len(orders) \in Nat
        /\ DOMAIN orders = 1 .. Len(orders) /\ \A j \in 1 .. Len(orders) : orders'[j] = orders[j]
    BY <1>4, <2>1, <2>2, AppendProperties
  <2>4. DOMAIN orders' = 1 .. i /\ i \in Nat
    BY <2>3
  <2>5. orders' \in [1 .. i -> Range(orders')]
    BY <2>3, <2>4 DEF Range
  <2>6. 1 .. i = DOMAIN orders \cup {i} /\ i \notin DOMAIN orders
    BY <2>3
  <2> QED BY <2>3, <2>4, <2>5, <2>6, FunctionIsSeq
<1> HIDE DEF z, i
<1>6. /\ DOMAIN task' = Handles /\ \A g \in Handles : DOMAIN task'[g] = TaskFields
      /\ \A g \in Handles \ {h} : Still(g)
      /\ task'[h].id = task[h].id /\ task'[h].started = task[h].started /\ task'[h].at = task[h].at
      /\ task'[h].finished = task[h].finished /\ task'[h].trades = task[h].trades
      /\ task'[h].failed = task[h].failed /\ task'[h].mine = task[h].mine \cup {i}
  BY <1>3 DEF FieldsOK, TaskFields, Still, Kept
<1>7. /\ SameIds /\ registry'.orders = [registry.orders EXCEPT ![task[h].id] = @ \cup {i}]
      /\ DOMAIN registry' = {"next", "key", "guard", "known", "progress", "orders"}
      /\ DOMAIN registry'.orders = Ids
  BY <1>3 DEF FieldsOK, SameIds
<1>8. \A j \in DOMAIN orders' : DOMAIN orders'[j] = OrderFields
  BY <1>4, <1>5 DEF FieldsOK
<1>9. FieldsOK'
  <2>1. DOMAIN call' = Callers /\ DOMAIN sched' = {"at", "step", "cancelled", "failed", "trades"}
    BY <1>3 DEF FieldsOK
  <2>2. DOMAIN runner' = Handles \X Slots /\ \A l \in Handles \X Slots : DOMAIN runner'[l] = RunnerFields
    BY <1>2, <1>3, RunnerBecomes
  <2> QED BY <1>5, <1>6, <1>7, <1>8, <2>1, <2>2 DEF FieldsOK, Ids
<1>10. OrdersGoOn
  BY <1>5 DEF OrdersGoOn
<1>11. /\ runner'[<<h, k>>].at = "look" /\ runner'[<<h, k>>].order = i
       /\ \A g \in Handles, l \in Slots : g # h \/ l # k => runner'[<<g, l>>] = runner[<<g, l>>]
  BY <1>2, <1>3, RunnerBecomes
<1>12. UNCHANGED <<call, sched>> /\ runner[<<h, k>>].at = "insert"
  BY <1>1, <1>3
<1>13. i \in DOMAIN orders' \ DOMAIN orders
  BY <1>5
<1> QED BY <1>6, <1>7, <1>9, <1>10, <1>11, <1>12, <1>13

(* The steps of a run loop that only take it from one place to another. *)
MovesOn(h) == Command(h) \/ Drive(h) \/ Settled(h) \/ (Batch(h) /\ Stop(h)) \/ CancelOwned(h) \/ DriveFails(h)
Planning == {"command", "drive", "settled", "batch", "cancel"}
LEMMA MovesOnEffect ==
    ASSUME FieldsOK, NEW h \in Handles, MovesOn(h)
    PROVE  /\ FieldsOK' /\ UNCHANGED <<runner, call, sched>> /\ SameIds /\ registry'.orders = registry.orders
           /\ OrdersGoOn /\ Kept(h) /\ \A g \in Handles \ {h} : Still(g)
           /\ task[h].at \in Planning /\ task'[h].at \in Planning \cup {"end"}
           /\ task[h].failed => task'[h].failed
<1> DEFINE fields == orders' \in Seq(Range(orders')) /\ \A i \in DOMAIN orders' : DOMAIN orders'[i] = OrderFields
<1>1. UNCHANGED <<runner, call, sched>>
  BY DEF MovesOn, Command, Drive, Settled, Batch, CancelOwned, DriveFails
<1>2. /\ SameIds /\ registry'.orders = registry.orders
      /\ DOMAIN registry' = {"next", "key", "guard", "known", "progress", "orders"}
  <2>1. UNCHANGED registry \/ registry' = MarkObserved(registry, task[h].id, task[h].cmd.seq)
    BY DEF MovesOn, Command, Drive, Settled, Batch, CancelOwned, DriveFails
  <2>2. CASE UNCHANGED registry
    BY <2>2 DEF SameIds, FieldsOK
  <2> QED BY <2>1, <2>2, MarksKeep
<1>3. fields /\ OrdersGoOn
  <2>1. UNCHANGED orders \/ orders' = Cancelling(AliveOf(Owned(h)))
    BY DEF MovesOn, Command, Drive, Settled, Batch, CancelOwned, DriveFails
  <2>2. CASE UNCHANGED orders
    BY <2>2, OrdersSame DEF FieldsOK
  <2> QED BY <2>1, <2>2, CancellingGoesOn
<1>4. PICK t : /\ task' = [task EXCEPT ![h] = t] /\ DOMAIN t = TaskFields
               /\ t.id = task[h].id /\ t.started = task[h].started /\ t.finished = task[h].finished
               /\ t.trades = task[h].trades /\ t.mine = task[h].mine /\ (task[h].failed => t.failed)
               /\ task[h].at \in Planning /\ t.at \in Planning \cup {"end"}
  <2> DEFINE was == task[h]
             Same(t) == /\ DOMAIN t = TaskFields
                        /\ t.id = was.id /\ t.started = was.started /\ t.finished = was.finished
                        /\ t.trades = was.trades /\ t.mine = was.mine /\ (was.failed => t.failed)
             Moved(to) ==
               \/ task' = [task EXCEPT ![h].at = to]
               \/ task' = [task EXCEPT ![h].at = to, ![h].req = was.cmd]
               \/ task' = [task EXCEPT ![h].at = to, ![h].reached = was.req.seq]
               \/ task' = [task EXCEPT ![h].at = to, ![h].plan = Plan(was.req.volume)]
             Finishing == task' = [task EXCEPT ![h].at = "end", ![h].failed = TRUE]
                          \/ task' = [task EXCEPT ![h].at = "end"]
  <2>0. DOMAIN task = Handles /\ DOMAIN was = TaskFields
    BY DEF FieldsOK
  <2>1. ASSUME NEW to \in Planning, was.at \in Planning,
               Moved(to)
        PROVE  \E t : task' = [task EXCEPT ![h] = t] /\ Same(t) /\ was.at \in Planning /\ t.at = to
    <3>1. PICK t \in {[was EXCEPT !.at = to], [was EXCEPT !.at = to, !.req = was.cmd],
                      [was EXCEPT !.at = to, !.reached = was.req.seq],
                      [was EXCEPT !.at = to, !.plan = Plan(was.req.volume)]} :
             task' = [task EXCEPT ![h] = t]
      BY <2>0, <2>1
    <3>2. Same(t) /\ t.at = to
      BY <2>0 DEF TaskFields
    <3> QED BY <2>1, <3>1, <3>2
  <2>2. ASSUME was.at \in Planning, Finishing
        PROVE  \E t : task' = [task EXCEPT ![h] = t] /\ Same(t) /\ was.at \in Planning /\ t.at = "end"
    <3>1. PICK t \in {[was EXCEPT !.at = "end", !.failed = TRUE], [was EXCEPT !.at = "end"]} :
             task' = [task EXCEPT ![h] = t]
      BY <2>0, <2>2
    <3>2. Same(t) /\ t.at = "end"
      BY <2>0 DEF TaskFields
    <3> QED BY <2>2, <3>1, <3>2
  <2>3. was.at \in Planning /\ (Finishing \/ \E to \in Planning : Moved(to))
    <3>1. CASE Command(h)
      BY <3>1 DEF Command, Planning
    <3>2. CASE Drive(h)
      BY <3>2 DEF Drive, Planning
    <3>3. CASE Settled(h) \/ (Batch(h) /\ Stop(h))
      BY <3>3 DEF Settled, Batch, Goto, Planning
    <3>4. CASE CancelOwned(h)
      BY <3>4 DEF CancelOwned, Goto, Planning
    <3>5. CASE DriveFails(h)
      BY <3>5 DEF DriveFails, Planning
    <3> QED BY <3>1, <3>2, <3>3, <3>4, <3>5 DEF MovesOn
  <2> HIDE DEF was
  <2>4. \E t : task' = [task EXCEPT ![h] = t] /\ Same(t) /\ was.at \in Planning /\ t.at \in Planning \cup {"end"}
    <3> HIDE DEF Same, Moved, Finishing
    <3> QED BY <2>1, <2>2, <2>3
  <2> QED BY <2>4 DEF was
<1>5. FieldsOK'
  <2>1. DOMAIN call' = Callers /\ DOMAIN sched' = {"at", "step", "cancelled", "failed", "trades"}
        /\ DOMAIN runner' = Handles \X Slots /\ \A k \in Handles \X Slots : DOMAIN runner'[k] = RunnerFields
    BY <1>1 DEF FieldsOK
  <2>2. DOMAIN registry'.orders = Ids
    BY <1>2 DEF FieldsOK
  <2> QED BY <1>2, <1>3, <1>4, <2>1, <2>2, TaskBecomes DEF FieldsOK, Ids
<1>6. Kept(h) /\ task'[h] = t
  BY <1>4, TaskBecomes DEF Kept
<1> QED BY <1>1, <1>2, <1>3, <1>4, <1>5, <1>6, TaskBecomes

(* The steps of a run loop that begin and end batches, and the task. *)
LEMMA BatchEffect ==
    ASSUME FieldsOK, NEW h \in Handles, Batch(h), ~Stop(h)
    PROVE  /\ FieldsOK' /\ UNCHANGED <<registry, orders, call, sched>>
           /\ Kept(h) /\ task'[h].failed = task[h].failed
           /\ \A g \in Handles \ {h} : Still(g)
           /\ task[h].at = "batch" /\ task'[h].at = "running"
           /\ \A g \in Handles \ {h}, l \in Slots : runner'[<<g, l>>] = runner[<<g, l>>]
           /\ \A l \in Slots : runner'[<<h, l>>] = runner[<<h, l>>] \/ runner'[<<h, l>>].at = "start"
<1> DEFINE t == [task[h] EXCEPT !.at = "running"]
           batch == Head(task[h].plan)
<1>1. /\ UNCHANGED <<registry, orders, call, sched>> /\ task[h].at = "batch"
      /\ task' = [task EXCEPT ![h].at = "running"]
      /\ runner' = [k \in DOMAIN runner |->
                    IF k[1] # h \/ k[2] \notin DOMAIN batch THEN runner[k]
                    ELSE [NoRunner EXCEPT !.at = "start", !.dir = batch[k[2]].dir,
                                          !.offset = batch[k[2]].offset, !.left = batch[k[2]].volume]]
  BY DEF Batch, Goto
<1>2. task' = [task EXCEPT ![h] = t] /\ DOMAIN t = TaskFields /\ t.at = "running" /\ t.id = task[h].id
      /\ t.started = task[h].started /\ t.finished = task[h].finished /\ t.trades = task[h].trades
      /\ t.mine = task[h].mine /\ t.failed = task[h].failed
  BY <1>1 DEF FieldsOK, TaskFields
<1> HIDE DEF t
<1>3. /\ DOMAIN task' = Handles /\ \A g \in Handles : DOMAIN task'[g] = TaskFields
      /\ task'[h] = t /\ \A g \in Handles \ {h} : Still(g)
  BY <1>2, TaskBecomes
<1>4. DOMAIN runner = Handles \X Slots /\ \A k \in Handles \X Slots : DOMAIN runner[k] = RunnerFields
  BY DEF FieldsOK
<1>5. DOMAIN runner' = Handles \X Slots
  BY <1>1, <1>4
<1>6. ASSUME NEW g \in Handles, NEW l \in Slots
      PROVE  LET k == <<g, l>> IN
             /\ g # h => runner'[k] = runner[k]
             /\ runner'[k] = runner[k] \/ (runner'[k].at = "start" /\ DOMAIN runner'[k] = RunnerFields)
  <2> DEFINE k == <<g, l>>
             new == [NoRunner EXCEPT !.at = "start", !.dir = batch[l].dir,
                                     !.offset = batch[l].offset, !.left = batch[l].volume]
  <2>1. k \in DOMAIN runner /\ k[1] = g /\ k[2] = l
    BY <1>4
  <2>2. runner'[k] = IF g # h \/ l \notin DOMAIN batch THEN runner[k] ELSE new
    <3> HIDE DEF batch, k
    <3> QED BY <1>1, <2>1
  <2>3. new.at = "start" /\ DOMAIN new = RunnerFields
    <3> HIDE DEF batch
    <3> QED BY DEF NoRunner, RunnerFields
  <2> HIDE DEF new, k
  <2> QED BY <2>2, <2>3 DEF k
<1>7. \A k \in Handles \X Slots : DOMAIN runner'[k] = RunnerFields
  <2> SUFFICES ASSUME NEW g \in Handles, NEW l \in Slots
               PROVE  DOMAIN runner'[<<g, l>>] = RunnerFields
    OBVIOUS
  <2> QED BY <1>4, <1>6
<1>8. FieldsOK'
  <2>1. DOMAIN call' = Callers /\ DOMAIN sched' = {"at", "step", "cancelled", "failed", "trades"}
        /\ DOMAIN registry' = {"next", "key", "guard", "known", "progress", "orders"}
        /\ DOMAIN registry'.orders = Ids
        /\ orders' \in Seq(Range(orders')) /\ \A i \in DOMAIN orders' : DOMAIN orders'[i] = OrderFields
    BY <1>1 DEF FieldsOK
  <2> QED BY <1>3, <1>5, <1>7, <2>1 DEF FieldsOK, Ids
<1>9. /\ \A g \in Handles \ {h}, l \in Slots : runner'[<<g, l>>] = runner[<<g, l>>]
      /\ \A l \in Slots : runner'[<<h, l>>] = runner[<<h, l>>] \/ runner'[<<h, l>>].at = "start"
  BY <1>6
<1>10. /\ UNCHANGED <<registry, orders, call, sched>> /\ task[h].at = "batch"
       /\ Kept(h) /\ task'[h].failed = task[h].failed /\ task'[h].at = "running"
  BY <1>1, <1>2, <1>3 DEF Kept
<1> QED BY <1>3, <1>8, <1>9, <1>10

LEMMA JoinEffect ==
    ASSUME FieldsOK, NEW h \in Handles, Join(h)
    PROVE  /\ FieldsOK' /\ UNCHANGED <<registry, orders, call, sched>>
           /\ Kept(h) /\ \A g \in Handles \ {h} : Still(g)
           /\ task[h].at = "running" /\ task'[h].at \in Planning \cup {"end"}
           /\ \A g \in Handles \ {h}, l \in Slots : runner'[<<g, l>>] = runner[<<g, l>>]
           /\ \A l \in Slots : runner[<<h, l>>].at \in Ends /\ runner'[<<h, l>>].at = "off"
           /\ task[h].failed \/ (\E l \in Slots : runner[<<h, l>>].at = "error") => task'[h].failed
<1> DEFINE ends == {runner[h, k].at : k \in Slots}
           rest == Tail(task[h].plan)
           to == IF "error" \in ends THEN "end"
                 ELSE IF "interrupted" \in ends THEN "command"
                 ELSE IF "replan" \in ends \/ rest = <<>> THEN "drive"
                 ELSE "batch"
           t == [task[h] EXCEPT !.plan = rest, !.failed = @ \/ "error" \in ends, !.at = to]
<1>1. /\ UNCHANGED <<registry, orders, call, sched>> /\ task[h].at = "running"
      /\ ends \subseteq Ends
      /\ task' = [task EXCEPT ![h].plan = rest, ![h].failed = @ \/ "error" \in ends, ![h].at = to]
      /\ runner' = [k \in DOMAIN runner |-> IF k[1] = h THEN NoRunner ELSE runner[k]]
  BY DEF Join
<1>2. to \in Planning \cup {"end"}
  <2> HIDE DEF ends, rest
  <2> QED BY DEF Planning
<1>3. /\ task' = [task EXCEPT ![h] = t] /\ DOMAIN t = TaskFields /\ t.at = to /\ t.id = task[h].id
      /\ t.started = task[h].started /\ t.finished = task[h].finished /\ t.trades = task[h].trades
      /\ t.mine = task[h].mine /\ t.failed = (task[h].failed \/ "error" \in ends)
  <2> HIDE DEF to, ends, rest
  <2> QED BY <1>1 DEF FieldsOK, TaskFields
<1> HIDE DEF t
<1>4. /\ DOMAIN task' = Handles /\ \A g \in Handles : DOMAIN task'[g] = TaskFields
      /\ task'[h] = t /\ \A g \in Handles \ {h} : Still(g)
  BY <1>3, TaskBecomes
<1>5. DOMAIN runner = Handles \X Slots /\ \A k \in Handles \X Slots : DOMAIN runner[k] = RunnerFields
  BY DEF FieldsOK
<1>6. ASSUME NEW g \in Handles, NEW l \in Slots
      PROVE  runner'[<<g, l>>] = IF g = h THEN NoRunner ELSE runner[<<g, l>>]
  <2> DEFINE k == <<g, l>>
  <2>1. k \in DOMAIN runner /\ k[1] = g
    BY <1>5
  <2> HIDE DEF k
  <2>2. runner'[k] = IF g = h THEN NoRunner ELSE runner[k]
    BY <1>1, <2>1
  <2> QED BY <2>2 DEF k
<1>7. /\ DOMAIN runner' = Handles \X Slots
      /\ \A k \in Handles \X Slots : DOMAIN runner'[k] = RunnerFields
  <2>1. DOMAIN NoRunner = RunnerFields
    BY DEF NoRunner, RunnerFields
  <2>2. ASSUME NEW g \in Handles, NEW l \in Slots
        PROVE  DOMAIN runner'[<<g, l>>] = RunnerFields
    <3>1. <<g, l>> \in Handles \X Slots
      OBVIOUS
    <3>2. CASE g = h
      BY <1>6, <2>1, <3>2
    <3>3. CASE g # h
      <4>1. runner'[<<g, l>>] = runner[<<g, l>>]
        BY <1>6, <3>3
      <4> QED BY <1>5, <3>1, <4>1
    <3> QED BY <3>2, <3>3
  <2> QED BY <1>1, <1>5, <2>2
<1>8. FieldsOK'
  <2>1. DOMAIN call' = Callers /\ DOMAIN sched' = {"at", "step", "cancelled", "failed", "trades"}
        /\ DOMAIN registry' = {"next", "key", "guard", "known", "progress", "orders"}
        /\ DOMAIN registry'.orders = Ids
        /\ orders' \in Seq(Range(orders')) /\ \A i \in DOMAIN orders' : DOMAIN orders'[i] = OrderFields
    BY <1>1 DEF FieldsOK
  <2> QED BY <1>4, <1>7, <2>1 DEF FieldsOK, Ids
<1>9. \A l \in Slots : runner[<<h, l>>].at \in ends
  <2>1. \A l \in Slots : runner[h, l] = runner[<<h, l>>]
    OBVIOUS
  <2> QED BY <2>1
<1>10. \A l \in Slots : runner'[<<h, l>>].at = "off"
  BY <1>6 DEF NoRunner
<1>11. task[h].failed \/ (\E l \in Slots : runner[<<h, l>>].at = "error") => task'[h].failed
  <2> HIDE DEF ends
  <2> QED BY <1>3, <1>4, <1>9
<1>12. Kept(h) /\ task'[h].at = to
  BY <1>3, <1>4 DEF Kept
<1>13. \A g \in Handles \ {h}, l \in Slots : runner'[<<g, l>>] = runner[<<g, l>>]
  BY <1>6
<1> QED
  <2> HIDE DEF ends, to
  <2> QED BY <1>1, <1>2, <1>4, <1>8, <1>9, <1>10, <1>11, <1>12, <1>13

(* Ends: the registry forgets a task after its trades were captured. *)
LEMMA UnregisterKeeps ==
    ASSUME FieldsOK, NEW id \in Ids, registry' = Unregister(registry, id)
    PROVE  /\ DOMAIN registry' = {"next", "key", "guard", "known", "progress", "orders"}
           /\ registry'.next = registry.next
           /\ registry'.key = (IF registry.key = id THEN 0 ELSE registry.key)
           /\ registry'.guard = (IF registry.guard = id THEN 0 ELSE registry.guard)
           /\ registry'.orders = [registry.orders EXCEPT ![id] = {}]
BY DEF FieldsOK, Unregister

LEMMA CaptureEffect ==
    ASSUME FieldsOK, NEW h \in Handles, Capture(h)
    PROVE  /\ FieldsOK' /\ UNCHANGED <<runner, registry, orders, call, sched>>
           /\ \A g \in Handles \ {h} : Still(g)
           /\ task'[h].id = task[h].id /\ task'[h].started = task[h].started
           /\ task'[h].finished = task[h].finished /\ task'[h].mine = task[h].mine
           /\ task'[h].failed = task[h].failed
           /\ task[h].at = "end" /\ task'[h].at = "finish"
           /\ task'[h].trades = {<<i, orders[i].told>> : i \in Owned(h)}
<1> DEFINE trades == {<<i, orders[i].told>> : i \in Owned(h)}
           t == [task[h] EXCEPT !.at = "finish", !.trades = trades]
<1>1. /\ UNCHANGED <<runner, registry, orders, call, sched>> /\ task[h].at = "end"
      /\ task' = [task EXCEPT ![h].at = "finish", ![h].trades = trades]
  BY DEF Capture
<1> HIDE DEF trades
<1>2. /\ task' = [task EXCEPT ![h] = t] /\ DOMAIN t = TaskFields /\ t.at = "finish" /\ t.id = task[h].id
      /\ t.started = task[h].started /\ t.finished = task[h].finished /\ t.trades = trades
      /\ t.mine = task[h].mine /\ t.failed = task[h].failed
  BY <1>1 DEF FieldsOK, TaskFields
<1> HIDE DEF t
<1>3. /\ DOMAIN task' = Handles /\ \A g \in Handles : DOMAIN task'[g] = TaskFields
      /\ task'[h] = t /\ \A g \in Handles \ {h} : Still(g)
  BY <1>2, TaskBecomes
<1>4. FieldsOK'
  BY <1>1, <1>3 DEF FieldsOK, Ids
<1> QED BY <1>1, <1>2, <1>3, <1>4 DEF trades

LEMMA FinishEffect ==
    ASSUME FieldsOK, NEW h \in Handles, Finish(h), task[h].id \in Ids
    PROVE  /\ FieldsOK' /\ UNCHANGED <<runner, orders, call, sched>>
           /\ Kept(h) /\ task'[h].failed = task[h].failed
           /\ \A g \in Handles \ {h} : Still(g)
           /\ task[h].at = "finish" /\ task'[h].at = "announce"
           /\ registry'.next = registry.next
           /\ registry'.key \in {0, registry.key}
           /\ registry'.guard = (IF registry.guard = task[h].id THEN 0 ELSE registry.guard)
           /\ registry'.orders = [registry.orders EXCEPT ![task[h].id] = {}]
<1> DEFINE t == [task[h] EXCEPT !.at = "announce"]
<1>1. /\ UNCHANGED <<runner, orders, call, sched>> /\ task[h].at = "finish"
      /\ task' = [task EXCEPT ![h].at = "announce"]
      /\ registry' = Unregister(registry, task[h].id)
  BY DEF Finish, Goto
<1>2. /\ task' = [task EXCEPT ![h] = t] /\ DOMAIN t = TaskFields /\ t.at = "announce" /\ t.id = task[h].id
      /\ t.started = task[h].started /\ t.finished = task[h].finished /\ t.trades = task[h].trades
      /\ t.mine = task[h].mine /\ t.failed = task[h].failed
  BY <1>1 DEF FieldsOK, TaskFields
<1> HIDE DEF t
<1>3. /\ DOMAIN task' = Handles /\ \A g \in Handles : DOMAIN task'[g] = TaskFields
      /\ task'[h] = t /\ \A g \in Handles \ {h} : Still(g)
  BY <1>2, TaskBecomes
<1>4. /\ DOMAIN registry' = {"next", "key", "guard", "known", "progress", "orders"}
      /\ registry'.next = registry.next
      /\ registry'.key = (IF registry.key = task[h].id THEN 0 ELSE registry.key)
      /\ registry'.guard = (IF registry.guard = task[h].id THEN 0 ELSE registry.guard)
      /\ registry'.orders = [registry.orders EXCEPT ![task[h].id] = {}]
  BY <1>1, UnregisterKeeps
<1>5. FieldsOK'
  BY <1>1, <1>3, <1>4 DEF FieldsOK, Ids
<1> QED BY <1>1, <1>2, <1>3, <1>4, <1>5 DEF Kept

LEMMA AnnounceEffect ==
    ASSUME FieldsOK, NEW h \in Handles, Announce(h)
    PROVE  /\ FieldsOK' /\ UNCHANGED <<runner, registry, orders, call, sched>>
           /\ \A g \in Handles \ {h} : Still(g)
           /\ task'[h].id = task[h].id /\ task'[h].trades = task[h].trades
           /\ task'[h].mine = task[h].mine /\ task'[h].failed = task[h].failed
           /\ task[h].at = "announce" /\ task'[h].at = "off"
           /\ task'[h].started = "done" /\ task'[h].finished
<1> DEFINE t == [task[h] EXCEPT !.at = "off", !.started = "done", !.finished = TRUE]
<1>1. /\ UNCHANGED <<runner, registry, orders, call, sched>> /\ task[h].at = "announce"
      /\ task' = [task EXCEPT ![h].at = "off", ![h].started = "done", ![h].finished = TRUE]
  BY DEF Announce
<1>2. /\ task' = [task EXCEPT ![h] = t] /\ DOMAIN t = TaskFields /\ t.at = "off" /\ t.id = task[h].id
      /\ t.started = "done" /\ t.finished /\ t.trades = task[h].trades
      /\ t.mine = task[h].mine /\ t.failed = task[h].failed
  BY <1>1 DEF FieldsOK, TaskFields
<1> HIDE DEF t
<1>3. /\ DOMAIN task' = Handles /\ \A g \in Handles : DOMAIN task'[g] = TaskFields
      /\ task'[h] = t /\ \A g \in Handles \ {h} : Still(g)
  BY <1>2, TaskBecomes
<1>4. FieldsOK'
  BY <1>1, <1>3 DEF FieldsOK, Ids
<1> QED BY <1>1, <1>2, <1>3, <1>4

(* A handle is built, or dropped before it was used. *)
LEMMA BuildEffect ==
    ASSUME FieldsOK, NEW h \in Handles, Build(h)
    PROVE  /\ FieldsOK' /\ UNCHANGED <<runner, orders, call, sched>>
           /\ sched.at = "off" /\ task[h] = NewTask /\ registry.guard = 0
           /\ \A g \in Handles \ {h} : Still(g)
           /\ \E id \in {registry.key, registry.next + 1} :
                 /\ task'[h] = [NewTask EXCEPT !.id = id]
                 /\ registry'.guard = registry.guard /\ registry'.orders = registry.orders
                 /\ registry'.key = id
                 /\ \/ id = registry.key /\ id # 0 /\ registry'.next = registry.next
                    \/ id = registry.next + 1 /\ registry'.next = id
<1>1. /\ UNCHANGED <<runner, orders, call, sched>> /\ sched.at = "off" /\ task[h] = NewTask /\ registry.guard = 0
  BY DEF Build
<1>2. /\ DOMAIN registry = {"next", "key", "guard", "known", "progress", "orders"}
      /\ DOMAIN registry.orders = Ids /\ DOMAIN task = Handles
  BY DEF FieldsOK
<1> DEFINE fresh == registry.next + 1
           more == [registry EXCEPT !.next = fresh, !.key = fresh]
<1>3. PICK reg \in {registry, more}, id \in {registry.key, fresh} :
         /\ Register(h, reg, id)
         /\ \/ reg = registry /\ id = registry.key /\ id # 0
            \/ reg = more /\ id = fresh
  <2>1. IF registry.key # 0 THEN Register(h, registry, registry.key) ELSE Register(h, more, fresh)
    BY DEF Build
  <2> HIDE DEF fresh, more
  <2> QED BY <2>1
<1>4. /\ DOMAIN reg = {"next", "key", "guard", "known", "progress", "orders"}
      /\ reg.orders = registry.orders /\ reg.guard = registry.guard /\ reg.key = id
      /\ \/ id = registry.key /\ id # 0 /\ reg.next = registry.next
         \/ id = registry.next + 1 /\ reg.next = id
  BY <1>2, <1>3
<1>5. /\ registry'.next = reg.next /\ registry'.key = reg.key /\ registry'.guard = reg.guard
      /\ registry'.orders = reg.orders
      /\ DOMAIN registry' = {"next", "key", "guard", "known", "progress", "orders"}
  BY <1>3, <1>4 DEF Register
<1> DEFINE t == [task[h] EXCEPT !.id = id]
<1>6. task' = [task EXCEPT ![h] = t] /\ DOMAIN t = TaskFields
  BY <1>2, <1>3 DEF Register, FieldsOK
<1>7. /\ DOMAIN task' = Handles /\ \A g \in Handles : DOMAIN task'[g] = TaskFields
      /\ task'[h] = t /\ \A g \in Handles \ {h} : Still(g)
  <2> HIDE DEF t
  <2> QED BY <1>6, TaskBecomes
<1>8. FieldsOK'
  <2> HIDE DEF t
  <2> QED BY <1>1, <1>2, <1>4, <1>5, <1>7 DEF FieldsOK, Ids
<1>9. task'[h] = [NewTask EXCEPT !.id = id]
  BY <1>1, <1>7
<1>10. id \in {registry.key, registry.next + 1}
  BY <1>4
<1>11. /\ registry'.guard = registry.guard /\ registry'.orders = registry.orders /\ registry'.key = id
       /\ \/ id = registry.key /\ id # 0 /\ registry'.next = registry.next
          \/ id = registry.next + 1 /\ registry'.next = id
  BY <1>4, <1>5
<1> HIDE DEF t, more, fresh
<1> QED BY <1>1, <1>7, <1>8, <1>9, <1>10, <1>11

LEMMA DropEffect ==
    ASSUME FieldsOK, NEW h \in Handles, Drop(h), task[h].id \in Ids
    PROVE  /\ FieldsOK' /\ UNCHANGED <<runner, orders, call, sched>>
           /\ sched.at = "off" /\ \A g \in Handles \ {h} : Still(g)
           /\ task'[h].id = task[h].id /\ task'[h].finished = task[h].finished
           /\ task'[h].trades = task[h].trades /\ task'[h].mine = task[h].mine
           /\ task'[h].failed = task[h].failed /\ task'[h].at = task[h].at
           /\ task[h].started = "no" /\ task'[h].started = "dropped"
           /\ registry'.next = registry.next
           /\ registry'.key \in {0, registry.key}
           /\ registry'.guard = (IF registry.guard = task[h].id THEN 0 ELSE registry.guard)
           /\ registry'.orders = [registry.orders EXCEPT ![task[h].id] = {}]
<1> DEFINE t == [task[h] EXCEPT !.started = "dropped", !.closed = TRUE]
<1>1. /\ UNCHANGED <<runner, orders, call, sched>> /\ sched.at = "off" /\ task[h].started = "no"
      /\ task' = [task EXCEPT ![h].started = "dropped", ![h].closed = TRUE]
      /\ registry' = Unregister(registry, task[h].id)
  BY DEF Drop
<1>2. /\ task' = [task EXCEPT ![h] = t] /\ DOMAIN t = TaskFields /\ t.at = task[h].at /\ t.id = task[h].id
      /\ t.started = "dropped" /\ t.finished = task[h].finished /\ t.trades = task[h].trades
      /\ t.mine = task[h].mine /\ t.failed = task[h].failed
  BY <1>1 DEF FieldsOK, TaskFields
<1> HIDE DEF t
<1>3. /\ DOMAIN task' = Handles /\ \A g \in Handles : DOMAIN task'[g] = TaskFields
      /\ task'[h] = t /\ \A g \in Handles \ {h} : Still(g)
  BY <1>2, TaskBecomes
<1>4. /\ DOMAIN registry' = {"next", "key", "guard", "known", "progress", "orders"}
      /\ registry'.next = registry.next
      /\ registry'.key = (IF registry.key = task[h].id THEN 0 ELSE registry.key)
      /\ registry'.guard = (IF registry.guard = task[h].id THEN 0 ELSE registry.guard)
      /\ registry'.orders = [registry.orders EXCEPT ![task[h].id] = {}]
  BY <1>1, UnregisterKeeps
<1>5. FieldsOK'
  BY <1>1, <1>3, <1>4 DEF FieldsOK, Ids
<1> QED BY <1>1, <1>2, <1>3, <1>4, <1>5

(* The scheduler makes a task for each step, and otherwise goes from one place *)
(* to the next.                                                                *)
LEMMA SchedStartEffect ==
    ASSUME FieldsOK, SchedStart
    PROVE  /\ FieldsOK' /\ UNCHANGED <<task, runner, orders, call>>
           /\ sched.at = "off" /\ sched'.at = "build" /\ sched'.step = 1 /\ Schedule # <<>>
           /\ sched'.failed = sched.failed /\ sched'.trades = sched.trades
           /\ \A h \in Handles : task[h] = NewTask
           /\ registry'.next = registry.next + 1 /\ registry'.guard = registry.next + 1
           /\ registry'.key = registry.key /\ registry'.orders = registry.orders
BY DEF SchedStart, FieldsOK, Ids

LEMMA SchedBuildEffect ==
    ASSUME FieldsOK, SchedBuild, ~sched.cancelled, \E h \in Handles : task[h].id = 0
    PROVE  /\ FieldsOK' /\ UNCHANGED <<runner, orders, call>>
           /\ sched.at = "build" /\ sched'.at = "wait" /\ sched'.step = sched.step
           /\ sched'.failed = sched.failed /\ sched'.trades = sched.trades
           /\ registry'.next = registry.next + 1 /\ registry'.guard = registry.guard
           /\ registry'.key = registry.key /\ registry'.orders = registry.orders
           /\ \E h \in Handles :
                 /\ task[h].id = 0 /\ \A g \in Handles \ {h} : Still(g)
                 /\ task'[h].id = registry.next + 1 /\ task'[h].started = "run" /\ task'[h].at = "command"
                 /\ task'[h].finished = FALSE /\ task'[h].failed = FALSE
                 /\ task'[h].trades = {} /\ task'[h].mine = {}
<1> DEFINE h == CHOOSE h \in Handles : task[h].id = 0
           id == registry.next + 1
           new == [NewTask EXCEPT !.id = id, !.seq = 1, !.cmd =
                     [kind |-> "target", seq |-> 1, volume |-> Schedule[sched.step], gate |-> session.gate]]
           t == Started(new)
           reg == [registry EXCEPT !.next = id]
<1>1. h \in Handles /\ task[h].id = 0
  OBVIOUS
<1>2. /\ UNCHANGED <<runner, orders, call>> /\ sched.at = "build" /\ sched' = [sched EXCEPT !.at = "wait"]
      /\ task' = [task EXCEPT ![h] = t] /\ registry' = MarkRequested(reg, id, 1)
  BY DEF SchedBuild, SchedAt
<1>3. /\ DOMAIN t = TaskFields /\ t.id = id /\ t.started = "run" /\ t.at = "command"
      /\ t.finished = FALSE /\ t.failed = FALSE /\ t.trades = {} /\ t.mine = {}
  <2> HIDE DEF id
  <2> QED BY DEF NewTask, Started, TaskFields
<1> HIDE DEF t, h
<1>4. /\ DOMAIN task' = Handles /\ \A g \in Handles : DOMAIN task'[g] = TaskFields
      /\ task'[h] = t /\ \A g \in Handles \ {h} : Still(g)
  BY <1>1, <1>2, <1>3, TaskBecomes
<1>5. /\ DOMAIN reg = {"next", "key", "guard", "known", "progress", "orders"}
      /\ reg.next = id /\ reg.key = registry.key /\ reg.guard = registry.guard /\ reg.orders = registry.orders
  BY DEF FieldsOK
<1> HIDE DEF reg
<1>6. /\ DOMAIN registry' = {"next", "key", "guard", "known", "progress", "orders"}
      /\ registry'.next = reg.next /\ registry'.key = reg.key /\ registry'.guard = reg.guard
      /\ registry'.orders = reg.orders
  BY <1>2, <1>5 DEF MarkRequested, WithProgress
<1>7. FieldsOK'
  <2>1. DOMAIN sched' = {"at", "step", "cancelled", "failed", "trades"}
    BY <1>2 DEF FieldsOK
  <2>2. /\ DOMAIN call' = Callers /\ DOMAIN registry'.orders = Ids
        /\ DOMAIN runner' = Handles \X Slots /\ \A k \in Handles \X Slots : DOMAIN runner'[k] = RunnerFields
        /\ orders' \in Seq(Range(orders')) /\ \A i \in DOMAIN orders' : DOMAIN orders'[i] = OrderFields
    BY <1>2, <1>5, <1>6 DEF FieldsOK
  <2> QED BY <1>4, <1>6, <2>1, <2>2 DEF FieldsOK, Ids
<1>8. /\ sched'.at = "wait" /\ sched'.step = sched.step /\ sched'.failed = sched.failed
      /\ sched'.trades = sched.trades
  BY <1>2 DEF FieldsOK
<1> QED BY <1>1, <1>2, <1>3, <1>4, <1>5, <1>6, <1>7, <1>8

(* What the scheduler's other steps share: a task of a finished step is told   *)
(* to stop, and the guard is given back at the end.                            *)
SchedMoves == SchedWait \/ SchedCancelTask \/ SchedNext \/ SchedEnd \/ SchedWaitFails \/ SchedCancel
              \/ (SchedBuild /\ sched.cancelled)
LEMMA SchedMovesEffect ==
    ASSUME FieldsOK, SchedMoves,
           SchedCancelTask => StepTask \in Handles /\ task[StepTask].id # 0,
           SchedEnd => registry.guard \in Ids
    PROVE  /\ FieldsOK' /\ UNCHANGED <<runner, orders, call>> /\ \A h \in Handles : Still(h)
           /\ registry'.next = registry.next /\ registry'.key \in {0, registry.key}
           /\ IF SchedEnd THEN registry'.guard = 0 /\ registry'.orders = [registry.orders EXCEPT ![registry.guard] = {}]
              ELSE registry'.guard = registry.guard /\ registry'.orders = registry.orders
<1>1. UNCHANGED <<runner, orders, call>>
  BY DEF SchedMoves, SchedWait, SchedCancelTask, SchedNext, SchedEnd, SchedWaitFails, SchedCancel, SchedBuild
<1>2. /\ DOMAIN task' = Handles /\ \A g \in Handles : DOMAIN task'[g] = TaskFields
      /\ \A h \in Handles : Still(h)
  <2>1. CASE UNCHANGED task
    BY <2>1 DEF FieldsOK, Still, Kept
  <2>2. CASE ~ UNCHANGED task
    <3> DEFINE h == StepTask
               t == [task[h] EXCEPT !.closed = TRUE, !.cmd = [NoCommand EXCEPT !.kind = "cancel"]]
    <3>1. SchedCancelTask
      BY <2>2 DEF SchedMoves, SchedWait, SchedNext, SchedEnd, SchedWaitFails, SchedCancel, SchedBuild
    <3>2. h \in Handles /\ task[h].id # 0
      BY <3>1
    <3> HIDE DEF h
    <3>3. /\ DOMAIN task = Handles /\ \A g \in Handles : DOMAIN task[g] = TaskFields
          /\ task' = [task EXCEPT ![h].closed = TRUE, ![h].cmd = [NoCommand EXCEPT !.kind = "cancel"]]
      BY <2>2, <3>1 DEF SchedCancelTask, FieldsOK, h
    <3>4. /\ task' = [task EXCEPT ![h] = t] /\ DOMAIN t = TaskFields /\ t.id = task[h].id
          /\ t.started = task[h].started /\ t.at = task[h].at /\ t.finished = task[h].finished
          /\ t.trades = task[h].trades /\ t.mine = task[h].mine /\ t.failed = task[h].failed
      BY <3>2, <3>3 DEF TaskFields
    <3> HIDE DEF t
    <3> QED BY <3>2, <3>4, TaskBecomes DEF Still, Kept
  <2> QED BY <2>1, <2>2
<1>3. DOMAIN sched' = {"at", "step", "cancelled", "failed", "trades"}
  BY DEF SchedMoves, SchedWait, SchedCancelTask, SchedNext, SchedEnd, SchedWaitFails, SchedCancel, SchedBuild,
         SchedAt, FieldsOK
<1>4. /\ DOMAIN registry' = {"next", "key", "guard", "known", "progress", "orders"}
      /\ DOMAIN registry'.orders = Ids
      /\ registry'.next = registry.next /\ registry'.key \in {0, registry.key}
      /\ IF SchedEnd THEN registry'.guard = 0 /\ registry'.orders = [registry.orders EXCEPT ![registry.guard] = {}]
         ELSE registry'.guard = registry.guard /\ registry'.orders = registry.orders
  <2>1. CASE SchedEnd
    <3>1. registry' = Unregister(registry, registry.guard) /\ registry.guard \in Ids
      BY <2>1 DEF SchedEnd
    <3> QED BY <2>1, <3>1, UnregisterKeeps DEF FieldsOK
  <2>2. CASE ~SchedEnd
    <3>1. UNCHANGED registry
      BY <2>2 DEF SchedMoves, SchedWait, SchedCancelTask, SchedNext, SchedWaitFails, SchedCancel, SchedBuild
    <3> QED BY <2>2, <3>1 DEF FieldsOK
  <2> QED BY <2>1, <2>2
<1> QED BY <1>1, <1>2, <1>3, <1>4 DEF FieldsOK, Ids

(* Where the scheduler gets, and when it collects trades. *)
LEMMA SchedMovesTo ==
    ASSUME FieldsOK, SchedMoves
    PROVE  \/ /\ SchedNext /\ sched.at = "join" /\ task[StepTask].finished
              /\ sched'.trades = sched.trades \cup task[StepTask].trades
              /\ sched'.failed = task[StepTask].failed
              /\ \/ sched'.at = "end"
                 \/ /\ sched'.at = "build" /\ sched.step # Len(Schedule) /\ sched'.step = sched.step + 1
                    /\ ~task[StepTask].failed
              /\ sched'.at = "end" => sched'.step = sched.step
           \/ /\ SchedEnd /\ sched.at = "end" /\ sched'.at = "done"
              /\ sched'.step = sched.step /\ sched'.trades = sched.trades /\ sched'.failed = sched.failed
           \/ /\ ~SchedEnd /\ sched'.step = sched.step /\ sched'.trades = sched.trades
              /\ \/ /\ sched.at = "wait" /\ sched'.at = "end" /\ sched'.failed
                 \/ /\ sched'.failed = sched.failed
                    /\ \/ sched.at \in {"build"} \cup Stepping /\ sched'.at = sched.at
                       \/ sched.at = "build" /\ sched'.at = "end"
                       \/ sched.at = "wait" /\ sched'.at = "finish"
                       \/ sched.at = "finish" /\ sched'.at = "join"
<1>0. DOMAIN sched = {"at", "step", "cancelled", "failed", "trades"}
  BY DEF FieldsOK
<1>1. CASE SchedWait
  <2>1. sched.at = "wait" /\ sched' = [sched EXCEPT !.at = "finish"]
    BY <1>1 DEF SchedWait, SchedAt
  <2> QED BY <1>0, <2>1 DEF SchedEnd
<1>2. CASE SchedCancelTask
  <2>1. sched.at = "finish" /\ sched' = [sched EXCEPT !.at = "join"]
    BY <1>2 DEF SchedCancelTask, SchedAt
  <2> QED BY <1>0, <2>1 DEF SchedEnd
<1>3. CASE SchedNext
  <2> DEFINE t == task[StepTask]
             over == LastStep \/ sched.cancelled \/ t.failed
  <2>1. /\ sched.at = "join" /\ t.finished
        /\ sched' = [sched EXCEPT !.trades = @ \cup t.trades, !.failed = t.failed,
                        !.at = IF over THEN "end" ELSE "build", !.step = IF over THEN @ ELSE @ + 1]
    BY <1>3 DEF SchedNext
  <2>2. ~over => sched.step # Len(Schedule) /\ ~t.failed
    BY DEF LastStep
  <2> HIDE DEF t, over
  <2>3. /\ sched'.trades = sched.trades \cup t.trades /\ sched'.failed = t.failed
        /\ sched'.at = (IF over THEN "end" ELSE "build")
        /\ sched'.step = (IF over THEN sched.step ELSE sched.step + 1)
    BY <1>0, <2>1
  <2> QED BY <1>3, <2>1, <2>2, <2>3 DEF t
<1>4. CASE SchedEnd
  <2>1. sched.at = "end" /\ sched' = [sched EXCEPT !.at = "done"]
    BY <1>4 DEF SchedEnd, SchedAt
  <2> QED BY <1>0, <1>4, <2>1
<1>5. CASE SchedWaitFails
  <2>1. sched.at = "wait" /\ sched' = [sched EXCEPT !.at = "end", !.failed = TRUE]
    BY <1>5 DEF SchedWaitFails
  <2> QED BY <1>0, <2>1 DEF SchedEnd
<1>6. CASE SchedCancel
  <2>1. sched.at \in {"build"} \cup Stepping /\ sched' = [sched EXCEPT !.cancelled = TRUE]
    BY <1>6 DEF SchedCancel, Stepping
  <2>2. /\ sched'.at = sched.at /\ sched'.step = sched.step /\ sched'.trades = sched.trades
        /\ sched'.failed = sched.failed
    BY <1>0, <2>1
  <2> QED BY <2>1, <2>2 DEF SchedEnd, Stepping
<1>7. CASE SchedBuild /\ sched.cancelled
  <2>1. sched.at = "build" /\ sched' = [sched EXCEPT !.at = "end"]
    BY <1>7 DEF SchedBuild, SchedAt
  <2> QED BY <1>0, <2>1 DEF SchedEnd
<1> QED BY <1>1, <1>2, <1>3, <1>4, <1>5, <1>6, <1>7 DEF SchedMoves

-----------------------------------------------------------------------------
(* Most steps leave alone who has which id, and the scheduler. *)
IdsStay ==
    /\ \A h \in Handles : task'[h].id = task[h].id /\ (task[h].id = 0 => task'[h] = task[h])
    /\ registry'.next = registry.next /\ registry'.guard = registry.guard
    /\ registry'.key \in {0, registry.key}
    /\ \A id \in Ids : id > registry.next /\ registry.orders[id] = {} => registry'.orders[id] = {}
    /\ SameSched

(* What a step keeps that changes no id. *)
LEMMA SharingSame ==
    ASSUME \A h \in Handles : task'[h].id = task[h].id
    PROVE  Sharing' <=> Sharing
BY DEF Sharing

LEMMA IdsStayKeeps ==
    ASSUME CountInv, IdsInv, IdsStay
    PROVE  CountInv' /\ IdsInv'
<1>1. Built' = Built
  BY DEF Built, IdsStay
<1>2. CountInv'
  <2>1. /\ registry'.next = registry.next /\ sched'.at = sched.at /\ sched'.step = sched.step
    BY DEF IdsStay, SameSched
  <2> QED BY <1>1, <2>1 DEF CountInv, Stepping
<1>3. Sharing' <=> Sharing
  BY SharingSame DEF IdsStay
<1>4. registry.next \in Nat
  BY DEF CountInv
<1>5. registry'.key \in 0 .. registry'.next /\ registry'.guard \in 0 .. registry'.next
  BY <1>4 DEF IdsInv, IdsStay
<1>6. /\ registry'.key # 0 => \E h \in Handles : task'[h].id = registry'.key
      /\ \A h \in Handles : task'[h].id \in 0 .. registry'.next /\ (task'[h].id = 0 => task'[h] = NewTask)
  BY DEF IdsInv, IdsStay
<1>7. \A id \in Ids : id > registry'.next => registry'.orders[id] = {}
  BY DEF IdsInv, IdsStay
<1>8. IF sched'.at = "off" THEN registry'.guard = 0
      ELSE /\ ~Sharing' /\ registry'.next # 0
           /\ sched'.at # "done" => registry'.guard # 0
           /\ \A h \in Handles : task'[h].id # 0 => task'[h].id # registry'.guard
  BY <1>3 DEF IdsInv, IdsStay, SameSched
<1> QED BY <1>2, <1>5, <1>6, <1>7, <1>8 DEF IdsInv, Ids

LEMMA CallsStay ==
    ASSUME CallsInv, UNCHANGED call, \A h \in Handles : task'[h].id = task[h].id
    PROVE  CallsInv'
BY DEF CallsInv

LEMMA SchedStays ==
    ASSUME SchedInv, IdsStay, \A h \in Handles : task[h].finished => task'[h].finished /\ task'[h].trades = task[h].trades,
           Erring => Erring'
    PROVE  SchedInv'
<1>1. /\ Collected' = Collected /\ registry'.next = registry.next
      /\ \A h \in Handles : task'[h].id = task[h].id
      /\ SameSched
  BY DEF Collected, Built, IdsStay, SameSched
<1>2. Collected \subseteq Handles
  BY DEF Collected, Built
<1>3. /\ sched'.failed => sched'.at \in {"end", "done"}
      /\ sched'.at = "off" => sched'.trades = {}
      /\ sched'.at \in Stepping => \E h \in Handles : task'[h].id = registry'.next
  BY <1>1 DEF SchedInv, SameSched
<1>4. ASSUME sched'.at # "off", ~sched'.failed, ~Erring'
      PROVE  /\ \A h \in Collected' : task'[h].finished
             /\ sched'.trades = UNION {task'[h].trades : h \in Collected'}
  <2>1. /\ \A h \in Collected : task[h].finished
        /\ sched.trades = UNION {task[h].trades : h \in Collected}
    BY <1>1, <1>4 DEF SchedInv, SameSched
  <2>2. \A h \in Collected : task'[h].finished /\ task'[h].trades = task[h].trades
    BY <1>2, <2>1
  <2>3. {task'[h].trades : h \in Collected} = {task[h].trades : h \in Collected}
    BY <2>2
  <2> QED BY <1>1, <2>1, <2>2, <2>3 DEF SameSched
<1> QED BY <1>3, <1>4 DEF SchedInv, Stepping

(* Nobody but who has failed, or a runner that has, makes an error. *)
LEMMA ErringStays ==
    ASSUME \A h \in Handles : task[h].failed => task'[h].failed,
           \A h \in Handles, k \in Slots : runner[<<h, k>>].at = "error" => runner'[<<h, k>>].at = "error" \/ task'[h].failed
    PROVE  Erring => Erring'
<1>1. \A h \in Handles, k \in Slots : RunnerAt(h, k, "error") <=> runner[<<h, k>>].at = "error"
  BY DEF RunnerAt
<1>2. \A h \in Handles, k \in Slots : RunnerAt(h, k, "error")' <=> runner'[<<h, k>>].at = "error"
  BY DEF RunnerAt
<1> QED BY <1>1, <1>2 DEF Erring

(* What a task that a step does not touch keeps. *)
LEMMA CapturedOver ==
    ASSUME NEW h \in Handles, LifeFor(h), HeldFor(h), Captured(h)
    PROVE  \A i \in task[h].mine : Over(orders[i])
<1>1. task[h].at # "running"
  BY DEF LifeFor, Captured
<1>2. \A k \in Slots : runner[<<h, k>>].at \notin Busy
  BY <1>1 DEF LifeFor, Busy
<1> QED BY <1>2 DEF HeldFor, Held

(* A task keeps what it has as long as no runner leaves an order. *)
LEMMA HeldStays ==
    ASSUME NEW h \in Handles, LifeFor(h), HeldFor(h), OrdersGoOn,
           task'[h].mine = task[h].mine, task'[h].trades = task[h].trades,
           Captured(h)' => Captured(h),
           \A k \in Slots : runner[<<h, k>>].at \in Busy =>
               \/ runner'[<<h, k>>].at \in Busy /\ runner'[<<h, k>>].order = runner[<<h, k>>].order
               \/ Over(orders'[runner[<<h, k>>].order])
    PROVE  HeldFor(h)'
<1>1. task[h].mine \subseteq DOMAIN orders
  BY DEF LifeFor
<1>2. ASSUME NEW i \in task[h].mine
      PROVE  Over(orders'[i]) \/ Held(h, i)'
  <2>1. CASE Over(orders[i])
    BY <1>1, <2>1 DEF OrdersGoOn
  <2>2. CASE Held(h, i)
    BY <2>2 DEF Held
  <2> QED BY <2>1, <2>2 DEF HeldFor
<1>3. ASSUME Captured(h) PROVE Trades(h)' = Trades(h)
  <2>1. \A i \in task[h].mine : Filled(orders'[i]) = Filled(orders[i])
    BY <1>1, <1>3, CapturedOver DEF OrdersGoOn
  <2> QED BY <2>1 DEF Trades
<1> QED BY <1>2, <1>3 DEF HeldFor, Over, Alive, Filled

LEMMA StillKeeps ==
    ASSUME NEW h \in Handles, Still(h), LifeFor(h), OrdersGoOn,
           \A k \in Slots : runner'[<<h, k>>].at = runner[<<h, k>>].at
                            /\ runner'[<<h, k>>].order = runner[<<h, k>>].order
    PROVE  /\ LifeFor(h)'
           /\ HeldFor(h) => HeldFor(h)'
           /\ OwnersFor(h) /\ registry'.orders[task[h].id] = registry.orders[task[h].id] => OwnersFor(h)'
<1>1. LifeFor(h)'
  BY DEF LifeFor, Still, Kept, OrdersGoOn
<1>2. HeldFor(h) => HeldFor(h)'
  <2>1. Captured(h)' => Captured(h)
    BY DEF Captured, Still, Kept
  <2> QED BY <2>1, HeldStays DEF Still, Kept
<1>3. OwnersFor(h) /\ registry'.orders[task[h].id] = registry.orders[task[h].id] => OwnersFor(h)'
  BY DEF OwnersFor, Registered, Owned, Still, Kept
<1> QED BY <1>1, <1>2, <1>3

(* There are ids for everybody. *)
LEMMA BuiltCount ==
    /\ IsFiniteSet(Built) /\ Cardinality(Built) \in Nat
    /\ Cardinality(Built) <= Cardinality(Handles) /\ Cardinality(Handles) \in Nat
    /\ Cardinality(Built) = Cardinality(Handles) => Built = Handles
BY TargetPosAssumption, FS_Subset, FS_CardinalityType DEF Built

(* So no id is without its place in the registry. *)
LEMMA IdsEnough ==
    ASSUME CountInv, IdsInv
    PROVE  /\ 1 .. registry.next \subseteq Ids
           /\ \A h \in Handles : task[h].id # 0 => task[h].id \in Ids
           /\ registry.guard # 0 => registry.guard \in Ids
<1>1. registry.next \in Nat /\ registry.next <= Cardinality(Handles) + 1
  BY BuiltCount DEF CountInv
<1>2. 1 .. registry.next \subseteq Ids
  BY <1>1, BuiltCount DEF Ids
<1>3. \A h \in Handles : task[h].id \in 0 .. registry.next
  BY DEF IdsInv
<1> QED BY <1>1, <1>2, <1>3 DEF IdsInv

(* A step of one task, which the others do not notice. *)
LEMMA OneTaskNext ==
    ASSUME ReportInv, FieldsOK', CallsInv', OrdersGoOn, SameSched, NEW h \in Handles,
           \A g \in Handles \ {h} : Still(g),
           \A g \in Handles \ {h}, k \in Slots : runner'[<<g, k>>].at = runner[<<g, k>>].at
                                              /\ runner'[<<g, k>>].order = runner[<<g, k>>].order,
           task'[h].id = task[h].id, task[h].id # 0,
           task[h].failed => task'[h].failed,
           task[h].finished => task'[h].finished /\ task'[h].trades = task[h].trades,
           registry'.next = registry.next, registry'.guard = registry.guard, registry'.key \in {0, registry.key},
           \A id \in Ids \ {task[h].id} : registry'.orders[id] = registry.orders[id],
           \A k \in Slots : runner[<<h, k>>].at = "error" => runner'[<<h, k>>].at = "error" \/ task'[h].failed,
           LifeFor(h)',
           ~Sharing /\ OwnersFor(h) => OwnersFor(h)',
           ~Erring' /\ ~Erring /\ ~Sharing /\ OwnersFor(h) /\ HeldFor(h) => HeldFor(h)'
    PROVE  ReportInv'
<1>1. IdsStay
  <2>1. \A id \in Ids : id > registry.next => id # task[h].id
    BY DEF ReportInv, IdsInv, CountInv
  <2>2. \A g \in Handles : task'[g].id = task[g].id /\ (task[g].id = 0 => task'[g] = task[g])
    BY DEF Still, Kept
  <2> QED BY <2>1, <2>2 DEF IdsStay
<1>2. CountInv' /\ IdsInv'
  BY <1>1, IdsStayKeeps DEF ReportInv
<1>3. Erring => Erring'
  <2>1. \A g \in Handles : task[g].failed => task'[g].failed
    BY DEF Still
  <2>2. \A g \in Handles, k \in Slots :
           runner[<<g, k>>].at = "error" => runner'[<<g, k>>].at = "error" \/ task'[g].failed
    OBVIOUS
  <2> QED BY <2>1, <2>2, ErringStays
<1>4. SchedInv'
  <2>1. \A g \in Handles : task[g].finished => task'[g].finished /\ task'[g].trades = task[g].trades
    BY DEF Still, Kept
  <2> QED BY <1>1, <1>3, <2>1, SchedStays DEF ReportInv
<1>5. \A g \in Handles : LifeFor(g)'
  BY StillKeeps DEF ReportInv, LifeInv
<1>6. Sharing' <=> Sharing
  BY <1>1, SharingSame DEF IdsStay
<1>7. ASSUME ~Sharing, NEW g \in Handles PROVE OwnersFor(g)'
  <2>1. OwnersFor(g)
    BY <1>7 DEF ReportInv, OwnersInv
  <2>2. CASE g = h
    BY <1>7, <2>1, <2>2
  <2>3. CASE g # h /\ task[g].id # 0
    <3>1. task[g].id \in Ids \ {task[h].id}
      BY <1>7, <2>3, IdsEnough DEF ReportInv, Sharing
    <3> QED BY <2>1, <2>3, <3>1, StillKeeps DEF ReportInv, LifeInv
  <2>4. CASE g # h /\ task[g].id = 0
    BY <2>4 DEF OwnersFor, Registered, Still, Kept
  <2> QED BY <2>2, <2>3, <2>4
<1>8. ASSUME ~Erring', ~Sharing, NEW g \in Handles PROVE HeldFor(g)'
  <2>1. OwnersFor(g) /\ HeldFor(g) /\ ~Erring
    BY <1>3, <1>8 DEF ReportInv, OwnersInv, HeldInv
  <2>2. CASE g = h
    BY <1>8, <2>1, <2>2
  <2>3. CASE g # h
    BY <2>1, <2>3, StillKeeps DEF ReportInv, LifeInv
  <2> QED BY <2>2, <2>3
<1> QED BY <1>2, <1>4, <1>5, <1>6, <1>7, <1>8 DEF ReportInv, LifeInv, OwnersInv, HeldInv

(* A step that no task notices. *)
LEMMA QuietNext ==
    ASSUME ReportInv, FieldsOK', CallsInv', OrdersGoOn, SameSched, SameRunners, SameIds,
           registry'.orders = registry.orders, \A h \in Handles : Still(h)
    PROVE  ReportInv'
<1>0. \A h \in Handles, k \in Slots : runner'[<<h, k>>].at = runner[<<h, k>>].at
                                      /\ runner'[<<h, k>>].order = runner[<<h, k>>].order
  BY DEF SameRunners
<1>1. IdsStay
  BY DEF IdsStay, SameIds, Still, Kept
<1>2. CountInv' /\ IdsInv'
  BY <1>1, IdsStayKeeps DEF ReportInv
<1>3. Erring => Erring'
  <2>1. \A g \in Handles : task[g].failed => task'[g].failed
    BY DEF Still
  <2> QED BY <1>0, <2>1, ErringStays
<1>4. SchedInv'
  <2>1. \A g \in Handles : task[g].finished => task'[g].finished /\ task'[g].trades = task[g].trades
    BY DEF Still, Kept
  <2> QED BY <1>1, <1>3, <2>1, SchedStays DEF ReportInv
<1>5. Sharing' <=> Sharing
  BY <1>1, SharingSame DEF IdsStay
<1>6. \A h \in Handles :
         /\ LifeFor(h)'
         /\ HeldFor(h) => HeldFor(h)'
         /\ OwnersFor(h) => OwnersFor(h)'
  BY <1>0, StillKeeps DEF ReportInv, LifeInv
<1> QED BY <1>2, <1>3, <1>4, <1>5, <1>6 DEF ReportInv, LifeInv, OwnersInv, HeldInv

-----------------------------------------------------------------------------
(* Every step keeps the invariant. *)
LEMMA ExchangeNext ==
    ASSUME ReportInv, NEW i \in DOMAIN orders, Exchange(i)
    PROVE  ReportInv'
<1>1. FieldsOK' /\ OrdersGoOn /\ UNCHANGED <<task, runner, registry, call, sched>>
  BY ExchangeEffect DEF ReportInv
<1>2. /\ SameSched /\ SameRunners /\ SameIds /\ registry'.orders = registry.orders
      /\ \A h \in Handles : Still(h)
  BY <1>1 DEF SameSched, SameRunners, SameIds, Still, Kept
<1>3. CallsInv'
  BY <1>1, CallsStay DEF ReportInv
<1> QED BY <1>1, <1>2, <1>3, QuietNext

LEMMA SessionNext ==
    ASSUME ReportInv, SessionStep
    PROVE  ReportInv'
<1>1. FieldsOK' /\ SameRunners /\ UNCHANGED <<task, registry, orders, call, sched>>
  BY SessionEffect DEF ReportInv
<1>2. /\ SameSched /\ SameIds /\ registry'.orders = registry.orders
      /\ \A h \in Handles : Still(h)
  BY <1>1 DEF SameSched, SameIds, Still, Kept
<1>3. CallsInv'
  BY <1>1, CallsStay DEF ReportInv
<1> QED BY <1>1, <1>2, <1>3, OrdersSame, QuietNext

LEMMA CallStepNext ==
    ASSUME ReportInv, NEW c \in Callers, CallStep(c)
    PROVE  ReportInv'
<1>1. /\ FieldsOK' /\ \A h \in Handles : Still(h)
      /\ UNCHANGED <<runner, orders, sched>> /\ SameIds /\ registry'.orders = registry.orders
      /\ \A d \in Callers \ {c} : call'[d] = call[d]
      /\ call'[c].at # "idle" => DOMAIN call'[c] = {"at", "h", "cmd"} /\ call'[c].h = call[c].h
      /\ call[c].at # "idle"
  BY SendEffect DEF ReportInv
<1>2. SameSched /\ SameRunners
  BY <1>1 DEF SameSched, SameRunners
<1>3. CallsInv'
  <2>1. \A h \in Handles : task'[h].id = task[h].id
    BY <1>1 DEF Still, Kept
  <2> QED BY <1>1, <2>1 DEF ReportInv, CallsInv
<1> QED BY <1>1, <1>2, <1>3, OrdersSame, QuietNext

LEMMA CallNext ==
    ASSUME ReportInv, NEW c \in Callers, Call(c)
    PROVE  ReportInv'
<1>1. /\ FieldsOK' /\ UNCHANGED <<runner, registry, orders, sched>>
      /\ \A d \in Callers \ {c} : call'[d] = call[d]
  BY CallEffect DEF ReportInv
<1>2. PICK h \in Handles :
         /\ task[h].id # 0 /\ \A g \in Handles \ {h} : Still(g)
         /\ Kept(h) \/ task[h].started = "no"
         /\ task'[h].id = task[h].id /\ task'[h].finished = task[h].finished
         /\ task'[h].failed = task[h].failed
         /\ task'[h].trades = task[h].trades /\ task'[h].mine = task[h].mine
         /\ IF task[h].started = "no" THEN task'[h].started = "run" /\ task'[h].at = "command"
            ELSE task'[h].at = task[h].at
         /\ DOMAIN call'[c] = {"at", "h", "cmd"} /\ call'[c].h = h
  BY CallEffect DEF ReportInv
<1>3. CallsInv'
  <2>1. \A g \in Handles : task'[g].id = task[g].id
    BY <1>2 DEF Still, Kept
  <2> QED BY <1>1, <1>2, <2>1 DEF ReportInv, CallsInv
<1>4. OrdersGoOn
  BY <1>1, OrdersSame
<1>5. LifeFor(h) /\ LifeFor(h)'
  <2>1. LifeFor(h)
    BY DEF ReportInv, LifeInv
  <2>2. task[h].started # "no" => task'[h].started = task[h].started
    BY <1>2 DEF Kept
  <2> QED BY <1>1, <1>2, <2>1, <2>2 DEF LifeFor
<1>6. OwnersFor(h) => OwnersFor(h)'
  BY <1>1, <1>2 DEF OwnersFor, Registered, Owned, Working, Kept
<1>7. HeldFor(h) => HeldFor(h)'
  <2>1. Captured(h)' => Captured(h)
    BY <1>2, <1>5 DEF Captured, LifeFor
  <2> QED BY <1>1, <1>2, <1>4, <1>5, <2>1, HeldStays
<1>8. SameSched
  BY <1>1 DEF SameSched
<1> QED BY <1>1, <1>2, <1>3, <1>4, <1>5, <1>6, <1>7, <1>8, OneTaskNext

LEMMA MovesOnNext ==
    ASSUME ReportInv, NEW h \in Handles, MovesOn(h)
    PROVE  ReportInv'
<1>1. /\ FieldsOK' /\ UNCHANGED <<runner, call, sched>> /\ SameIds /\ registry'.orders = registry.orders
      /\ OrdersGoOn /\ Kept(h) /\ \A g \in Handles \ {h} : Still(g)
      /\ task[h].at \in Planning /\ task'[h].at \in Planning \cup {"end"}
      /\ task[h].failed => task'[h].failed
  BY MovesOnEffect DEF ReportInv
<1>2. CallsInv'
  BY <1>1, CallsStay DEF ReportInv, Still, Kept
<1>3. LifeFor(h) /\ LifeFor(h)' /\ task[h].id # 0
  <2>1. LifeFor(h)
    BY DEF ReportInv, LifeInv
  <2> QED BY <1>1, <2>1 DEF LifeFor, Kept, Planning, OrdersGoOn
<1>4. OwnersFor(h) => OwnersFor(h)'
  BY <1>1 DEF OwnersFor, Registered, Owned, Working, Planning, Kept
<1>5. HeldFor(h) => HeldFor(h)'
  <2>1. Captured(h)' => Captured(h)
    BY <1>1 DEF Captured, Planning, Kept
  <2> QED BY <1>1, <1>3, <2>1, HeldStays DEF Kept
<1>6. SameSched
  BY <1>1 DEF SameSched
<1> QED BY <1>1, <1>2, <1>3, <1>4, <1>5, <1>6, OneTaskNext DEF Kept, SameIds

LEMMA BatchNext ==
    ASSUME ReportInv, NEW h \in Handles, Batch(h), ~Stop(h)
    PROVE  ReportInv'
<1>1. /\ FieldsOK' /\ UNCHANGED <<registry, orders, call, sched>>
      /\ Kept(h) /\ task'[h].failed = task[h].failed
      /\ \A g \in Handles \ {h} : Still(g)
      /\ task[h].at = "batch" /\ task'[h].at = "running"
      /\ \A g \in Handles \ {h}, l \in Slots : runner'[<<g, l>>] = runner[<<g, l>>]
      /\ \A l \in Slots : runner'[<<h, l>>] = runner[<<h, l>>] \/ runner'[<<h, l>>].at = "start"
  BY BatchEffect DEF ReportInv
<1>2. CallsInv' /\ OrdersGoOn /\ SameSched
  BY <1>1, CallsStay, OrdersSame DEF ReportInv, Still, Kept, SameSched
<1>3. /\ LifeFor(h) /\ LifeFor(h)' /\ task[h].id # 0
      /\ \A k \in Slots : runner[<<h, k>>].at = "off"
  <2>1. LifeFor(h)
    BY DEF ReportInv, LifeInv
  <2> QED BY <1>1, <2>1 DEF LifeFor, Kept
<1>4. OwnersFor(h) => OwnersFor(h)'
  BY <1>1 DEF OwnersFor, Registered, Owned, Working, Kept
<1>5. HeldFor(h) => HeldFor(h)'
  <2>1. Captured(h)' => Captured(h)
    BY <1>1 DEF Captured, Kept
  <2>2. \A k \in Slots : runner[<<h, k>>].at \notin Busy
    BY <1>3 DEF Busy
  <2> QED BY <1>1, <1>2, <1>3, <2>1, <2>2, HeldStays DEF Kept
<1> QED BY <1>1, <1>2, <1>3, <1>4, <1>5, OneTaskNext DEF Kept

LEMMA JoinNext ==
    ASSUME ReportInv, NEW h \in Handles, Join(h)
    PROVE  ReportInv'
<1>1. /\ FieldsOK' /\ UNCHANGED <<registry, orders, call, sched>>
      /\ Kept(h) /\ \A g \in Handles \ {h} : Still(g)
      /\ task[h].at = "running" /\ task'[h].at \in Planning \cup {"end"}
      /\ \A g \in Handles \ {h}, l \in Slots : runner'[<<g, l>>] = runner[<<g, l>>]
      /\ \A l \in Slots : runner[<<h, l>>].at \in Ends /\ runner'[<<h, l>>].at = "off"
      /\ task[h].failed \/ (\E l \in Slots : runner[<<h, l>>].at = "error") => task'[h].failed
  BY JoinEffect DEF ReportInv
<1>2. CallsInv' /\ OrdersGoOn /\ SameSched
  BY <1>1, CallsStay, OrdersSame DEF ReportInv, Still, Kept, SameSched
<1>3. LifeFor(h) /\ LifeFor(h)' /\ task[h].id # 0
  <2>1. LifeFor(h)
    BY DEF ReportInv, LifeInv
  <2> QED BY <1>1, <2>1 DEF LifeFor, Kept, Planning
<1>4. OwnersFor(h) => OwnersFor(h)'
  BY <1>1 DEF OwnersFor, Registered, Owned, Working, Planning, Kept
<1>5. HeldFor(h) => HeldFor(h)'
  <2>1. Captured(h)' => Captured(h)
    BY <1>1 DEF Captured, Planning, Kept
  <2>2. \A k \in Slots : runner[<<h, k>>].at \notin Busy
    BY <1>1 DEF Busy, Ends
  <2> QED BY <1>1, <1>2, <1>3, <2>1, <2>2, HeldStays DEF Kept
<1> QED BY <1>1, <1>2, <1>3, <1>4, <1>5, OneTaskNext DEF Kept

LEMMA CaptureNext ==
    ASSUME ReportInv, NEW h \in Handles, Capture(h)
    PROVE  ReportInv'
<1>1. /\ FieldsOK' /\ UNCHANGED <<runner, registry, orders, call, sched>>
      /\ \A g \in Handles \ {h} : Still(g)
      /\ task'[h].id = task[h].id /\ task'[h].started = task[h].started
      /\ task'[h].finished = task[h].finished /\ task'[h].mine = task[h].mine
      /\ task'[h].failed = task[h].failed
      /\ task[h].at = "end" /\ task'[h].at = "finish"
      /\ task'[h].trades = {<<i, orders[i].told>> : i \in Owned(h)}
  BY CaptureEffect DEF ReportInv
<1>2. CallsInv' /\ OrdersGoOn /\ SameSched
  BY <1>1, CallsStay, OrdersSame DEF ReportInv, Still, Kept, SameSched
<1>3. LifeFor(h) /\ LifeFor(h)' /\ task[h].id # 0 /\ ~task[h].finished
  <2>1. LifeFor(h)
    BY DEF ReportInv, LifeInv
  <2> QED BY <1>1, <2>1 DEF LifeFor
<1>4. OwnersFor(h) => OwnersFor(h)'
  BY <1>1 DEF OwnersFor, Registered, Owned, Working
<1>5. OwnersFor(h) /\ HeldFor(h) => HeldFor(h)'
  <2> SUFFICES ASSUME OwnersFor(h), HeldFor(h) PROVE HeldFor(h)'
    OBVIOUS
  <2>1. Owned(h) = task[h].mine
    BY <1>1, <1>3 DEF OwnersFor, Registered, Working
  <2>2. \A k \in Slots : runner[<<h, k>>].at \notin Busy
    BY <1>1, <1>3 DEF LifeFor, Busy
  <2>3. \A i \in task[h].mine : Over(orders[i])
    BY <2>2 DEF HeldFor, Held
  <2>4. task'[h].trades = {<<i, Filled(orders[i])>> : i \in task[h].mine}
    BY <1>1, <2>1, <2>3 DEF Over
  <2>5. Trades(h)' = task'[h].trades
    BY <1>1, <2>4 DEF Trades
  <2> QED BY <1>1, <2>3, <2>5 DEF HeldFor
<1> QED BY <1>1, <1>2, <1>3, <1>4, <1>5, OneTaskNext

LEMMA FinishNext ==
    ASSUME ReportInv, NEW h \in Handles, Finish(h)
    PROVE  ReportInv'
<1>0. LifeFor(h) /\ task[h].at = "finish" /\ task[h].id # 0 /\ task[h].id \in Ids
  BY IdsEnough DEF ReportInv, LifeInv, LifeFor, Finish
<1>1. /\ FieldsOK' /\ UNCHANGED <<runner, orders, call, sched>>
      /\ Kept(h) /\ task'[h].failed = task[h].failed
      /\ \A g \in Handles \ {h} : Still(g)
      /\ task[h].at = "finish" /\ task'[h].at = "announce"
      /\ registry'.next = registry.next
      /\ registry'.key \in {0, registry.key}
      /\ registry'.guard = (IF registry.guard = task[h].id THEN 0 ELSE registry.guard)
      /\ registry'.orders = [registry.orders EXCEPT ![task[h].id] = {}]
  BY <1>0, FinishEffect DEF ReportInv
<1>2. CallsInv' /\ OrdersGoOn /\ SameSched
  BY <1>1, CallsStay, OrdersSame DEF ReportInv, Still, Kept, SameSched
<1>3. LifeFor(h)'
  BY <1>0, <1>1 DEF LifeFor, Kept
<1>4. OwnersFor(h)'
  BY <1>0, <1>1 DEF OwnersFor, Registered, Working, LifeFor, Kept
<1>5. HeldFor(h) => HeldFor(h)'
  <2>1. Captured(h)
    BY <1>1 DEF Captured
  <2> QED BY <1>0, <1>1, <1>2, <2>1, HeldStays DEF Kept
<1>6. registry'.guard = registry.guard
  BY <1>0, <1>1 DEF ReportInv, IdsInv
<1>7. \A id \in Ids \ {task[h].id} : registry'.orders[id] = registry.orders[id]
  BY <1>1 DEF ReportInv, FieldsOK
<1> QED BY <1>0, <1>1, <1>2, <1>3, <1>4, <1>5, <1>6, <1>7, OneTaskNext DEF Kept

LEMMA AnnounceNext ==
    ASSUME ReportInv, NEW h \in Handles, Announce(h)
    PROVE  ReportInv'
<1>1. /\ FieldsOK' /\ UNCHANGED <<runner, registry, orders, call, sched>>
      /\ \A g \in Handles \ {h} : Still(g)
      /\ task'[h].id = task[h].id /\ task'[h].trades = task[h].trades
      /\ task'[h].mine = task[h].mine /\ task'[h].failed = task[h].failed
      /\ task[h].at = "announce" /\ task'[h].at = "off"
      /\ task'[h].started = "done" /\ task'[h].finished
  BY AnnounceEffect DEF ReportInv
<1>2. CallsInv' /\ OrdersGoOn /\ SameSched
  BY <1>1, CallsStay, OrdersSame DEF ReportInv, Still, Kept, SameSched
<1>3. LifeFor(h) /\ LifeFor(h)' /\ task[h].id # 0
  <2>1. LifeFor(h)
    BY DEF ReportInv, LifeInv
  <2> QED BY <1>1, <2>1 DEF LifeFor
<1>4. OwnersFor(h)'
  BY <1>1 DEF OwnersFor, Registered, Working
<1>5. HeldFor(h) => HeldFor(h)'
  <2>1. Captured(h)
    BY <1>1 DEF Captured
  <2> QED BY <1>1, <1>2, <1>3, <2>1, HeldStays
<1> QED BY <1>1, <1>2, <1>3, <1>4, <1>5, OneTaskNext

LEMMA DropNext ==
    ASSUME ReportInv, NEW h \in Handles, Drop(h)
    PROVE  ReportInv'
<1>0. LifeFor(h) /\ task[h].id # 0 /\ task[h].id \in Ids
  BY IdsEnough DEF ReportInv, LifeInv, Drop
<1>1. /\ FieldsOK' /\ UNCHANGED <<runner, orders, call, sched>>
      /\ sched.at = "off" /\ \A g \in Handles \ {h} : Still(g)
      /\ task'[h].id = task[h].id /\ task'[h].finished = task[h].finished
      /\ task'[h].trades = task[h].trades /\ task'[h].mine = task[h].mine
      /\ task'[h].failed = task[h].failed /\ task'[h].at = task[h].at
      /\ task[h].started = "no" /\ task'[h].started = "dropped"
      /\ registry'.next = registry.next
      /\ registry'.key \in {0, registry.key}
      /\ registry'.guard = (IF registry.guard = task[h].id THEN 0 ELSE registry.guard)
      /\ registry'.orders = [registry.orders EXCEPT ![task[h].id] = {}]
  BY <1>0, DropEffect DEF ReportInv
<1>2. CallsInv' /\ OrdersGoOn /\ SameSched
  BY <1>1, CallsStay, OrdersSame DEF ReportInv, Still, Kept, SameSched
<1>3. LifeFor(h)' /\ task[h].at = "off"
  BY <1>0, <1>1 DEF LifeFor
<1>4. OwnersFor(h)'
  BY <1>1, <1>3 DEF OwnersFor, Registered, Working
<1>5. HeldFor(h) => HeldFor(h)'
  <2>1. Captured(h)' => Captured(h)
    BY <1>1 DEF Captured
  <2> QED BY <1>0, <1>1, <1>2, <2>1, HeldStays
<1>6. registry'.guard = registry.guard
  BY <1>0, <1>1 DEF ReportInv, IdsInv
<1>7. \A id \in Ids \ {task[h].id} : registry'.orders[id] = registry.orders[id]
  BY <1>1 DEF ReportInv, FieldsOK
<1> QED BY <1>0, <1>1, <1>2, <1>3, <1>4, <1>5, <1>6, <1>7, OneTaskNext

LEMMA RunnerNext ==
    ASSUME ReportInv, NEW h \in Handles, NEW k \in Slots,
           RunnerStart(h, k) \/ RunnerLooks(h, k) \/ RunnerWakes(h, k) \/ RunnerRetries(h, k) \/ RunnerFails(h, k)
    PROVE  ReportInv'
<1>1. /\ FieldsOK' /\ RunnerGoesOn(h, k) /\ OrdersGoOn
      /\ UNCHANGED <<task, call, sched>> /\ SameIds /\ registry'.orders = registry.orders
  BY RunnerEffect DEF ReportInv
<1>2. CallsInv' /\ SameSched /\ \A g \in Handles : Still(g)
  BY <1>1, CallsStay DEF ReportInv, Still, Kept, SameSched
<1>3. LifeFor(h) /\ LifeFor(h)' /\ task[h].id # 0 /\ task[h].at = "running"
  <2>1. LifeFor(h)
    BY DEF ReportInv, LifeInv
  <2>2. task[h].at = "running"
    BY <1>1, <2>1 DEF LifeFor, RunnerGoesOn
  <2> QED BY <1>1, <2>1, <2>2 DEF LifeFor, OrdersGoOn
<1>4. OwnersFor(h) => OwnersFor(h)'
  BY <1>1 DEF OwnersFor, Registered, Owned
<1>5. ~Erring' => runner'[<<h, k>>].at # "error"
  BY DEF Erring, RunnerAt
<1>6. ~Erring' /\ HeldFor(h) => HeldFor(h)'
  <2> SUFFICES ASSUME ~Erring', HeldFor(h) PROVE HeldFor(h)'
    OBVIOUS
  <2>1. Captured(h)' => Captured(h)
    BY <1>1 DEF Captured
  <2>2. \A l \in Slots : runner[<<h, l>>].at \in Busy =>
           \/ runner'[<<h, l>>].at \in Busy /\ runner'[<<h, l>>].order = runner[<<h, l>>].order
           \/ Over(orders'[runner[<<h, l>>].order])
    BY <1>1, <1>5 DEF RunnerGoesOn
  <2> QED BY <1>1, <1>3, <2>1, <2>2, HeldStays
<1>7. /\ \A g \in Handles \ {h}, l \in Slots : runner'[<<g, l>>] = runner[<<g, l>>]
      /\ \A l \in Slots : runner[<<h, l>>].at = "error" => runner'[<<h, l>>].at = "error"
  BY <1>1 DEF RunnerGoesOn
<1> QED BY <1>1, <1>2, <1>3, <1>4, <1>6, <1>7, OneTaskNext DEF SameIds

LEMMA InsertNext ==
    ASSUME ReportInv, NEW h \in Handles, NEW k \in Slots, RunnerInsert(h, k)
    PROVE  ReportInv'
<1>0. PICK i : i = runner'[<<h, k>>].order
  OBVIOUS
<1>1. /\ FieldsOK' /\ UNCHANGED <<call, sched>> /\ SameIds
      /\ \A g \in Handles, l \in Slots : g # h \/ l # k => runner'[<<g, l>>] = runner[<<g, l>>]
      /\ \A g \in Handles \ {h} : Still(g)
      /\ task'[h].id = task[h].id /\ task'[h].started = task[h].started /\ task'[h].at = task[h].at
      /\ task'[h].finished = task[h].finished /\ task'[h].trades = task[h].trades
      /\ task'[h].failed = task[h].failed
      /\ runner[<<h, k>>].at = "insert" /\ runner'[<<h, k>>].at = "look"
      /\ OrdersGoOn
      /\ i \in DOMAIN orders' \ DOMAIN orders
      /\ task'[h].mine = task[h].mine \cup {i}
      /\ registry'.orders = [registry.orders EXCEPT ![task[h].id] = @ \cup {i}]
  BY <1>0, InsertEffect DEF ReportInv
<1>2. CallsInv' /\ SameSched
  BY <1>1, CallsStay DEF ReportInv, Still, Kept, SameSched
<1>3. LifeFor(h) /\ task[h].id # 0 /\ task[h].at = "running" /\ task[h].id \in Ids /\ ~task[h].finished
  <2>1. LifeFor(h)
    BY DEF ReportInv, LifeInv
  <2>2. task[h].at = "running"
    BY <1>1, <2>1 DEF LifeFor
  <2> QED BY <2>1, <2>2, IdsEnough DEF LifeFor, ReportInv
<1>4. LifeFor(h)'
  BY <1>1, <1>3 DEF LifeFor, OrdersGoOn
<1>5. OwnersFor(h) => OwnersFor(h)'
  <2>1. registry'.orders[task[h].id] = registry.orders[task[h].id] \cup {i}
    BY <1>1, <1>3 DEF ReportInv, FieldsOK
  <2> QED BY <1>1, <1>3, <2>1 DEF OwnersFor, Registered, Owned, Working
<1>6. HeldFor(h) => HeldFor(h)'
  <2> SUFFICES ASSUME HeldFor(h) PROVE HeldFor(h)'
    OBVIOUS
  <2>1. ~Captured(h)'
    BY <1>1, <1>3 DEF Captured
  <2>2. Held(h, i)'
    BY <1>0, <1>1 DEF Held, Busy
  <2>3. ASSUME NEW j \in task[h].mine PROVE Over(orders'[j]) \/ Held(h, j)'
    <3>1. CASE Over(orders[j])
      BY <1>1, <1>3, <3>1 DEF OrdersGoOn, LifeFor
    <3>2. CASE Held(h, j)
      <4>1. PICK l \in Slots : runner[<<h, l>>].at \in Busy /\ runner[<<h, l>>].order = j
        BY <3>2 DEF Held
      <4>2. l # k
        BY <1>1, <4>1 DEF Busy
      <4> QED BY <1>1, <4>1, <4>2 DEF Held
    <3> QED BY <3>1, <3>2 DEF HeldFor
  <2> QED BY <1>1, <2>1, <2>2, <2>3 DEF HeldFor
<1>7. \A id \in Ids \ {task[h].id} : registry'.orders[id] = registry.orders[id]
  BY <1>1 DEF ReportInv, FieldsOK
<1>8. /\ \A g \in Handles \ {h}, l \in Slots : runner'[<<g, l>>] = runner[<<g, l>>]
      /\ \A l \in Slots : runner[<<h, l>>].at = "error" => runner'[<<h, l>>].at = "error"
  BY <1>1
<1> QED BY <1>1, <1>2, <1>3, <1>4, <1>5, <1>6, <1>7, <1>8, OneTaskNext DEF SameIds

LEMMA BuildNext ==
    ASSUME ReportInv, NEW h \in Handles, Build(h)
    PROVE  ReportInv'
<1>1. /\ FieldsOK' /\ UNCHANGED <<runner, orders, call, sched>>
      /\ sched.at = "off" /\ task[h] = NewTask /\ registry.guard = 0
      /\ \A g \in Handles \ {h} : Still(g)
  BY BuildEffect DEF ReportInv
<1>2. PICK id \in {registry.key, registry.next + 1} :
         /\ task'[h] = [NewTask EXCEPT !.id = id]
         /\ registry'.guard = registry.guard /\ registry'.orders = registry.orders
         /\ registry'.key = id
         /\ \/ id = registry.key /\ id # 0 /\ registry'.next = registry.next
            \/ id = registry.next + 1 /\ registry'.next = id
  BY BuildEffect DEF ReportInv
<1>3. /\ task[h].id = 0 /\ task[h].at = "off" /\ ~task[h].finished /\ ~task[h].failed
      /\ task'[h].id = id /\ task'[h].at = "off" /\ task'[h].started = "no" /\ task'[h].mine = {}
      /\ task'[h].finished = FALSE /\ task'[h].failed = FALSE
  BY <1>1, <1>2 DEF NewTask
<1>4. registry.next \in Nat /\ registry'.next \in Nat /\ id \in 1 .. registry'.next
      /\ registry.next <= registry'.next /\ registry'.next <= registry.next + 1
  BY <1>2 DEF ReportInv, CountInv, IdsInv
<1>5. Built' = Built \cup {h} /\ h \notin Built
  BY <1>1, <1>3, <1>4 DEF Built, Still, Kept
<1>6. CountInv'
  <2>1. Cardinality(Built') = Cardinality(Built) + 1
    BY <1>5, BuiltCount, FS_AddElement
  <2>2. CountInv
    BY DEF ReportInv
  <2>3. registry.next <= Cardinality(Built) + 0 /\ sched.step \in Nat
    BY <1>1, <2>2 DEF CountInv
  <2>4. registry'.next <= Cardinality(Built') + 0
    BY <1>4, <2>1, <2>3, BuiltCount
  <2>5. sched'.at = "off" /\ sched'.step \in Nat
    BY <1>1, <2>3
  <2> QED BY <1>4, <2>4, <2>5 DEF CountInv, Stepping
<1>7. IdsInv'
  <2>1. \A g \in Handles : task'[g].id \in 0 .. registry'.next /\ (task'[g].id = 0 => task'[g] = NewTask)
    BY <1>1, <1>3, <1>4 DEF ReportInv, IdsInv, Still, Kept
  <2>2. \A j \in Ids : j > registry'.next => registry'.orders[j] = {}
    BY <1>2, <1>4 DEF ReportInv, IdsInv, Ids
  <2>3. sched'.at = "off" /\ registry'.guard = 0
    BY <1>1, <1>2
  <2>4. registry'.key \in 0 .. registry'.next /\ registry'.guard \in 0 .. registry'.next
    BY <1>2, <1>4, <2>3
  <2>5. \E g \in Handles : task'[g].id = registry'.key
    BY <1>2, <1>3
  <2> QED BY <2>1, <2>2, <2>3, <2>4, <2>5 DEF IdsInv, Ids
<1>8. CallsInv'
  BY <1>1, <1>3, <1>4 DEF ReportInv, CallsInv, Still, Kept
<1>9. OrdersGoOn
  BY <1>1, OrdersSame
<1>10. LifeFor(h) /\ LifeFor(h)' /\ HeldFor(h)'
  <2>1. LifeFor(h)
    BY DEF ReportInv, LifeInv
  <2> QED BY <1>1, <1>3, <2>1 DEF LifeFor, HeldFor, Captured
<1>11. ~Sharing' => ~Sharing
  BY <1>1, <1>3 DEF Sharing, Still, Kept
<1>12. ~Erring' => ~Erring
  <2>1. \A g \in Handles : task[g].failed => task'[g].failed
    BY <1>1, <1>3 DEF Still
  <2> QED BY <1>1, <2>1, ErringStays
<1>13. ASSUME ~Sharing' PROVE OwnersFor(h)'
  <2>1. id = registry.next + 1
    <3>1. registry.key # 0 => \E g \in Handles : task[g].id = registry.key
      BY DEF ReportInv, IdsInv
    <3>2. \A g \in Handles : g # h /\ task[g].id # 0 => task[g].id # id
      BY <1>1, <1>3, <1>4, <1>13 DEF Sharing, Still, Kept
    <3> QED BY <1>2, <1>3, <3>1, <3>2
  <2>2. id \in Ids
    <3>1. CountInv
      BY DEF ReportInv
    <3>2. registry.next <= Cardinality(Built) + 0
      BY <1>1, <3>1 DEF CountInv
    <3> QED BY <1>4, <2>1, <3>2, BuiltCount DEF Ids
  <2>3. registry'.orders[id] = {}
    BY <1>2, <1>4, <2>1, <2>2 DEF ReportInv, IdsInv
  <2> QED BY <1>3, <2>3 DEF OwnersFor, Owned
<1>14. \A g \in Handles \ {h} :
          /\ LifeFor(g)'
          /\ HeldFor(g) => HeldFor(g)'
          /\ OwnersFor(g) => OwnersFor(g)'
  BY <1>1, <1>2, <1>9, StillKeeps DEF ReportInv, LifeInv
<1>15. SchedInv'
  BY <1>1 DEF ReportInv, SchedInv, Stepping
<1> QED BY <1>1, <1>6, <1>7, <1>8, <1>10, <1>11, <1>12, <1>13, <1>14, <1>15
        DEF ReportInv, LifeInv, OwnersInv, HeldInv

LEMMA SchedStartNext ==
    ASSUME ReportInv, SchedStart
    PROVE  ReportInv'
<1>1. /\ FieldsOK' /\ UNCHANGED <<task, runner, orders, call>>
      /\ sched.at = "off" /\ sched'.at = "build" /\ sched'.step = 1 /\ Schedule # <<>>
      /\ sched'.failed = sched.failed /\ sched'.trades = sched.trades
      /\ \A h \in Handles : task[h] = NewTask
      /\ registry'.next = registry.next + 1 /\ registry'.guard = registry.next + 1
      /\ registry'.key = registry.key /\ registry'.orders = registry.orders
  BY SchedStartEffect DEF ReportInv
<1>2. \A h \in Handles : task[h].id = 0 /\ ~task[h].failed
  BY <1>1 DEF NewTask
<1>3. Built = {} /\ Built' = {} /\ Cardinality(Built) = 0 /\ Cardinality(Built') = 0
  BY <1>1, <1>2, FS_EmptySet DEF Built
<1>4. registry.next = 0
  <2>1. CountInv
    BY DEF ReportInv
  <2>2. registry.next \in Nat /\ registry.next <= Cardinality(Built) + 0
    BY <1>1, <2>1 DEF CountInv
  <2> QED BY <1>3, <2>2
<1>5. 1 <= Len(Schedule)
  BY <1>1, TargetPosAssumption
<1>6. CountInv'
  BY <1>1, <1>3, <1>4, <1>5 DEF CountInv, Stepping
<1>7. IdsInv'
  <2>1. ~Sharing'
    BY <1>1, <1>2 DEF Sharing
  <2>2. registry'.key \in 0 .. registry'.next /\ registry.key \in 0 .. registry.next
    BY <1>1, <1>4 DEF ReportInv, IdsInv
  <2>3. registry'.key = 0
    BY <1>1, <1>4, <2>2
  <2>4. \A id \in Ids : id > registry'.next => registry'.orders[id] = {}
    BY <1>1, <1>4 DEF ReportInv, IdsInv, Ids
  <2>5. registry'.next = 1 /\ registry'.guard = 1
    BY <1>1, <1>4
  <2>6. \A h \in Handles : task'[h].id = 0 /\ task'[h] = NewTask
    BY <1>1, <1>2
  <2> QED BY <1>1, <2>1, <2>3, <2>4, <2>5, <2>6 DEF IdsInv, Ids
<1>8. CallsInv'
  BY <1>1, CallsStay DEF ReportInv
<1>9. OrdersGoOn /\ SameRunners /\ \A h \in Handles : Still(h)
  BY <1>1, OrdersSame DEF SameRunners, Still, Kept
<1>10. \A h \in Handles : LifeFor(h)' /\ (HeldFor(h) => HeldFor(h)') /\ (OwnersFor(h) => OwnersFor(h)')
  BY <1>1, <1>9, StillKeeps DEF ReportInv, LifeInv, SameRunners
<1>11. (Sharing' <=> Sharing) /\ (Erring => Erring')
  BY <1>1, SharingSame, ErringStays
<1>12. SchedInv'
  <2>1. SchedInv
    BY DEF ReportInv
  <2>2. sched'.trades = {} /\ ~sched'.failed
    BY <1>1, <2>1 DEF SchedInv
  <2>3. Collected' = {}
    BY <1>3 DEF Collected
  <2>4. UNION {task'[h].trades : h \in {}} = {}
    OBVIOUS
  <2> QED BY <1>1, <2>2, <2>3, <2>4 DEF SchedInv, Stepping
<1> QED BY <1>1, <1>6, <1>7, <1>8, <1>10, <1>11, <1>12 DEF ReportInv, LifeInv, OwnersInv, HeldInv

LEMMA SchedBuildNext ==
    ASSUME ReportInv, SchedBuild, ~sched.cancelled
    PROVE  ReportInv'
<1>0. CountInv /\ IdsInv /\ CallsInv /\ LifeInv /\ OwnersInv /\ HeldInv /\ SchedInv /\ FieldsOK
  BY DEF ReportInv
<1>1. sched.at = "build"
  BY DEF SchedBuild
<1>2. /\ sched.step \in Nat /\ sched.step <= Len(Schedule) /\ Cardinality(Built) = sched.step - 1
      /\ registry.next \in Nat /\ registry.next <= Cardinality(Built) + 1
  BY <1>0, <1>1 DEF CountInv
<1>3. Len(Schedule) \in Nat /\ Len(Schedule) <= Cardinality(Handles)
  BY TargetPosAssumption
<1>4. \E h \in Handles : task[h].id = 0
  <2>1. Built # Handles
    BY <1>2, <1>3, BuiltCount
  <2> QED BY <2>1 DEF Built
<1>5. /\ FieldsOK' /\ UNCHANGED <<runner, orders, call>>
      /\ sched'.at = "wait" /\ sched'.step = sched.step
      /\ sched'.failed = sched.failed /\ sched'.trades = sched.trades
      /\ registry'.next = registry.next + 1 /\ registry'.guard = registry.guard
      /\ registry'.key = registry.key /\ registry'.orders = registry.orders
  BY <1>0, <1>4, SchedBuildEffect
<1>6. PICK h \in Handles :
         /\ task[h].id = 0 /\ \A g \in Handles \ {h} : Still(g)
         /\ task'[h].id = registry.next + 1 /\ task'[h].started = "run" /\ task'[h].at = "command"
         /\ task'[h].finished = FALSE /\ task'[h].failed = FALSE
         /\ task'[h].trades = {} /\ task'[h].mine = {}
  BY <1>0, <1>4, SchedBuildEffect
<1>7. task[h] = NewTask /\ task[h].at = "off" /\ ~task[h].finished /\ ~task[h].failed
  <2>1. task[h] = NewTask
    BY <1>0, <1>6 DEF IdsInv
  <2> QED BY <2>1 DEF NewTask
<1>8. Built' = Built \cup {h} /\ h \notin Built
  BY <1>2, <1>6 DEF Built, Still, Kept
<1>9. Cardinality(Built') = sched.step
  <2>1. Cardinality(Built') = Cardinality(Built) + 1
    BY <1>8, BuiltCount, FS_AddElement
  <2> QED BY <1>2, <2>1
<1>10. CountInv'
  <2>1. registry'.next \in Nat /\ registry'.next <= Cardinality(Built') + 1
    BY <1>2, <1>5, <1>9
  <2> QED BY <1>2, <1>3, <1>5, <1>9, <2>1 DEF CountInv, Stepping
<1>11. ~Sharing /\ ~Sharing'
  <2>1. ~Sharing
    BY <1>0, <1>1 DEF IdsInv
  <2>2. \A g \in Handles : task[g].id # registry.next + 1
    BY <1>0, <1>2 DEF IdsInv
  <2> QED BY <1>6, <2>1, <2>2 DEF Sharing, Still, Kept
<1>12. registry.next + 1 \in Ids
  BY <1>2, <1>3, BuiltCount DEF Ids
<1>13. IdsInv'
  <2>1. \A g \in Handles : task'[g].id \in 0 .. registry'.next /\ (task'[g].id = 0 => task'[g] = NewTask)
    BY <1>0, <1>2, <1>5, <1>6 DEF IdsInv, Still, Kept
  <2>2. \A id \in Ids : id > registry'.next => registry'.orders[id] = {}
    BY <1>0, <1>2, <1>5 DEF IdsInv, Ids
  <2>3. \A g \in Handles : task'[g].id # 0 => task'[g].id # registry'.guard
    <3>1. registry.guard \in 0 .. registry.next
          /\ \A g \in Handles : task[g].id # 0 => task[g].id # registry.guard
      BY <1>0, <1>1 DEF IdsInv
    <3> QED BY <1>2, <1>5, <1>6, <3>1 DEF Still, Kept
  <2>4. registry'.key # 0 => \E g \in Handles : task'[g].id = registry'.key
    BY <1>0, <1>5, <1>6 DEF IdsInv, Still, Kept
  <2>5. registry'.key \in 0 .. registry'.next /\ registry'.guard \in 0 .. registry'.next
        /\ registry'.guard # 0 /\ registry'.next # 0
    BY <1>0, <1>1, <1>2, <1>5 DEF IdsInv
  <2> QED BY <1>5, <1>11, <2>1, <2>2, <2>3, <2>4, <2>5 DEF IdsInv, Ids
<1>14. CallsInv'
  BY <1>0, <1>5, <1>6 DEF CallsInv, Still, Kept
<1>15. OrdersGoOn
  BY <1>5, OrdersSame
<1>16. LifeFor(h)' /\ HeldFor(h)' /\ OwnersFor(h)'
  <2>1. LifeFor(h)
    BY <1>0 DEF LifeInv
  <2>2. LifeFor(h)'
    BY <1>2, <1>5, <1>6, <1>7, <2>1 DEF LifeFor
  <2>3. HeldFor(h)'
    BY <1>6 DEF HeldFor, Captured
  <2>4. registry'.orders[registry.next + 1] = {}
    BY <1>0, <1>2, <1>5, <1>12 DEF IdsInv
  <2>5. OwnersFor(h)'
    BY <1>6, <2>4 DEF OwnersFor, Owned
  <2> QED BY <2>2, <2>3, <2>5
<1>17. \A g \in Handles \ {h} :
          LifeFor(g)' /\ (HeldFor(g) => HeldFor(g)') /\ (OwnersFor(g) => OwnersFor(g)')
  BY <1>0, <1>5, <1>6, <1>15, StillKeeps DEF LifeInv
<1>18. ~Erring' => ~Erring
  <2>1. \A g \in Handles : task[g].failed => task'[g].failed
    BY <1>6, <1>7 DEF Still
  <2> QED BY <1>5, <2>1, ErringStays
<1>19. SchedInv'
  <2>1. Collected' = Collected /\ h \notin Collected /\ Collected \subseteq Handles
    <3>1. \A g \in Handles : task[g].id # registry.next + 1
      BY <1>0, <1>2 DEF IdsInv
    <3> QED BY <1>1, <1>5, <1>6, <1>8, <3>1 DEF Collected, Built, Stepping, Still, Kept
  <2>2. /\ sched'.failed => sched'.at \in {"end", "done"}
        /\ sched'.at # "off" /\ \E g \in Handles : task'[g].id = registry'.next
    BY <1>0, <1>1, <1>5, <1>6 DEF SchedInv
  <2>3. ASSUME ~sched'.failed, ~Erring'
        PROVE  /\ \A g \in Collected' : task'[g].finished
               /\ sched'.trades = UNION {task'[g].trades : g \in Collected'}
    <3>1. /\ \A g \in Collected : task[g].finished
          /\ sched.trades = UNION {task[g].trades : g \in Collected}
      BY <1>0, <1>1, <1>5, <1>18, <2>3 DEF SchedInv
    <3>2. \A g \in Collected : task'[g].finished = task[g].finished /\ task'[g].trades = task[g].trades
      BY <1>6, <2>1 DEF Still, Kept
    <3>3. {task'[g].trades : g \in Collected} = {task[g].trades : g \in Collected}
      BY <3>2
    <3> QED BY <1>5, <2>1, <3>1, <3>2, <3>3
  <2> QED BY <2>2, <2>3 DEF SchedInv
<1> QED BY <1>0, <1>5, <1>10, <1>11, <1>13, <1>14, <1>16, <1>17, <1>18, <1>19
        DEF ReportInv, LifeInv, OwnersInv, HeldInv

LEMMA SchedMovesNext ==
    ASSUME ReportInv, SchedMoves
    PROVE  ReportInv'
<1>0. CountInv /\ IdsInv /\ CallsInv /\ LifeInv /\ OwnersInv /\ HeldInv /\ SchedInv /\ FieldsOK
  BY DEF ReportInv
<1>1. sched.at \in {"build", "end"} \cup Stepping
  BY <1>0, SchedMovesTo DEF Stepping
<1>2. ~Sharing /\ registry.next # 0 /\ registry.guard # 0
      /\ \A h \in Handles : task[h].id # 0 => task[h].id # registry.guard
  BY <1>0, <1>1 DEF IdsInv, Stepping
<1>3. sched.at \in Stepping => StepTask \in Handles /\ task[StepTask].id = registry.next
  BY <1>0 DEF SchedInv, StepTask
<1>4. /\ SchedCancelTask => StepTask \in Handles /\ task[StepTask].id # 0
      /\ registry.guard \in Ids
  <2>1. SchedCancelTask => sched.at = "finish"
    BY DEF SchedCancelTask
  <2> QED BY <1>0, <1>2, <1>3, <2>1, IdsEnough DEF Stepping
<1>5. /\ FieldsOK' /\ UNCHANGED <<runner, orders, call>> /\ \A h \in Handles : Still(h)
      /\ registry'.next = registry.next /\ registry'.key \in {0, registry.key}
      /\ IF SchedEnd THEN registry'.guard = 0 /\ registry'.orders = [registry.orders EXCEPT ![registry.guard] = {}]
         ELSE registry'.guard = registry.guard /\ registry'.orders = registry.orders
  BY <1>0, <1>4, SchedMovesEffect
<1>6. \A h \in Handles : /\ task'[h].id = task[h].id /\ (task[h].id = 0 => task'[h] = task[h])
                         /\ task'[h].finished = task[h].finished /\ task'[h].trades = task[h].trades
                         /\ task'[h].failed = task[h].failed
  BY <1>5 DEF Still, Kept
<1>7. Built' = Built
  BY <1>6 DEF Built
<1>8. CountInv'
  <2>1. registry.next \in Nat /\ registry.next <= Cardinality(Built) + 1 /\ sched.step \in Nat
    BY <1>0, <1>1 DEF CountInv, Stepping
  <2>2. sched'.at \in {"end", "done", "build"} \cup Stepping /\ sched'.step \in Nat
    BY <2>1, SchedMovesTo, <1>0 DEF Stepping
  <2>3. sched'.at = "build" => sched'.step <= Len(Schedule) /\ Cardinality(Built) = sched'.step - 1
    <3> SUFFICES ASSUME sched'.at = "build"
                 PROVE  sched'.step <= Len(Schedule) /\ Cardinality(Built) = sched'.step - 1
      OBVIOUS
    <3>1. CASE sched.at = "build" /\ sched'.step = sched.step
      BY <1>0, <3>1 DEF CountInv
    <3>2. CASE sched.at = "join" /\ sched.step # Len(Schedule) /\ sched'.step = sched.step + 1
      <4>1. sched.step <= Len(Schedule) /\ Cardinality(Built) = sched.step
        BY <1>0, <3>2 DEF CountInv, Stepping
      <4>2. Len(Schedule) \in Nat
        BY TargetPosAssumption
      <4> QED BY <2>1, <3>2, <4>1, <4>2
    <3> QED BY <1>0, <3>1, <3>2, SchedMovesTo DEF Stepping
  <2>4. sched'.at \in Stepping => sched'.step <= Len(Schedule) /\ Cardinality(Built) = sched'.step
    <3> SUFFICES ASSUME sched'.at \in Stepping
                 PROVE  sched'.step <= Len(Schedule) /\ Cardinality(Built) = sched'.step
      OBVIOUS
    <3>1. sched.at \in Stepping /\ sched'.step = sched.step
      BY <1>0, SchedMovesTo DEF Stepping
    <3> QED BY <1>0, <3>1 DEF CountInv
  <2>5. sched'.at # "off"
    BY <2>2 DEF Stepping
  <2> QED BY <1>5, <1>7, <2>1, <2>2, <2>3, <2>4, <2>5 DEF CountInv, Stepping
<1>9. (Sharing' <=> Sharing) /\ (Erring => Erring')
  <2>1. Sharing' <=> Sharing
    BY <1>6, SharingSame
  <2>2. Erring => Erring'
    BY <1>5, <1>6, ErringStays
  <2> QED BY <2>1, <2>2
<1>10. IdsInv'
  <2>1. \A h \in Handles : task'[h].id \in 0 .. registry'.next /\ (task'[h].id = 0 => task'[h] = NewTask)
    BY <1>0, <1>5, <1>6 DEF IdsInv
  <2>2. \A id \in Ids : id > registry'.next => registry'.orders[id] = {}
    BY <1>0, <1>5 DEF IdsInv, FieldsOK
  <2>3. /\ registry'.key \in 0 .. registry'.next /\ registry'.guard \in 0 .. registry'.next
        /\ registry'.key # 0 => \E h \in Handles : task'[h].id = registry'.key
    <3>1. 0 \in 0 .. registry.next
      BY <1>0 DEF CountInv
    <3>2. registry'.guard \in {0, registry.guard}
      BY <1>5
    <3> QED BY <1>0, <1>5, <1>6, <3>1, <3>2 DEF IdsInv
  <2>4. sched'.at # "off" /\ (sched'.at # "done" => ~SchedEnd)
    <3>1. SchedEnd => sched.at = "end"
      BY DEF SchedEnd
    <3> QED BY <1>0, <3>1, SchedMovesTo DEF Stepping
  <2>5. \A h \in Handles : task'[h].id # 0 => task'[h].id # registry'.guard
    BY <1>2, <1>5, <1>6
  <2>6. sched'.at # "done" => registry'.guard # 0
    BY <1>2, <1>5, <2>4
  <2> QED BY <1>2, <1>5, <1>9, <2>1, <2>2, <2>3, <2>4, <2>5, <2>6 DEF IdsInv, Ids
<1>11. CallsInv'
  BY <1>0, <1>5, <1>6, CallsStay
<1>12. \A h \in Handles :
          LifeFor(h)' /\ (HeldFor(h) => HeldFor(h)') /\ (OwnersFor(h) => OwnersFor(h)')
  <2> SUFFICES ASSUME NEW h \in Handles
               PROVE  LifeFor(h)' /\ (HeldFor(h) => HeldFor(h)') /\ (OwnersFor(h) => OwnersFor(h)')
    OBVIOUS
  <2>1. LifeFor(h) /\ Still(h) /\ OrdersGoOn
    BY <1>0, <1>5, OrdersSame DEF LifeInv
  <2>2. CASE task[h].id # 0
    <3>1. registry'.orders[task[h].id] = registry.orders[task[h].id]
      BY <1>0, <1>2, <1>5, <2>2, IdsEnough DEF FieldsOK
    <3> QED BY <1>5, <2>1, <3>1, StillKeeps
  <2>3. CASE task[h].id = 0
    <3>1. OwnersFor(h)'
      BY <1>6, <2>3 DEF OwnersFor, Registered
    <3> QED BY <1>5, <2>1, <3>1, StillKeeps
  <2> QED BY <2>2, <2>3
<1>13. SchedInv'
  <2>1. sched'.failed => sched'.at \in {"end", "done"}
    BY <1>0, SchedMovesTo DEF SchedInv, Stepping
  <2>2. sched'.at # "off"
    BY <1>0, SchedMovesTo DEF Stepping
  <2>3. sched'.at \in Stepping => \E h \in Handles : task'[h].id = registry'.next
    <3>1. sched'.at \in Stepping => sched.at \in Stepping
      BY <1>0, SchedMovesTo DEF Stepping
    <3> QED BY <1>3, <1>5, <1>6, <3>1
  <2>4. ASSUME ~sched'.failed, ~Erring'
        PROVE  /\ \A h \in Collected' : task'[h].finished
               /\ sched'.trades = UNION {task'[h].trades : h \in Collected'}
    <3>1. ~sched.failed
      BY <1>0, <2>4, SchedMovesTo DEF SchedInv, Stepping
    <3>2. /\ \A h \in Collected : task[h].finished
          /\ sched.trades = UNION {task[h].trades : h \in Collected}
      BY <1>0, <1>1, <1>9, <2>4, <3>1 DEF SchedInv, Stepping
    <3> DEFINE Gathers == /\ sched.at = "join" /\ task[StepTask].finished
                          /\ sched'.trades = sched.trades \cup task[StepTask].trades
                          /\ sched'.at \in {"end", "build"}
               Passes == /\ sched'.trades = sched.trades
                         /\ sched'.at \in Stepping <=> sched.at \in Stepping
    <3>6. Gathers \/ Passes
      BY <1>0, <2>4, SchedMovesTo DEF Stepping
    <3>3. CASE Gathers
      <4> DEFINE s == StepTask
      <4>1. /\ task[s].finished /\ sched'.trades = sched.trades \cup task[s].trades
            /\ sched'.at \notin Stepping
        BY <3>3 DEF Stepping
      <4>2. s \in Handles /\ task[s].id = registry.next
        BY <1>3, <3>3 DEF Stepping
      <4> HIDE DEF s
      <4>3. Collected' = Built
        BY <1>7, <4>1 DEF Collected
      <4>4. Built = Collected \cup {s}
        <5>1. \A h \in Handles : task[h].id = registry.next => h = s
          BY <1>2, <4>2 DEF Sharing
        <5> QED BY <1>2, <3>3, <4>2, <5>1 DEF Collected, Built, Stepping
      <4>5. \A h \in Collected' : task'[h].finished
        BY <1>6, <3>2, <4>1, <4>2, <4>3, <4>4 DEF Built
      <4>6. {task'[h].trades : h \in Collected'} = {task[h].trades : h \in Collected} \cup {task[s].trades}
        BY <1>6, <4>3, <4>4 DEF Built
      <4>7. UNION ({task[h].trades : h \in Collected} \cup {task[s].trades})
              = (UNION {task[h].trades : h \in Collected}) \cup task[s].trades
        OBVIOUS
      <4> QED BY <3>2, <4>1, <4>5, <4>6, <4>7
    <3>4. CASE Passes
      <4>1. /\ sched'.trades = sched.trades
            /\ sched'.at \in Stepping <=> sched.at \in Stepping
        BY <3>4
      <4>2. Collected' = Collected /\ Collected \subseteq Handles
        <5>1. \A g \in Built : task'[g].id = task[g].id
          BY <1>6 DEF Built
        <5> QED BY <1>5, <1>7, <4>1, <5>1 DEF Collected, Built
      <4>3. {task'[h].trades : h \in Collected} = {task[h].trades : h \in Collected}
        BY <1>6, <4>2
      <4> QED BY <1>6, <3>2, <4>1, <4>2, <4>3
    <3> QED BY <3>3, <3>4, <3>6
  <2> QED BY <2>1, <2>2, <2>3, <2>4 DEF SchedInv, Stepping
<1> QED BY <1>5, <1>8, <1>9, <1>10, <1>11, <1>12, <1>13, <1>0
        DEF ReportInv, LifeInv, OwnersInv, HeldInv
-----------------------------------------------------------------------------
(* The invariant holds at first, and in every state that follows. *)
LEMMA ReportInit ==
    ASSUME Init
    PROVE  ReportInv
<1>1. /\ \A h \in Handles : task[h] = NewTask
      /\ \A h \in Handles, k \in Slots : runner[<<h, k>>] = NoRunner
      /\ orders = <<>> /\ \A c \in Callers : call[c].at = "idle"
      /\ sched = [at |-> "off", step |-> 0, cancelled |-> FALSE, failed |-> FALSE, trades |-> {}]
      /\ registry.next = 0 /\ registry.key = 0 /\ registry.guard = 0
      /\ \A id \in Ids : registry.orders[id] = {}
  BY DEF Init
<1>2. FieldsOK
  <2>1. orders \in Seq(Range(orders)) /\ DOMAIN orders = {}
    BY <1>1
  <2>2. DOMAIN NewTask = TaskFields /\ DOMAIN NoRunner = RunnerFields
    BY DEF NewTask, NoRunner, TaskFields, RunnerFields
  <2>3. DOMAIN registry = {"next", "key", "guard", "known", "progress", "orders"} /\ DOMAIN registry.orders = Ids
    BY DEF Init
  <2>4. DOMAIN task = Handles /\ DOMAIN runner = Handles \X Slots /\ DOMAIN call = Callers
        /\ \A k \in Handles \X Slots : runner[k] = NoRunner
    BY DEF Init
  <2> QED BY <1>1, <2>1, <2>2, <2>3, <2>4 DEF FieldsOK
<1>3. /\ NewTask.id = 0 /\ NewTask.started = "no" /\ NewTask.at = "off" /\ NewTask.mine = {}
      /\ NewTask.finished = FALSE /\ NoRunner.at = "off"
  BY DEF NewTask, NoRunner
<1>4. Built = {}
  BY <1>1, <1>3 DEF Built
<1>5. CountInv
  <2>1. Cardinality(Built) = 0
    BY <1>4, FS_EmptySet
  <2> QED BY <1>1, <2>1 DEF CountInv, Stepping
<1>6. IdsInv
  BY <1>1, <1>3 DEF IdsInv
<1>7. CallsInv
  BY <1>1 DEF CallsInv
<1>8. LifeInv
  BY <1>1, <1>3 DEF LifeInv, LifeFor
<1>9. OwnersInv
  BY <1>1, <1>3 DEF OwnersInv, OwnersFor, Registered
<1>10. HeldInv
  BY <1>1, <1>3 DEF HeldInv, HeldFor, Captured
<1>11. SchedInv
  BY <1>1 DEF SchedInv, Stepping
<1> QED BY <1>2, <1>5, <1>6, <1>7, <1>8, <1>9, <1>10, <1>11 DEF ReportInv

LEMMA ReportNext ==
    ASSUME ReportInv, [Next]_vars
    PROVE  ReportInv'
<1>1. CASE UNCHANGED vars
  <2>1. UNCHANGED <<task, runner, registry, orders, call, sched>>
    BY <1>1 DEF vars
  <2>2. FieldsOK' /\ CallsInv'
    BY <2>1 DEF ReportInv, FieldsOK, CallsInv, Ids
  <2>3. \A h \in Handles : Still(h)
    BY <2>1 DEF Still, Kept
  <2>4. OrdersGoOn /\ SameSched /\ SameRunners /\ SameIds
    BY <2>1, OrdersSame DEF SameSched, SameRunners, SameIds
  <2> QED BY <2>1, <2>2, <2>3, <2>4, QuietNext
<1>2. CASE \E h \in Handles : Build(h) \/ Drop(h) \/ LoopStep(h) \/ DriveFails(h)
  <2>1. PICK h \in Handles : Build(h) \/ Drop(h) \/ LoopStep(h) \/ DriveFails(h)
    BY <1>2
  <2>2. CASE Build(h)
    BY <2>2, BuildNext
  <2>3. CASE Drop(h)
    BY <2>3, DropNext
  <2>4. CASE MovesOn(h)
    BY <2>4, MovesOnNext
  <2>5. CASE Batch(h) /\ ~Stop(h)
    BY <2>5, BatchNext
  <2>6. CASE Join(h)
    BY <2>6, JoinNext
  <2>7. CASE Capture(h)
    BY <2>7, CaptureNext
  <2>8. CASE Finish(h)
    BY <2>8, FinishNext
  <2>9. CASE Announce(h)
    BY <2>9, AnnounceNext
  <2> QED BY <2>1, <2>2, <2>3, <2>4, <2>5, <2>6, <2>7, <2>8, <2>9 DEF LoopStep, MovesOn
<1>3. CASE \E h \in Handles, k \in Slots : RunnerStep(h, k) \/ RunnerFails(h, k)
  <2>1. PICK h \in Handles, k \in Slots : RunnerStep(h, k) \/ RunnerFails(h, k)
    BY <1>3
  <2>2. CASE RunnerInsert(h, k)
    BY <2>2, InsertNext
  <2>3. CASE RunnerStart(h, k) \/ RunnerLooks(h, k) \/ RunnerWakes(h, k) \/ RunnerRetries(h, k) \/ RunnerFails(h, k)
    BY <2>3, RunnerNext
  <2> QED BY <2>1, <2>2, <2>3 DEF RunnerStep
<1>4. CASE \E c \in Callers : Call(c) \/ CallStep(c)
  <2>1. PICK c \in Callers : Call(c) \/ CallStep(c)
    BY <1>4
  <2> QED BY <2>1, CallNext, CallStepNext
<1>5. CASE \E i \in DOMAIN orders : Fill(i) \/ Kill(i) \/ ExchangeAnswers(i)
  <2>1. PICK i \in DOMAIN orders : Exchange(i)
    BY <1>5 DEF Exchange
  <2> QED BY <2>1, ExchangeNext
<1>6. CASE SessionStep
  BY <1>6, SessionNext
<1>7. CASE SchedStart
  BY <1>7, SchedStartNext
<1>8. CASE SchedStep \/ SchedWaitFails \/ SchedCancel
  <2>1. CASE SchedBuild /\ ~sched.cancelled
    BY <2>1, SchedBuildNext
  <2>2. CASE SchedMoves
    BY <2>2, SchedMovesNext
  <2> QED BY <1>8, <2>1, <2>2 DEF SchedStep, SchedMoves
<1> QED BY <1>1, <1>2, <1>3, <1>4, <1>5, <1>6, <1>7, <1>8 DEF Next
(* With the invariant, what a task captured when it ended is all there is.    *)
LEMMA ReportImplies ==
    ASSUME ReportInv
    PROVE  AllReported
<1>0. CountInv /\ IdsInv /\ LifeInv /\ HeldInv /\ SchedInv
  BY DEF ReportInv
<1>1. ASSUME NEW h \in Handles, task[h].finished, ~Erring, ~Sharing
      PROVE  AliveOf(task[h].mine) = {} /\ task[h].trades = Trades(h)
  <2>1. HeldFor(h) /\ LifeFor(h)
    BY <1>0, <1>1 DEF HeldInv, LifeInv
  <2>2. task[h].at # "running" /\ \A k \in Slots : runner[<<h, k>>].at = "off"
    BY <1>1, <2>1 DEF LifeFor
  <2>3. \A i \in task[h].mine : Over(orders[i])
    BY <2>1, <2>2 DEF HeldFor, Held, Busy
  <2>4. task[h].trades = Trades(h)
    BY <1>1, <2>1 DEF HeldFor, Captured
  <2> QED BY <2>3, <2>4 DEF AliveOf, Over
<1>2. ASSUME sched.at = "done", ~sched.failed, ~Erring
      PROVE  sched.trades = UNION {Trades(h) : h \in Handles}
  <2>1. ~Sharing /\ \A h \in Handles : task[h].id = 0 => task[h] = NewTask
    BY <1>0, <1>2 DEF IdsInv
  <2>2. Collected = Built
    BY <1>2 DEF Collected, Stepping
  <2>3. (\A h \in Built : task[h].finished) /\ sched.trades = UNION {task[h].trades : h \in Built}
    BY <1>0, <1>2, <2>2 DEF SchedInv
  <2>4. \A h \in Built : task[h].trades = Trades(h)
    BY <1>1, <1>2, <2>1, <2>3 DEF Built
  <2>5. \A h \in Handles : h \notin Built => Trades(h) = {}
    BY <2>1 DEF Built, NewTask, Trades
  <2>6. {task[h].trades : h \in Built} = {Trades(h) : h \in Built}
    BY <2>4
  <2>7. UNION {Trades(h) : h \in Built} = UNION {Trades(h) : h \in Handles}
    <3>1. Built \subseteq Handles
      BY DEF Built
    <3> QED BY <2>5, <3>1
  <2> QED BY <2>3, <2>6, <2>7
<1> QED BY <1>1, <1>2 DEF AllReported

(* AllReported for any handles, callers, targets, schedule and exchange: a    *)
(* task that ends without an error leaves no order working and has all trades *)
(* of its orders, and the scheduler has those of all steps.                   *)
THEOREM AllReportedHolds == Spec => []AllReported
<1>1. Init => ReportInv
  BY ReportInit
<1>2. ReportInv /\ [Next]_vars => ReportInv'
  BY ReportNext
<1>3. ReportInv => AllReported
  BY ReportImplies
<1> QED BY <1>1, <1>2, <1>3, PTL DEF Spec

-----------------------------------------------------------------------------
(***************************************************************************)
(* Counting up, and the folds of the model: a fold is a recursive function *)
(* over sets of indices.                                                   *)
(***************************************************************************)
LEMMA LeastElement ==
    ASSUME NEW S \in SUBSET Nat, S # {}
    PROVE  \E x \in S : \A y \in S : x <= y
<1>1. PICK x \in S : \A y \in S : ~ (<<y, x>> \in OpToRel(<, Nat))
  BY NatLessThanWellFounded, WFMin
<1>2. \A y \in S : ~ (y < x)
  BY <1>1 DEF OpToRel
<1> QED BY <1>2

(* What holds at 0 and from each number to the next holds up to n. *)
LEMMA CountUp ==
    ASSUME NEW n \in Nat, NEW G, 0 \in G, \A k \in 1 .. n : k - 1 \in G => k \in G
    PROVE  \A k \in 0 .. n : k \in G
<1> DEFINE Bad == {k \in 0 .. n : k \notin G}
<1> SUFFICES ASSUME Bad # {} PROVE FALSE
  OBVIOUS
<1>1. Bad \in SUBSET Nat
  OBVIOUS
<1>2. PICK k \in Bad : \A y \in Bad : k <= y
  BY <1>1, LeastElement
<1>3. k # 0 /\ k \in 1 .. n /\ k - 1 \in 0 .. n /\ k \notin G
  BY <1>2
<1>4. k - 1 \notin Bad
  BY <1>2, <1>3
<1> QED BY <1>3, <1>4

LEMMA MaxOfUpTo ==
    ASSUME NEW n \in Nat, NEW s \in SUBSET (1 .. n), n \in s
    PROVE  Max(s) = n
<1>1. \A y \in s : n >= y
  OBVIOUS
<1>2. \A x \in s : (\A y \in s : x >= y) => x = n
  OBVIOUS
<1> QED BY <1>1, <1>2 DEF Max

StepOf(kind, acc, e) == IF kind = "action" THEN AddAction(acc, e) ELSE AddGroup(acc, e)
FoldStep(kind, base, es, g, s) ==
    IF s = {} THEN base ELSE StepOf(kind, g[s \ {Max(s)}], es[Max(s)])
IsFold(kind, base, es, n, g) == g = [s \in SUBSET (1 .. n) |-> FoldStep(kind, base, es, g, s)]

LEMMA FoldExists ==
    ASSUME NEW kind, NEW base, NEW es, NEW n \in Nat
    PROVE  \E g : IsFold(kind, base, es, n, g)
<1> DEFINE Folds(g, k) == IsFold(kind, base, es, k, g)
           G == {k \in Nat : \E g : Folds(g, k)}
<1>1. 0 \in G
  <2> DEFINE g == [s \in SUBSET (1 .. 0) |-> base]
  <2>1. 1 .. 0 = {}
    OBVIOUS
  <2>2. Folds(g, 0)
    BY <2>1 DEF IsFold, FoldStep
  <2> QED BY <2>2
<1>2. ASSUME NEW k \in 1 .. n, k - 1 \in G PROVE k \in G
  <2>1. k \in Nat /\ k - 1 \in Nat
    OBVIOUS
  <2>4. PICK g : Folds(g, k - 1)
    BY <1>2
  <2> DEFINE h == [s \in SUBSET (1 .. k) |->
                      IF k \in s THEN StepOf(kind, g[s \ {k}], es[k]) ELSE g[s]]
  <2>5. ASSUME NEW s \in SUBSET (1 .. k), k \in s PROVE h[s] = FoldStep(kind, base, es, h, s)
    <3>1. Max(s) = k /\ s # {}
      BY <2>1, <2>5, MaxOfUpTo
    <3>2. s \ {k} \in SUBSET (1 .. k) /\ k \notin s \ {k}
      OBVIOUS
    <3>3. h[s \ {k}] = g[s \ {k}] /\ h[s] = StepOf(kind, g[s \ {k}], es[k])
      BY <2>5, <3>2
    <3> HIDE DEF h
    <3> QED BY <3>1, <3>3 DEF FoldStep
  <2>6. ASSUME NEW s \in SUBSET (1 .. k), k \notin s PROVE h[s] = FoldStep(kind, base, es, h, s)
    <3>1. 1 .. (k - 1) = (1 .. k) \ {k}
      BY <2>1
    <3>2. s \in SUBSET (1 .. (k - 1))
      BY <2>6, <3>1
    <3>3. h[s] = g[s] /\ g[s] = FoldStep(kind, base, es, g, s)
      BY <2>4, <2>6, <3>2 DEF IsFold
    <3>4. s \ {Max(s)} \in SUBSET (1 .. k) /\ k \notin s \ {Max(s)}
      BY <2>6
    <3>5. h[s \ {Max(s)}] = g[s \ {Max(s)}]
      BY <3>4
    <3> HIDE DEF h
    <3> QED BY <3>3, <3>5 DEF FoldStep
  <2>7. Folds(h, k)
    <3>1. \A s \in SUBSET (1 .. k) : h[s] = FoldStep(kind, base, es, h, s)
      BY <2>5, <2>6
    <3>2. h = [s \in SUBSET (1 .. k) |-> h[s]]
      OBVIOUS
    <3> HIDE DEF h
    <3> QED BY <3>1, <3>2 DEF IsFold
  <2> HIDE DEF h, Folds
  <2> QED BY <2>1, <2>7
<1> HIDE DEF G
<1>3. n \in G
  BY <1>1, <1>2, CountUp
<1> QED BY <1>3 DEF G

(* The values a fold runs through. *)
Runs(kind, base, es, n, r) ==
    \E m : /\ m[0] = base /\ r = m[n]
           /\ \A k \in 1 .. n : m[k] = StepOf(kind, m[k - 1], es[k])

LEMMA FoldRuns ==
    ASSUME NEW kind, NEW base, NEW es, NEW n \in Nat, NEW g, IsFold(kind, base, es, n, g)
    PROVE  Runs(kind, base, es, n, g[1 .. n])
<1>2. \A s \in SUBSET (1 .. n) : g[s] = FoldStep(kind, base, es, g, s)
  BY DEF IsFold
<1>3. g[{}] = base
  BY <1>2 DEF FoldStep
<1>4. ASSUME NEW k \in 1 .. n PROVE g[1 .. k] = StepOf(kind, g[1 .. (k - 1)], es[k])
  <2>1. 1 .. k \in SUBSET (1 .. n) /\ 1 .. k # {} /\ k \in 1 .. k /\ k \in Nat
    OBVIOUS
  <2>2. Max(1 .. k) = k
    BY <2>1, MaxOfUpTo
  <2>3. (1 .. k) \ {k} = 1 .. (k - 1)
    OBVIOUS
  <2>4. g[1 .. k] = FoldStep(kind, base, es, g, 1 .. k)
    BY <1>2, <2>1
  <2> QED BY <2>1, <2>2, <2>3, <2>4 DEF FoldStep
<1> DEFINE m == [k \in 0 .. n |-> g[1 .. k]]
<1>5. 1 .. 0 = {}
  OBVIOUS
<1>6. m[0] = base /\ g[1 .. n] = m[n]
  BY <1>3, <1>5
<1>7. \A k \in 1 .. n : m[k] = StepOf(kind, m[k - 1], es[k])
  BY <1>4
<1> HIDE DEF m
<1> QED BY <1>6, <1>7 DEF Runs

ActionFold(base, es) ==
    CHOOSE g : g = [s \in SUBSET DOMAIN es |->
                       IF s = {} THEN base ELSE AddAction(g[s \ {Max(s)}], es[Max(s)])]
LEMMA ActionsRun ==
    ASSUME NEW base, NEW es, NEW n \in Nat, DOMAIN es = 1 .. n
    PROVE  Runs("action", base, es, n, FoldLeft(AddAction, base, es))
<1>1. FoldLeft(AddAction, base, es) = ActionFold(base, es)[1 .. n]
  BY DEF FoldLeft, MapThenFoldSet, ActionFold
<1>2. \A g : IsFold("action", base, es, n, g) <=>
        g = [s \in SUBSET DOMAIN es |-> IF s = {} THEN base ELSE AddAction(g[s \ {Max(s)}], es[Max(s)])]
  BY DEF IsFold, FoldStep, StepOf
<1>3. IsFold("action", base, es, n, ActionFold(base, es))
  BY <1>2, FoldExists DEF ActionFold
<1> QED BY <1>1, <1>3, FoldRuns

GroupFold(base, es) ==
    CHOOSE g : g = [s \in SUBSET DOMAIN es |->
                       IF s = {} THEN base ELSE AddGroup(g[s \ {Max(s)}], es[Max(s)])]
LEMMA GroupsRun ==
    ASSUME NEW base, NEW es, NEW n \in Nat, DOMAIN es = 1 .. n
    PROVE  Runs("group", base, es, n, FoldLeft(AddGroup, base, es))
<1>1. FoldLeft(AddGroup, base, es) = GroupFold(base, es)[1 .. n]
  BY DEF FoldLeft, MapThenFoldSet, GroupFold
<1>2. \A g : IsFold("group", base, es, n, g) <=>
        g = [s \in SUBSET DOMAIN es |-> IF s = {} THEN base ELSE AddGroup(g[s \ {Max(s)}], es[Max(s)])]
  BY DEF IsFold, FoldStep, StepOf
<1>3. IsFold("group", base, es, n, GroupFold(base, es))
  BY <1>2, FoldExists DEF GroupFold
<1> QED BY <1>1, <1>3, FoldRuns

-----------------------------------------------------------------------------
(***************************************************************************)
(* Sums over the orders that at most three runners are at.                 *)
(***************************************************************************)
SumStep(f, g, s) == IF s = {} THEN 0 ELSE f[CHOOSE x \in s : TRUE] + g[s \ {CHOOSE x \in s : TRUE}]
IsSum(f, S, g) == g = [s \in SUBSET S |-> SumStep(f, g, s)]
SumFold(f, S) ==
    CHOOSE g : g = [s \in SUBSET S |->
        IF s = {} THEN 0 ELSE f[CHOOSE x \in s : TRUE] + g[s \ {CHOOSE x \in s : TRUE}]]
SumOf(f, S) == SumFold(f, S)[S]

LEMMA SmallerSet ==
    ASSUME NEW s, IsFiniteSet(s), NEW x \in s
    PROVE  /\ IsFiniteSet(s \ {x}) /\ Cardinality(s) \in Nat /\ Cardinality(s \ {x}) \in Nat
           /\ Cardinality(s \ {x}) = Cardinality(s) - 1
  BY FS_RemoveElement, FS_CardinalityType

LEMMA SumExists ==
    ASSUME NEW f, NEW S, IsFiniteSet(S)
    PROVE  IsSum(f, S, SumFold(f, S))
<1> DEFINE Sums(g, k) == \A s \in SUBSET S : Cardinality(s) <= k => g[s] = SumStep(f, g, s)
           G == {k \in Nat : \E g : Sums(g, k)}
<1>0. \A s \in SUBSET S : IsFiniteSet(s) /\ Cardinality(s) \in Nat /\ Cardinality(s) <= Cardinality(S)
  BY FS_Subset, FS_CardinalityType
<1>1. 0 \in G
  <2> DEFINE g == [s \in SUBSET S |-> 0]
  <2>1. ASSUME NEW s \in SUBSET S, Cardinality(s) <= 0 PROVE g[s] = SumStep(f, g, s)
    <3>1. s = {}
      BY <1>0, <2>1, FS_EmptySet
    <3> QED BY <3>1 DEF SumStep
  <2> QED BY <2>1
<1>2. ASSUME NEW k \in 1 .. Cardinality(S), k - 1 \in G PROVE k \in G
  <2>1. k \in Nat /\ k - 1 \in Nat
    BY <1>0
  <2>2. PICK g : Sums(g, k - 1)
    BY <1>2
  <2> DEFINE h == [s \in SUBSET S |-> IF Cardinality(s) <= k - 1 THEN g[s] ELSE SumStep(f, g, s)]
  <2>3. ASSUME NEW s \in SUBSET S, Cardinality(s) <= k PROVE h[s] = SumStep(f, h, s)
    <3>1. CASE s = {}
      <4>1. Cardinality(s) <= k - 1
        BY <3>1, <2>1, FS_EmptySet
      <4>2. SumStep(f, g, s) = 0 /\ SumStep(f, h, s) = 0
        BY <3>1 DEF SumStep
      <4>3. g[s] = SumStep(f, g, s)
        BY <4>1, <2>2
      <4> QED BY <4>1, <4>2, <4>3
    <3>2. CASE s # {}
      <4> DEFINE x == CHOOSE x \in s : TRUE
                 t == s \ {x}
      <4>1. x \in s
        BY <3>2
      <4>2. t \in SUBSET S /\ Cardinality(t) = Cardinality(s) - 1
        BY <1>0, <4>1, SmallerSet
      <4>3. h[t] = g[t]
        BY <1>0, <2>1, <2>3, <4>2
      <4>4. h[s] = SumStep(f, g, s)
        BY <2>2
      <4> HIDE DEF h
      <4> QED BY <3>2, <4>3, <4>4 DEF SumStep
    <3> QED BY <3>1, <3>2
  <2> HIDE DEF h
  <2> QED BY <2>1, <2>3
<1> HIDE DEF G
<1>3. Cardinality(S) \in G
  BY <1>0, <1>1, <1>2, CountUp
<1>4. PICK g : Sums(g, Cardinality(S))
  BY <1>3 DEF G
<1> DEFINE h == [s \in SUBSET S |-> g[s]]
<1>5. ASSUME NEW s \in SUBSET S PROVE h[s] = SumStep(f, h, s)
  <2>1. g[s] = SumStep(f, g, s)
    BY <1>0, <1>4
  <2>2. s # {} => s \ {CHOOSE x \in s : TRUE} \in SUBSET S
    OBVIOUS
  <2> QED BY <2>1, <2>2 DEF SumStep
<1>6. IsSum(f, S, h)
  <2>1. h = [s \in SUBSET S |-> h[s]]
    OBVIOUS
  <2> HIDE DEF h
  <2> QED BY <1>5, <2>1 DEF IsSum
<1>7. \A e : IsSum(f, S, e) <=>
        e = [s \in SUBSET S |-> IF s = {} THEN 0 ELSE f[CHOOSE x \in s : TRUE] + e[s \ {CHOOSE x \in s : TRUE}]]
  BY DEF IsSum, SumStep
<1> HIDE DEF h
<1>8. h = [s \in SUBSET S |-> IF s = {} THEN 0 ELSE f[CHOOSE x \in s : TRUE] + h[s \ {CHOOSE x \in s : TRUE}]]
  BY <1>6, <1>7
<1>9. SumFold(f, S) = [s \in SUBSET S |->
        IF s = {} THEN 0 ELSE f[CHOOSE x \in s : TRUE] + SumFold(f, S)[s \ {CHOOSE x \in s : TRUE}]]
  BY <1>8, Zenon DEF SumFold
<1> QED BY <1>7, <1>9

(* A set whose elements are each one of three, have the sign of a direction,  *)
(* and are no more than their share.                                          *)
Covered(f, s, M, x, a, dir) ==
    \A i \in s : /\ f[i] \in Int /\ Signed(dir, f[i]) >= 0
                 /\ \E m \in M : i = x[m] /\ Signed(dir, f[i]) <= a[m]
Within(v, dir, top) == v \in Int /\ 0 <= Signed(dir, v) /\ Signed(dir, v) <= top

LEMMA SumBound ==
    ASSUME NEW f, NEW S, IsFiniteSet(S), NEW x, NEW dir, NEW a \in [Slots -> Nat], Covered(f, S, Slots, x, a, dir)
    PROVE  Within(SumOf(f, S), dir, a[1] + a[2] + a[3])
<1> DEFINE g == SumFold(f, S)
<1>0. IsSum(f, S, g)
  BY SumExists
<1> HIDE DEF g
<1>1. g[{}] = 0
  BY <1>0 DEF IsSum, SumStep
<1>2. ASSUME NEW s \in SUBSET S, s # {}
      PROVE  \E c \in s : g[s] = f[c] + g[s \ {c}]
  <2> DEFINE c == CHOOSE y \in s : TRUE
  <2>1. c \in s
    BY <1>2
  <2>2. g[s] = f[c] + g[s \ {c}]
    BY <1>0, <1>2 DEF IsSum, SumStep
  <2> HIDE DEF c
  <2> QED BY <2>1, <2>2
<1>3. a[1] \in Nat /\ a[2] \in Nat /\ a[3] \in Nat /\ 1 \in Slots /\ 2 \in Slots /\ 3 \in Slots
      /\ \A m \in Slots : a[m] \in Nat
  BY DEF Slots
<1>4. ASSUME NEW s \in SUBSET S, NEW m \in Slots, Covered(f, s, {m}, x, a, dir)
      PROVE  Within(g[s], dir, a[m])
  <2>1. CASE s = {}
    BY <1>1, <1>3, <2>1 DEF Within, Signed
  <2>2. CASE s # {}
    <3>1. PICK c \in s : g[s] = f[c] + g[s \ {c}]
      BY <1>2, <2>2
    <3>2. s \ {c} = {}
      BY <1>4 DEF Covered
    <3>3. f[c] \in Int /\ Signed(dir, f[c]) >= 0 /\ Signed(dir, f[c]) <= a[m]
      BY <1>4 DEF Covered
    <3> QED BY <1>1, <1>3, <3>1, <3>2, <3>3 DEF Within, Signed
  <2> QED BY <2>1, <2>2
<1>5. ASSUME NEW s \in SUBSET S, NEW m \in Slots, NEW n \in Slots, Covered(f, s, {m, n}, x, a, dir)
      PROVE  Within(g[s], dir, a[m] + a[n])
  <2>1. CASE s = {}
    BY <1>1, <1>3, <2>1 DEF Within, Signed
  <2>2. CASE s # {}
    <3>1. PICK c \in s : g[s] = f[c] + g[s \ {c}]
      BY <1>2, <2>2
    <3>2. PICK l \in {m, n} : c = x[l] /\ Signed(dir, f[c]) <= a[l]
      BY <1>5 DEF Covered
    <3>3. PICK r \in {m, n} : {l, r} = {m, n} /\ a[m] + a[n] = a[l] + a[r]
      <4>1. CASE l = m
        BY <4>1
      <4>2. CASE l = n
        BY <4>2, <1>3
      <4> QED BY <4>1, <4>2
    <3>4. Covered(f, s \ {c}, {r}, x, a, dir)
      BY <1>5, <3>2, <3>3 DEF Covered
    <3>5. Within(g[s \ {c}], dir, a[r])
      BY <1>4, <3>4
    <3>6. f[c] \in Int /\ Signed(dir, f[c]) >= 0 /\ a[l] \in Nat /\ a[r] \in Nat
      BY <1>3, <1>5 DEF Covered
    <3> QED BY <3>1, <3>2, <3>3, <3>5, <3>6 DEF Within, Signed
  <2> QED BY <2>1, <2>2
<1>6. Within(g[S], dir, a[1] + a[2] + a[3])
  <2>1. CASE S = {}
    BY <1>1, <1>3, <2>1 DEF Within, Signed
  <2>2. CASE S # {}
    <3>1. PICK c \in S : g[S] = f[c] + g[S \ {c}]
      BY <1>2, <2>2
    <3>2. PICK l \in Slots : c = x[l] /\ Signed(dir, f[c]) <= a[l]
      BY DEF Covered
    <3>3. PICK m \in Slots, n \in Slots : Slots = {l, m, n} /\ a[1] + a[2] + a[3] = a[l] + a[m] + a[n]
      <4>1. Slots = {1, 2, 3}
        BY DEF Slots
      <4>2. CASE l = 1
        BY <1>3, <4>1, <4>2
      <4>3. CASE l = 2
        <5>1. Slots = {2, 1, 3} /\ a[1] + a[2] + a[3] = a[2] + a[1] + a[3]
          BY <1>3, <4>1
        <5> QED BY <1>3, <4>3, <5>1
      <4>4. CASE l = 3
        <5>1. Slots = {3, 1, 2} /\ a[1] + a[2] + a[3] = a[3] + a[1] + a[2]
          BY <1>3, <4>1
        <5> QED BY <1>3, <4>4, <5>1
      <4> QED BY <4>1, <4>2, <4>3, <4>4
    <3>4. Covered(f, S \ {c}, {m, n}, x, a, dir)
      BY <3>2, <3>3 DEF Covered
    <3>5. Within(g[S \ {c}], dir, a[m] + a[n])
      BY <1>5, <3>4
    <3>6. f[c] \in Int /\ Signed(dir, f[c]) >= 0 /\ a[l] \in Nat /\ a[m] \in Nat /\ a[n] \in Nat
      BY <1>3 DEF Covered
    <3> QED BY <3>1, <3>2, <3>3, <3>5, <3>6 DEF Within, Signed
  <2> QED BY <2>1, <2>2
<1> QED BY <1>6 DEF SumOf, g

(* The sums of the model. *)
Lefts == [i \in DOMAIN orders |-> orders[i].left]
Signeds == [i \in DOMAIN orders |-> Signed(orders[i].dir, orders[i].left)]
FrozenSet(dir, offsets) ==
    {i \in DOMAIN orders : Alive(orders[i]) /\ orders[i].dir = dir /\ orders[i].offset \in offsets}

LEMMA FrozenIsSum ==
    ASSUME NEW dir, NEW offsets
    PROVE  Frozen(dir, offsets) = SumOf(Lefts, FrozenSet(dir, offsets))
<1> DEFINE S == FrozenSet(dir, offsets)
           H(g) == [s \in SUBSET S |-> IF s = {} THEN 0 ELSE orders[CHOOSE x \in s : TRUE].left + g[s \ {CHOOSE x \in s : TRUE}]]
           L(g) == [s \in SUBSET S |-> IF s = {} THEN 0 ELSE Lefts[CHOOSE x \in s : TRUE] + g[s \ {CHOOSE x \in s : TRUE}]]
<1>1. Frozen(dir, offsets) = (CHOOSE g : g = H(g))[S]
  BY DEF Frozen, FrozenSet, MapThenSumSet, MapThenFoldSet
<1>2. S \subseteq DOMAIN orders
  BY DEF FrozenSet
<1>3. SumOf(Lefts, S) = (CHOOSE g : g = L(g))[S]
  BY DEF SumOf, SumFold
<1> HIDE DEF S
<1>4. ASSUME NEW g PROVE H(g) = L(g)
  <2>1. \A s \in SUBSET S : s # {} => Lefts[CHOOSE x \in s : TRUE] = orders[CHOOSE x \in s : TRUE].left
    BY <1>2 DEF Lefts
  <2> QED BY <2>1
<1>5. \A g : g = H(g) <=> g = L(g)
  BY <1>4
<1> HIDE DEF H, L
<1>6. (CHOOSE g : g = H(g)) = (CHOOSE g : g = L(g))
  BY <1>5
<1> QED BY <1>1, <1>3, <1>6 DEF S

LEMMA SignsIsSum ==
    ASSUME NEW S \in SUBSET DOMAIN orders
    PROVE  Signs(S) = SumOf(Signeds, S)
<1> DEFINE H(g) == [s \in SUBSET S |-> IF s = {} THEN 0
                      ELSE Signed(orders[CHOOSE x \in s : TRUE].dir, orders[CHOOSE x \in s : TRUE].left)
                           + g[s \ {CHOOSE x \in s : TRUE}]]
           L(g) == [s \in SUBSET S |-> IF s = {} THEN 0 ELSE Signeds[CHOOSE x \in s : TRUE] + g[s \ {CHOOSE x \in s : TRUE}]]
<1>1. Signs(S) = (CHOOSE g : g = H(g))[S]
  BY DEF Signs, MapThenSumSet, MapThenFoldSet
<1>3. SumOf(Signeds, S) = (CHOOSE g : g = L(g))[S]
  BY DEF SumOf, SumFold
<1>4. ASSUME NEW g PROVE H(g) = L(g)
  <2>1. \A s \in SUBSET S : s # {} => Signeds[CHOOSE x \in s : TRUE]
            = Signed(orders[CHOOSE x \in s : TRUE].dir, orders[CHOOSE x \in s : TRUE].left)
    BY DEF Signeds
  <2> QED BY <2>1
<1>5. \A g : g = H(g) <=> g = L(g)
  BY <1>4
<1> HIDE DEF H, L
<1>6. (CHOOSE g : g = H(g)) = (CHOOSE g : g = L(g))
  BY <1>5
<1> QED BY <1>1, <1>3, <1>6

LEMMA NothingFrozen ==
    ASSUME \A i \in DOMAIN orders : ~Alive(orders[i]), NEW dir, NEW offsets
    PROVE  Frozen(dir, offsets) = 0
<1>1. FrozenSet(dir, offsets) = {}
  BY DEF FrozenSet
<1>2. IsSum(Lefts, {}, SumFold(Lefts, {}))
  BY FS_EmptySet, SumExists
<1>3. SumFold(Lefts, {})[{}] = 0
  BY <1>2 DEF IsSum, SumStep
<1> QED BY <1>1, <1>3, FrozenIsSum DEF SumOf


-----------------------------------------------------------------------------
(***************************************************************************)
(* What a task still wants, and what is there to be had.                   *)
(*                                                                         *)
(* The argument for NoOvershoot and PlanFits: a plan is made while nobody  *)
(* has an order working, and all of its orders go in one direction.  For   *)
(* each class of offsets there is room: for all of them what is missing to *)
(* the target, for those that close what is held.  What the runners have   *)
(* yet to trade and the batches to come fit into that room, and a fill     *)
(* takes as much of the one as of the other.                               *)
(***************************************************************************)
Sole == ~Erring /\ ~Sharing /\ ~sched.failed

(* Of the tasks that have not ended there is only one. *)
Current == IF sched.at = "off" THEN registry.key ELSE registry.next
AloneInv ==
    Sole => \A h \in Handles :
        Registered(h) => sched.at \in {"off"} \cup Stepping /\ task[h].id = Current

OwnedInv == \A i \in DOMAIN orders : \E h \in Handles : i \in task[h].mine

Dirs == {"BUY", "SELL"}
All == {"OPEN", "CLOSE", "CLOSETODAY"}
Offsets == IF ShfeRules THEN All ELSE {"OPEN", "CLOSE"}
Classes == IF ShfeRules THEN {All, {"CLOSE"}, {"CLOSETODAY"}} ELSE {All, {"CLOSE"}}

Room(C, dir, goal) ==
    IF C = All THEN Signed(dir, goal - Net(pos))
    ELSE IF ~ShfeRules THEN HeldToday(pos, dir) + HeldHis(pos, dir)
    ELSE IF C = {"CLOSE"} THEN HeldHis(pos, dir) ELSE HeldToday(pos, dir)

Ahead == {"start", "insert"}
Placed == {"look", "wait", "quote"}
WantOf(h, k, C) ==
    LET r == runner[<<h, k>>] IN
    IF r.offset \notin C THEN 0
    ELSE IF r.at \in Ahead THEN r.left
    ELSE IF r.at \in Placed THEN Remaining(r, orders[r.order]) ELSE 0
Wanted(h, C) == WantOf(h, 1, C) + WantOf(h, 2, C) + WantOf(h, 3, C)

VolumeOf(batch, k, C) == IF k \in DOMAIN batch /\ batch[k].offset \in C THEN batch[k].volume ELSE 0
BatchVolume(batch, C) == VolumeOf(batch, 1, C) + VolumeOf(batch, 2, C) + VolumeOf(batch, 3, C)

(* The batches of a plan fit into the room and leave the rest of it. *)
Fits(plan, C, room, rest) ==
    \E G \in [1 .. Len(plan) + 1 -> Nat] :
        /\ G[1] <= room /\ rest <= G[Len(plan) + 1]
        /\ \A i \in DOMAIN plan : G[i + 1] + BatchVolume(plan[i], C) <= G[i]

OrderFor(dir) == [dir : {dir}, offset : Offsets, volume : Nat]
PlanOK(plan, dir) == plan \in Seq(Seq(OrderFor(dir))) /\ \A i \in DOMAIN plan : Len(plan[i]) <= 3

Planned(h) == task[h].at \in {"batch", "running"}
Rest(h) == IF task[h].at = "batch" THEN task[h].plan ELSE Tail(task[h].plan)
AimsAt(h, dir) ==
    /\ PlanOK(task[h].plan, dir) /\ task[h].plan # <<>>
    /\ \A k \in Slots : runner[<<h, k>>].at # "off" => runner[<<h, k>>].dir = dir
    /\ \A C \in Classes : Fits(Rest(h), C, Room(C, dir, task[h].req.volume) - Wanted(h, C), 0)
Aims(h) == Planned(h) => \E dir \in Dirs : AimsAt(h, dir)

RunnerOK(h, k) ==
    LET r == runner[<<h, k>>]
        o == orders[r.order]
    IN  r.at # "off" =>
          /\ r.dir \in Dirs /\ r.offset \in Offsets /\ r.left \in Nat
          /\ r.at \in Placed => /\ r.order \in task[h].mine
                                /\ o.dir = r.dir /\ o.offset = r.offset /\ o.volume <= r.left
OrderOK(o) == o.dir \in Dirs /\ o.offset \in Offsets /\ o.volume \in Nat /\ o.left \in 0 .. o.volume
OrdersOK == \A i \in DOMAIN orders : OrderOK(orders[i])
CommandsOK ==
    /\ \A h \in Handles : task[h].cmd.volume \in Int /\ task[h].req.volume \in Int
    /\ \A c \in Callers : call[c].at # "idle" => call[c].cmd.volume \in Int
RunnersOK == \A h \in Handles, k \in Slots : RunnerOK(h, k)
Aimed ==
    pos \in Holdings /\ OrdersOK /\ CommandsOK /\ RunnersOK /\ \A h \in Handles : Aims(h)
AimInv == Sole => Aimed

-----------------------------------------------------------------------------
(***************************************************************************)
(* Batches and plans.                                                      *)
(***************************************************************************)
LEMMA MinOfTwo ==
    ASSUME NEW a \in Int, NEW b \in Int
    PROVE  Min({a, b}) = IF a <= b THEN a ELSE b
<1> DEFINE m == IF a <= b THEN a ELSE b
<1>1. m \in {a, b} /\ \A y \in {a, b} : m <= y
  OBVIOUS
<1>2. \A x \in {a, b} : (\A y \in {a, b} : x <= y) => x = m
  OBVIOUS
<1> QED BY <1>1, <1>2 DEF Min

LEMMA MaxOfTwo ==
    ASSUME NEW a \in Int, NEW b \in Int
    PROVE  Max({a, b}) = IF a >= b THEN a ELSE b
<1> DEFINE m == IF a >= b THEN a ELSE b
<1>1. m \in {a, b} /\ \A y \in {a, b} : m >= y
  OBVIOUS
<1>2. \A x \in {a, b} : (\A y \in {a, b} : x >= y) => x = m
  OBVIOUS
<1> QED BY <1>1, <1>2 DEF Max

LEMMA BatchVolumeNat ==
    ASSUME NEW dir, NEW batch \in Seq(OrderFor(dir)), NEW C
    PROVE  /\ BatchVolume(batch, C) \in Nat
           /\ \A k \in Slots : VolumeOf(batch, k, C) \in Nat
<1>1. ASSUME NEW k \in Slots PROVE VolumeOf(batch, k, C) \in Nat
  <2>1. k \in DOMAIN batch => batch[k] \in OrderFor(dir)
    OBVIOUS
  <2>2. k \in DOMAIN batch => batch[k].volume \in Nat
    BY <2>1 DEF OrderFor
  <2> QED BY <2>2 DEF VolumeOf
<1> QED BY <1>1 DEF BatchVolume, Slots

LEMMA BatchVolumeEmpty == ASSUME NEW C PROVE BatchVolume(<<>>, C) = 0
  BY DEF BatchVolume, VolumeOf

LEMMA BatchVolumeAppend ==
    ASSUME NEW dir, NEW batch \in Seq(OrderFor(dir)), Len(batch) <= 2, NEW o \in OrderFor(dir), NEW C
    PROVE  BatchVolume(Append(batch, o), C)
             = BatchVolume(batch, C) + (IF o.offset \in C THEN o.volume ELSE 0)
<1> DEFINE new == Append(batch, o)
           n == Len(batch) + 1
           v == IF o.offset \in C THEN o.volume ELSE 0
<1>1. n \in 1 .. 3 /\ DOMAIN batch = 1 .. (n - 1) /\ DOMAIN new = 1 .. n /\ new[n] = o
      /\ \A k \in 1 .. (n - 1) : new[k] = batch[k]
  OBVIOUS
<1> HIDE DEF new, n
<1>2. ASSUME NEW k \in Slots PROVE VolumeOf(new, k, C) = IF k = n THEN v ELSE VolumeOf(batch, k, C)
  <2>1. CASE k = n
    BY <1>1, <2>1 DEF VolumeOf
  <2>2. CASE k # n
    <3>1. k \in DOMAIN new <=> k \in DOMAIN batch
      BY <1>1, <2>2 DEF Slots
    <3>2. k \in DOMAIN batch => new[k] = batch[k]
      BY <1>1
    <3> QED BY <2>2, <3>1, <3>2 DEF VolumeOf
  <2> QED BY <2>1, <2>2
<1>3. VolumeOf(batch, n, C) = 0
  BY <1>1 DEF VolumeOf
<1>4. \A k \in Slots : VolumeOf(batch, k, C) \in Nat
  BY BatchVolumeNat
<1>5. v \in Nat
  BY DEF OrderFor
<1> HIDE DEF v
<1> QED BY <1>1, <1>2, <1>3, <1>4, <1>5 DEF BatchVolume, Slots, new, v

LEMMA FitsNat ==
    ASSUME NEW S, NEW plan \in Seq(S), NEW C, NEW room \in Int, NEW rest, Fits(plan, C, room, rest)
    PROVE  0 <= room
<1>1. PICK G \in [1 .. Len(plan) + 1 -> Nat] : G[1] <= room
  BY DEF Fits
<1>2. 1 \in 1 .. Len(plan) + 1
  OBVIOUS
<1> QED BY <1>1, <1>2

LEMMA FitsMore ==
    ASSUME NEW S, NEW plan \in Seq(S), NEW C, NEW room \in Int, NEW rest, Fits(plan, C, room, rest),
           NEW more \in Int, room <= more
    PROVE  Fits(plan, C, more, rest)
<1>1. PICK G \in [1 .. Len(plan) + 1 -> Nat] :
         /\ G[1] <= room /\ rest <= G[Len(plan) + 1]
         /\ \A i \in DOMAIN plan : G[i + 1] + BatchVolume(plan[i], C) <= G[i]
  BY DEF Fits
<1>2. 1 \in 1 .. Len(plan) + 1
  OBVIOUS
<1>3. G[1] <= more
  BY <1>1, <1>2
<1> QED BY <1>1, <1>3 DEF Fits

LEMMA FitsEmpty ==
    ASSUME NEW C, NEW room \in Nat
    PROVE  Fits(<<>>, C, room, room)
<1> DEFINE G == [i \in 1 .. 1 |-> room]
<1>1. Len(<<>>) = 0 /\ DOMAIN <<>> = {}
  OBVIOUS
<1>2. G \in [1 .. Len(<<>>) + 1 -> Nat] /\ G[1] = room /\ G[Len(<<>>) + 1] = room
  BY <1>1
<1> HIDE DEF G
<1> QED BY <1>1, <1>2 DEF Fits

LEMMA FitsAppend ==
    ASSUME NEW S, NEW plan \in Seq(S), NEW batch, NEW C, NEW room \in Int, NEW rest \in Int,
           Fits(plan, C, room, rest),
           NEW less \in Nat, BatchVolume(batch, C) \in Nat, less + BatchVolume(batch, C) <= rest
    PROVE  Fits(Append(plan, batch), C, room, less)
<1>1. PICK G \in [1 .. Len(plan) + 1 -> Nat] :
         /\ G[1] <= room /\ rest <= G[Len(plan) + 1]
         /\ \A i \in DOMAIN plan : G[i + 1] + BatchVolume(plan[i], C) <= G[i]
  BY DEF Fits
<1> DEFINE new == Append(plan, batch)
           n == Len(plan)
           H == [i \in 1 .. n + 2 |-> IF i <= n + 1 THEN G[i] ELSE less]
<1>2. n \in Nat /\ DOMAIN plan = 1 .. n /\ DOMAIN new = 1 .. n + 1 /\ Len(new) + 1 = n + 2
  <2>1. plan \in Seq(S \cup {batch}) /\ batch \in S \cup {batch}
    OBVIOUS
  <2> QED BY <2>1
<1>3. new[n + 1] = batch /\ \A i \in 1 .. n : new[i] = plan[i]
  <2>1. plan \in Seq(S \cup {batch}) /\ batch \in S \cup {batch}
    OBVIOUS
  <2> QED BY <2>1
<1> HIDE DEF new, n
<1>4. H \in [1 .. Len(new) + 1 -> Nat]
  BY <1>2 DEF n
<1>5. H[1] = G[1] /\ H[n + 2] = less /\ H[n + 1] = G[n + 1]
  BY <1>2
<1>6. ASSUME NEW i \in DOMAIN new PROVE H[i + 1] + BatchVolume(new[i], C) <= H[i]
  <2>1. CASE i = n + 1
    <3>1. H[i + 1] = less /\ H[i] = G[n + 1] /\ new[i] = batch
      BY <1>2, <1>3, <1>5, <2>1
    <3>2. G[n + 1] \in Nat /\ rest <= G[n + 1]
      BY <1>1, <1>2 DEF n
    <3> QED BY <3>1, <3>2
  <2>2. CASE i # n + 1
    <3>1. i \in 1 .. n
      BY <1>2, <2>2
    <3>2. H[i + 1] = G[i + 1] /\ H[i] = G[i] /\ new[i] = plan[i]
      BY <1>2, <1>3, <3>1
    <3> QED BY <1>1, <1>2, <3>1, <3>2
  <2> QED BY <2>1, <2>2
<1> HIDE DEF H
<1>7. H[1] <= room /\ less <= H[Len(new) + 1]
  BY <1>1, <1>2, <1>5
<1> QED BY <1>4, <1>6, <1>7 DEF Fits, new

LEMMA FitsTail ==
    ASSUME NEW S, NEW plan \in Seq(S), plan # <<>>, NEW C, NEW room \in Int, NEW rest,
           Fits(plan, C, room, rest), BatchVolume(Head(plan), C) \in Nat
    PROVE  Fits(Tail(plan), C, room - BatchVolume(Head(plan), C), rest)
<1>1. PICK G \in [1 .. Len(plan) + 1 -> Nat] :
         /\ G[1] <= room /\ rest <= G[Len(plan) + 1]
         /\ \A i \in DOMAIN plan : G[i + 1] + BatchVolume(plan[i], C) <= G[i]
  BY DEF Fits
<1> DEFINE n == Len(plan)
           H == [i \in 1 .. n |-> G[i + 1]]
<1>2. n \in Nat \ {0} /\ DOMAIN plan = 1 .. n /\ DOMAIN Tail(plan) = 1 .. n - 1 /\ Len(Tail(plan)) = n - 1
      /\ Head(plan) = plan[1] /\ \A i \in 1 .. n - 1 : Tail(plan)[i] = plan[i + 1]
  OBVIOUS
<1> HIDE DEF n
<1>3. H \in [1 .. Len(Tail(plan)) + 1 -> Nat]
  BY <1>2 DEF n
<1>4. \A i \in DOMAIN Tail(plan) : H[i + 1] + BatchVolume(Tail(plan)[i], C) <= H[i]
  <2> SUFFICES ASSUME NEW i \in DOMAIN Tail(plan)
               PROVE  H[i + 1] + BatchVolume(Tail(plan)[i], C) <= H[i]
    OBVIOUS
  <2>1. H[i + 1] = G[i + 2] /\ H[i] = G[i + 1] /\ Tail(plan)[i] = plan[i + 1] /\ i + 1 \in DOMAIN plan
    BY <1>2
  <2>2. G[(i + 1) + 1] + BatchVolume(plan[i + 1], C) <= G[i + 1]
    BY <1>1, <2>1
  <2>3. (i + 1) + 1 = i + 2
    BY <1>2
  <2> QED BY <2>1, <2>2, <2>3
<1>5. H[1] <= room - BatchVolume(Head(plan), C)
  <2>1. H[1] = G[2] /\ G[1] \in Nat /\ G[2] \in Nat
    BY <1>2 DEF n
  <2>2. G[1 + 1] + BatchVolume(plan[1], C) <= G[1]
    BY <1>1, <1>2
  <2> QED BY <1>1, <1>2, <2>1, <2>2
<1>6. rest <= H[Len(Tail(plan)) + 1]
  BY <1>1, <1>2 DEF n
<1> HIDE DEF H
<1> QED BY <1>3, <1>4, <1>5, <1>6 DEF Fits


-----------------------------------------------------------------------------
(***************************************************************************)
(* compute_plan.  What an action has left of the rooms is counted for each  *)
(* class; an action that was not done yet has left its own share of them.   *)
(***************************************************************************)
Actions == {"today", "yesterday", "open"}
Idle0 == \A i \in DOMAIN orders : ~Alive(orders[i])

RestOK(rest, delta, done, dir) ==
    /\ delta \in Int /\ rest \in [Classes -> Nat] /\ rest[All] = Signed(dir, delta)
    /\ IF ShfeRules
       THEN /\ "today" \notin done => rest[{"CLOSETODAY"}] = HeldToday(pos, dir)
            /\ "yesterday" \notin done => rest[{"CLOSE"}] = HeldHis(pos, dir)
       ELSE /\ rest[{"CLOSE"}] <= HeldToday(pos, dir) + HeldHis(pos, dir)
            /\ "today" \notin done =>
                  \/ HeldToday(pos, dir) = 0
                  \/ rest[{"CLOSE"}] = HeldToday(pos, dir) + HeldHis(pos, dir)
            /\ "yesterday" \notin done => HeldHis(pos, dir) <= rest[{"CLOSE"}]

BatchOK(b, start, rest, done, dir) ==
    /\ b.pending \in Nat /\ b.orders \in Seq(OrderFor(dir))
    /\ ~ShfeRules => b.pending + rest[{"CLOSE"}] <= HeldToday(pos, dir) + HeldHis(pos, dir)
    /\ \A C \in Classes : rest[C] + BatchVolume(b.orders, C) <= start[C]
    /\ RestOK(rest, b.delta, done, dir)

LEMMA HeldNat ==
    ASSUME pos \in Holdings, NEW dir
    PROVE  HeldToday(pos, dir) \in Nat /\ HeldHis(pos, dir) \in Nat /\ Net(pos) \in Int
BY DEF Holdings, HeldToday, HeldHis, Net

LEMMA ActionIs ==
    ASSUME NEW b, NEW action
    PROVE  AddAction(b, action) =
             LET o == PlannedOrder(action, b.delta, b.pending) IN
             IF b.delta = 0 \/ o.volume = 0 THEN b
             ELSE [delta |-> b.delta - Signed(o.dir, o.volume),
                   pending |-> b.pending + (IF o.offset = "OPEN" THEN 0 ELSE o.volume),
                   orders |-> Append(b.orders, o)]
BY DEF AddAction, Once

(* The order that an action plans.  Nothing is frozen when a plan is made.    *)
LEMMA PlannedOrderIs ==
    ASSUME pos \in Holdings, Idle0, NEW dir \in Dirs, NEW delta \in Int, Signed(dir, delta) \in Nat, delta # 0,
           NEW pending \in Nat, NEW action \in Actions,
           NEW o, o = PlannedOrder(action, delta, pending), o.volume # 0
    PROVE  /\ o \in OrderFor(dir) /\ o.volume <= Signed(dir, delta)
           /\ action = "open" => o.offset = "OPEN"
           /\ action = "today" /\ ShfeRules =>
                 o.offset = "CLOSETODAY" /\ o.volume <= HeldToday(pos, dir)
           /\ action = "yesterday" /\ ShfeRules =>
                 o.offset = "CLOSE" /\ o.volume <= HeldHis(pos, dir)
           /\ action = "today" /\ ~ShfeRules =>
                 o.offset = "CLOSE" /\ o.volume <= HeldToday(pos, dir) - pending
           /\ action = "yesterday" /\ ~ShfeRules =>
                 /\ o.offset = "CLOSE" /\ HeldToday(pos, dir) <= pending
                 /\ o.volume <= HeldToday(pos, dir) + HeldHis(pos, dir) - pending
<1> DEFINE today == HeldToday(pos, dir)
           his == HeldHis(pos, dir)
           room == IF action = "open" THEN Magnitude(delta) ELSE Closable(action, dir, pending)
<1>1. today \in Nat /\ his \in Nat
  BY HeldNat
<1>2. FrozenToday(dir) = 0 /\ FrozenHis(dir) = 0
  BY NothingFrozen DEF FrozenToday, FrozenHis, Idle0
<1>3. Closable(action, dir, pending) =
         IF ShfeRules THEN IF action = "today" THEN today ELSE his
         ELSE IF action = "today" THEN today - pending
         ELSE IF today - pending > 0 THEN 0 ELSE today + his - pending
  BY <1>1, <1>2 DEF Closable
<1>4. (IF delta > 0 THEN "BUY" ELSE "SELL") = dir /\ Magnitude(delta) = Signed(dir, delta)
      /\ Magnitude(delta) \in Nat
  BY DEF Dirs, Signed, Magnitude
<1> HIDE DEF today, his
<1>5. room \in Int
  BY <1>1, <1>3, <1>4
<1>6. /\ o.dir = dir /\ o.volume = Min({Magnitude(delta), Max({room, 0})})
      /\ o.offset = IF action = "open" THEN "OPEN"
                    ELSE IF action = "today" /\ ShfeRules THEN "CLOSETODAY" ELSE "CLOSE"
      /\ o = [dir |-> o.dir, volume |-> o.volume, offset |-> o.offset]
  BY <1>4 DEF PlannedOrder
<1> HIDE DEF room
<1>7. Max({room, 0}) = IF room >= 0 THEN room ELSE 0
  BY <1>5, MaxOfTwo
<1>8. Max({room, 0}) \in Nat
  BY <1>5, <1>7
<1>9. o.volume = IF Magnitude(delta) <= Max({room, 0}) THEN Magnitude(delta) ELSE Max({room, 0})
  <2> DEFINE a == Magnitude(delta)
             c == Max({room, 0})
  <2>1. a \in Int /\ c \in Int /\ o.volume = Min({a, c})
    BY <1>4, <1>6, <1>8
  <2> HIDE DEF a, c
  <2>2. Min({a, c}) = IF a <= c THEN a ELSE c
    BY <2>1, MinOfTwo
  <2> QED BY <2>1, <2>2 DEF a, c
<1>10. o.volume \in Nat /\ o.volume <= room /\ o.volume <= Signed(dir, delta) /\ room > 0
  BY <1>4, <1>5, <1>7, <1>8, <1>9
<1>11. o \in OrderFor(dir)
  BY <1>6, <1>10 DEF OrderFor, Offsets, All
<1>12. action # "open" => room = Closable(action, dir, pending)
  BY DEF room
<1>13. CASE ShfeRules
  BY <1>1, <1>3, <1>6, <1>10, <1>11, <1>12, <1>13 DEF Actions, today, his
<1>14. CASE ~ShfeRules
  BY <1>1, <1>3, <1>6, <1>10, <1>11, <1>12, <1>14 DEF Actions, today, his
<1> QED BY <1>13, <1>14

LEMMA ActionFits ==
    ASSUME pos \in Holdings, Idle0, NEW dir \in Dirs, NEW b, NEW start \in [Classes -> Nat], NEW rest, NEW done,
           BatchOK(b, start, rest, done, dir), Len(b.orders) <= 2,
           NEW action \in Actions, action \notin done
    PROVE  /\ \E less : BatchOK(AddAction(b, action), start, less, done \cup {action}, dir)
           /\ Len(AddAction(b, action).orders) <= Len(b.orders) + 1
<1> DEFINE o == PlannedOrder(action, b.delta, b.pending)
           now == AddAction(b, action)
           today == HeldToday(pos, dir)
           his == HeldHis(pos, dir)
<1>1. /\ b.pending \in Nat /\ b.orders \in Seq(OrderFor(dir)) /\ b.delta \in Int
      /\ rest \in [Classes -> Nat] /\ rest[All] = Signed(dir, b.delta)
      /\ \A C \in Classes : rest[C] + BatchVolume(b.orders, C) <= start[C]
  BY DEF BatchOK, RestOK
<1>2. today \in Nat /\ his \in Nat
  BY HeldNat
<1>3. All \in Classes /\ {"CLOSE"} \in Classes /\ (ShfeRules => {"CLOSETODAY"} \in Classes)
  BY DEF Classes
<1>4. CASE b.delta = 0 \/ o.volume = 0
  <2>1. now = b
    BY <1>4, ActionIs
  <2>2. BatchOK(b, start, rest, done \cup {action}, dir)
    BY DEF BatchOK, RestOK
  <2> QED BY <1>1, <2>1, <2>2
<1>5. CASE b.delta # 0 /\ o.volume # 0
  <2>1. Signed(dir, b.delta) \in Nat
    BY <1>1, <1>3
  <2> DEFINE Facts(p) ==
              /\ p \in OrderFor(dir) /\ p.volume <= Signed(dir, b.delta)
              /\ action = "open" => p.offset = "OPEN"
              /\ action = "today" /\ ShfeRules => p.offset = "CLOSETODAY" /\ p.volume <= today
              /\ action = "yesterday" /\ ShfeRules => p.offset = "CLOSE" /\ p.volume <= his
              /\ action = "today" /\ ~ShfeRules => p.offset = "CLOSE" /\ p.volume <= today - b.pending
              /\ action = "yesterday" /\ ~ShfeRules =>
                    p.offset = "CLOSE" /\ today <= b.pending /\ p.volume <= today + his - b.pending
  <2>2. Facts(o)
    BY <1>1, <1>5, <2>1, PlannedOrderIs
  <2>3. now = [delta |-> b.delta - Signed(o.dir, o.volume),
               pending |-> b.pending + (IF o.offset = "OPEN" THEN 0 ELSE o.volume),
               orders |-> Append(b.orders, o)]
    BY <1>5, ActionIs
  <2> HIDE DEF o, now, today, his
  <2> DEFINE v == o.volume
             cut(C) == IF o.offset \in C THEN v ELSE 0
             less == [C \in Classes |-> rest[C] - cut(C)]
  <2>4. o.dir = dir /\ v \in Nat /\ o.offset \in Offsets /\ v # 0
    BY <1>5, <2>2 DEF OrderFor
  <2>5. /\ now.delta = b.delta - Signed(dir, v) /\ now.orders = Append(b.orders, o)
        /\ now.pending = b.pending + (IF o.offset = "OPEN" THEN 0 ELSE v)
    BY <2>3, <2>4
  <2>6. now.orders \in Seq(OrderFor(dir)) /\ Len(now.orders) = Len(b.orders) + 1
    BY <1>1, <2>2, <2>5
  <2>7. \A C \in Classes : BatchVolume(now.orders, C) = BatchVolume(b.orders, C) + cut(C)
    BY <1>1, <2>2, <2>5, BatchVolumeAppend
  <2>8. now.delta \in Int /\ Signed(dir, now.delta) = Signed(dir, b.delta) - v /\ now.pending \in Nat
    BY <1>1, <2>4, <2>5 DEF Signed, Dirs
  <2>9. less[All] = Signed(dir, now.delta)
    <3>1. o.offset \in All
      BY <2>4 DEF Offsets, All
    <3> QED BY <1>1, <1>3, <2>8, <3>1
  <2>10. /\ ShfeRules => v <= rest[All] /\ (o.offset = "CLOSE" => v <= rest[{"CLOSE"}])
                         /\ (o.offset = "CLOSETODAY" => v <= rest[{"CLOSETODAY"}])
         /\ ~ShfeRules => v <= rest[All] /\ (o.offset = "CLOSE" => v <= rest[{"CLOSE"}])
    <3>1. v <= rest[All]
      BY <1>1, <2>2
    <3>2. CASE ShfeRules
      <4>1. /\ "today" \notin done => rest[{"CLOSETODAY"}] = today
            /\ "yesterday" \notin done => rest[{"CLOSE"}] = his
        BY <3>2 DEF BatchOK, RestOK, today, his
      <4>2. o.offset = "CLOSE" => action = "yesterday"
        BY <2>2, <3>2 DEF Actions
      <4>3. o.offset = "CLOSETODAY" => action = "today"
        BY <2>2, <3>2 DEF Actions
      <4> QED BY <2>2, <3>1, <3>2, <4>1, <4>2, <4>3
    <3>3. CASE ~ShfeRules
      <4>1. /\ b.pending + rest[{"CLOSE"}] <= today + his
            /\ "today" \notin done => today = 0 \/ rest[{"CLOSE"}] = today + his
            /\ "yesterday" \notin done => his <= rest[{"CLOSE"}]
        BY <3>3 DEF BatchOK, RestOK, today, his
      <4>2. rest[{"CLOSE"}] \in Nat
        BY <1>1, <1>3
      <4>3. action = "today" => v <= rest[{"CLOSE"}]
        BY <1>1, <1>2, <2>2, <2>4, <3>3, <4>1, <4>2 DEF today, his
      <4>4. action = "yesterday" => v <= rest[{"CLOSE"}]
        BY <1>1, <1>2, <2>2, <2>4, <3>3, <4>1, <4>2 DEF today, his
      <4> QED BY <2>2, <3>1, <3>3, <4>3, <4>4 DEF Actions
    <3> QED BY <3>2, <3>3
  <2>11. less \in [Classes -> Nat]
    <3>1. ASSUME NEW C \in Classes PROVE rest[C] - cut(C) \in Nat
      <4>1. rest[C] \in Nat /\ cut(C) \in Nat
        BY <1>1, <2>4
      <4>2. cut(C) <= rest[C]
        <5>1. /\ C = All \/ C = {"CLOSE"} \/ (ShfeRules /\ C = {"CLOSETODAY"})
              /\ cut({"CLOSE"}) = IF o.offset = "CLOSE" THEN v ELSE 0
              /\ cut({"CLOSETODAY"}) = IF o.offset = "CLOSETODAY" THEN v ELSE 0
          BY DEF Classes
        <5>2. cut(All) \in {0, v} /\ v \in Nat
          BY <2>4
        <5>3. /\ v <= rest[All]
              /\ o.offset = "CLOSE" => v <= rest[{"CLOSE"}]
              /\ ShfeRules /\ o.offset = "CLOSETODAY" => v <= rest[{"CLOSETODAY"}]
          BY <2>10
        <5> HIDE DEF v, cut
        <5>4. CASE C = All
          BY <4>1, <5>2, <5>3, <5>4
        <5>5. CASE C = {"CLOSE"}
          BY <4>1, <5>1, <5>3, <5>5
        <5>6. CASE ShfeRules /\ C = {"CLOSETODAY"}
          BY <4>1, <5>1, <5>3, <5>6
        <5> QED BY <5>1, <5>4, <5>5, <5>6
      <4> QED BY <4>1, <4>2
    <3> QED BY <3>1
  <2>12. \A C \in Classes : less[C] + BatchVolume(now.orders, C) <= start[C]
    <3> SUFFICES ASSUME NEW C \in Classes PROVE less[C] + BatchVolume(now.orders, C) <= start[C]
      OBVIOUS
    <3>1. rest[C] \in Nat /\ BatchVolume(b.orders, C) \in Nat /\ start[C] \in Nat /\ cut(C) \in Nat
      BY <1>1, <2>4, BatchVolumeNat
    <3>2. less[C] = rest[C] - cut(C)
      OBVIOUS
    <3> HIDE DEF cut, less
    <3> QED BY <1>1, <2>7, <3>1, <3>2
  <2>13. ~ShfeRules => now.pending + less[{"CLOSE"}] <= today + his
    <3>1. ~ShfeRules => b.pending + rest[{"CLOSE"}] <= today + his
      BY DEF BatchOK, today, his
    <3>2. ~ShfeRules => o.offset \in {"OPEN", "CLOSE"}
      BY <2>4 DEF Offsets
    <3>3. rest[{"CLOSE"}] \in Nat /\ less[{"CLOSE"}] = rest[{"CLOSE"}] - cut({"CLOSE"})
      BY <1>1, <1>3
    <3> QED BY <1>1, <1>2, <2>4, <2>5, <3>1, <3>2, <3>3 DEF today, his
  <2>14. RestOK(less, now.delta, done \cup {action}, dir)
    <3>1. CASE ShfeRules
      <4>1. /\ "today" \notin done => rest[{"CLOSETODAY"}] = today
            /\ "yesterday" \notin done => rest[{"CLOSE"}] = his
        BY <3>1 DEF BatchOK, RestOK, today, his
      <4>2. /\ less[{"CLOSE"}] = rest[{"CLOSE"}] - cut({"CLOSE"})
            /\ less[{"CLOSETODAY"}] = rest[{"CLOSETODAY"}] - cut({"CLOSETODAY"})
            /\ rest[{"CLOSE"}] \in Nat /\ rest[{"CLOSETODAY"}] \in Nat
        BY <1>1, <1>3, <3>1
      <4>3. /\ action # "today" => cut({"CLOSETODAY"}) = 0
            /\ action # "yesterday" => cut({"CLOSE"}) = 0
        BY <2>2, <3>1 DEF Actions
      <4> HIDE DEF less, cut
      <4>4. "today" \notin done \cup {action} => less[{"CLOSETODAY"}] = today
        BY <4>1, <4>2, <4>3
      <4>5. "yesterday" \notin done \cup {action} => less[{"CLOSE"}] = his
        BY <4>1, <4>2, <4>3
      <4> QED BY <2>8, <2>9, <2>11, <3>1, <4>4, <4>5 DEF RestOK, today, his
    <3>2. CASE ~ShfeRules
      <4>1. /\ b.pending + rest[{"CLOSE"}] <= today + his /\ rest[{"CLOSE"}] <= today + his
            /\ "today" \notin done => today = 0 \/ rest[{"CLOSE"}] = today + his
            /\ "yesterday" \notin done => his <= rest[{"CLOSE"}]
        BY <3>2 DEF BatchOK, RestOK, today, his
      <4>2. /\ less[{"CLOSE"}] = rest[{"CLOSE"}] - cut({"CLOSE"}) /\ rest[{"CLOSE"}] \in Nat
        BY <1>1, <1>3
      <4>3. cut({"CLOSE"}) = IF action = "open" THEN 0 ELSE v
        BY <2>2, <3>2 DEF Actions
      <4>7. today \in Nat /\ his \in Nat /\ b.pending \in Nat
        BY <1>1, <1>2 DEF today, his
      <4> HIDE DEF less, cut
      <4>4. "today" \notin done \cup {action} => today = 0 \/ less[{"CLOSE"}] = today + his
        BY <2>2, <2>4, <3>2, <4>1, <4>2, <4>3, <4>7 DEF Actions
      <4>5. "yesterday" \notin done \cup {action} => his <= less[{"CLOSE"}]
        BY <2>2, <2>4, <3>2, <4>1, <4>2, <4>3, <4>7 DEF Actions
      <4>6. less[{"CLOSE"}] <= today + his
        BY <2>4, <4>1, <4>2, <4>3, <4>7
      <4> QED BY <2>8, <2>9, <2>11, <3>2, <4>4, <4>5, <4>6 DEF RestOK, today, his
    <3> QED BY <3>1, <3>2
  <2> HIDE DEF less
  <2>15. BatchOK(now, start, less, done \cup {action}, dir)
    BY <2>6, <2>8, <2>12, <2>13, <2>14 DEF BatchOK, today, his
  <2> QED BY <1>1, <2>6, <2>15 DEF now
<1> QED BY <1>4, <1>5


Added(delta, group) == FoldLeft(AddAction, [delta |-> delta, pending |-> 0, orders |-> <<>>], group)
LEMMA GroupIs ==
    ASSUME NEW p, NEW group
    PROVE  AddGroup(p, group) =
             [delta |-> Added(p.delta, group).delta,
              batches |-> IF Added(p.delta, group).orders = <<>> THEN p.batches
                          ELSE Append(p.batches, Added(p.delta, group).orders)]
BY DEF AddGroup, Once, Added

LEMMA GroupIsShort ==
    ASSUME NEW group \in Seq(Actions), \A x, y \in DOMAIN group : group[x] = group[y] => x = y
    PROVE  Len(group) <= 3
<1> SUFFICES ASSUME Len(group) > 3 PROVE FALSE
  OBVIOUS
<1>1. 1 \in DOMAIN group /\ 2 \in DOMAIN group /\ 3 \in DOMAIN group /\ 4 \in DOMAIN group
  OBVIOUS
<1>2. group[1] \in Actions /\ group[2] \in Actions /\ group[3] \in Actions /\ group[4] \in Actions
  BY <1>1
<1>3. /\ group[1] # group[2] /\ group[1] # group[3] /\ group[1] # group[4]
      /\ group[2] # group[3] /\ group[2] # group[4] /\ group[3] # group[4]
  BY <1>1
<1> QED BY <1>2, <1>3 DEF Actions

LEMMA GroupFits ==
    ASSUME pos \in Holdings, Idle0, NEW dir \in Dirs, NEW delta, NEW start, NEW done,
           RestOK(start, delta, done, dir), NEW group \in Seq(Actions),
           \A x, y \in DOMAIN group : group[x] = group[y] => x = y,
           \A x \in DOMAIN group : group[x] \notin done
    PROVE  /\ \E less : BatchOK(Added(delta, group), start, less, done \cup {group[x] : x \in DOMAIN group}, dir)
           /\ Len(Added(delta, group).orders) <= 3
<1> DEFINE base == [delta |-> delta, pending |-> 0, orders |-> <<>>]
           n == Len(group)
           upTo(k) == done \cup {group[x] : x \in 1 .. k}
<1>1. n \in Nat /\ n <= 3 /\ DOMAIN group = 1 .. n
  BY GroupIsShort
<1> HIDE DEF n
<1>2. PICK m : /\ m[0] = base /\ Added(delta, group) = m[n]
               /\ \A k \in 1 .. n : m[k] = AddAction(m[k - 1], group[k])
  <2>1. Runs("action", base, group, n, Added(delta, group))
    BY <1>1, ActionsRun DEF Added
  <2> HIDE DEF base
  <2> QED BY <2>1 DEF Runs, StepOf
<1> DEFINE OKAt(k) == Len(m[k].orders) <= k /\ \E less : BatchOK(m[k], start, less, upTo(k), dir)
           G == {k \in Nat : k <= n => OKAt(k)}
<1>3. start \in [Classes -> Nat] /\ delta \in Int
  BY DEF RestOK
<1>4. 0 \in G
  <2>1. m[0].delta = delta /\ m[0].pending = 0 /\ m[0].orders = <<>>
    BY <1>2
  <2>2. upTo(0) = done
    OBVIOUS
  <2>3. <<>> \in Seq(OrderFor(dir)) /\ Len(<<>>) = 0 /\ 0 \in Nat
    OBVIOUS
  <2>4. ASSUME NEW C \in Classes PROVE start[C] + BatchVolume(<<>>, C) <= start[C]
    BY <1>3, BatchVolumeEmpty
  <2>5. ~ShfeRules => 0 + start[{"CLOSE"}] <= HeldToday(pos, dir) + HeldHis(pos, dir)
    <3>1. {"CLOSE"} \in Classes
      BY DEF Classes
    <3>2. ~ShfeRules => start[{"CLOSE"}] <= HeldToday(pos, dir) + HeldHis(pos, dir)
      BY DEF RestOK
    <3> QED BY <1>3, <3>1, <3>2
  <2>6. BatchOK(m[0], start, start, done, dir)
    BY <2>1, <2>3, <2>4, <2>5 DEF BatchOK
  <2>7. BatchOK(m[0], start, start, upTo(0), dir)
    BY <2>2, <2>6
  <2>8. OKAt(0)
    <3> HIDE DEF upTo
    <3>1. Len(m[0].orders) <= 0
      BY <2>1, <2>3
    <3>2. \E less : BatchOK(m[0], start, less, upTo(0), dir)
      BY <2>7
    <3> QED BY <3>1, <3>2
  <2> HIDE DEF OKAt
  <2> QED BY <2>8
<1>5. ASSUME NEW k \in 1 .. n, k - 1 \in G PROVE k \in G
  <2>1. k \in Nat /\ k - 1 \in Nat /\ k - 1 <= n /\ k - 1 <= 2
    BY <1>1
  <2>2. OKAt(k - 1)
    BY <1>5, <2>1
  <2>3. PICK rest : BatchOK(m[k - 1], start, rest, upTo(k - 1), dir)
    BY <2>2
  <2>4. m[k] = AddAction(m[k - 1], group[k]) /\ group[k] \in Actions
    BY <1>1, <1>2
  <2>5. group[k] \notin upTo(k - 1)
    BY <1>1
  <2>6. Len(m[k - 1].orders) \in Nat
    BY <2>3 DEF BatchOK
  <2>7. Len(m[k - 1].orders) <= 2
    BY <2>1, <2>2, <2>6
  <2>8. upTo(k) = upTo(k - 1) \cup {group[k]}
    BY <2>1
  <2> HIDE DEF upTo
  <2>9. /\ \E less : BatchOK(AddAction(m[k - 1], group[k]), start, less, upTo(k - 1) \cup {group[k]}, dir)
        /\ Len(AddAction(m[k - 1], group[k]).orders) <= Len(m[k - 1].orders) + 1
    BY <1>3, <2>3, <2>4, <2>5, <2>7, ActionFits
  <2>11. PICK less : BatchOK(m[k], start, less, upTo(k), dir)
    BY <2>4, <2>8, <2>9
  <2>12. Len(m[k].orders) \in Nat
    BY <2>11 DEF BatchOK
  <2>10. Len(m[k].orders) <= k
    BY <2>1, <2>2, <2>4, <2>6, <2>9, <2>12
  <2> QED BY <2>1, <2>10, <2>11
<1> HIDE DEF G
<1>6. n \in Nat /\ n \in 0 .. n
  BY <1>1
<1>7. n \in G
  BY <1>4, <1>5, <1>6, CountUp
<1>8. OKAt(n)
  <2> HIDE DEF OKAt
  <2> QED BY <1>6, <1>7 DEF G
<1>9. upTo(n) = done \cup {group[x] : x \in DOMAIN group}
  BY <1>1
<1>10. PICK less : BatchOK(m[n], start, less, upTo(n), dir)
  BY <1>8
<1>11. Len(m[n].orders) \in Nat
  BY <1>10 DEF BatchOK
<1>12. BatchOK(Added(delta, group), start, less, done \cup {group[x] : x \in DOMAIN group}, dir)
  BY <1>2, <1>9, <1>10
<1>13. Len(Added(delta, group).orders) <= 3
  BY <1>1, <1>2, <1>8, <1>11
<1> QED BY <1>12, <1>13

(* What is asked for fits: the first batch into the room there is, each other *)
(* into what those before it leave.                                           *)
LEMMA PlanIsOK ==
    ASSUME pos \in Holdings, Idle0, NEW goal \in Int, NEW dir \in Dirs, Signed(dir, goal - Net(pos)) \in Nat
    PROVE  PlanOK(Plan(goal), dir) /\ \A C \in Classes : Fits(Plan(goal), C, Room(C, dir, goal), 0)
<1> DEFINE base == [delta |-> goal - Net(pos), batches |-> <<>>]
           n == Len(Priority)
           upTo(k) == {Priority[i][x] : i \in 1 .. k, x \in Slots}
           begun(k) == UNION {{Priority[i][x] : x \in DOMAIN Priority[i]} : i \in 1 .. k}
           start == [C \in Classes |-> Room(C, dir, goal)]
<1>0. HeldToday(pos, dir) \in Nat /\ HeldHis(pos, dir) \in Nat /\ Net(pos) \in Int
  BY HeldNat
<1>1. n \in Nat /\ DOMAIN Priority = 1 .. n /\ \A i \in 1 .. n : Priority[i] \in Seq(Actions)
  BY TargetPosAssumption DEF Actions
<1>2. \A i, j \in 1 .. n : \A x \in DOMAIN Priority[i], y \in DOMAIN Priority[j] :
         Priority[i][x] = Priority[j][y] => i = j /\ x = y
  BY <1>1, TargetPosAssumption
<1> HIDE DEF n
<1>3. PICK m : /\ m[0] = base /\ Plan(goal) = m[n].batches
               /\ \A k \in 1 .. n : m[k] = AddGroup(m[k - 1], Priority[k])
  <2>1. Runs("group", base, Priority, n, FoldLeft(AddGroup, base, Priority))
    BY <1>1, GroupsRun
  <2>2. Plan(goal) = FoldLeft(AddGroup, base, Priority).batches
    BY DEF Plan
  <2> HIDE DEF base
  <2> QED BY <2>1, <2>2 DEF Runs, StepOf
<1>4. \A C \in Classes : Room(C, dir, goal) \in Nat
  BY <1>0 DEF Classes, Room
<1>5. /\ start \in [Classes -> Nat] /\ start[All] = Signed(dir, goal - Net(pos))
      /\ ~ShfeRules => start[{"CLOSE"}] = HeldToday(pos, dir) + HeldHis(pos, dir)
      /\ ShfeRules => start[{"CLOSE"}] = HeldHis(pos, dir) /\ start[{"CLOSETODAY"}] = HeldToday(pos, dir)
  <2>1. All \in Classes /\ {"CLOSE"} \in Classes /\ (ShfeRules => {"CLOSETODAY"} \in Classes)
    BY DEF Classes
  <2>2. {"CLOSE"} # All /\ {"CLOSETODAY"} # All /\ {"CLOSETODAY"} # {"CLOSE"}
    BY DEF All
  <2> QED BY <1>4, <2>1, <2>2 DEF Room
<1> DEFINE OKAt(k) ==
              /\ PlanOK(m[k].batches, dir)
              /\ \E rest : /\ RestOK(rest, m[k].delta, begun(k), dir)
                           /\ \A C \in Classes : Fits(m[k].batches, C, Room(C, dir, goal), rest[C])
           G == {k \in Nat : k <= n => OKAt(k)}
<1>6. 0 \in G
  <2>1. m[0].delta = goal - Net(pos) /\ m[0].batches = <<>>
    BY <1>3
  <2>2. begun(0) = {}
    OBVIOUS
  <2>3. PlanOK(<<>>, dir)
    BY DEF PlanOK
  <2>4. RestOK(start, m[0].delta, begun(0), dir)
    <3>1. goal - Net(pos) \in Int
      BY <1>0
    <3> HIDE DEF start, begun
    <3> QED BY <1>0, <1>5, <2>1, <3>1 DEF RestOK
  <2>5. \A C \in Classes : Fits(<<>>, C, Room(C, dir, goal), start[C])
    BY <1>4, FitsEmpty
  <2> HIDE DEF start, begun
  <2> QED BY <2>1, <2>3, <2>4, <2>5
<1>7. ASSUME NEW k \in 1 .. n, k - 1 \in G PROVE k \in G
  <2>1. k \in Nat /\ k - 1 \in Nat /\ k - 1 <= n
    BY <1>1
  <2>2. OKAt(k - 1)
    BY <1>7, <2>1
  <2> DEFINE p == m[k - 1]
             group == Priority[k]
             b == Added(p.delta, group)
  <2>3. PICK rest : /\ RestOK(rest, p.delta, begun(k - 1), dir)
                    /\ \A C \in Classes : Fits(p.batches, C, Room(C, dir, goal), rest[C])
    BY <2>2
  <2>4. m[k] = AddGroup(p, group)
    BY <1>3
  <2>5. /\ m[k].delta = b.delta
        /\ m[k].batches = IF b.orders = <<>> THEN p.batches ELSE Append(p.batches, b.orders)
    <3> HIDE DEF p, group
    <3>1. AddGroup(p, group) =
             [delta |-> b.delta, batches |-> IF b.orders = <<>> THEN p.batches ELSE Append(p.batches, b.orders)]
      BY GroupIs DEF b
    <3> QED BY <2>4, <3>1
  <2>6. /\ group \in Seq(Actions) /\ \A x, y \in DOMAIN group : group[x] = group[y] => x = y
        /\ \A x \in DOMAIN group : group[x] \notin begun(k - 1)
    <3>1. group \in Seq(Actions) /\ \A x, y \in DOMAIN group : group[x] = group[y] => x = y
      BY <1>1, <1>2
    <3>2. ASSUME NEW x \in DOMAIN group, group[x] \in begun(k - 1) PROVE FALSE
      <4>1. PICK i \in 1 .. (k - 1) : \E y \in DOMAIN Priority[i] : group[x] = Priority[i][y]
        BY <3>2
      <4>2. i \in 1 .. n /\ i # k
        BY <1>1, <2>1
      <4> QED BY <1>2, <4>1, <4>2
    <3> QED BY <3>1, <3>2
  <2>7. begun(k) = begun(k - 1) \cup {group[x] : x \in DOMAIN group}
    <3>1. 1 .. k = (1 .. (k - 1)) \cup {k}
      BY <2>1
    <3> QED BY <3>1
  <2> HIDE DEF begun, group
  <2>8. /\ \E less : BatchOK(b, rest, less, begun(k - 1) \cup {group[x] : x \in DOMAIN group}, dir)
        /\ Len(b.orders) <= 3
    <3> HIDE DEF p
    <3> QED BY <2>3, <2>6, GroupFits DEF b
  <2>9. PICK less : BatchOK(b, rest, less, begun(k), dir)
    BY <2>7, <2>8
  <2>10. /\ b.orders \in Seq(OrderFor(dir)) /\ RestOK(less, m[k].delta, begun(k), dir)
         /\ less \in [Classes -> Nat] /\ rest \in [Classes -> Nat]
         /\ \A C \in Classes : less[C] + BatchVolume(b.orders, C) <= rest[C]
    BY <2>3, <2>5, <2>9 DEF BatchOK, RestOK
  <2>11. p.batches \in Seq(Seq(OrderFor(dir))) /\ \A i \in DOMAIN p.batches : Len(p.batches[i]) <= 3
    BY <2>2 DEF PlanOK
  <2> HIDE DEF b, p
  <2>12. PlanOK(m[k].batches, dir)
    <3>1. CASE b.orders = <<>>
      BY <2>5, <2>11, <3>1 DEF PlanOK
    <3>2. CASE b.orders # <<>>
      <4> DEFINE new == Append(p.batches, b.orders)
      <4>1. new \in Seq(Seq(OrderFor(dir))) /\ DOMAIN new = 1 .. Len(p.batches) + 1
            /\ new[Len(p.batches) + 1] = b.orders
            /\ \A i \in 1 .. Len(p.batches) : new[i] = p.batches[i] /\ i \in DOMAIN p.batches
        BY <2>10, <2>11
      <4>2. Len(p.batches) \in Nat
        BY <2>11
      <4> HIDE DEF new
      <4>3. ASSUME NEW i \in DOMAIN new PROVE Len(new[i]) <= 3
        <5>1. i = Len(p.batches) + 1 \/ i \in 1 .. Len(p.batches)
          BY <4>1, <4>2
        <5>2. i \in 1 .. Len(p.batches) => Len(new[i]) <= 3
          BY <2>11, <4>1
        <5> QED BY <2>8, <4>1, <5>1, <5>2
      <4> QED BY <2>5, <3>2, <4>1, <4>3 DEF PlanOK, new
    <3> QED BY <3>1, <3>2
  <2>13. ASSUME NEW C \in Classes PROVE Fits(m[k].batches, C, Room(C, dir, goal), less[C])
    <3>1. /\ less[C] \in Nat /\ rest[C] \in Nat /\ Room(C, dir, goal) \in Int
          /\ BatchVolume(b.orders, C) \in Nat /\ less[C] + BatchVolume(b.orders, C) <= rest[C]
          /\ Fits(p.batches, C, Room(C, dir, goal), rest[C])
      BY <1>4, <2>3, <2>10, BatchVolumeNat DEF p
    <3>2. CASE b.orders = <<>>
      <4>1. less[C] <= rest[C]
        BY <3>1
      <4>2. Fits(p.batches, C, Room(C, dir, goal), less[C])
        <5>1. PICK H \in [1 .. Len(p.batches) + 1 -> Nat] :
                /\ H[1] <= Room(C, dir, goal) /\ rest[C] <= H[Len(p.batches) + 1]
                /\ \A i \in DOMAIN p.batches : H[i + 1] + BatchVolume(p.batches[i], C) <= H[i]
          BY <3>1 DEF Fits
        <5>2. H[Len(p.batches) + 1] \in Nat
          BY <2>11
        <5>3. less[C] <= H[Len(p.batches) + 1]
          BY <3>1, <4>1, <5>1, <5>2
        <5> QED BY <5>1, <5>3 DEF Fits
      <4> QED BY <2>5, <3>2, <4>2
    <3>3. CASE b.orders # <<>>
      <4>1. Fits(Append(p.batches, b.orders), C, Room(C, dir, goal), less[C])
        BY <2>11, <3>1, FitsAppend
      <4> QED BY <2>5, <3>3, <4>1
    <3> QED BY <3>2, <3>3
  <2> QED BY <2>1, <2>10, <2>12, <2>13
<1> HIDE DEF G
<1>8. n \in Nat /\ n \in 0 .. n
  BY <1>1
<1>9. n \in G
  BY <1>6, <1>7, <1>8, CountUp
<1>10. OKAt(n)
  <2> HIDE DEF OKAt
  <2> QED BY <1>8, <1>9 DEF G
<1>11. PICK rest : /\ rest \in [Classes -> Nat]
                   /\ \A C \in Classes : Fits(m[n].batches, C, Room(C, dir, goal), rest[C])
  BY <1>10 DEF RestOK
<1>12. m[n].batches \in Seq(Seq(OrderFor(dir)))
  BY <1>10 DEF PlanOK
<1>13. ASSUME NEW C \in Classes PROVE Fits(Plan(goal), C, Room(C, dir, goal), 0)
  <2>1. PICK H \in [1 .. Len(m[n].batches) + 1 -> Nat] :
          /\ H[1] <= Room(C, dir, goal)
          /\ \A i \in DOMAIN m[n].batches : H[i + 1] + BatchVolume(m[n].batches[i], C) <= H[i]
    BY <1>11 DEF Fits
  <2>2. 0 <= H[Len(m[n].batches) + 1]
    <3>1. Len(m[n].batches) + 1 \in 1 .. Len(m[n].batches) + 1
      BY <1>12
    <3> QED BY <3>1
  <2> QED BY <1>3, <2>1, <2>2 DEF Fits
<1> QED BY <1>3, <1>10, <1>13


-----------------------------------------------------------------------------
(***************************************************************************)
(* One task at a time.                                                     *)
(***************************************************************************)
Follows(h) ==
    /\ task'[h].id = task[h].id /\ (task[h].failed => task'[h].failed)
    /\ Registered(h)' => Registered(h)
ErrorsStay ==
    \A h \in Handles, k \in Slots :
        runner[<<h, k>>].at = "error" => runner'[<<h, k>>].at = "error" \/ task'[h].failed

LEMMA StillFollows ==
    ASSUME NEW h \in Handles, Still(h)
    PROVE  Follows(h)
BY DEF Still, Kept, Follows, Registered

LEMMA SoleBack ==
    ASSUME \A h \in Handles : /\ task[h].id # 0 => task'[h].id = task[h].id
                              /\ task[h].failed => task'[h].failed,
           ErrorsStay, sched.failed => sched'.failed, Sole'
    PROVE  Sole
<1>1. Erring => Erring'
  BY ErringStays DEF ErrorsStay
<1>2. Sharing => Sharing'
  BY DEF Sharing
<1> QED BY <1>1, <1>2 DEF Sole

LEMMA QuietAlone ==
    ASSUME AloneInv, \A h \in Handles : Follows(h), ErrorsStay,
           registry'.key = registry.key, registry'.next = registry.next,
           sched'.at = sched.at, sched.failed => sched'.failed
    PROVE  (Sole' => Sole) /\ AloneInv'
<1>1. Sole' => Sole
  BY SoleBack DEF Follows
<1>2. Current' = Current
  BY DEF Current
<1>3. ASSUME Sole', NEW h \in Handles, Registered(h)'
      PROVE  sched'.at \in {"off"} \cup Stepping /\ task'[h].id = Current'
  BY <1>1, <1>2, <1>3 DEF AloneInv, Follows
<1> QED BY <1>1, <1>3 DEF AloneInv

(* Two tasks that have not ended share an id. *)
LEMMA OnlyOne ==
    ASSUME AloneInv, Sole, NEW h \in Handles, NEW g \in Handles, Registered(h), Registered(g)
    PROVE  g = h
<1>1. task[g].id = task[h].id /\ task[h].id # 0
  BY DEF AloneInv, Registered
<1> QED BY <1>1 DEF Sole, Sharing

(* When the one task goes, there is none. *)
LEMMA GoneAlone ==
    ASSUME AloneInv, NEW h \in Handles, Registered(h), ~Registered(h)',
           \A g \in Handles \ {h} : Still(g), task'[h].id = task[h].id, task[h].failed => task'[h].failed,
           UNCHANGED <<runner, sched>>
    PROVE  (Sole' => Sole) /\ AloneInv'
<1>1. Sole' => Sole
  <2>1. \A g \in Handles \ {h} : Follows(g)
    BY StillFollows
  <2>2. \A g \in Handles : (task[g].id # 0 => task'[g].id = task[g].id) /\ (task[g].failed => task'[g].failed)
    BY <2>1 DEF Follows
  <2> QED BY <2>2, SoleBack DEF ErrorsStay
<1>2. ASSUME Sole', NEW g \in Handles, Registered(g)'
      PROVE  FALSE
  <2>1. g # h
    BY <1>2
  <2>2. Registered(g)
    BY <1>2, <2>1, StillFollows DEF Follows
  <2> QED BY <1>1, <1>2, <2>1, <2>2, OnlyOne
<1> QED BY <1>1, <1>2 DEF AloneInv

LEMMA AloneNext ==
    ASSUME ReportInv, AloneInv, [Next]_vars
    PROVE  (Sole' => Sole) /\ AloneInv'
<1>0. FieldsOK /\ CountInv /\ IdsInv /\ CallsInv /\ LifeInv /\ SchedInv
  BY DEF ReportInv
<1>1. CASE UNCHANGED vars
  <2>1. UNCHANGED <<task, runner, registry, sched>>
    BY <1>1 DEF vars
  <2>2. \A h \in Handles : Follows(h)
    BY <2>1 DEF Follows, Registered
  <2> QED BY <2>1, <2>2, QuietAlone DEF ErrorsStay
<1>2. CASE \E h \in Handles : Build(h) \/ Drop(h) \/ LoopStep(h) \/ DriveFails(h)
  <2>1. PICK h \in Handles : Build(h) \/ Drop(h) \/ LoopStep(h) \/ DriveFails(h)
    BY <1>2
  <2>0. LifeFor(h) /\ (task[h].id # 0 => task[h].id \in Ids)
    BY <1>0, IdsEnough DEF LifeInv
  <2>2. CASE Build(h)
    <3>1. /\ UNCHANGED <<runner, sched>> /\ sched.at = "off" /\ task[h] = NewTask
          /\ \A g \in Handles \ {h} : Still(g)
      BY <1>0, <2>2, BuildEffect
    <3>2. PICK id \in {registry.key, registry.next + 1} :
             /\ task'[h] = [NewTask EXCEPT !.id = id] /\ registry'.key = id
             /\ \/ id = registry.key /\ id # 0 /\ registry'.next = registry.next
                \/ id = registry.next + 1 /\ registry'.next = id
      BY <1>0, <2>2, BuildEffect
    <3>3. task'[h].id = id /\ task[h].id = 0 /\ ~task[h].failed
      BY <3>1, <3>2 DEF NewTask
    <3>4. \A g \in Handles \ {h} : Follows(g)
      BY <3>1, StillFollows
    <3>5. Sole' => Sole
      <4>1. \A g \in Handles : (task[g].id # 0 => task'[g].id = task[g].id) /\ (task[g].failed => task'[g].failed)
        BY <3>3, <3>4 DEF Follows
      <4> QED BY <3>1, <4>1, SoleBack DEF ErrorsStay
    <3>6. id = registry.key \/ registry.key = 0
      <4>1. id = registry.next + 1 => registry.key = 0
        <5>1. registry.key # 0 => task'[h].id = registry.key
          <6>1. registry.key # 0 => task' = [task EXCEPT ![h].id = registry.key]
            BY <2>2 DEF Build, Register
          <6>2. DOMAIN task = Handles /\ DOMAIN task[h] = TaskFields
            BY <1>0 DEF FieldsOK
          <6> QED BY <6>1, <6>2 DEF TaskFields
        <5>2. registry.key \in 0 .. registry.next /\ registry.next \in Nat
          BY <1>0 DEF IdsInv, CountInv
        <5> QED BY <3>3, <5>1, <5>2
      <4> QED BY <4>1
    <3>7. ASSUME Sole', NEW g \in Handles, Registered(g)'
          PROVE  sched'.at \in {"off"} \cup Stepping /\ task'[g].id = Current'
      <4>1. Current' = id /\ sched'.at = "off"
        BY <3>1, <3>2 DEF Current
      <4>2. CASE g = h
        BY <3>3, <4>1, <4>2
      <4>3. CASE g # h
        <5>1. Registered(g) /\ task'[g].id = task[g].id /\ task[g].id # 0
          BY <3>4, <3>7, <4>3 DEF Follows, Registered
        <5>2. task[g].id = registry.key
          BY <3>1, <3>5, <3>7, <5>1 DEF AloneInv, Current
        <5> QED BY <3>6, <4>1, <5>1, <5>2
      <4> QED BY <4>2, <4>3
    <3> QED BY <3>5, <3>7 DEF AloneInv
  <2>3. CASE Drop(h)
    <3>1. task[h].id # 0 /\ task[h].started = "no"
      BY <2>3 DEF Drop
    <3>2. /\ UNCHANGED <<runner, sched>> /\ \A g \in Handles \ {h} : Still(g)
          /\ task'[h].id = task[h].id /\ task'[h].failed = task[h].failed /\ task'[h].at = task[h].at
          /\ task'[h].started = "dropped"
      BY <1>0, <2>0, <2>3, <3>1, DropEffect
    <3>3. Registered(h) /\ ~Registered(h)'
      <4>1. task[h].at = "off"
        BY <2>0, <3>1 DEF LifeFor
      <4> QED BY <3>1, <3>2, <4>1 DEF Registered, Working
    <3> QED BY <3>2, <3>3, GoneAlone
  <2>4. CASE MovesOn(h)
    <3>1. /\ UNCHANGED <<runner, sched>> /\ SameIds
          /\ Kept(h) /\ \A g \in Handles \ {h} : Still(g)
          /\ task[h].at \in Planning /\ (task[h].failed => task'[h].failed)
      BY <1>0, <2>4, MovesOnEffect
    <3>2. Follows(h)
      BY <3>1 DEF Kept, Follows, Registered, Planning, Working
    <3> QED BY <3>1, <3>2, StillFollows, QuietAlone DEF SameIds, ErrorsStay
  <2>5. CASE Batch(h) /\ ~Stop(h)
    <3>1. /\ UNCHANGED <<registry, sched>> /\ Kept(h) /\ task'[h].failed = task[h].failed
          /\ \A g \in Handles \ {h} : Still(g)
          /\ task[h].at = "batch"
          /\ \A g \in Handles \ {h}, l \in Slots : runner'[<<g, l>>] = runner[<<g, l>>]
      BY <1>0, <2>5, BatchEffect
    <3>2. Follows(h)
      BY <3>1 DEF Kept, Follows, Registered, Working
    <3>3. \A l \in Slots : runner[<<h, l>>].at = "off"
      BY <2>0, <3>1 DEF LifeFor
    <3>4. ErrorsStay
      BY <3>1, <3>3 DEF ErrorsStay
    <3> QED BY <3>1, <3>2, <3>4, StillFollows, QuietAlone
  <2>6. CASE Join(h)
    <3>1. /\ UNCHANGED <<registry, sched>> /\ Kept(h) /\ \A g \in Handles \ {h} : Still(g)
          /\ task[h].at = "running"
          /\ \A g \in Handles \ {h}, l \in Slots : runner'[<<g, l>>] = runner[<<g, l>>]
          /\ task[h].failed \/ (\E l \in Slots : runner[<<h, l>>].at = "error") => task'[h].failed
      BY <1>0, <2>6, JoinEffect
    <3>2. Follows(h)
      BY <3>1 DEF Kept, Follows, Registered, Working
    <3>4. ErrorsStay
      BY <3>1 DEF ErrorsStay
    <3> QED BY <3>1, <3>2, <3>4, StillFollows, QuietAlone
  <2>7. CASE Capture(h)
    <3>1. /\ UNCHANGED <<runner, registry, sched>> /\ \A g \in Handles \ {h} : Still(g)
          /\ task'[h].id = task[h].id /\ task'[h].started = task[h].started
          /\ task'[h].failed = task[h].failed /\ task[h].at = "end"
      BY <1>0, <2>7, CaptureEffect
    <3>2. Follows(h)
      BY <3>1 DEF Follows, Registered, Working
    <3> QED BY <3>1, <3>2, StillFollows, QuietAlone DEF ErrorsStay
  <2>8. CASE Finish(h)
    <3>1. task[h].at = "finish"
      BY <2>8 DEF Finish
    <3>2. task[h].id # 0 /\ task[h].started = "run"
      BY <2>0, <3>1 DEF LifeFor
    <3>3. /\ UNCHANGED <<runner, sched>> /\ Kept(h) /\ task'[h].failed = task[h].failed
          /\ \A g \in Handles \ {h} : Still(g)
          /\ task'[h].at = "announce"
      BY <1>0, <2>0, <2>8, <3>2, FinishEffect
    <3>4. Registered(h) /\ ~Registered(h)' /\ task'[h].id = task[h].id
      BY <3>1, <3>2, <3>3 DEF Registered, Working, Kept
    <3> QED BY <3>3, <3>4, GoneAlone
  <2>9. CASE Announce(h)
    <3>1. /\ UNCHANGED <<runner, registry, sched>> /\ \A g \in Handles \ {h} : Still(g)
          /\ task'[h].id = task[h].id /\ task'[h].failed = task[h].failed
          /\ task'[h].at = "off" /\ task'[h].started = "done"
      BY <1>0, <2>9, AnnounceEffect
    <3>2. Follows(h)
      BY <3>1 DEF Follows, Registered, Working
    <3> QED BY <3>1, <3>2, StillFollows, QuietAlone DEF ErrorsStay
  <2> QED BY <2>1, <2>2, <2>3, <2>4, <2>5, <2>6, <2>7, <2>8, <2>9 DEF LoopStep, MovesOn
<1>3. CASE \E h \in Handles, k \in Slots : RunnerStep(h, k) \/ RunnerFails(h, k)
  <2>1. PICK h \in Handles, k \in Slots : RunnerStep(h, k) \/ RunnerFails(h, k)
    BY <1>3
  <2>2. CASE RunnerInsert(h, k)
    <3>1. /\ UNCHANGED sched /\ SameIds /\ \A g \in Handles \ {h} : Still(g)
          /\ \A g \in Handles, l \in Slots : g # h \/ l # k => runner'[<<g, l>>] = runner[<<g, l>>]
          /\ task'[h].id = task[h].id /\ task'[h].started = task[h].started /\ task'[h].at = task[h].at
          /\ task'[h].failed = task[h].failed /\ runner[<<h, k>>].at = "insert"
      BY <1>0, <2>2, InsertEffect
    <3>2. Follows(h)
      BY <3>1 DEF Follows, Registered
    <3>3. ErrorsStay
      BY <3>1 DEF ErrorsStay
    <3> QED BY <3>1, <3>2, <3>3, StillFollows, QuietAlone DEF SameIds
  <2>3. CASE RunnerStart(h, k) \/ RunnerLooks(h, k) \/ RunnerWakes(h, k) \/ RunnerRetries(h, k) \/ RunnerFails(h, k)
    <3>1. RunnerGoesOn(h, k) /\ UNCHANGED <<task, sched>> /\ SameIds
      BY <1>0, <2>3, RunnerEffect
    <3>2. \A g \in Handles : Follows(g)
      BY <3>1 DEF Follows, Registered
    <3>3. ErrorsStay
      BY <3>1 DEF RunnerGoesOn, ErrorsStay
    <3> QED BY <3>1, <3>2, <3>3, QuietAlone DEF SameIds
  <2> QED BY <2>1, <2>2, <2>3 DEF RunnerStep
<1>4. CASE \E c \in Callers : Call(c) \/ CallStep(c)
  <2>1. PICK c \in Callers : Call(c) \/ CallStep(c)
    BY <1>4
  <2>2. CASE CallStep(c)
    <3>1. UNCHANGED <<runner, sched>> /\ SameIds /\ \A h \in Handles : Still(h)
      BY <1>0, <2>2, SendEffect
    <3> QED BY <3>1, StillFollows, QuietAlone DEF SameIds, ErrorsStay
  <2>3. CASE Call(c)
    <3>1. /\ UNCHANGED <<runner, registry, sched>>
          /\ \E h \in Handles :
                 /\ task[h].id # 0 /\ \A g \in Handles \ {h} : Still(g)
                 /\ Kept(h) \/ task[h].started = "no"
                 /\ task'[h].id = task[h].id /\ task'[h].failed = task[h].failed
                 /\ IF task[h].started = "no" THEN task'[h].started = "run" /\ task'[h].at = "command"
                    ELSE task'[h].at = task[h].at
      BY <1>0, <2>3, CallEffect
    <3>2. PICK h \in Handles :
                 /\ task[h].id # 0 /\ \A g \in Handles \ {h} : Still(g)
                 /\ Kept(h) \/ task[h].started = "no"
                 /\ task'[h].id = task[h].id /\ task'[h].failed = task[h].failed
                 /\ IF task[h].started = "no" THEN task'[h].started = "run" /\ task'[h].at = "command"
                    ELSE task'[h].at = task[h].at
      BY <3>1
    <3>3. Follows(h)
      BY <3>2 DEF Follows, Registered, Kept
    <3> QED BY <3>1, <3>2, <3>3, StillFollows, QuietAlone DEF ErrorsStay
  <2> QED BY <2>1, <2>2, <2>3
<1>5. CASE \E i \in DOMAIN orders : Fill(i) \/ Kill(i) \/ ExchangeAnswers(i)
  <2>1. PICK i \in DOMAIN orders : Exchange(i)
    BY <1>5 DEF Exchange
  <2>2. UNCHANGED <<task, runner, registry, sched>>
    BY <1>0, <2>1, ExchangeEffect
  <2>3. \A h \in Handles : Follows(h)
    BY <2>2 DEF Follows, Registered
  <2> QED BY <2>2, <2>3, QuietAlone DEF ErrorsStay
<1>6. CASE SessionStep
  <2>1. SameRunners /\ UNCHANGED <<task, registry, sched>>
    BY <1>0, <1>6, SessionEffect
  <2>2. \A h \in Handles : Follows(h)
    BY <2>1 DEF Follows, Registered
  <2>3. ErrorsStay
    BY <2>1 DEF SameRunners, ErrorsStay
  <2> QED BY <2>1, <2>2, <2>3, QuietAlone
<1>7. CASE SchedStart
  <2>1. /\ UNCHANGED <<task, runner>> /\ sched'.failed = sched.failed
        /\ \A h \in Handles : task[h] = NewTask
    BY <1>0, <1>7, SchedStartEffect
  <2>2. Sole' => Sole
    BY <2>1, SoleBack DEF ErrorsStay
  <2>3. \A h \in Handles : ~Registered(h)'
    BY <2>1 DEF Registered, NewTask
  <2> QED BY <2>2, <2>3 DEF AloneInv
<1>8. CASE SchedBuild /\ ~sched.cancelled
  <2>0. sched.at = "build"
    BY <1>8 DEF SchedBuild
  <2>1. \E h \in Handles : task[h].id = 0
    <3>1. sched.step <= Len(Schedule) /\ Cardinality(Built) = sched.step - 1 /\ sched.step \in Nat
      BY <1>0, <2>0 DEF CountInv
    <3>2. Len(Schedule) <= Cardinality(Handles) /\ Len(Schedule) \in Nat /\ IsFiniteSet(Handles)
      BY TargetPosAssumption
    <3>3. Cardinality(Handles) \in Nat
      BY <3>2, FS_CardinalityType
    <3>4. Built # Handles
      BY <3>1, <3>2, <3>3
    <3> QED BY <3>4 DEF Built
  <2>2. /\ UNCHANGED runner /\ sched'.at = "wait" /\ sched'.failed = sched.failed
        /\ registry'.next = registry.next + 1
        /\ \E h \in Handles : /\ task[h].id = 0 /\ \A g \in Handles \ {h} : Still(g)
                              /\ task'[h].id = registry.next + 1
    BY <1>0, <1>8, <2>1, SchedBuildEffect
  <2>3. PICK h \in Handles : /\ task[h].id = 0 /\ \A g \in Handles \ {h} : Still(g)
                             /\ task'[h].id = registry.next + 1
    BY <2>2
  <2>4. Sole' => Sole
    <3>1. ~task[h].failed
      BY <1>0, <2>3 DEF IdsInv, NewTask
    <3>2. \A g \in Handles \ {h} : Follows(g)
      BY <2>3, StillFollows
    <3>3. \A g \in Handles : (task[g].id # 0 => task'[g].id = task[g].id) /\ (task[g].failed => task'[g].failed)
      BY <2>3, <3>1, <3>2 DEF Follows
    <3> QED BY <2>2, <3>3, SoleBack DEF ErrorsStay
  <2>5. ASSUME Sole', NEW g \in Handles, Registered(g)' PROVE g = h
    <3>1. g # h => Registered(g)
      BY <2>3, <2>5, StillFollows DEF Follows
    <3>2. ~Registered(g)
      BY <2>0, <2>4, <2>5 DEF AloneInv, Stepping
    <3> QED BY <3>1, <3>2
  <2>6. Current' = registry.next + 1 /\ sched'.at \in Stepping
    BY <2>2 DEF Current, Stepping
  <2> QED BY <2>3, <2>4, <2>5, <2>6 DEF AloneInv
<1>9. CASE SchedMoves
  <2>1. sched.at \in Stepping => StepTask \in Handles /\ task[StepTask].id = registry.next
    BY <1>0 DEF SchedInv, StepTask
  <2>2. registry.next # 0 /\ registry.guard \in Ids
    <3>1. sched.at \notin {"off", "done"}
      BY <1>0, <1>9, SchedMovesTo DEF Stepping
    <3> QED BY <1>0, <3>1, IdsEnough DEF IdsInv
  <2>3. SchedCancelTask => StepTask \in Handles /\ task[StepTask].id # 0
    BY <2>1, <2>2 DEF SchedCancelTask, Stepping
  <2>4. /\ UNCHANGED runner /\ \A h \in Handles : Still(h)
        /\ registry'.next = registry.next
    BY <1>0, <1>9, <2>2, <2>3, SchedMovesEffect
  <2>5. \A h \in Handles : Follows(h)
    BY <2>4, StillFollows
  <2>6. sched.failed => sched'.failed
    <3>1. SchedNext => sched.at = "join"
      BY DEF SchedNext
    <3> QED BY <1>0, <1>9, <3>1, SchedMovesTo DEF SchedInv, Stepping
  <2>7. Sole' => Sole
    BY <2>4, <2>5, <2>6, SoleBack DEF ErrorsStay, Follows
  <2>8. ASSUME Sole', NEW h \in Handles, Registered(h)'
        PROVE  sched'.at \in {"off"} \cup Stepping /\ task'[h].id = Current'
    <3>1. Registered(h) /\ task'[h].id = task[h].id
      BY <2>5, <2>8 DEF Follows
    <3>2. sched.at \in {"off"} \cup Stepping /\ task[h].id = Current
      BY <2>7, <2>8, <3>1 DEF AloneInv
    <3>3. sched.at \in Stepping /\ task[h].id = registry.next
      BY <1>0, <1>9, <3>2, SchedMovesTo DEF Current, Stepping
    <3>4. ~sched'.failed
      BY <2>8 DEF Sole
    <3>5. CASE sched.at = "join" /\ task[StepTask].finished
      <4>1. StepTask = h
        <5> DEFINE s == StepTask
        <5>1. s \in Handles /\ task[s].id = task[h].id /\ task[h].id # 0
          BY <2>1, <2>2, <3>3
        <5> HIDE DEF s
        <5>2. s = h
          BY <2>7, <2>8, <5>1 DEF Sole, Sharing
        <5> QED BY <5>2 DEF s
      <4>2. LifeFor(h) /\ task[h].finished
        BY <1>0, <3>5, <4>1 DEF LifeInv
      <4> QED BY <3>1, <4>2 DEF LifeFor, Registered, Working
    <3>6. CASE sched'.at \in Stepping
      BY <2>4, <3>1, <3>3, <3>6 DEF Current, Stepping
    <3> QED BY <1>9, <3>3, <3>4, <3>5, <3>6, <1>0, SchedMovesTo DEF Stepping
  <2> QED BY <2>7, <2>8 DEF AloneInv
<1> QED BY <1>1, <1>2, <1>3, <1>4, <1>5, <1>6, <1>7, <1>8, <1>9 DEF Next, SchedStep, SchedMoves


-----------------------------------------------------------------------------
(***************************************************************************)
(* Steps that neither trade nor plan, nor move a runner on.                *)
(***************************************************************************)
AsBefore(g) ==
    task'[g].at = task[g].at /\ task'[g].plan = task[g].plan /\ task'[g].req = task[g].req
PlansStay(g) == task[g].mine \subseteq task'[g].mine /\ (AsBefore(g) \/ ~Planned(g)')
SameRunner(h, k) ==
    LET r == runner[<<h, k>>]
        q == runner'[<<h, k>>]
    IN  q.at = r.at /\ q.order = r.order /\ q.dir = r.dir /\ q.offset = r.offset /\ q.left = r.left
OrdersKeep ==
    \A i \in DOMAIN orders :
        /\ orders'[i].dir = orders[i].dir /\ orders'[i].offset = orders[i].offset
        /\ orders'[i].volume = orders[i].volume /\ orders'[i].left = orders[i].left
QuietOrders == DOMAIN orders' = DOMAIN orders /\ OrdersKeep
QuietRunners == \A h \in Handles, k \in Slots : SameRunner(h, k)
Quiet == QuietOrders /\ QuietRunners /\ pos' = pos /\ \A g \in Handles : PlansStay(g)

LEMMA OrdersQuiet ==
    ASSUME FieldsOK,
           \/ UNCHANGED orders
           \/ \E is : orders' = Cancelling(is)
           \/ \E i \in DOMAIN orders : orders' = [orders EXCEPT ![i].status = "finished"]
           \/ \E i \in DOMAIN orders : orders' = [orders EXCEPT ![i].told = Filled(orders[i])]
    PROVE  QuietOrders
<1>0. \A i \in DOMAIN orders : DOMAIN orders[i] = OrderFields
  BY DEF FieldsOK
<1>1. CASE UNCHANGED orders
  BY <1>1 DEF QuietOrders, OrdersKeep
<1>2. CASE \E is : orders' = Cancelling(is)
  BY <1>0, <1>2 DEF QuietOrders, OrdersKeep, Cancelling, OrderFields
<1>3. CASE \E i \in DOMAIN orders : orders' = [orders EXCEPT ![i].status = "finished"]
  BY <1>0, <1>3 DEF QuietOrders, OrdersKeep, OrderFields
<1>4. CASE \E i \in DOMAIN orders : orders' = [orders EXCEPT ![i].told = Filled(orders[i])]
  BY <1>0, <1>4 DEF QuietOrders, OrdersKeep, OrderFields
<1> QED BY <1>1, <1>2, <1>3, <1>4

LEMMA RunnersQuiet ==
    ASSUME UNCHANGED runner
    PROVE  QuietRunners
BY DEF QuietRunners, SameRunner

(* One task changes. *)
LEMMA TaskQuiet ==
    ASSUME FieldsOK, NEW h \in Handles, NEW t, task' = [task EXCEPT ![h] = t],
           task[h].mine \subseteq t.mine,
           \/ t.at = task[h].at /\ t.plan = task[h].plan /\ t.req = task[h].req
           \/ t.at \notin {"batch", "running"}
    PROVE  \A g \in Handles : PlansStay(g)
<1>1. task'[h] = t /\ \A g \in Handles \ {h} : task'[g] = task[g]
  BY DEF FieldsOK
<1> QED BY <1>1 DEF PlansStay, AsBefore, Planned

(* A task is put somewhere else than to work on a plan. *)
LEMMA TaskGoes ==
    ASSUME FieldsOK, NEW h \in Handles, NEW at, at \notin {"batch", "running"}, NEW x, NEW f,
           \/ task' = [task EXCEPT ![h].at = at]
           \/ task' = [task EXCEPT ![h].at = at, ![h].req = x]
           \/ task' = [task EXCEPT ![h].at = at, ![h].reached = x]
           \/ task' = [task EXCEPT ![h].at = at, ![h].failed = x]
           \/ task' = [task EXCEPT ![h].at = at, ![h].trades = x]
           \/ task' = [task EXCEPT ![h].at = at, ![h].started = x, ![h].finished = f]
    PROVE  \A g \in Handles : PlansStay(g)
<1>0. DOMAIN task = Handles /\ DOMAIN task[h] = TaskFields
  BY DEF FieldsOK
<1>1. PICK t \in {[task[h] EXCEPT !.at = at], [task[h] EXCEPT !.at = at, !.req = x],
                  [task[h] EXCEPT !.at = at, !.reached = x], [task[h] EXCEPT !.at = at, !.failed = x],
                  [task[h] EXCEPT !.at = at, !.trades = x],
                  [task[h] EXCEPT !.at = at, !.started = x, !.finished = f]} :
         task' = [task EXCEPT ![h] = t]
  BY <1>0
<1>2. t.at = at /\ t.mine = task[h].mine
  BY <1>0 DEF TaskFields
<1> QED BY <1>1, <1>2, TaskQuiet

LEMMA LoopQuiet ==
    ASSUME FieldsOK, NEW h \in Handles,
           \/ Command(h) \/ Settled(h) \/ (Batch(h) /\ Stop(h)) \/ CancelOwned(h) \/ DriveFails(h)
           \/ Capture(h) \/ Finish(h) \/ Announce(h)
           \/ Drive(h) /\ (Stop(h) \/ Plan(task[h].req.volume) = <<>>)
    PROVE  Quiet
<1>1. UNCHANGED <<runner, pos>>
  BY DEF Command, Settled, Batch, CancelOwned, DriveFails, Capture, Finish, Announce, Drive, Mishap
<1>2. QuietOrders
  <2>1. UNCHANGED orders \/ orders' = Cancelling(AliveOf(Owned(h)))
    BY DEF Command, Settled, Batch, CancelOwned, DriveFails, Capture, Finish, Announce, Drive
  <2> QED BY <2>1, OrdersQuiet
<1>3. \A g \in Handles : PlansStay(g)
  <2>1. CASE Command(h)
    BY <2>1, TaskGoes DEF Command
  <2>2. CASE Settled(h) \/ (Batch(h) /\ Stop(h)) \/ Finish(h)
    BY <2>2, TaskGoes DEF Settled, Batch, Finish, Goto
  <2>3. CASE CancelOwned(h)
    <3>1. PICK at \in {"cancel", "end", "command"} : task' = [task EXCEPT ![h].at = at]
      BY <2>3 DEF CancelOwned, Goto
    <3> QED BY <3>1, TaskGoes
  <2>4. CASE DriveFails(h)
    BY <2>4, TaskGoes DEF DriveFails
  <2>5. CASE Capture(h)
    BY <2>5, TaskGoes DEF Capture
  <2>6. CASE Announce(h)
    <3>1. task' = [task EXCEPT ![h].at = "off", ![h].started = "done", ![h].finished = TRUE]
      BY <2>6 DEF Announce
    <3>2. "off" \notin {"batch", "running"}
      OBVIOUS
    <3> QED BY <3>1, <3>2, TaskGoes
  <2>7. CASE Drive(h) /\ (Stop(h) \/ Plan(task[h].req.volume) = <<>>)
    <3>1. PICK at \in {"cancel", "command", "settled"} :
             \/ task' = [task EXCEPT ![h].at = at]
             \/ task' = [task EXCEPT ![h].at = at, ![h].reached = task[h].req.seq]
      BY <2>7 DEF Drive
    <3> QED BY <3>1, TaskGoes
  <2> QED BY <2>1, <2>2, <2>3, <2>4, <2>5, <2>6, <2>7
<1> QED BY <1>1, <1>2, <1>3, RunnersQuiet DEF Quiet

LEMMA BuildQuiet ==
    ASSUME FieldsOK, NEW h \in Handles, Build(h) \/ Drop(h)
    PROVE  Quiet
<1>0. DOMAIN task = Handles /\ DOMAIN task[h] = TaskFields
  BY DEF FieldsOK
<1>1. UNCHANGED <<runner, orders, pos>>
  BY DEF Build, Drop
<1>2. \A g \in Handles : PlansStay(g)
  <2>1. CASE Build(h)
    <3>1. \E id : task' = [task EXCEPT ![h].id = id]
      BY <2>1 DEF Build, Register
    <3>2. PICK id : task' = [task EXCEPT ![h].id = id]
      BY <3>1
    <3>3. PICK t : t = [task[h] EXCEPT !.id = id]
      OBVIOUS
    <3>4. task' = [task EXCEPT ![h] = t] /\ t.mine = task[h].mine
          /\ t.at = task[h].at /\ t.plan = task[h].plan /\ t.req = task[h].req
      BY <1>0, <3>2, <3>3 DEF TaskFields
    <3> QED BY <3>4, TaskQuiet
  <2>2. CASE Drop(h)
    <3>1. PICK t : t = [task[h] EXCEPT !.started = "dropped", !.closed = TRUE]
      OBVIOUS
    <3>2. task' = [task EXCEPT ![h] = t] /\ t.mine = task[h].mine
          /\ t.at = task[h].at /\ t.plan = task[h].plan /\ t.req = task[h].req
      BY <1>0, <2>2, <3>1 DEF Drop, TaskFields
    <3> QED BY <3>2, TaskQuiet
  <2> QED BY <2>1, <2>2
<1> QED BY <1>1, <1>2, RunnersQuiet, OrdersQuiet DEF Quiet

LEMMA CallQuiet ==
    ASSUME FieldsOK, CallsInv, NEW c \in Callers, Call(c) \/ CallStep(c)
    PROVE  Quiet
<1>0. DOMAIN task = Handles /\ \A h \in Handles : DOMAIN task[h] = TaskFields
  BY DEF FieldsOK
<1>1. UNCHANGED <<runner, orders, pos>>
  BY DEF Call, CallStep, Send, Mark
<1>2. \A g \in Handles : PlansStay(g)
  <2>1. CASE UNCHANGED task
    BY <2>1 DEF PlansStay, AsBefore
  <2>2. CASE Send(c)
    <3>1. call[c].h \in Handles
      BY <2>2 DEF Send, CallsInv
    <3> DEFINE h == call[c].h
               x == call[c].cmd
    <3>2. h \in Handles /\ task' = [task EXCEPT ![h].cmd = x]
      BY <2>2, <3>1 DEF Send
    <3> HIDE DEF h, x
    <3>3. PICK t : t = [task[h] EXCEPT !.cmd = x]
      OBVIOUS
    <3>4. task' = [task EXCEPT ![h] = t] /\ t.mine = task[h].mine
          /\ t.at = task[h].at /\ t.plan = task[h].plan /\ t.req = task[h].req
      BY <1>0, <3>2, <3>3 DEF TaskFields
    <3> QED BY <3>2, <3>4, TaskQuiet
  <2>3. CASE Call(c)
    <3>1. PICK h \in Handles : BeginCancel(c, h) \/ \E v \in Targets : BeginTarget(c, h, v)
      BY <2>3 DEF Call
    <3>2. PICK s : s = Started(task[h])
      OBVIOUS
    <3>3. /\ DOMAIN s = TaskFields /\ s.mine = task[h].mine
          /\ \/ s.at = task[h].at /\ s.plan = task[h].plan /\ s.req = task[h].req
             \/ s.at \notin {"batch", "running"}
      BY <1>0, <3>2 DEF Started, TaskFields
    <3>4. PICK t \in {[s EXCEPT !.closed = TRUE], [s EXCEPT !.seq = @ + 1]} : task' = [task EXCEPT ![h] = t]
      BY <3>1, <3>2 DEF BeginCancel, BeginTarget
    <3>5. t.mine = s.mine /\ t.at = s.at /\ t.plan = s.plan /\ t.req = s.req
      BY <3>3 DEF TaskFields
    <3> QED BY <3>3, <3>4, <3>5, TaskQuiet
  <2> QED BY <2>1, <2>2, <2>3 DEF CallStep, Mark
<1> QED BY <1>1, <1>2, RunnersQuiet, OrdersQuiet DEF Quiet

LEMMA AnswersQuiet ==
    ASSUME FieldsOK, NEW i \in DOMAIN orders, Kill(i) \/ ExchangeAnswers(i)
    PROVE  Quiet
<1>1. UNCHANGED <<task, runner, pos>>
  BY DEF Kill, ExchangeAnswers, CancelLands, Tell
<1>2. QuietOrders
  BY OrdersQuiet DEF Kill, ExchangeAnswers, CancelLands, Tell, Ended
<1> QED BY <1>1, <1>2, RunnersQuiet DEF Quiet, PlansStay, AsBefore

LEMMA SessionQuiet ==
    ASSUME FieldsOK, SessionStep
    PROVE  Quiet
<1>1. UNCHANGED <<task, orders, pos>>
  BY DEF SessionStep, FlushAll, MarketMoves
<1>2. QuietRunners
  <2>1. CASE FlushAll
    BY <2>1, RunnersQuiet DEF FlushAll
  <2>2. CASE MarketMoves
    BY <2>2 DEF MarketMoves, QuietRunners, SameRunner, FieldsOK, RunnerFields
  <2> QED BY <2>1, <2>2 DEF SessionStep
<1> QED BY <1>1, <1>2, OrdersQuiet DEF Quiet, PlansStay, AsBefore

LEMMA SchedQuiet ==
    ASSUME FieldsOK, IdsInv,
           SchedStart \/ SchedMoves \/ SchedBuild,
           SchedBuild /\ ~sched.cancelled => \E h \in Handles : task[h].id = 0,
           SchedCancelTask => StepTask \in Handles
    PROVE  Quiet
<1>0. DOMAIN task = Handles /\ \A h \in Handles : DOMAIN task[h] = TaskFields
  BY DEF FieldsOK
<1>1. UNCHANGED <<runner, orders, pos>>
  BY DEF SchedStart, SchedMoves, SchedWait, SchedCancelTask, SchedNext, SchedEnd, SchedWaitFails, SchedCancel,
         SchedBuild, Mishap
<1>2. \A g \in Handles : PlansStay(g)
  <2>1. CASE UNCHANGED task
    BY <2>1 DEF PlansStay, AsBefore
  <2>2. CASE SchedCancelTask
    <3> DEFINE h == StepTask
               x == [NoCommand EXCEPT !.kind = "cancel"]
    <3>1. h \in Handles
      BY <2>2
    <3>2. UNCHANGED task \/ task' = [task EXCEPT ![h].closed = TRUE, ![h].cmd = x]
      BY <2>2, <3>1 DEF SchedCancelTask
    <3> HIDE DEF h, x
    <3>3. PICK t : t = [task[h] EXCEPT !.closed = TRUE, !.cmd = x]
      OBVIOUS
    <3>4. t.mine = task[h].mine
          /\ t.at = task[h].at /\ t.plan = task[h].plan /\ t.req = task[h].req
      BY <1>0, <3>3 DEF TaskFields
    <3>5. UNCHANGED task \/ task' = [task EXCEPT ![h] = t]
      BY <1>0, <3>2, <3>3
    <3> QED BY <2>1, <3>1, <3>4, <3>5, TaskQuiet
  <2>3. CASE SchedBuild /\ ~sched.cancelled
    <3> DEFINE h == CHOOSE h \in Handles : task[h].id = 0
               new == [NewTask EXCEPT !.id = registry.next + 1, !.seq = 1, !.cmd =
                          [kind |-> "target", seq |-> 1, volume |-> Schedule[sched.step], gate |-> session.gate]]
    <3>1. h \in Handles /\ task[h].id = 0
      <4>1. \E g \in Handles : task[g].id = 0
        BY <2>3
      <4> QED BY <4>1
    <3>2. task' = [task EXCEPT ![h] = Started(new)]
      BY <2>3 DEF SchedBuild
    <3>3. Started(new).at = "command"
      BY DEF NewTask, Started
    <3>4. task[h].mine = {}
      BY <3>1 DEF IdsInv, NewTask
    <3> HIDE DEF h, new
    <3> QED BY <3>1, <3>2, <3>3, <3>4, TaskQuiet
  <2> QED BY <2>1, <2>2, <2>3 DEF SchedStart, SchedMoves, SchedWait, SchedNext, SchedEnd, SchedWaitFails,
                                  SchedCancel, SchedBuild
<1> QED BY <1>1, <1>2, RunnersQuiet, OrdersQuiet DEF Quiet

(* The steps of the model: quiet ones, those of runners, and those that plan, *)
(* begin and end batches and trade.                                           *)
RunnerMoves(h, k) ==
    RunnerStart(h, k) \/ RunnerLooks(h, k) \/ RunnerWakes(h, k) \/ RunnerRetries(h, k) \/ RunnerFails(h, k)
Plans(h) == Drive(h) /\ ~Stop(h) /\ Plan(task[h].req.volume) # <<>>

LEMMA Kinds ==
    ASSUME ReportInv, [Next]_vars
    PROVE  \/ Quiet
           \/ \E h \in Handles : Plans(h) \/ (Batch(h) /\ ~Stop(h)) \/ Join(h)
           \/ \E h \in Handles, k \in Slots : RunnerInsert(h, k) \/ RunnerMoves(h, k)
           \/ \E i \in DOMAIN orders : Fill(i)
<1>0. FieldsOK /\ CountInv /\ IdsInv /\ CallsInv /\ LifeInv /\ SchedInv
  BY DEF ReportInv
<1>1. CASE UNCHANGED vars
  <2>1. UNCHANGED <<task, runner, orders, pos>>
    BY <1>1 DEF vars
  <2> QED BY <1>0, <2>1, RunnersQuiet, OrdersQuiet DEF Quiet, PlansStay, AsBefore
<1>2. CASE \E h \in Handles : Build(h) \/ Drop(h) \/ LoopStep(h) \/ DriveFails(h)
  BY <1>0, <1>2, BuildQuiet, LoopQuiet DEF LoopStep, Plans
<1>3. CASE \E h \in Handles, k \in Slots : RunnerStep(h, k) \/ RunnerFails(h, k)
  BY <1>3 DEF RunnerStep, RunnerMoves
<1>4. CASE \E c \in Callers : Call(c) \/ CallStep(c)
  BY <1>0, <1>4, CallQuiet
<1>5. CASE \E i \in DOMAIN orders : Fill(i) \/ Kill(i) \/ ExchangeAnswers(i)
  BY <1>0, <1>5, AnswersQuiet
<1>6. CASE SessionStep
  BY <1>0, <1>6, SessionQuiet
<1>7. CASE SchedStart \/ SchedStep \/ SchedWaitFails \/ SchedCancel
  <2>1. SchedStart \/ SchedMoves \/ SchedBuild
    BY <1>7 DEF SchedStep, SchedMoves
  <2>2. SchedCancelTask => StepTask \in Handles
    BY <1>0 DEF SchedCancelTask, SchedInv, Stepping, StepTask
  <2>3. SchedBuild => \E h \in Handles : task[h].id = 0
    <3> SUFFICES ASSUME SchedBuild PROVE \E h \in Handles : task[h].id = 0
      OBVIOUS
    <3>1. sched.step <= Len(Schedule) /\ Cardinality(Built) = sched.step - 1 /\ sched.step \in Nat
      BY <1>0 DEF CountInv, SchedBuild
    <3>2. Len(Schedule) <= Cardinality(Handles) /\ Len(Schedule) \in Nat /\ IsFiniteSet(Handles)
      BY TargetPosAssumption
    <3>3. Cardinality(Handles) \in Nat
      BY <3>2, FS_CardinalityType
    <3>4. Built # Handles
      BY <3>1, <3>2, <3>3
    <3> QED BY <3>4 DEF Built
  <2> QED BY <1>0, <2>1, <2>2, <2>3, SchedQuiet
<1> QED BY <1>1, <1>2, <1>3, <1>4, <1>5, <1>6, <1>7 DEF Next

(* Every order is some task's: it is entered there as it is made. *)
LEMMA OwnedNext ==
    ASSUME ReportInv, OwnedInv, [Next]_vars
    PROVE  OwnedInv'
<1>0. FieldsOK
  BY DEF ReportInv
<1>1. ASSUME DOMAIN orders' = DOMAIN orders, \A g \in Handles : task[g].mine \subseteq task'[g].mine
      PROVE  OwnedInv'
  BY <1>1 DEF OwnedInv
<1>2. CASE Quiet
  BY <1>1, <1>2 DEF Quiet, QuietOrders, PlansStay
<1>3. CASE \E h \in Handles : Plans(h) \/ (Batch(h) /\ ~Stop(h)) \/ Join(h)
  <2>1. PICK h \in Handles : Plans(h) \/ (Batch(h) /\ ~Stop(h)) \/ Join(h)
    BY <1>3
  <2>2. UNCHANGED orders
    BY <2>1 DEF Plans, Drive, Batch, Join
  <2>3. Kept(h) /\ \A g \in Handles \ {h} : Still(g)
    BY <1>0, <2>1, MovesOnEffect, BatchEffect, JoinEffect DEF Plans, MovesOn
  <2> QED BY <1>1, <2>2, <2>3 DEF Still, Kept
<1>4. CASE \E h \in Handles, k \in Slots : RunnerMoves(h, k)
  <2>1. PICK h \in Handles, k \in Slots : RunnerMoves(h, k)
    BY <1>4
  <2>2. UNCHANGED task
    BY <1>0, <2>1, RunnerEffect DEF RunnerMoves
  <2>3. UNCHANGED orders \/ orders' = Cancelling({runner[h, k].order})
    BY <2>1 DEF RunnerMoves, RunnerStart, RunnerLooks, RunnerWakes, RunnerRetries, RunnerFails
  <2>4. QuietOrders
    BY <1>0, <2>3, OrdersQuiet
  <2> QED BY <1>1, <2>2, <2>4 DEF QuietOrders
<1>5. CASE \E h \in Handles, k \in Slots : RunnerInsert(h, k)
  <2>1. PICK h \in Handles, k \in Slots : RunnerInsert(h, k)
    BY <1>5
  <2> DEFINE n == Len(orders) + 1
  <2>2. DOMAIN orders' = DOMAIN orders \cup {n}
    <3>1. PICK o : orders' = Append(orders, o)
      BY <2>1 DEF RunnerInsert
    <3>2. orders \in Seq(Range(orders))
      BY <1>0 DEF FieldsOK
    <3> QED BY <3>1, <3>2
  <2>3. n \in task'[h].mine /\ \A g \in Handles : task[g].mine \subseteq task'[g].mine
    <3>1. task' = [task EXCEPT ![h].mine = @ \cup {n}]
      BY <2>1 DEF RunnerInsert
    <3>2. DOMAIN task = Handles /\ DOMAIN task[h] = TaskFields
      BY <1>0 DEF FieldsOK
    <3> HIDE DEF n
    <3> QED BY <3>1, <3>2 DEF TaskFields
  <2> QED BY <2>2, <2>3 DEF OwnedInv
<1>6. CASE \E i \in DOMAIN orders : Fill(i)
  <2>1. PICK i \in DOMAIN orders : Fill(i)
    BY <1>6
  <2>2. UNCHANGED task /\ DOMAIN orders' = DOMAIN orders
    BY <2>1 DEF Fill
  <2> QED BY <1>1, <2>2
<1> QED BY <1>2, <1>3, <1>4, <1>5, <1>6, Kinds

(* The volumes asked for are whole numbers. *)
LEMMA CommandsNext ==
    ASSUME ReportInv, CommandsOK, [Next]_vars
    PROVE  CommandsOK'
<1>0. /\ CountInv /\ IdsInv /\ CallsInv /\ LifeInv /\ SchedInv
      /\ DOMAIN task = Handles /\ (\A h \in Handles : DOMAIN task[h] = TaskFields) /\ DOMAIN call = Callers
      /\ FieldsOK
  BY DEF ReportInv, FieldsOK
<1>1. ASSUME UNCHANGED call, NEW h \in Handles, NEW t, task' = [task EXCEPT ![h] = t],
             t.cmd.volume \in Int, t.req.volume \in Int
      PROVE  CommandsOK'
  BY <1>0, <1>1 DEF CommandsOK
<1>2. ASSUME UNCHANGED <<task, call>> PROVE CommandsOK'
  BY <1>2 DEF CommandsOK
<1>3. ASSUME UNCHANGED call, NEW h \in Handles,
             \/ Build(h) \/ Drop(h) \/ Settled(h) \/ Batch(h) \/ Join(h) \/ CancelOwned(h) \/ DriveFails(h)
             \/ Capture(h) \/ Finish(h) \/ Announce(h) \/ Drive(h) \/ \E k \in Slots : RunnerInsert(h, k)
      PROVE  CommandsOK'
  <2>1. task'[h].cmd = task[h].cmd /\ task'[h].req = task[h].req
    <3>0. DOMAIN task = Handles /\ DOMAIN task[h] = TaskFields
      BY <1>0
    <3>1. CASE Build(h) \/ Drop(h)
      BY <3>0, <3>1 DEF Build, Register, Drop, TaskFields
    <3>2. CASE Settled(h) \/ Batch(h) \/ CancelOwned(h) \/ Finish(h)
      <4>1. \E at : task' = [task EXCEPT ![h].at = at]
        BY <3>2 DEF Settled, Batch, CancelOwned, Finish, Goto
      <4>2. PICK at : task' = [task EXCEPT ![h].at = at]
        BY <4>1
      <4> QED BY <3>0, <4>2 DEF TaskFields
    <3>3. CASE DriveFails(h) \/ Capture(h) \/ Announce(h)
      BY <3>0, <3>3 DEF DriveFails, Capture, Announce, TaskFields
    <3>4. CASE Join(h)
      BY <3>0, <3>4 DEF Join, TaskFields
    <3>5. CASE Drive(h)
      BY <3>0, <3>5 DEF Drive, TaskFields
    <3>6. CASE \E k \in Slots : RunnerInsert(h, k)
      BY <3>0, <3>6 DEF RunnerInsert, TaskFields
    <3> QED BY <1>3, <3>1, <3>2, <3>3, <3>4, <3>5, <3>6
  <2>2. \A g \in Handles \ {h} : task'[g] = task[g]
    BY <1>0, <1>3 DEF Build, Register, Drop, Settled, Batch, Goto, Join, CancelOwned, DriveFails, Capture, Finish,
                Announce, Drive, RunnerInsert
  <2> QED BY <1>3, <2>1, <2>2 DEF CommandsOK
<1>4. CASE \E h \in Handles : Build(h) \/ Drop(h) \/ LoopStep(h) \/ DriveFails(h)
  <2>1. PICK h \in Handles : Build(h) \/ Drop(h) \/ LoopStep(h) \/ DriveFails(h)
    BY <1>4
  <2>2. UNCHANGED call
    BY <2>1 DEF Build, Drop, LoopStep, DriveFails, Command, Settled, Batch, Join, CancelOwned, Capture, Finish,
                Announce, Drive
  <2>3. CASE Command(h)
    <3>1. task[h].cmd.volume \in Int
      BY DEF CommandsOK
    <3>2. PICK t : t = [task[h] EXCEPT !.at = task'[h].at, !.req = task[h].cmd]
      OBVIOUS
    <3>3. task' = [task EXCEPT ![h] = t] /\ t.req = task[h].cmd /\ t.cmd = task[h].cmd
      <4>1. \E at : task' = [task EXCEPT ![h].at = at, ![h].req = task[h].cmd]
        BY <2>3 DEF Command
      <4>2. PICK at : task' = [task EXCEPT ![h].at = at, ![h].req = task[h].cmd]
        BY <4>1
      <4> QED BY <1>0, <3>2, <4>2 DEF TaskFields
    <3> QED BY <1>1, <2>2, <3>1, <3>3
  <2> QED BY <1>3, <2>1, <2>2, <2>3 DEF LoopStep
<1>5. CASE \E h \in Handles, k \in Slots : RunnerStep(h, k) \/ RunnerFails(h, k)
  <2>1. PICK h \in Handles, k \in Slots : RunnerStep(h, k) \/ RunnerFails(h, k)
    BY <1>5
  <2>2. UNCHANGED call
    BY <2>1 DEF RunnerStep, RunnerStart, RunnerInsert, RunnerLooks, RunnerWakes, RunnerRetries, RunnerFails
  <2>3. CASE RunnerInsert(h, k)
    BY <1>3, <2>2, <2>3
  <2>4. CASE ~RunnerInsert(h, k)
    <3>1. UNCHANGED task
      BY <2>1, <2>4 DEF RunnerStep, RunnerStart, RunnerLooks, RunnerWakes, RunnerRetries, RunnerFails
    <3> QED BY <1>2, <2>2, <3>1
  <2> QED BY <2>3, <2>4
<1>6. CASE \E c \in Callers : Call(c) \/ CallStep(c)
  <2>1. PICK c \in Callers : Call(c) \/ CallStep(c)
    BY <1>6
  <2>2. CASE Call(c)
    <3>1. PICK h \in Handles : BeginCancel(c, h) \/ \E v \in Targets : BeginTarget(c, h, v)
      BY <2>2 DEF Call
    <3>2. call'[c].cmd.volume \in Int /\ \A d \in Callers \ {c} : call'[d] = call[d]
      BY <1>0, <3>1, TargetPosAssumption DEF BeginCancel, BeginTarget, NoCommand
    <3>3. PICK s : s = Started(task[h])
      OBVIOUS
    <3>4. DOMAIN s = TaskFields /\ s.cmd = task[h].cmd /\ s.req = task[h].req
      BY <1>0, <3>3 DEF Started, TaskFields
    <3>5. PICK t \in {[s EXCEPT !.closed = TRUE], [s EXCEPT !.seq = @ + 1]} : task' = [task EXCEPT ![h] = t]
      BY <3>1, <3>3 DEF BeginCancel, BeginTarget
    <3>6. t.cmd = task[h].cmd /\ t.req = task[h].req
      BY <3>4 DEF TaskFields
    <3> QED BY <1>0, <3>2, <3>5, <3>6 DEF CommandsOK
  <2>3. CASE Send(c)
    <3>1. /\ DOMAIN call[c] = {"at", "h", "cmd"} /\ call[c].h \in Handles /\ call[c].cmd.volume \in Int
      BY <1>0, <2>3 DEF Send, CallsInv, CommandsOK
    <3>2. \A d \in Callers : call'[d].at # "idle" => call'[d].cmd.volume \in Int
      <4>1. call' = [call EXCEPT ![c] = [at |-> "idle"]] \/ call' = [call EXCEPT ![c].at = "mark"]
        BY <2>3 DEF Send, Idle
      <4> QED BY <1>0, <3>1, <4>1 DEF CommandsOK
    <3>3. task' = [task EXCEPT ![call[c].h].cmd = call[c].cmd]
      BY <2>3 DEF Send
    <3>4. \A h \in Handles : task'[h].cmd.volume \in Int /\ task'[h].req.volume \in Int
      BY <1>0, <3>1, <3>3 DEF CommandsOK, TaskFields
    <3> QED BY <3>2, <3>4 DEF CommandsOK
  <2>4. CASE Mark(c)
    <3>1. UNCHANGED task /\ call' = [call EXCEPT ![c] = [at |-> "idle"]]
      BY <2>4 DEF Mark, Idle
    <3> QED BY <1>0, <3>1 DEF CommandsOK
  <2> QED BY <2>1, <2>2, <2>3, <2>4 DEF CallStep
<1>7. CASE \E i \in DOMAIN orders : Fill(i) \/ Kill(i) \/ ExchangeAnswers(i)
  BY <1>2, <1>7 DEF Fill, Kill, ExchangeAnswers, CancelLands, Tell
<1>8. CASE SessionStep
  BY <1>2, <1>8 DEF SessionStep, FlushAll, MarketMoves
<1>9. CASE SchedStart \/ SchedStep \/ SchedWaitFails \/ SchedCancel
  <2>1. UNCHANGED call
    BY <1>9 DEF SchedStart, SchedStep, SchedWait, SchedCancelTask, SchedNext, SchedEnd, SchedWaitFails, SchedCancel,
                SchedBuild
  <2>2. CASE UNCHANGED task
    BY <1>2, <2>1, <2>2
  <2>3. CASE SchedCancelTask
    <3> DEFINE h == StepTask
               x == [NoCommand EXCEPT !.kind = "cancel"]
    <3>1. h \in Handles /\ x.volume \in Int
      BY <1>0, <2>3 DEF SchedCancelTask, SchedInv, Stepping, StepTask, NoCommand
    <3>2. UNCHANGED task \/ task' = [task EXCEPT ![h].closed = TRUE, ![h].cmd = x]
      BY <2>3, <3>1 DEF SchedCancelTask
    <3> HIDE DEF h, x
    <3>3. PICK t : t = [task[h] EXCEPT !.closed = TRUE, !.cmd = x]
      OBVIOUS
    <3>4. t.cmd = x /\ t.req = task[h].req
      BY <1>0, <3>1, <3>3 DEF TaskFields
    <3>5. UNCHANGED task \/ task' = [task EXCEPT ![h] = t]
      BY <1>0, <3>1, <3>2, <3>3
    <3> QED BY <1>1, <2>1, <2>2, <3>1, <3>4, <3>5 DEF CommandsOK
  <2>4. CASE SchedBuild /\ ~sched.cancelled
    <3> DEFINE h == CHOOSE h \in Handles : task[h].id = 0
               new == [NewTask EXCEPT !.id = registry.next + 1, !.seq = 1, !.cmd =
                          [kind |-> "target", seq |-> 1, volume |-> Schedule[sched.step], gate |-> session.gate]]
    <3>1. task' = [task EXCEPT ![h] = Started(new)]
      BY <2>4 DEF SchedBuild
    <3>2. Schedule[sched.step] \in Int
      <4>1. sched.step \in Nat /\ sched.step <= Len(Schedule) /\ Cardinality(Built) = sched.step - 1
        BY <1>0, <2>4 DEF SchedBuild, CountInv
      <4>2. Cardinality(Built) \in Nat
        BY BuiltCount
      <4>3. Schedule \in Seq(Int)
        BY TargetPosAssumption
      <4> QED BY <4>1, <4>2, <4>3
    <3>3. Started(new).cmd.volume = Schedule[sched.step] /\ Started(new).req.volume = 0
      BY DEF NewTask, NoCommand, Started
    <3> HIDE DEF h, new
    <3> QED BY <1>0, <2>1, <3>1, <3>2, <3>3 DEF CommandsOK
  <2> QED BY <1>9, <2>2, <2>3, <2>4 DEF SchedStart, SchedStep, SchedWait, SchedNext, SchedEnd, SchedWaitFails,
                                        SchedCancel, SchedBuild
<1> QED BY <1>4, <1>5, <1>6, <1>7, <1>8, <1>9, <1>2 DEF Next, vars

-----------------------------------------------------------------------------
(***************************************************************************)
(* Every step keeps what a task wants within its room.                     *)
(***************************************************************************)
LEMMA WantNat ==
    ASSUME NEW h \in Handles, NEW k \in Slots, LifeFor(h), RunnerOK(h, k), OrdersOK, NEW C
    PROVE  WantOf(h, k, C) \in Nat
<1> DEFINE r == runner[<<h, k>>]
           o == orders[r.order]
<1>1. CASE r.at \in Ahead
  BY <1>1 DEF WantOf, RunnerOK, Ahead
<1>2. CASE r.at \in Placed
  <2>1. r.left \in Nat /\ r.order \in task[h].mine /\ o.volume <= r.left
    BY <1>2 DEF RunnerOK, Placed
  <2>2. OrderOK(o)
    BY <2>1 DEF LifeFor, OrdersOK
  <2>3. r.at \notin Ahead
    BY <1>2 DEF Ahead, Placed
  <2> HIDE DEF o, r
  <2>4. Remaining(r, o) \in Nat
    BY <2>1, <2>2 DEF OrderOK, Remaining, Filled
  <2> QED BY <1>2, <2>3, <2>4 DEF WantOf, r, o
<1>3. CASE r.at \notin Ahead \cup Placed
  BY <1>3 DEF WantOf
<1> QED BY <1>1, <1>2, <1>3

LEMMA RunnerStays ==
    ASSUME NEW h \in Handles, NEW k \in Slots, SameRunner(h, k), OrdersKeep, LifeFor(h), RunnerOK(h, k),
           task[h].mine \subseteq task'[h].mine
    PROVE  RunnerOK(h, k)' /\ \A C : WantOf(h, k, C)' = WantOf(h, k, C)
<1> DEFINE r == runner[<<h, k>>]
           q == runner'[<<h, k>>]
           o == orders[r.order]
           p == orders'[r.order]
<1>1. q.at = r.at /\ q.order = r.order /\ q.dir = r.dir /\ q.offset = r.offset /\ q.left = r.left
  BY DEF SameRunner
<1>2. r.at \in Placed => /\ r.order \in task'[h].mine
                         /\ p.dir = o.dir /\ p.offset = o.offset /\ p.volume = o.volume /\ p.left = o.left
  BY DEF RunnerOK, Placed, LifeFor, OrdersKeep
<1>3. RunnerOK(h, k)'
  <2>1. r.at # "off" =>
          /\ r.dir \in Dirs /\ r.offset \in Offsets /\ r.left \in Nat
          /\ r.at \in Placed => o.dir = r.dir /\ o.offset = r.offset /\ o.volume <= r.left
    BY DEF RunnerOK
  <2>2. RunnerOK(h, k)' <=>
          (q.at # "off" =>
             /\ q.dir \in Dirs /\ q.offset \in Offsets /\ q.left \in Nat
             /\ q.at \in Placed => /\ q.order \in task'[h].mine
                                   /\ orders'[q.order].dir = q.dir /\ orders'[q.order].offset = q.offset
                                   /\ orders'[q.order].volume <= q.left)
    BY DEF RunnerOK, Offsets, Dirs, Placed
  <2> HIDE DEF r, q, o
  <2> QED BY <1>1, <1>2, <2>1, <2>2
<1>4. ASSUME NEW C PROVE WantOf(h, k, C)' = WantOf(h, k, C)
  <2>1. WantOf(h, k, C)' = IF q.offset \notin C THEN 0
                           ELSE IF q.at \in Ahead THEN q.left
                           ELSE IF q.at \in Placed THEN Remaining(q, orders'[q.order]) ELSE 0
    BY DEF WantOf, Ahead, Placed, Remaining, Filled
  <2>2. WantOf(h, k, C) = IF r.offset \notin C THEN 0
                          ELSE IF r.at \in Ahead THEN r.left
                          ELSE IF r.at \in Placed THEN Remaining(r, o) ELSE 0
    BY DEF WantOf
  <2> HIDE DEF r, q, o
  <2>3. r.at \in Placed => Remaining(q, orders'[q.order]) = Remaining(r, o)
    BY <1>1, <1>2 DEF Remaining, Filled
  <2> QED BY <1>1, <2>1, <2>2, <2>3
<1> QED BY <1>3, <1>4

LEMMA RoomInt ==
    ASSUME pos \in Holdings, NEW dir, NEW goal \in Int, NEW C
    PROVE  Room(C, dir, goal) \in Int
BY HeldNat DEF Room, Signed

(* A task keeps to its aim as long as its runners want no more than before.   *)
LEMMA AimStays ==
    ASSUME NEW h \in Handles, LifeFor(h), Aims(h), pos \in Holdings, pos' = pos,
           task[h].req.volume \in Int, OrdersOK, \A k \in Slots : RunnerOK(h, k),
           \A k \in Slots : runner'[<<h, k>>].at # "off" =>
               runner[<<h, k>>].at # "off" /\ runner'[<<h, k>>].dir = runner[<<h, k>>].dir,
           \A k \in Slots : \A C \in Classes : WantOf(h, k, C)' \in Nat /\ WantOf(h, k, C)' <= WantOf(h, k, C),
           Planned(h)' => /\ Planned(h) /\ Rest(h)' = Rest(h) /\ task'[h].plan # <<>>
                          /\ task'[h].req = task[h].req
                          /\ \A dir \in Dirs : PlanOK(task[h].plan, dir) => PlanOK(task'[h].plan, dir)
    PROVE  Aims(h)'
<1> DEFINE goal == task[h].req.volume
           rest == Rest(h)
<1> SUFFICES ASSUME Planned(h)' PROVE \E dir \in Dirs : AimsAt(h, dir)'
  BY DEF Aims, Dirs
<1>1. PICK dir \in Dirs : AimsAt(h, dir)
  BY DEF Aims
<1>2. PlanOK(task'[h].plan, dir) /\ task'[h].plan # <<>>
  BY <1>1 DEF AimsAt
<1>3. \A k \in Slots : runner'[<<h, k>>].at # "off" => runner'[<<h, k>>].dir = dir
  BY <1>1 DEF AimsAt
<1>4. ASSUME NEW C \in Classes
      PROVE  Fits(Rest(h)', C, Room(C, dir, goal) - Wanted(h, C)', 0)
  <2>1. Fits(rest, C, Room(C, dir, goal) - Wanted(h, C), 0)
    BY <1>1 DEF AimsAt
  <2>2. rest \in Seq(Seq(OrderFor(dir)))
    <3>1. task[h].plan \in Seq(Seq(OrderFor(dir))) /\ task[h].plan # <<>>
      BY <1>1 DEF AimsAt, PlanOK
    <3>2. Tail(task[h].plan) \in Seq(Seq(OrderFor(dir)))
      BY <3>1
    <3> QED BY <3>1, <3>2 DEF Rest
  <2>3. Room(C, dir, goal) \in Int
    BY RoomInt
  <2>4. \A k \in Slots : WantOf(h, k, C) \in Nat
    BY WantNat
  <2>6. Wanted(h, C) \in Nat /\ Wanted(h, C)' \in Nat /\ Wanted(h, C)' <= Wanted(h, C)
    <3>1. 1 \in Slots /\ 2 \in Slots /\ 3 \in Slots
      BY DEF Slots
    <3>2. Wanted(h, C)' = WantOf(h, 1, C)' + WantOf(h, 2, C)' + WantOf(h, 3, C)'
      BY DEF Wanted
    <3> QED BY <2>4, <3>1, <3>2 DEF Wanted
  <2> DEFINE a == Room(C, dir, goal)
             v == Wanted(h, C)
             w == Wanted(h, C)'
  <2>7. a \in Int /\ v \in Nat /\ w \in Nat /\ w <= v /\ Fits(rest, C, a - v, 0)
    BY <2>1, <2>3, <2>6
  <2> HIDE DEF a, v, w, rest
  <2>8. a - v \in Int /\ a - w \in Int /\ a - v <= a - w
    BY <2>7
  <2>9. Fits(rest, C, a - w, 0)
    BY <2>2, <2>7, <2>8, FitsMore
  <2>10. Rest(h)' = rest
    BY DEF rest
  <2> QED BY <2>9, <2>10 DEF a, w
<1>5. \A C : Room(C, dir, task[h].req.volume)' = Room(C, dir, goal)
  BY DEF Room, All
<1>6. \A C \in Classes : Fits(Rest(h), C, Room(C, dir, task[h].req.volume) - Wanted(h, C), 0)'
  BY <1>4, <1>5 DEF Classes, All
<1> HIDE DEF goal, rest
<1> QED BY <1>2, <1>3, <1>6 DEF AimsAt, Classes, All

(* A task that a step does not touch keeps to its aim. *)
LEMMA OtherAims ==
    ASSUME NEW h \in Handles, LifeFor(h), Aimed, pos' = pos, OrdersKeep, PlansStay(h),
           \A k \in Slots : SameRunner(h, k)
    PROVE  Aims(h)' /\ \A k \in Slots : RunnerOK(h, k)'
<1>1. /\ pos \in Holdings /\ OrdersOK /\ task[h].req.volume \in Int /\ Aims(h)
      /\ \A k \in Slots : RunnerOK(h, k)
  BY DEF Aimed, CommandsOK, RunnersOK
<1>2. \A k \in Slots : RunnerOK(h, k)' /\ \A C : WantOf(h, k, C)' = WantOf(h, k, C)
  BY <1>1, RunnerStays DEF PlansStay
<1>3. \A k \in Slots : \A C \in Classes : WantOf(h, k, C)' \in Nat /\ WantOf(h, k, C)' <= WantOf(h, k, C)
  BY <1>1, <1>2, WantNat
<1>4. \A k \in Slots : runner'[<<h, k>>].at # "off" =>
          runner[<<h, k>>].at # "off" /\ runner'[<<h, k>>].dir = runner[<<h, k>>].dir
  BY DEF SameRunner
<1>5. Planned(h)' => /\ Planned(h) /\ Rest(h)' = Rest(h) /\ task'[h].plan # <<>>
                     /\ task'[h].req = task[h].req
                     /\ \A dir \in Dirs : PlanOK(task[h].plan, dir) => PlanOK(task'[h].plan, dir)
  <2> SUFFICES ASSUME Planned(h)' PROVE AsBefore(h) /\ Planned(h) /\ task[h].plan # <<>> /\ Rest(h)' = Rest(h)
    BY DEF AsBefore
  <2>1. AsBefore(h)
    BY DEF PlansStay
  <2>2. Planned(h)
    BY <2>1 DEF AsBefore, Planned
  <2>3. Rest(h)' = Rest(h)
    BY <2>1 DEF AsBefore, Rest
  <2> QED BY <1>1, <2>1, <2>2, <2>3 DEF Aims, AimsAt
<1>6. Aims(h)'
  BY <1>1, <1>3, <1>4, <1>5, AimStays
<1> QED BY <1>2, <1>6

LEMMA OrdersOKStay ==
    ASSUME OrdersOK, QuietOrders
    PROVE  OrdersOK'
BY DEF OrdersOK, OrderOK, QuietOrders, OrdersKeep, Offsets, Dirs

LEMMA QuietAimed ==
    ASSUME LifeInv, Aimed, CommandsOK', Quiet
    PROVE  Aimed'
<1>1. pos' \in Holdings /\ OrdersOK'
  BY OrdersOKStay DEF Aimed, Quiet
<1>2. \A h \in Handles : Aims(h)' /\ \A k \in Slots : RunnerOK(h, k)'
  BY OtherAims DEF Quiet, QuietOrders, QuietRunners, LifeInv
<1> QED BY <1>1, <1>2 DEF Aimed, RunnersOK, Holdings, Slots

(* A runner goes on: it wants what is left of an order, or nothing more. *)
LEMMA RunnerBecomesOne ==
    ASSUME FieldsOK, NEW h \in Handles, NEW k \in Slots, RunnerMoves(h, k),
           NEW r, r = runner[<<h, k>>], NEW o, o = orders[r.order]
    PROVE  \E q : /\ Becomes(h, k, q) /\ DOMAIN q = RunnerFields
                  /\ q.dir = r.dir /\ q.offset = r.offset /\ q.order = r.order /\ r.at # "off"
                  /\ q.left = r.left \/ (r.at \in Placed /\ q.left = Remaining(r, o))
                  /\ q.at \in Ahead => \/ r.at \in Ahead /\ q.left = r.left
                                       \/ r.at \in Placed /\ q.left = Remaining(r, o)
                  /\ q.at \in Placed => r.at \in Placed /\ q.left = r.left
<1> DEFINE Good(q) ==
                  /\ DOMAIN q = RunnerFields
                  /\ q.dir = r.dir /\ q.offset = r.offset /\ q.order = r.order /\ r.at # "off"
                  /\ q.left = r.left \/ (r.at \in Placed /\ q.left = Remaining(r, o))
                  /\ q.at \in Ahead => \/ r.at \in Ahead /\ q.left = r.left
                                       \/ r.at \in Placed /\ q.left = Remaining(r, o)
                  /\ q.at \in Placed => r.at \in Placed /\ q.left = r.left
<1>0. DOMAIN r = RunnerFields /\ runner[h, k] = r
  BY DEF FieldsOK
<1>1. CASE RunnerStart(h, k)
  <2>1. PICK q \in {[r EXCEPT !.at = "interrupted"], [r EXCEPT !.at = "insert"]} :
           r.at = "start" /\ Becomes(h, k, q)
    BY <1>0, <1>1 DEF RunnerStart, RunnerAt
  <2>2. Good(q)
    BY <1>0, <2>1 DEF RunnerFields, Ahead, Placed
  <2> QED BY <2>1, <2>2
<1>2. CASE RunnerLooks(h, k)
  <2> DEFINE left == Remaining(r, o)
             stops == Stop(h) /\ ~Over(o)
             q == IF ~Over(o) THEN [r EXCEPT !.at = "wait", !.tick = FALSE, !.saw = o.left,
                                         !.interrupted = @ \/ stops, !.repriced = @ \/ (stops /\ Alive(o))]
                  ELSE IF r.interrupted THEN [r EXCEPT !.at = "interrupted"]
                  ELSE IF o.left > 0 /\ ~r.repriced THEN [r EXCEPT !.at = "quote", !.tick = FALSE]
                  ELSE [r EXCEPT !.at = IF left = 0 THEN "completed" ELSE "start", !.left = left]
  <2>1. r.at = "look" /\ Becomes(h, k, q)
    BY <1>0, <1>2 DEF RunnerLooks, RunnerAt
  <2>2. Good(q)
    <3> DEFINE over == Over(o)
               priced == r.repriced \/ (stops /\ Alive(o))
               some == o.left > 0 /\ ~r.repriced
    <3>0. q = IF ~over THEN [r EXCEPT !.at = "wait", !.tick = FALSE, !.saw = o.left,
                                      !.interrupted = r.interrupted \/ stops, !.repriced = priced]
              ELSE IF r.interrupted THEN [r EXCEPT !.at = "interrupted"]
              ELSE IF some THEN [r EXCEPT !.at = "quote", !.tick = FALSE]
              ELSE [r EXCEPT !.at = IF left = 0 THEN "completed" ELSE "start", !.left = left]
      BY <1>0 DEF RunnerFields
    <3> HIDE DEF q, over, priced, some, stops
    <3>1. /\ DOMAIN q = RunnerFields
          /\ q.dir = r.dir /\ q.offset = r.offset /\ q.order = r.order
          /\ \/ q.at \in {"wait", "interrupted", "quote"} /\ q.left = r.left
             \/ q.at \in {"completed", "start"} /\ q.left = left
      <4> HIDE DEF left
      <4> QED BY <1>0, <3>0 DEF RunnerFields
    <3> QED BY <2>1, <3>1 DEF Ahead, Placed
  <2> HIDE DEF q
  <2> QED BY <2>1, <2>2
<1>3. CASE RunnerWakes(h, k)
  <2>1. PICK q \in {[r EXCEPT !.at = "look"], [r EXCEPT !.at = "look", !.repriced = TRUE]} :
           r.at = "wait" /\ Becomes(h, k, q)
    BY <1>0, <1>3 DEF RunnerWakes, RunnerAt
  <2>2. Good(q)
    BY <1>0, <2>1 DEF RunnerFields, Ahead, Placed
  <2> QED BY <2>1, <2>2
<1>4. CASE RunnerRetries(h, k)
  <2>1. PICK q \in {[r EXCEPT !.at = "interrupted"], [r EXCEPT !.at = "replan"], [r EXCEPT !.at = "error"],
                    [r EXCEPT !.at = "start", !.left = Remaining(r, o)]} :
           r.at = "quote" /\ Becomes(h, k, q)
    BY <1>0, <1>4 DEF RunnerRetries, RunnerAt
  <2>2. Good(q)
    <3>1. /\ DOMAIN q = RunnerFields
          /\ q.dir = r.dir /\ q.offset = r.offset /\ q.order = r.order
          /\ \/ q.at \in {"interrupted", "replan", "error"} /\ q.left = r.left
             \/ q.at = "start" /\ q.left = Remaining(r, o)
      BY <1>0, <2>1 DEF RunnerFields
    <3> QED BY <2>1, <3>1 DEF Ahead, Placed
  <2> QED BY <2>1, <2>2
<1>5. CASE RunnerFails(h, k)
  <2>1. PICK q : q = [r EXCEPT !.at = "error"]
    OBVIOUS
  <2>2. r.at \in {"insert", "look"} /\ Becomes(h, k, q)
    BY <1>0, <1>5, <2>1 DEF RunnerFails, RunnerAt
  <2>3. Good(q)
    BY <1>0, <2>1, <2>2 DEF RunnerFields, Ahead, Placed
  <2> QED BY <2>2, <2>3
<1> QED BY <1>1, <1>2, <1>3, <1>4, <1>5 DEF RunnerMoves

(* One runner changes, and wants no more than before. *)
LEMMA OneRunnerAims ==
    ASSUME LifeInv, Aimed, CommandsOK', NEW h \in Handles, NEW k \in Slots,
           pos' = pos, OrdersKeep, OrdersOK', RunnerOK(h, k)',
           \A C : WantOf(h, k, C)' \in Nat /\ WantOf(h, k, C)' <= WantOf(h, k, C),
           runner[<<h, k>>].at # "off", runner'[<<h, k>>].dir = runner[<<h, k>>].dir,
           \A g \in Handles, l \in Slots : g # h \/ l # k => runner'[<<g, l>>] = runner[<<g, l>>],
           \A g \in Handles : task[g].mine \subseteq task'[g].mine /\ AsBefore(g)
    PROVE  Aimed'
<1>1. ASSUME NEW g \in Handles, g # h PROVE Aims(g)' /\ \A l \in Slots : RunnerOK(g, l)'
  <2>1. \A l \in Slots : SameRunner(g, l)
    BY <1>1 DEF SameRunner
  <2> QED BY <1>1, <2>1, OtherAims DEF PlansStay, LifeInv
<1>2. /\ pos \in Holdings /\ OrdersOK /\ task[h].req.volume \in Int /\ Aims(h) /\ LifeFor(h)
      /\ \A l \in Slots : RunnerOK(h, l)
  BY DEF Aimed, CommandsOK, RunnersOK, LifeInv
<1>3. ASSUME NEW l \in Slots, l # k
      PROVE  RunnerOK(h, l)' /\ \A C : WantOf(h, l, C)' = WantOf(h, l, C)
  <2>1. SameRunner(h, l)
    BY <1>3 DEF SameRunner
  <2> QED BY <1>2, <2>1, RunnerStays
<1>4. \A l \in Slots : \A C \in Classes : WantOf(h, l, C)' \in Nat /\ WantOf(h, l, C)' <= WantOf(h, l, C)
  BY <1>2, <1>3, WantNat
<1>5. \A l \in Slots : runner'[<<h, l>>].at # "off" =>
          runner[<<h, l>>].at # "off" /\ runner'[<<h, l>>].dir = runner[<<h, l>>].dir
  OBVIOUS
<1>6. Planned(h)' => /\ Planned(h) /\ Rest(h)' = Rest(h) /\ task'[h].plan # <<>>
                     /\ task'[h].req = task[h].req
                     /\ \A dir \in Dirs : PlanOK(task[h].plan, dir) => PlanOK(task'[h].plan, dir)
  <2>1. AsBefore(h)
    OBVIOUS
  <2>2. Planned(h)' => Planned(h)
    BY <2>1 DEF AsBefore, Planned
  <2>3. Rest(h)' = Rest(h)
    BY <2>1 DEF AsBefore, Rest
  <2> QED BY <1>2, <2>1, <2>2, <2>3 DEF Aims, AimsAt, AsBefore
<1>7. Aims(h)'
  BY <1>2, <1>4, <1>5, <1>6, AimStays
<1>8. \A l \in Slots : RunnerOK(h, l)'
  BY <1>3
<1>9. pos' \in Holdings
  BY <1>2
<1> QED BY <1>1, <1>7, <1>8, <1>9 DEF Aimed, RunnersOK, Holdings, Slots

LEMMA RunnerAimed ==
    ASSUME FieldsOK, LifeInv, Aimed, CommandsOK', NEW h \in Handles, NEW k \in Slots, RunnerMoves(h, k)
    PROVE  Aimed'
<1> DEFINE r == runner[<<h, k>>]
           o == orders[r.order]
<1>0. LifeFor(h) /\ RunnerOK(h, k) /\ OrdersOK /\ pos \in Holdings
  BY DEF LifeInv, Aimed, RunnersOK
<1>1. PICK q : /\ Becomes(h, k, q) /\ DOMAIN q = RunnerFields
               /\ q.dir = r.dir /\ q.offset = r.offset /\ q.order = r.order /\ r.at # "off"
               /\ q.left = r.left \/ (r.at \in Placed /\ q.left = Remaining(r, o))
               /\ q.at \in Ahead => \/ r.at \in Ahead /\ q.left = r.left
                                    \/ r.at \in Placed /\ q.left = Remaining(r, o)
               /\ q.at \in Placed => r.at \in Placed /\ q.left = r.left
  BY RunnerBecomesOne
<1>2. /\ runner'[<<h, k>>] = q
      /\ \A g \in Handles, l \in Slots : g # h \/ l # k => runner'[<<g, l>>] = runner[<<g, l>>]
  BY <1>1, RunnerBecomes
<1>3. UNCHANGED <<task, pos>>
  BY DEF RunnerMoves, RunnerStart, RunnerLooks, RunnerWakes, RunnerRetries, RunnerFails
<1>4. QuietOrders
  <2>1. UNCHANGED orders \/ orders' = Cancelling({runner[h, k].order})
    BY DEF RunnerMoves, RunnerStart, RunnerLooks, RunnerWakes, RunnerRetries, RunnerFails
  <2> QED BY <2>1, OrdersQuiet
<1>5. OrdersOK' /\ OrdersKeep
  BY <1>0, <1>4, OrdersOKStay DEF QuietOrders
<1>6. /\ r.dir \in Dirs /\ r.offset \in Offsets /\ r.left \in Nat
      /\ r.at \in Placed =>
            /\ r.order \in task[h].mine /\ o.dir = r.dir /\ o.offset = r.offset /\ o.volume <= r.left
            /\ Remaining(r, o) \in Nat
            /\ orders'[r.order].dir = o.dir /\ orders'[r.order].offset = o.offset
            /\ orders'[r.order].volume = o.volume /\ orders'[r.order].left = o.left
  <2>1. /\ r.dir \in Dirs /\ r.offset \in Offsets /\ r.left \in Nat
        /\ r.at \in Placed => r.order \in task[h].mine /\ o.dir = r.dir /\ o.offset = r.offset /\ o.volume <= r.left
    BY <1>0, <1>1 DEF RunnerOK
  <2>2. ASSUME r.at \in Placed PROVE r.order \in DOMAIN orders /\ OrderOK(o)
    BY <1>0, <2>1, <2>2 DEF LifeFor, OrdersOK
  <2>3. ASSUME r.at \in Placed PROVE Remaining(r, o) \in Nat
    <3> HIDE DEF o, r
    <3> QED BY <2>1, <2>2, <2>3 DEF OrderOK, Remaining, Filled
  <2> QED BY <1>5, <2>1, <2>2, <2>3 DEF OrdersKeep
<1>7. RunnerOK(h, k)'
  <2>1. RunnerOK(h, k)' <=>
          (q.at # "off" =>
             /\ q.dir \in Dirs /\ q.offset \in Offsets /\ q.left \in Nat
             /\ q.at \in Placed => /\ q.order \in task[h].mine
                                   /\ orders'[q.order].dir = q.dir /\ orders'[q.order].offset = q.offset
                                   /\ orders'[q.order].volume <= q.left)
    BY <1>2, <1>3 DEF RunnerOK, Offsets, Dirs, Placed
  <2> HIDE DEF r, o
  <2> QED BY <1>1, <1>6, <2>1
<1>8. ASSUME NEW C PROVE WantOf(h, k, C)' \in Nat /\ WantOf(h, k, C)' <= WantOf(h, k, C)
  <2>1. WantOf(h, k, C)' = IF q.offset \notin C THEN 0
                           ELSE IF q.at \in Ahead THEN q.left
                           ELSE IF q.at \in Placed THEN Remaining(q, orders'[q.order]) ELSE 0
    BY <1>2 DEF WantOf, Ahead, Placed, Remaining, Filled
  <2>2. WantOf(h, k, C) = IF r.offset \notin C THEN 0
                          ELSE IF r.at \in Ahead THEN r.left
                          ELSE IF r.at \in Placed THEN Remaining(r, o) ELSE 0
    BY DEF WantOf
  <2>3. ~(r.at \in Ahead /\ r.at \in Placed)
    BY DEF Ahead, Placed
  <2> HIDE DEF r, o
  <2>4. q.at \in Placed => Remaining(q, orders'[q.order]) = Remaining(r, o)
    BY <1>1, <1>6 DEF Remaining, Filled
  <2>5. WantOf(h, k, C) \in Nat
    BY <1>0, WantNat
  <2> QED BY <1>1, <1>6, <2>1, <2>2, <2>3, <2>4, <2>5
<1>9. \A g \in Handles : task[g].mine \subseteq task'[g].mine /\ AsBefore(g)
  BY <1>3 DEF AsBefore
<1> QED BY <1>1, <1>2, <1>3, <1>5, <1>7, <1>8, <1>9, OneRunnerAims

(* An order is made of what a runner wants. *)
LEMMA InsertAimed ==
    ASSUME FieldsOK, LifeInv, Aimed, CommandsOK', NEW h \in Handles, NEW k \in Slots, RunnerInsert(h, k)
    PROVE  Aimed'
<1> DEFINE r == runner[<<h, k>>]
           i == Len(orders) + 1
           q == [r EXCEPT !.at = "look", !.order = i, !.repriced = FALSE, !.interrupted = FALSE]
<1>0. LifeFor(h) /\ RunnerOK(h, k) /\ OrdersOK /\ pos \in Holdings /\ DOMAIN r = RunnerFields /\ runner[h, k] = r
  BY DEF LifeInv, Aimed, RunnersOK, FieldsOK
<1>1. /\ r.at = "insert" /\ Becomes(h, k, q) /\ pos' = pos
      /\ task' = [task EXCEPT ![h].mine = @ \cup {i}]
  BY <1>0 DEF RunnerInsert, RunnerAt
<1>2. PICK refused : orders' = Append(orders, NewOrder(r, refused))
  <2>1. \E refused : orders' = Append(orders, NewOrder(r, refused))
    BY <1>0 DEF RunnerInsert
  <2> QED BY <2>1
<1> DEFINE o == NewOrder(r, refused)
<1>3. r.dir \in Dirs /\ r.offset \in Offsets /\ r.left \in Nat
  BY <1>0, <1>1 DEF RunnerOK
<1>4. OrderOK(o) /\ o.dir = r.dir /\ o.offset = r.offset /\ o.volume <= r.left /\ o.left = o.volume
  <2>1. MaxSplit \in Nat
    BY TargetPosAssumption
  <2> HIDE DEF r
  <2>2. Min({r.left, MaxSplit}) = IF r.left <= MaxSplit THEN r.left ELSE MaxSplit
    BY <1>3, <2>1, MinOfTwo
  <2>3. o.dir = r.dir /\ o.offset = r.offset /\ o.volume = Min({r.left, MaxSplit}) /\ o.left = o.volume
    BY DEF NewOrder
  <2> HIDE DEF o
  <2> QED BY <1>3, <2>1, <2>2, <2>3 DEF OrderOK
<1> HIDE DEF o
<1>5. /\ DOMAIN orders' = DOMAIN orders \cup {i} /\ orders'[i] = o
      /\ \A j \in DOMAIN orders : orders'[j] = orders[j]
  <2>1. orders' = Append(orders, o) /\ orders \in Seq(Range(orders))
    BY <1>2 DEF FieldsOK, o
  <2> QED BY <2>1
<1>6. OrdersKeep /\ OrdersOK'
  <2>1. \A j \in DOMAIN orders' : OrderOK(orders'[j])
    BY <1>0, <1>4, <1>5 DEF OrdersOK
  <2> QED BY <1>5, <2>1 DEF OrdersKeep, OrdersOK, OrderOK, Offsets, Dirs
<1>7. /\ DOMAIN q = RunnerFields /\ q.at = "look" /\ q.order = i /\ q.left = r.left /\ q.dir = r.dir
      /\ q.offset = r.offset
  BY <1>0 DEF RunnerFields
<1> HIDE DEF q, i
<1>8. /\ runner'[<<h, k>>] = q
      /\ \A g \in Handles, l \in Slots : g # h \/ l # k => runner'[<<g, l>>] = runner[<<g, l>>]
  BY <1>1, <1>7, RunnerBecomes
<1>9. /\ i \in task'[h].mine /\ \A g \in Handles : task[g].mine \subseteq task'[g].mine /\ AsBefore(g)
  <2>1. DOMAIN task = Handles /\ DOMAIN task[h] = TaskFields
    BY DEF FieldsOK
  <2> QED BY <1>1, <2>1 DEF TaskFields, AsBefore
<1>10. RunnerOK(h, k)'
  <2>1. RunnerOK(h, k)' <=>
          (q.at # "off" =>
             /\ q.dir \in Dirs /\ q.offset \in Offsets /\ q.left \in Nat
             /\ q.at \in Placed => /\ q.order \in task'[h].mine
                                   /\ orders'[q.order].dir = q.dir /\ orders'[q.order].offset = q.offset
                                   /\ orders'[q.order].volume <= q.left)
    BY <1>8 DEF RunnerOK, Offsets, Dirs, Placed
  <2> HIDE DEF r
  <2> QED BY <1>3, <1>4, <1>5, <1>7, <1>9, <2>1
<1>11. ASSUME NEW C PROVE WantOf(h, k, C)' \in Nat /\ WantOf(h, k, C)' <= WantOf(h, k, C)
  <2>1. WantOf(h, k, C)' = IF q.offset \notin C THEN 0
                           ELSE IF q.at \in Ahead THEN q.left
                           ELSE IF q.at \in Placed THEN Remaining(q, orders'[q.order]) ELSE 0
    BY <1>8 DEF WantOf, Ahead, Placed, Remaining, Filled
  <2>2. WantOf(h, k, C) = IF r.offset \notin C THEN 0 ELSE r.left
    BY <1>1 DEF WantOf, Ahead
  <2>3. q.at \notin Ahead /\ q.at \in Placed
    BY <1>7 DEF Ahead, Placed
  <2> HIDE DEF r
  <2>4. Remaining(q, orders'[q.order]) = r.left
    BY <1>3, <1>4, <1>5, <1>7 DEF Remaining, Filled, OrderOK
  <2> QED BY <1>3, <1>7, <2>1, <2>2, <2>3, <2>4
<1>12. r.at # "off" /\ runner'[<<h, k>>].dir = r.dir
  BY <1>1, <1>7, <1>8
<1> QED BY <1>1, <1>6, <1>8, <1>9, <1>10, <1>11, <1>12, OneRunnerAims

(* Who the current task is holds every order that is working. *)
LEMMA AliveHeld ==
    ASSUME ReportInv, AloneInv, OwnedInv, Sole, NEW i \in DOMAIN orders, Alive(orders[i])
    PROVE  \E g \in Handles : Registered(g) /\ task[g].at = "running" /\ i \in task[g].mine /\ Held(g, i)
<1>1. PICK g \in Handles : i \in task[g].mine
  BY DEF OwnedInv
<1>2. LifeFor(g) /\ HeldFor(g)
  BY DEF ReportInv, LifeInv, HeldInv, Sole
<1>3. Held(g, i)
  BY <1>1, <1>2 DEF HeldFor, Over
<1>4. task[g].at = "running"
  BY <1>2, <1>3 DEF Held, Busy, LifeFor
<1>5. Registered(g)
  BY <1>2, <1>4 DEF LifeFor, Registered, Working
<1> QED BY <1>1, <1>3, <1>4, <1>5

(* A batch has come to its end: its runners want no more. *)
LEMMA JoinAimed ==
    ASSUME FieldsOK, LifeInv, Aimed, CommandsOK', NEW h \in Handles, Join(h)
    PROVE  Aimed'
<1>1. UNCHANGED <<pos, orders>>
  BY DEF Join
<1>2. OrdersKeep /\ OrdersOK' /\ pos' \in Holdings
  BY <1>1 DEF OrdersKeep, Aimed, OrdersOK, OrderOK, Offsets, Dirs
<1>3. /\ Kept(h) /\ task[h].at = "running"
      /\ \A g \in Handles \ {h}, l \in Slots : runner'[<<g, l>>] = runner[<<g, l>>]
      /\ \A l \in Slots : runner'[<<h, l>>].at = "off"
  BY JoinEffect
<1>4. /\ task'[h].plan = Tail(task[h].plan) /\ task'[h].req = task[h].req
      /\ task'[h].at = "batch" => Tail(task[h].plan) # <<>>
      /\ task'[h].at # "running"
      /\ \A g \in Handles \ {h} : task'[g] = task[g]
  <2> DEFINE ends == {runner[h, k].at : k \in Slots}
             rest == Tail(task[h].plan)
             to == IF "error" \in ends THEN "end"
                   ELSE IF "interrupted" \in ends THEN "command"
                   ELSE IF "replan" \in ends \/ rest = <<>> THEN "drive" ELSE "batch"
             f == task[h].failed \/ "error" \in ends
  <2>1. DOMAIN task = Handles /\ DOMAIN task[h] = TaskFields
    BY DEF FieldsOK
  <2>2. task' = [task EXCEPT ![h].plan = rest, ![h].failed = @ \/ "error" \in ends, ![h].at = to]
    BY DEF Join
  <2>3. (to = "batch" => rest # <<>>) /\ to # "running"
    OBVIOUS
  <2> HIDE DEF to, rest, ends
  <2>4. task'[h].plan = rest /\ task'[h].req = task[h].req /\ task'[h].at = to
        /\ \A g \in Handles \ {h} : task'[g] = task[g]
    BY <2>1, <2>2 DEF TaskFields
  <2> QED BY <2>3, <2>4 DEF rest
<1>5. ASSUME NEW g \in Handles, g # h PROVE Aims(g)' /\ \A l \in Slots : RunnerOK(g, l)'
  <2>1. (\A l \in Slots : SameRunner(g, l)) /\ PlansStay(g)
    BY <1>3, <1>4, <1>5 DEF SameRunner, PlansStay, AsBefore
  <2> QED BY <1>1, <1>2, <2>1, OtherAims DEF LifeInv
<1>6. \A l \in Slots : RunnerOK(h, l)' /\ \A C : WantOf(h, l, C)' = 0
  BY <1>3 DEF RunnerOK, WantOf, Ahead, Placed
<1>7. /\ pos \in Holdings /\ OrdersOK /\ task[h].req.volume \in Int /\ Aims(h) /\ LifeFor(h)
      /\ \A l \in Slots : RunnerOK(h, l)
  BY DEF Aimed, CommandsOK, RunnersOK, LifeInv
<1>8. \A l \in Slots : \A C \in Classes : WantOf(h, l, C)' \in Nat /\ WantOf(h, l, C)' <= WantOf(h, l, C)
  BY <1>6, <1>7, WantNat
<1>9. Planned(h)' => /\ Planned(h) /\ Rest(h)' = Rest(h) /\ task'[h].plan # <<>>
                     /\ task'[h].req = task[h].req
                     /\ \A dir \in Dirs : PlanOK(task[h].plan, dir) => PlanOK(task'[h].plan, dir)
  <2> SUFFICES ASSUME Planned(h)'
               PROVE  /\ Planned(h) /\ Rest(h)' = Rest(h) /\ task'[h].plan # <<>>
                      /\ task'[h].req = task[h].req
                      /\ \A dir \in Dirs : PlanOK(task[h].plan, dir) => PlanOK(task'[h].plan, dir)
    OBVIOUS
  <2>1. task'[h].at = "batch" /\ Planned(h)
    BY <1>3, <1>4 DEF Planned
  <2>2. Rest(h)' = Rest(h)
    BY <1>3, <1>4, <2>1 DEF Rest
  <2>3. task[h].plan # <<>>
    BY <1>7, <2>1 DEF Aims, AimsAt
  <2>4. ASSUME NEW dir \in Dirs, PlanOK(task[h].plan, dir) PROVE PlanOK(task'[h].plan, dir)
    <3> DEFINE plan == task[h].plan
               S == Seq(OrderFor(dir))
    <3>1. plan \in Seq(S) /\ plan # <<>> /\ \A i \in DOMAIN plan : Len(plan[i]) <= 3
      BY <2>3, <2>4 DEF PlanOK
    <3>2. task'[h].plan = Tail(plan)
      BY <1>4
    <3> HIDE DEF plan, S
    <3>3. Tail(plan) \in Seq(S) /\ \A i \in DOMAIN Tail(plan) : i + 1 \in DOMAIN plan /\ Tail(plan)[i] = plan[i + 1]
      BY <3>1
    <3> QED BY <3>1, <3>2, <3>3 DEF PlanOK, S
  <2> QED BY <1>4, <2>1, <2>2, <2>4
<1>10. Aims(h)'
  <2>1. \A l \in Slots : runner'[<<h, l>>].at # "off" =>
          runner[<<h, l>>].at # "off" /\ runner'[<<h, l>>].dir = runner[<<h, l>>].dir
    BY <1>3
  <2> QED BY <1>1, <1>7, <1>8, <1>9, <2>1, AimStays
<1> QED BY <1>2, <1>5, <1>6, <1>10 DEF Aimed, RunnersOK, Holdings, Slots

(* A batch begins: its runners want what it trades. *)
LEMMA BatchAimed ==
    ASSUME FieldsOK, LifeInv, Aimed, CommandsOK', NEW h \in Handles, Batch(h), ~Stop(h)
    PROVE  Aimed'
<1> DEFINE plan == task[h].plan
           batch == Head(plan)
           goal == task[h].req.volume
<1>1. UNCHANGED <<pos, orders>>
  BY DEF Batch
<1>2. OrdersKeep /\ OrdersOK' /\ pos' \in Holdings
  BY <1>1 DEF OrdersKeep, Aimed, OrdersOK, OrderOK, Offsets, Dirs
<1>3. /\ task[h].at = "batch" /\ task'[h].at = "running"
      /\ \A g \in Handles \ {h}, l \in Slots : runner'[<<g, l>>] = runner[<<g, l>>]
  BY BatchEffect
<1>4. /\ task'[h].plan = plan /\ task'[h].req = task[h].req /\ task'[h].mine = task[h].mine
      /\ \A g \in Handles \ {h} : task'[g] = task[g]
  <2>1. DOMAIN task = Handles /\ DOMAIN task[h] = TaskFields
    BY DEF FieldsOK
  <2>2. task' = [task EXCEPT ![h].at = "running"]
    BY DEF Batch, Goto
  <2> QED BY <2>1, <2>2 DEF TaskFields
<1>5. ASSUME NEW g \in Handles, g # h PROVE Aims(g)' /\ \A l \in Slots : RunnerOK(g, l)'
  <2>1. (\A l \in Slots : SameRunner(g, l)) /\ PlansStay(g)
    BY <1>3, <1>4, <1>5 DEF SameRunner, PlansStay, AsBefore
  <2> QED BY <1>1, <1>2, <2>1, OtherAims DEF LifeInv
<1>6. /\ pos \in Holdings /\ OrdersOK /\ goal \in Int /\ Aims(h)
      /\ \A l \in Slots : runner[<<h, l>>].at = "off"
  BY <1>3 DEF Aimed, CommandsOK, LifeInv, LifeFor
<1>7. PICK dir \in Dirs : AimsAt(h, dir)
  BY <1>3, <1>6 DEF Aims, Planned
<1> DEFINE S == Seq(OrderFor(dir))
<1>8. plan \in Seq(S) /\ plan # <<>> /\ PlanOK(plan, dir) /\ batch \in S
  <2>1. plan \in Seq(S) /\ plan # <<>> /\ PlanOK(plan, dir)
    BY <1>7 DEF AimsAt, PlanOK
  <2> HIDE DEF S, plan
  <2> QED BY <2>1
<1>9. \A l \in Slots : runner'[<<h, l>>] =
        IF l \notin DOMAIN batch THEN runner[<<h, l>>]
        ELSE [NoRunner EXCEPT !.at = "start", !.dir = batch[l].dir, !.offset = batch[l].offset, !.left = batch[l].volume]
  <2>1. runner' = [k \in DOMAIN runner |->
                    IF k[1] # h \/ k[2] \notin DOMAIN batch THEN runner[k]
                    ELSE [NoRunner EXCEPT !.at = "start", !.dir = batch[k[2]].dir,
                                          !.offset = batch[k[2]].offset, !.left = batch[k[2]].volume]]
    BY DEF Batch
  <2>2. DOMAIN runner = Handles \X Slots
    BY DEF FieldsOK
  <2> HIDE DEF batch
  <2> QED BY <2>1, <2>2
<1>10. ASSUME NEW l \in Slots
       PROVE  /\ l \notin DOMAIN batch => runner'[<<h, l>>].at = "off"
              /\ l \in DOMAIN batch =>
                    /\ batch[l] \in OrderFor(dir)
                    /\ runner'[<<h, l>>].at = "start" /\ runner'[<<h, l>>].dir = dir
                    /\ runner'[<<h, l>>].offset = batch[l].offset /\ runner'[<<h, l>>].left = batch[l].volume
                    /\ batch[l].offset \in Offsets /\ batch[l].volume \in Nat
  <2>1. CASE l \notin DOMAIN batch
    BY <1>6, <1>9, <2>1
  <2>2. CASE l \in DOMAIN batch
    <3>1. batch[l] \in OrderFor(dir)
      BY <1>8, <2>2
    <3>2. batch[l].dir = dir /\ batch[l].offset \in Offsets /\ batch[l].volume \in Nat
      BY <3>1 DEF OrderFor
    <3>3. runner'[<<h, l>>] = [NoRunner EXCEPT !.at = "start", !.dir = batch[l].dir, !.offset = batch[l].offset,
                                               !.left = batch[l].volume]
      BY <1>9, <2>2
    <3> HIDE DEF batch
    <3> QED BY <2>2, <3>1, <3>2, <3>3 DEF NoRunner
  <2> QED BY <2>1, <2>2
<1> HIDE DEF batch
<1>11. \A l \in Slots : RunnerOK(h, l)'
  <2> SUFFICES ASSUME NEW l \in Slots PROVE RunnerOK(h, l)'
    OBVIOUS
  <2> QED BY <1>10 DEF RunnerOK, Placed, Offsets, Dirs
<1>12. \A l \in Slots, C \in Classes : WantOf(h, l, C)' = VolumeOf(batch, l, C)
  <2> SUFFICES ASSUME NEW l \in Slots, NEW C \in Classes PROVE WantOf(h, l, C)' = VolumeOf(batch, l, C)
    OBVIOUS
  <2> QED BY <1>10 DEF WantOf, VolumeOf, Ahead, Placed
<1>13. \A l \in Slots, C \in Classes : WantOf(h, l, C) = 0
  BY <1>6 DEF WantOf, Ahead, Placed
<1>14. ASSUME NEW C \in Classes
       PROVE  Fits(Rest(h)', C, Room(C, dir, goal) - Wanted(h, C)', 0)
  <2>0. 1 \in Slots /\ 2 \in Slots /\ 3 \in Slots
    BY DEF Slots
  <2>1. Wanted(h, C) = 0
    BY <1>13, <2>0 DEF Wanted
  <2>2. Wanted(h, C)' = BatchVolume(batch, C)
    <3>1. Wanted(h, C)' = WantOf(h, 1, C)' + WantOf(h, 2, C)' + WantOf(h, 3, C)'
      BY DEF Wanted
    <3> QED BY <1>12, <2>0, <3>1 DEF BatchVolume
  <2>3. Fits(plan, C, Room(C, dir, goal) - 0, 0)
    BY <1>3, <1>7, <2>1 DEF AimsAt, Rest
  <2>4. Room(C, dir, goal) \in Int
    BY <1>6, RoomInt
  <2>5. BatchVolume(batch, C) \in Nat
    BY <1>8, BatchVolumeNat
  <2> DEFINE a == Room(C, dir, goal)
  <2>6. a \in Int /\ Fits(plan, C, a, 0)
    BY <2>3, <2>4
  <2> HIDE DEF a, S, plan
  <2>7. Fits(Tail(plan), C, a - BatchVolume(Head(plan), C), 0)
    BY <1>8, <2>5, <2>6, FitsTail DEF batch
  <2>8. Rest(h)' = Tail(plan)
    BY <1>3, <1>4 DEF Rest, plan
  <2> QED BY <2>2, <2>7, <2>8 DEF a, batch
<1>15. Aims(h)'
  <2>1. \A C : Room(C, dir, task[h].req.volume)' = Room(C, dir, goal)
    BY <1>1, <1>4 DEF Room, All
  <2>2. \A C \in Classes : Fits(Rest(h), C, Room(C, dir, task[h].req.volume) - Wanted(h, C), 0)'
    BY <1>14, <2>1 DEF Classes, All
  <2>3. PlanOK(task'[h].plan, dir) /\ task'[h].plan # <<>>
    BY <1>4, <1>8
  <2>4. \A k \in Slots : runner'[<<h, k>>].at # "off" => runner'[<<h, k>>].dir = dir
    BY <1>10
  <2> HIDE DEF goal, plan, S
  <2>5. AimsAt(h, dir)'
    BY <2>2, <2>3, <2>4 DEF AimsAt, Classes, All
  <2> QED BY <2>5 DEF Aims, Dirs
<1> QED BY <1>2, <1>5, <1>11, <1>15 DEF Aimed, RunnersOK, Holdings, Slots

(* A plan is made while nobody has an order working. *)
LEMMA DriveAimed ==
    ASSUME ReportInv, AloneInv, OwnedInv, Sole, Aimed, CommandsOK', NEW h \in Handles, Plans(h)
    PROVE  Aimed'
<1> DEFINE goal == task[h].req.volume
           plan == Plan(goal)
<1>0. FieldsOK /\ LifeInv /\ LifeFor(h)
  BY DEF ReportInv, LifeInv
<1>1. UNCHANGED <<pos, orders, runner>> /\ task[h].at = "drive" /\ plan # <<>>
      /\ task' = [task EXCEPT ![h].at = "batch", ![h].plan = plan]
  BY DEF Plans, Drive
<1>2. OrdersKeep /\ OrdersOK' /\ pos' \in Holdings
  BY <1>1 DEF OrdersKeep, Aimed, OrdersOK, OrderOK, Offsets, Dirs
<1>3. /\ task'[h].at = "batch" /\ task'[h].plan = plan /\ task'[h].req = task[h].req
      /\ task'[h].mine = task[h].mine
      /\ \A g \in Handles \ {h} : task'[g] = task[g]
  <2>1. DOMAIN task = Handles /\ DOMAIN task[h] = TaskFields
    BY <1>0 DEF FieldsOK
  <2> HIDE DEF plan
  <2> QED BY <1>1, <2>1 DEF TaskFields
<1>4. ASSUME NEW g \in Handles, g # h PROVE Aims(g)' /\ \A l \in Slots : RunnerOK(g, l)'
  <2>1. (\A l \in Slots : SameRunner(g, l)) /\ PlansStay(g)
    BY <1>1, <1>3, <1>4 DEF SameRunner, PlansStay, AsBefore
  <2> QED BY <1>0, <1>1, <1>2, <2>1, OtherAims DEF LifeInv
<1>5. \A l \in Slots : runner[<<h, l>>].at = "off"
  BY <1>0, <1>1 DEF LifeFor
<1>6. (\A l \in Slots : RunnerOK(h, l)') /\ \A l \in Slots, C \in Classes : WantOf(h, l, C)' = 0
  BY <1>1, <1>5 DEF RunnerOK, WantOf, Ahead, Placed
<1>7. Idle0
  <2> SUFFICES ASSUME NEW i \in DOMAIN orders, Alive(orders[i]) PROVE FALSE
    BY DEF Idle0
  <2>1. PICK g \in Handles : Registered(g) /\ task[g].at = "running"
    BY AliveHeld
  <2>2. Registered(h)
    BY <1>0, <1>1 DEF LifeFor, Registered, Working
  <2>3. g = h
    BY <2>1, <2>2, OnlyOne
  <2> QED BY <1>1, <2>1, <2>3
<1>8. pos \in Holdings /\ goal \in Int
  BY DEF Aimed, CommandsOK
<1>9. PICK dir \in Dirs : Signed(dir, goal - Net(pos)) \in Nat
  <2>1. Net(pos) \in Int
    BY <1>8, HeldNat
  <2>2. Signed("BUY", goal - Net(pos)) \in Nat \/ Signed("SELL", goal - Net(pos)) \in Nat
    BY <1>8, <2>1 DEF Signed
  <2> QED BY <2>2 DEF Dirs
<1>10. PlanOK(plan, dir) /\ \A C \in Classes : Fits(plan, C, Room(C, dir, goal), 0)
  BY <1>7, <1>8, <1>9, PlanIsOK
<1>11. ASSUME NEW C \in Classes PROVE Fits(Rest(h)', C, Room(C, dir, goal) - Wanted(h, C)', 0)
  <2>0. 1 \in Slots /\ 2 \in Slots /\ 3 \in Slots
    BY DEF Slots
  <2>1. Wanted(h, C)' = 0
    <3>1. Wanted(h, C)' = WantOf(h, 1, C)' + WantOf(h, 2, C)' + WantOf(h, 3, C)'
      BY DEF Wanted
    <3> QED BY <1>6, <2>0, <3>1
  <2>2. Rest(h)' = plan
    BY <1>3 DEF Rest
  <2>3. Room(C, dir, goal) \in Int
    BY <1>8, RoomInt
  <2> DEFINE a == Room(C, dir, goal)
  <2>4. a - 0 = a /\ Fits(plan, C, a, 0)
    BY <1>10, <2>3
  <2> HIDE DEF a, plan
  <2> QED BY <2>1, <2>2, <2>4 DEF a
<1>12. Aims(h)'
  <2>1. \A C : Room(C, dir, task[h].req.volume)' = Room(C, dir, goal)
    BY <1>1, <1>3 DEF Room, All
  <2>2. \A C \in Classes : Fits(Rest(h), C, Room(C, dir, task[h].req.volume) - Wanted(h, C), 0)'
    <3> HIDE DEF goal
    <3> QED BY <1>11, <2>1 DEF Classes, All
  <2>3. PlanOK(task'[h].plan, dir) /\ task'[h].plan # <<>>
    BY <1>1, <1>3, <1>10
  <2>4. \A k \in Slots : runner'[<<h, k>>].at # "off" => runner'[<<h, k>>].dir = dir
    BY <1>1, <1>5
  <2> HIDE DEF goal, plan
  <2>5. AimsAt(h, dir)'
    BY <2>2, <2>3, <2>4 DEF AimsAt, Classes, All
  <2> QED BY <1>9, <2>5 DEF Aims, Dirs
<1> QED BY <1>2, <1>4, <1>6, <1>12 DEF Aimed, RunnersOK, Holdings, Slots

LEMMA ClassesDiffer == All # {"CLOSE"} /\ All # {"CLOSETODAY"} /\ {"CLOSE"} # {"CLOSETODAY"}
<1>1. "OPEN" \in All /\ "OPEN" \notin {"CLOSE"} /\ "OPEN" \notin {"CLOSETODAY"}
  BY DEF All
<1>2. "CLOSE" \in {"CLOSE"} /\ "CLOSE" \notin {"CLOSETODAY"}
  OBVIOUS
<1> QED BY <1>1, <1>2

(* What is traded comes out of the room of every class that it belongs to. *)
LEMMA TradedFits ==
    ASSUME pos \in Holdings, NEW dir \in Dirs, NEW o, o.dir = dir, o.offset \in Offsets, NEW v \in Nat, NEW goal \in Int,
           \A C \in Classes : o.offset \in C => v <= Room(C, dir, goal),
           pos' = Traded(pos, o, v)
    PROVE  /\ pos' \in Holdings
           /\ \A C \in Classes :
                 Room(C, dir, goal)' = Room(C, dir, goal) - (IF o.offset \in C THEN v ELSE 0)
<1> DEFINE lt == pos.longToday
           lh == pos.longHis
           st == pos.shortToday
           sh == pos.shortHis
           heldToday == IF dir = "BUY" THEN st ELSE lt
           heldHis == IF dir = "BUY" THEN sh ELSE lh
           net(a, b, c, d) == a + b - c - d
           room(C, a, b, c, d) ==
               IF C = All THEN Signed(dir, goal - net(a, b, c, d))
               ELSE IF ~ShfeRules THEN (IF dir = "BUY" THEN c ELSE a) + (IF dir = "BUY" THEN d ELSE b)
               ELSE IF C = {"CLOSE"} THEN (IF dir = "BUY" THEN d ELSE b) ELSE (IF dir = "BUY" THEN c ELSE a)
<1>1. /\ lt \in Nat /\ lh \in Nat /\ st \in Nat /\ sh \in Nat
      /\ pos = [longToday |-> lt, longHis |-> lh, shortToday |-> st, shortHis |-> sh]
  BY DEF Holdings
<1>2. HeldToday(pos, dir) = heldToday /\ HeldHis(pos, dir) = heldHis
  BY DEF HeldToday, HeldHis
<1>3. ASSUME NEW a \in Nat, NEW b \in Nat, NEW c \in Nat, NEW d \in Nat,
             pos' = [longToday |-> a, longHis |-> b, shortToday |-> c, shortHis |-> d],
             \A C \in Classes : room(C, a, b, c, d) = room(C, lt, lh, st, sh) - (IF o.offset \in C THEN v ELSE 0)
      PROVE  /\ pos' \in Holdings
             /\ \A C \in Classes :
                   Room(C, dir, goal)' = Room(C, dir, goal) - (IF o.offset \in C THEN v ELSE 0)
  <2>1. pos' \in Holdings
    BY <1>3 DEF Holdings
  <2>2. pos'.longToday = a /\ pos'.longHis = b /\ pos'.shortToday = c /\ pos'.shortHis = d
    BY <1>3
  <2>3. \A C : Room(C, dir, goal)' = room(C, a, b, c, d)
    BY <2>2 DEF Room, All, HeldToday, HeldHis, Net, Signed
  <2>4. \A C : Room(C, dir, goal) = room(C, lt, lh, st, sh)
    BY DEF Room, HeldToday, HeldHis, Net
  <2> HIDE DEF room, lt, lh, st, sh
  <2> QED BY <1>3, <2>1, <2>3, <2>4
<1>4. Classes \subseteq {All, {"CLOSE"}, {"CLOSETODAY"}} /\ (~ShfeRules => Classes = {All, {"CLOSE"}})
      /\ All \in Classes /\ {"CLOSE"} \in Classes /\ (ShfeRules => {"CLOSETODAY"} \in Classes)
      /\ o.offset \in {"OPEN", "CLOSE", "CLOSETODAY"} /\ (~ShfeRules => o.offset # "CLOSETODAY")
      /\ o.offset \in All
  BY DEF Classes, Offsets, All
<1>5. CASE o.offset = "OPEN"
  <2>1. CASE dir = "BUY"
    <3>1. pos' = [longToday |-> lt + v, longHis |-> lh, shortToday |-> st, shortHis |-> sh]
      BY <1>1, <1>5, <2>1 DEF Traded
    <3> HIDE DEF lt, lh, st, sh
    <3>2. \A C \in Classes : room(C, lt + v, lh, st, sh) = room(C, lt, lh, st, sh) - (IF o.offset \in C THEN v ELSE 0)
      <4> SUFFICES ASSUME NEW C \in Classes
                   PROVE  room(C, lt + v, lh, st, sh) = room(C, lt, lh, st, sh) - (IF o.offset \in C THEN v ELSE 0)
        OBVIOUS
      <4>1. CASE C = All
        BY <1>1, <1>4, <2>1, <4>1 DEF Signed
      <4>2. CASE C # All
        <5>1. o.offset \notin C
          BY <1>4, <1>5, <4>2
        <5> QED BY <1>1, <2>1, <4>2, <5>1
      <4> QED BY <4>1, <4>2
    <3>3. lt + v \in Nat
      BY <1>1
    <3> HIDE DEF room
    <3> QED BY <1>1, <1>3, <3>1, <3>2, <3>3
  <2>2. CASE dir # "BUY"
    <3>1. pos' = [longToday |-> lt, longHis |-> lh, shortToday |-> st + v, shortHis |-> sh]
      BY <1>1, <1>5, <2>2 DEF Traded
    <3> HIDE DEF lt, lh, st, sh
    <3>2. \A C \in Classes : room(C, lt, lh, st + v, sh) = room(C, lt, lh, st, sh) - (IF o.offset \in C THEN v ELSE 0)
      <4> SUFFICES ASSUME NEW C \in Classes
                   PROVE  room(C, lt, lh, st + v, sh) = room(C, lt, lh, st, sh) - (IF o.offset \in C THEN v ELSE 0)
        OBVIOUS
      <4>1. CASE C = All
        BY <1>1, <1>4, <2>2, <4>1 DEF Signed
      <4>2. CASE C # All
        <5>1. o.offset \notin C
          BY <1>4, <1>5, <4>2
        <5> QED BY <1>1, <2>2, <4>2, <5>1
      <4> QED BY <4>1, <4>2
    <3>3. st + v \in Nat
      BY <1>1
    <3> HIDE DEF room
    <3> QED BY <1>1, <1>3, <3>1, <3>2, <3>3
  <2> QED BY <2>1, <2>2
<1>6. CASE o.offset # "OPEN"
  <2> DEFINE his == IF ShfeRules THEN IF o.offset = "CLOSE" THEN v ELSE 0 ELSE Min({heldHis, v})
             today == v - his
  <2>1. heldToday \in Nat /\ heldHis \in Nat
    BY <1>1
  <2>2. Min({heldHis, v}) = IF heldHis <= v THEN heldHis ELSE v
    <3> HIDE DEF heldHis
    <3> QED BY <2>1, MinOfTwo
  <2>3. ShfeRules => v <= (IF o.offset = "CLOSE" THEN heldHis ELSE heldToday)
    <3>1. Room({"CLOSE"}, dir, goal) = IF ShfeRules THEN heldHis ELSE heldToday + heldHis
      BY <1>2, ClassesDiffer DEF Room
    <3>2. ShfeRules => Room({"CLOSETODAY"}, dir, goal) = heldToday
      BY <1>2, ClassesDiffer DEF Room
    <3> HIDE DEF heldToday, heldHis
    <3> QED BY <1>4, <1>6, <3>1, <3>2
  <2>4. ~ShfeRules => v <= heldToday + heldHis
    <3>1. Room({"CLOSE"}, dir, goal) = IF ShfeRules THEN heldHis ELSE heldToday + heldHis
      BY <1>2, ClassesDiffer DEF Room
    <3> HIDE DEF heldToday, heldHis
    <3> QED BY <1>4, <1>6, <3>1
  <2>5. /\ his \in Nat /\ today \in Nat /\ his + today = v /\ his <= heldHis /\ today <= heldToday
        /\ ShfeRules => his = (IF o.offset = "CLOSE" THEN v ELSE 0)
    <3> HIDE DEF heldToday, heldHis
    <3> QED BY <2>1, <2>2, <2>3, <2>4
  <2>6. pos' = IF dir = "BUY" THEN [pos EXCEPT !.shortToday = @ - today, !.shortHis = @ - his]
               ELSE [pos EXCEPT !.longToday = @ - today, !.longHis = @ - his]
    BY <1>2, <1>6 DEF Traded
  <2> HIDE DEF his, today
  <2>7. CASE dir = "BUY"
    <3>1. pos' = [longToday |-> lt, longHis |-> lh, shortToday |-> st - today, shortHis |-> sh - his]
      BY <1>1, <2>6, <2>7
    <3>2. today <= st /\ his <= sh
      BY <2>5, <2>7
    <3> HIDE DEF lt, lh, st, sh
    <3>3. \A C \in Classes : room(C, lt, lh, st - today, sh - his)
                               = room(C, lt, lh, st, sh) - (IF o.offset \in C THEN v ELSE 0)
      <4> SUFFICES ASSUME NEW C \in Classes
                   PROVE  room(C, lt, lh, st - today, sh - his)
                            = room(C, lt, lh, st, sh) - (IF o.offset \in C THEN v ELSE 0)
        OBVIOUS
      <4>1. CASE C = All
        <5>1. o.offset \in C
          BY <1>4, <4>1
        <5>2. goal - (lt + lh - (st - today) - (sh - his)) = goal - (lt + lh - st - sh) - v
          BY <1>1, <2>5
        <5> QED BY <1>1, <2>5, <2>7, <4>1, <5>1, <5>2 DEF Signed
      <4>2. CASE C # All /\ ~ShfeRules
        <5>1. o.offset \in C
          BY <1>4, <1>6, <4>2
        <5> QED BY <1>1, <2>5, <2>7, <4>2, <5>1
      <4>3. CASE C = {"CLOSE"} /\ ShfeRules
        <5>1. o.offset \in C <=> o.offset = "CLOSE"
          BY <4>3
        <5> QED BY <1>1, <2>5, <2>7, <4>3, <5>1, ClassesDiffer
      <4>4. CASE C = {"CLOSETODAY"} /\ ShfeRules
        <5>1. o.offset \in C <=> o.offset # "CLOSE"
          BY <1>4, <1>6, <4>4
        <5> QED BY <1>1, <2>5, <2>7, <4>4, <5>1, ClassesDiffer
      <4> QED BY <1>4, <4>1, <4>2, <4>3, <4>4
    <3>4. st - today \in Nat /\ sh - his \in Nat
      BY <1>1, <2>5, <3>2
    <3> HIDE DEF room
    <3> QED BY <1>1, <1>3, <3>1, <3>3, <3>4
  <2>8. CASE dir # "BUY"
    <3>1. pos' = [longToday |-> lt - today, longHis |-> lh - his, shortToday |-> st, shortHis |-> sh]
      BY <1>1, <2>6, <2>8
    <3>2. today <= lt /\ his <= lh
      BY <2>5, <2>8
    <3> HIDE DEF lt, lh, st, sh
    <3>3. \A C \in Classes : room(C, lt - today, lh - his, st, sh)
                               = room(C, lt, lh, st, sh) - (IF o.offset \in C THEN v ELSE 0)
      <4> SUFFICES ASSUME NEW C \in Classes
                   PROVE  room(C, lt - today, lh - his, st, sh)
                            = room(C, lt, lh, st, sh) - (IF o.offset \in C THEN v ELSE 0)
        OBVIOUS
      <4>1. CASE C = All
        <5>1. o.offset \in C
          BY <1>4, <4>1
        <5>2. -(goal - ((lt - today) + (lh - his) - st - sh)) = -(goal - (lt + lh - st - sh)) - v
          BY <1>1, <2>5
        <5> QED BY <1>1, <2>5, <2>8, <4>1, <5>1, <5>2 DEF Signed
      <4>2. CASE C # All /\ ~ShfeRules
        <5>1. o.offset \in C
          BY <1>4, <1>6, <4>2
        <5> QED BY <1>1, <2>5, <2>8, <4>2, <5>1
      <4>3. CASE C = {"CLOSE"} /\ ShfeRules
        <5>1. o.offset \in C <=> o.offset = "CLOSE"
          BY <4>3
        <5> QED BY <1>1, <2>5, <2>8, <4>3, <5>1, ClassesDiffer
      <4>4. CASE C = {"CLOSETODAY"} /\ ShfeRules
        <5>1. o.offset \in C <=> o.offset # "CLOSE"
          BY <1>4, <1>6, <4>4
        <5> QED BY <1>1, <2>5, <2>8, <4>4, <5>1, ClassesDiffer
      <4> QED BY <1>4, <4>1, <4>2, <4>3, <4>4
    <3>4. lt - today \in Nat /\ lh - his \in Nat
      BY <1>1, <2>5, <3>2
    <3> HIDE DEF room
    <3> QED BY <1>1, <1>3, <3>1, <3>3, <3>4
  <2> QED BY <2>7, <2>8
<1> QED BY <1>5, <1>6

(* A fill takes as much of what is wanted as of the room. *)
LEMMA FillAimed ==
    ASSUME ReportInv, AloneInv, OwnedInv, Sole, Aimed, CommandsOK', NEW i \in DOMAIN orders, Fill(i)
    PROVE  Aimed'
<1> DEFINE o == orders[i]
<1>0. /\ FieldsOK /\ LifeInv /\ pos \in Holdings /\ OrdersOK /\ DOMAIN o = OrderFields /\ OrderOK(o)
      /\ \A h \in Handles : task[h].req.volume \in Int /\ \A l \in Slots : RunnerOK(h, l)
  BY DEF ReportInv, Aimed, CommandsOK, RunnersOK, FieldsOK, OrdersOK
<1>1. UNCHANGED <<task, runner>> /\ Alive(o)
  BY DEF Fill
<1>2. PICK v \in 1 .. o.left :
         /\ pos' = Traded(pos, o, v)
         /\ orders' = [orders EXCEPT ![i].left = @ - v,
                                     ![i].status = IF o.left = v THEN "finished" ELSE @]
  BY DEF Fill
<1>3. /\ DOMAIN orders' = DOMAIN orders /\ \A j \in DOMAIN orders : j # i => orders'[j] = orders[j]
      /\ orders'[i].dir = o.dir /\ orders'[i].offset = o.offset /\ orders'[i].volume = o.volume
      /\ orders'[i].left = o.left - v
  BY <1>0, <1>2 DEF OrderFields
<1>4. v \in Nat /\ v <= o.left /\ o.left <= o.volume /\ o.volume \in Nat /\ o.left \in Nat
  BY <1>0, <1>2 DEF OrderOK
<1>5. OrdersOK'
  <2>1. OrderOK(orders'[i])
    <3> HIDE DEF o
    <3> QED BY <1>0, <1>3, <1>4 DEF OrderOK
  <2>2. \A j \in DOMAIN orders' : OrderOK(orders'[j])
    BY <1>0, <1>3, <2>1 DEF OrdersOK
  <2> QED BY <2>2 DEF OrdersOK, OrderOK, Offsets, Dirs
<1>6. PICK g \in Handles : Registered(g) /\ task[g].at = "running" /\ i \in task[g].mine /\ Held(g, i)
  BY <1>1, AliveHeld
<1>7. PICK k \in Slots : runner[<<g, k>>].at \in Placed /\ runner[<<g, k>>].order = i
  BY <1>6 DEF Held, Busy, Placed
<1> DEFINE goal == task[g].req.volume
           rest == Rest(g)
<1>8. PICK dir \in Dirs : AimsAt(g, dir)
  BY <1>6 DEF Aimed, Aims, Planned
<1>9. o.dir = dir /\ o.offset \in Offsets /\ o.offset = runner[<<g, k>>].offset /\ o.volume <= runner[<<g, k>>].left
      /\ runner[<<g, k>>].left \in Nat
  BY <1>0, <1>7, <1>8 DEF AimsAt, RunnerOK, Placed
<1> DEFINE less(C) == IF o.offset \in C THEN v ELSE 0
(* What each of its runners wants. *)
<1>10. ASSUME NEW l \in Slots, NEW C
       PROVE  /\ WantOf(g, l, C) \in Nat /\ WantOf(g, l, C)' \in Nat /\ WantOf(g, l, C)' <= WantOf(g, l, C)
              /\ l = k => WantOf(g, l, C)' + less(C) <= WantOf(g, l, C)
  <2> DEFINE r == runner[<<g, l>>]
             p == orders[r.order]
  <2>1. LifeFor(g) /\ RunnerOK(g, l)
    BY <1>0 DEF LifeInv
  <2>2. WantOf(g, l, C) \in Nat
    BY <1>0, <2>1, WantNat
  <2>3. WantOf(g, l, C) = IF r.offset \notin C THEN 0
                          ELSE IF r.at \in Ahead THEN r.left
                          ELSE IF r.at \in Placed THEN Remaining(r, p) ELSE 0
    BY DEF WantOf
  <2>4. WantOf(g, l, C)' = IF r.offset \notin C THEN 0
                           ELSE IF r.at \in Ahead THEN r.left
                           ELSE IF r.at \in Placed THEN Remaining(r, orders'[r.order]) ELSE 0
    BY <1>1 DEF WantOf, Ahead, Placed, Remaining, Filled
  <2>5. r.at \in Placed => /\ r.order \in DOMAIN orders /\ p.volume <= r.left /\ r.left \in Nat /\ OrderOK(p)
                           /\ r.at \notin Ahead
    BY <1>0, <2>1 DEF RunnerOK, Placed, Ahead, LifeFor, OrdersOK
  <2>6. r.at \in Placed => /\ Remaining(r, orders'[r.order]) = Remaining(r, p) - (IF r.order = i THEN v ELSE 0)
                           /\ Remaining(r, orders'[r.order]) \in Nat
    <3> SUFFICES ASSUME r.at \in Placed
                 PROVE  /\ Remaining(r, orders'[r.order]) = Remaining(r, p) - (IF r.order = i THEN v ELSE 0)
                        /\ Remaining(r, orders'[r.order]) \in Nat
      OBVIOUS
    <3>1. CASE r.order = i
      <4>1. p = o
        BY <3>1
      <4> HIDE DEF r, p, o
      <4> QED BY <1>3, <1>4, <2>5, <3>1, <4>1 DEF Remaining, Filled
    <3>2. CASE r.order # i
      <4>1. orders'[r.order] = p
        BY <1>3, <2>5, <3>2
      <4> HIDE DEF r, p
      <4> QED BY <2>5, <3>2, <4>1 DEF Remaining, Filled, OrderOK
    <3> QED BY <3>1, <3>2
  <2>7. l = k => r.at \in Placed /\ r.order = i /\ (r.offset \in C <=> o.offset \in C)
    BY <1>7, <1>9
  <2>8. r.at \in Ahead => r.left \in Nat
    BY <2>1 DEF RunnerOK, Ahead
  <2>9. r.at \in Placed => Remaining(r, p) \in Int
    <3> HIDE DEF r, p
    <3> QED BY <2>5 DEF Remaining, Filled, OrderOK
  <2> HIDE DEF r, p, o
  <2> QED BY <1>4, <2>2, <2>3, <2>4, <2>5, <2>6, <2>7, <2>8, <2>9
<1>11. ASSUME NEW C \in Classes
       PROVE  /\ Wanted(g, C) \in Nat /\ Wanted(g, C)' \in Nat /\ Wanted(g, C)' + less(C) <= Wanted(g, C)
              /\ less(C) <= Wanted(g, C)
  <2>1. Wanted(g, C)' = WantOf(g, 1, C)' + WantOf(g, 2, C)' + WantOf(g, 3, C)'
    BY DEF Wanted
  <2>2. Wanted(g, C) = WantOf(g, 1, C) + WantOf(g, 2, C) + WantOf(g, 3, C)
    BY DEF Wanted
  <2>3. 1 \in Slots /\ 2 \in Slots /\ 3 \in Slots /\ k \in {1, 2, 3}
    BY DEF Slots
  <2>4. less(C) \in Nat
    BY <1>4
  <2> HIDE DEF less
  <2> QED BY <1>10, <2>1, <2>2, <2>3, <2>4
<1>12. rest \in Seq(Seq(OrderFor(dir)))
  <2>1. task[g].plan \in Seq(Seq(OrderFor(dir))) /\ task[g].plan # <<>>
    BY <1>8 DEF AimsAt, PlanOK
  <2>2. Tail(task[g].plan) \in Seq(Seq(OrderFor(dir)))
    BY <2>1
  <2> QED BY <2>1, <2>2 DEF Rest
<1>13. ASSUME NEW C \in Classes
       PROVE  /\ Room(C, dir, goal) \in Int /\ Fits(rest, C, Room(C, dir, goal) - Wanted(g, C), 0)
              /\ Wanted(g, C) <= Room(C, dir, goal)
  <2> DEFINE a == Room(C, dir, goal)
             w == Wanted(g, C)
  <2>1. a \in Int /\ w \in Nat
    BY <1>0, <1>11, RoomInt
  <2>2. Fits(rest, C, a - w, 0)
    BY <1>8 DEF AimsAt
  <2> HIDE DEF a, w, rest
  <2>3. a - w \in Int
    BY <2>1
  <2>4. 0 <= a - w
    BY <1>12, <2>2, <2>3, FitsNat
  <2> QED BY <2>1, <2>2, <2>4 DEF a, w
<1>14. /\ pos' \in Holdings
       /\ \A C \in Classes : Room(C, dir, goal)' = Room(C, dir, goal) - less(C)
  <2>1. \A C \in Classes : o.offset \in C => v <= Room(C, dir, goal)
    <3> SUFFICES ASSUME NEW C \in Classes, o.offset \in C PROVE v <= Room(C, dir, goal)
      OBVIOUS
    <3>1. less(C) = v
      OBVIOUS
    <3> HIDE DEF less
    <3> QED BY <1>4, <1>11, <1>13, <3>1
  <2>2. goal \in Int /\ v \in Nat /\ o.dir = dir /\ o.offset \in Offsets /\ pos \in Holdings
    BY <1>0, <1>4, <1>9
  <2>3. pos' = Traded(pos, o, v)
    BY <1>2
  <2>4. goal' = goal
    BY <1>1
  <2>5. PICK n \in Int : n = goal
    BY <2>2
  <2>6. \A C \in Classes : Room(C, dir, n)' = Room(C, dir, n) - less(C)
    <3>1. \A C \in Classes : o.offset \in C => v <= Room(C, dir, n)
      BY <2>1, <2>5
    <3> HIDE DEF o
    <3> QED BY <2>2, <2>3, <3>1, TradedFits
  <2>7. pos' \in Holdings
    <3>1. \A C \in Classes : o.offset \in C => v <= Room(C, dir, n)
      BY <2>1, <2>5
    <3> HIDE DEF o
    <3> QED BY <2>2, <2>3, <3>1, TradedFits
  <2>8. \A C : Room(C, dir, goal)' = Room(C, dir, n)' /\ Room(C, dir, goal) = Room(C, dir, n)
    BY <2>4, <2>5 DEF Room, All
  <2> QED BY <2>6, <2>7, <2>8
<1>15. ASSUME NEW C \in Classes PROVE Fits(Rest(g)', C, Room(C, dir, goal)' - Wanted(g, C)', 0)
  <2> DEFINE a == Room(C, dir, goal)
             b == Room(C, dir, goal)'
             w == Wanted(g, C)
             x == Wanted(g, C)'
             d == less(C)
  <2>1. a \in Int /\ w \in Nat /\ x \in Nat /\ d \in Nat /\ b = a - d /\ x + d <= w
    BY <1>4, <1>11, <1>13, <1>14
  <2>2. Fits(rest, C, a - w, 0)
    BY <1>13
  <2>3. Rest(g)' = rest
    BY <1>1 DEF Rest
  <2> HIDE DEF a, b, w, x, d, rest
  <2>4. a - w \in Int /\ b - x \in Int /\ a - w <= b - x
    BY <2>1
  <2>5. Fits(rest, C, b - x, 0)
    BY <1>12, <2>2, <2>4, FitsMore
  <2> QED BY <2>3, <2>5 DEF b, x
<1>16. Aims(g)'
  <2>1. \A C \in Classes : Fits(Rest(g), C, Room(C, dir, task[g].req.volume) - Wanted(g, C), 0)'
    BY <1>15 DEF Classes, All
  <2>2. PlanOK(task'[g].plan, dir) /\ task'[g].plan # <<>>
    BY <1>1, <1>8 DEF AimsAt
  <2>3. \A l \in Slots : runner'[<<g, l>>].at # "off" => runner'[<<g, l>>].dir = dir
    BY <1>1, <1>8 DEF AimsAt
  <2>4. AimsAt(g, dir)'
    BY <2>1, <2>2, <2>3 DEF AimsAt, Classes, All
  <2> QED BY <2>4 DEF Aims, Dirs
<1>17. ASSUME NEW h \in Handles, h # g PROVE Aims(h)'
  <2>1. ~Planned(h)
    <3> SUFFICES ASSUME Planned(h) PROVE FALSE
      OBVIOUS
    <3>1. Registered(h)
      BY <1>0 DEF Planned, LifeInv, LifeFor, Registered, Working
    <3> QED BY <1>6, <1>17, <3>1, OnlyOne
  <2>2. ~Planned(h)'
    BY <1>1, <2>1 DEF Planned
  <2> QED BY <2>2 DEF Aims
<1>18. ASSUME NEW h \in Handles, NEW l \in Slots PROVE RunnerOK(h, l)'
  <2> DEFINE r == runner[<<h, l>>]
             p == orders[r.order]
  <2>1. RunnerOK(h, l) /\ LifeFor(h)
    BY <1>0 DEF LifeInv
  <2>2. r.at \in Placed => r.order \in DOMAIN orders
    BY <2>1 DEF RunnerOK, Placed, LifeFor
  <2>3. r.at \in Placed => /\ orders'[r.order].dir = p.dir /\ orders'[r.order].offset = p.offset
                           /\ orders'[r.order].volume = p.volume
    BY <1>3, <2>2
  <2> QED BY <1>1, <2>1, <2>3 DEF RunnerOK, Placed, Offsets, Dirs
<1> QED BY <1>5, <1>14, <1>16, <1>17, <1>18 DEF Aimed, RunnersOK, Holdings, Slots

LEMMA AimNext ==
    ASSUME ReportInv, AloneInv, OwnedInv, AimInv, Sole' => Sole, CommandsOK => CommandsOK', [Next]_vars
    PROVE  AimInv'
<1> SUFFICES ASSUME Sole' PROVE Aimed'
  BY DEF AimInv
<1>0. Sole /\ Aimed /\ CommandsOK' /\ FieldsOK /\ LifeInv
  BY DEF AimInv, Aimed, ReportInv
<1>1. CASE Quiet
  BY <1>0, <1>1, QuietAimed
<1>2. CASE \E h \in Handles : Plans(h) \/ (Batch(h) /\ ~Stop(h)) \/ Join(h)
  BY <1>0, <1>2, DriveAimed, BatchAimed, JoinAimed
<1>3. CASE \E h \in Handles, k \in Slots : RunnerInsert(h, k) \/ RunnerMoves(h, k)
  BY <1>0, <1>3, InsertAimed, RunnerAimed
<1>4. CASE \E i \in DOMAIN orders : Fill(i)
  BY <1>0, <1>4, FillAimed
<1> QED BY <1>1, <1>2, <1>3, <1>4, Kinds

-----------------------------------------------------------------------------
(* What is wanted fits into the room, for every class of offsets. *)
LEMMA RoomForAll ==
    ASSUME LifeInv, Aimed, NEW h \in Handles, Planned(h)
    PROVE  \E dir \in Dirs :
              /\ AimsAt(h, dir)
              /\ \A C \in Classes : /\ Wanted(h, C) \in Nat /\ Room(C, dir, task[h].req.volume) \in Int
                                    /\ Wanted(h, C) <= Room(C, dir, task[h].req.volume)
<1>0. /\ LifeFor(h) /\ OrdersOK /\ pos \in Holdings /\ task[h].req.volume \in Int
      /\ \A k \in Slots : RunnerOK(h, k)
  BY DEF LifeInv, Aimed, CommandsOK, RunnersOK
<1>1. PICK dir \in Dirs : AimsAt(h, dir)
  BY DEF Aimed, Aims
<1> DEFINE rest == Rest(h)
<1>2. rest \in Seq(Seq(OrderFor(dir)))
  <2>1. task[h].plan \in Seq(Seq(OrderFor(dir))) /\ task[h].plan # <<>>
    BY <1>1 DEF AimsAt, PlanOK
  <2>2. Tail(task[h].plan) \in Seq(Seq(OrderFor(dir)))
    BY <2>1
  <2> QED BY <2>1, <2>2 DEF Rest
<1>3. ASSUME NEW C \in Classes
      PROVE  /\ Wanted(h, C) \in Nat /\ Room(C, dir, task[h].req.volume) \in Int
             /\ Wanted(h, C) <= Room(C, dir, task[h].req.volume)
  <2> DEFINE a == Room(C, dir, task[h].req.volume)
             w == Wanted(h, C)
  <2>1. a \in Int
    BY <1>0, RoomInt
  <2>2. w \in Nat
    <3>1. \A k \in Slots : WantOf(h, k, C) \in Nat
      BY <1>0, WantNat
    <3> QED BY <3>1 DEF Wanted, Slots
  <2>3. Fits(rest, C, a - w, 0)
    BY <1>1 DEF AimsAt
  <2> HIDE DEF a, w, rest
  <2>4. a - w \in Int
    BY <2>1, <2>2
  <2>5. 0 <= a - w
    BY <1>2, <2>3, <2>4, FitsNat
  <2> QED BY <2>1, <2>2, <2>5 DEF a, w
<1> QED BY <1>1, <1>3

(* An order that works is some runner's, and is no more than that one wants. *)
LEMMA WorkingIsWanted ==
    ASSUME LifeInv, Aimed, NEW h \in Handles, NEW dir \in Dirs, AimsAt(h, dir),
           NEW i \in task[h].mine, Held(h, i)
    PROVE  /\ i \in DOMAIN orders /\ orders[i].dir = dir /\ orders[i].left \in Nat
           /\ \E k \in Slots : /\ runner[<<h, k>>].at \in Busy /\ runner[<<h, k>>].order = i
                               /\ \A C : orders[i].offset \in C => orders[i].left <= WantOf(h, k, C)
<1>1. PICK k \in Slots : runner[<<h, k>>].at \in Busy /\ runner[<<h, k>>].order = i
  BY DEF Held
<1> DEFINE r == runner[<<h, k>>]
           o == orders[i]
<1>2. i \in DOMAIN orders /\ RunnerOK(h, k)
  BY DEF LifeInv, LifeFor, Aimed, RunnersOK
<1>3. OrderOK(o)
  BY <1>2 DEF Aimed, OrdersOK
<1>4. r.at \in Placed /\ r.at \notin Ahead /\ r.at # "off"
  BY <1>1 DEF Busy, Placed, Ahead
<1>5. r.left \in Nat /\ o.dir = r.dir /\ o.offset = r.offset /\ o.volume <= r.left /\ r.dir = dir
  BY <1>1, <1>2, <1>4 DEF RunnerOK, AimsAt
<1>6. o.left <= Remaining(r, o) /\ o.left \in Nat
  <2> HIDE DEF r, o
  <2> QED BY <1>3, <1>5 DEF Remaining, Filled, OrderOK
<1>7. \A C : o.offset \in C => WantOf(h, k, C) = Remaining(r, o)
  BY <1>1, <1>4, <1>5 DEF WantOf
<1> QED BY <1>1, <1>2, <1>5, <1>6, <1>7

(* What works of a task's orders lies between the position and its target.    *)
LEMMA WorkingIsBetween ==
    ASSUME ReportInv, Sole, Aimed, NEW h \in Handles, task[h].at = "running"
    PROVE  Between(Signs(AliveOf(task[h].mine)), task[h].req.volume - Net(pos))
<1>0. LifeInv /\ LifeFor(h) /\ HeldFor(h) /\ OrdersOK /\ pos \in Holdings /\ task[h].req.volume \in Int
      /\ \A k \in Slots : RunnerOK(h, k)
  BY DEF ReportInv, LifeInv, HeldInv, Sole, Aimed, CommandsOK, RunnersOK
<1> DEFINE goal == task[h].req.volume
           S == AliveOf(task[h].mine)
<1>1. PICK dir \in Dirs :
         /\ AimsAt(h, dir)
         /\ \A C \in Classes : /\ Wanted(h, C) \in Nat /\ Room(C, dir, goal) \in Int
                               /\ Wanted(h, C) <= Room(C, dir, goal)
  BY <1>0, RoomForAll DEF Planned
<1>2. S \in SUBSET DOMAIN orders /\ IsFiniteSet(S)
  <2>1. S \in SUBSET DOMAIN orders
    BY <1>0 DEF LifeFor, AliveOf
  <2>2. orders \in Seq(Range(orders))
    BY DEF ReportInv, FieldsOK
  <2>3. DOMAIN orders = 1 .. Len(orders) /\ Len(orders) \in Nat
    BY <2>2
  <2>4. IsFiniteSet(DOMAIN orders)
    BY <2>3, FS_Interval
  <2> QED BY <2>1, <2>4, FS_Subset
<1> DEFINE x == [k \in Slots |-> runner[<<h, k>>].order]
           a == [k \in Slots |-> WantOf(h, k, All)]
<1>3. a \in [Slots -> Nat]
  BY <1>0, WantNat
<1>4. Covered(Signeds, S, Slots, x, a, dir)
  <2> SUFFICES ASSUME NEW i \in S
               PROVE  /\ Signeds[i] \in Int /\ Signed(dir, Signeds[i]) >= 0
                      /\ \E m \in Slots : i = x[m] /\ Signed(dir, Signeds[i]) <= a[m]
    BY DEF Covered
  <2>1. i \in task[h].mine /\ Held(h, i) /\ i \in DOMAIN orders
    BY <1>0, <1>2 DEF AliveOf, HeldFor, Over
  <2>2. /\ orders[i].dir = dir /\ orders[i].left \in Nat
        /\ \E k \in Slots : /\ runner[<<h, k>>].at \in Busy /\ runner[<<h, k>>].order = i
                            /\ \A C : orders[i].offset \in C => orders[i].left <= WantOf(h, k, C)
    BY <1>0, <1>1, <2>1, WorkingIsWanted
  <2>3. PICK k \in Slots : runner[<<h, k>>].order = i /\ (orders[i].offset \in All => orders[i].left <= WantOf(h, k, All))
    BY <2>2
  <2>4. orders[i].offset \in All
    BY <1>0, <2>1 DEF OrdersOK, OrderOK, Offsets, All
  <2>5. Signeds[i] = Signed(dir, orders[i].left)
    BY <2>1, <2>2 DEF Signeds
  <2>6. Signed(dir, Signeds[i]) = orders[i].left /\ Signeds[i] \in Int
    BY <2>2, <2>5 DEF Signed
  <2> QED BY <2>2, <2>3, <2>4, <2>6
<1>5. Within(Signs(S), dir, a[1] + a[2] + a[3])
  <2> HIDE DEF S, x, a
  <2> QED BY <1>2, <1>3, <1>4, SumBound, SignsIsSum
<1>6. a[1] + a[2] + a[3] = Wanted(h, All)
  BY DEF Wanted, Slots
<1>7. Wanted(h, All) \in Nat /\ Wanted(h, All) <= Signed(dir, goal - Net(pos))
  BY <1>1 DEF Classes, Room
<1>8. Net(pos) \in Int
  BY <1>0, HeldNat
<1> HIDE DEF S, a, goal
<1>9. Between(Signs(S), goal - Net(pos))
  <2> DEFINE s == Signs(S)
             n == goal - Net(pos)
  <2>1. n \in Int
    BY <1>0, <1>8 DEF goal
  <2>2. s \in Int /\ 0 <= Signed(dir, s) /\ Signed(dir, s) <= Signed(dir, n)
    <3>1. Within(s, dir, Wanted(h, All)) /\ Wanted(h, All) \in Nat /\ Wanted(h, All) <= Signed(dir, n)
      BY <1>5, <1>6, <1>7
    <3> HIDE DEF s, n
    <3> QED BY <2>1, <3>1 DEF Within, Signed
  <2> HIDE DEF s, n
  <2>3. Between(s, n)
    BY <2>1, <2>2 DEF Between, Signed
  <2> QED BY <2>3 DEF s, n
<1> QED BY <1>9 DEF S, goal

LEMMA AimedOvershootsNot ==
    ASSUME ReportInv, AimInv
    PROVE  NoOvershoot
<1> SUFFICES ASSUME NEW h \in Handles, Lone(h)
             PROVE  IF task[h].at = "running"
                    THEN Between(Signs(AliveOf(task[h].mine)), task[h].req.volume - Net(pos))
                    ELSE AliveOf(task[h].mine) = {}
  BY DEF NoOvershoot
<1>1. Sole /\ Aimed
  BY DEF Lone, Sole, AimInv
<1>2. CASE task[h].at = "running"
  BY <1>1, <1>2, WorkingIsBetween
<1>3. CASE task[h].at # "running"
  <2>1. LifeFor(h) /\ HeldFor(h)
    BY <1>1 DEF ReportInv, LifeInv, HeldInv, Sole
  <2>2. \A i \in task[h].mine : ~Held(h, i)
    BY <1>3, <2>1 DEF LifeFor, Held, Busy
  <2>3. \A i \in task[h].mine : ~Alive(orders[i])
    BY <2>1, <2>2 DEF HeldFor, Over
  <2> QED BY <1>3, <2>3 DEF AliveOf
<1> QED BY <1>2, <1>3

(* What works of the account's orders and what a runner is about to insert    *)
(* is there to be closed.                                                     *)
LEMMA InsertFits ==
    ASSUME ReportInv, AloneInv, OwnedInv, Sole, Aimed,
           NEW h \in Handles, NEW k \in Slots, runner[<<h, k>>].at = "insert"
    PROVE  ~Exceeds(NewOrder(runner[<<h, k>>], FALSE))
<1> DEFINE r == runner[<<h, k>>]
           n == NewOrder(r, FALSE)
           goal == task[h].req.volume
           C == {r.offset}
<1>0. LifeInv /\ LifeFor(h) /\ OrdersOK /\ pos \in Holdings /\ \A m \in Slots : RunnerOK(h, m)
  BY DEF ReportInv, LifeInv, Aimed, RunnersOK
<1>1. task[h].at = "running" /\ Registered(h)
  BY <1>0 DEF LifeFor, Registered, Working
<1>2. PICK dir \in Dirs :
         /\ AimsAt(h, dir)
         /\ \A D \in Classes : /\ Wanted(h, D) \in Nat /\ Room(D, dir, goal) \in Int
                               /\ Wanted(h, D) <= Room(D, dir, goal)
  BY <1>0, <1>1, RoomForAll DEF Planned
<1>3. r.dir = dir /\ r.left \in Nat /\ r.offset \in Offsets
  BY <1>0, <1>2 DEF RunnerOK, AimsAt
<1>4. n.dir = dir /\ n.offset = r.offset /\ n.volume \in Int /\ n.volume <= r.left
  <2>1. n.dir = r.dir /\ n.offset = r.offset /\ n.volume = Min({r.left, MaxSplit})
    BY DEF NewOrder
  <2>2. Min({r.left, MaxSplit}) = IF r.left <= MaxSplit THEN r.left ELSE MaxSplit
    <3>1. r.left \in Int /\ MaxSplit \in Int
      BY <1>3, TargetPosAssumption
    <3> HIDE DEF r
    <3> QED BY <3>1, MinOfTwo
  <2>3. MaxSplit \in Nat
    BY TargetPosAssumption
  <2> HIDE DEF n, r
  <2> QED BY <1>3, <2>1, <2>2, <2>3
<1> SUFFICES ASSUME r.offset # "OPEN" PROVE ~Exceeds(n)
  BY <1>4 DEF Exceeds
<1>5. C \in Classes /\ C # All
  BY <1>3, ClassesDiffer DEF Offsets, All, Classes
<1> DEFINE S == FrozenSet(dir, C)
           x == [m \in Slots |-> runner[<<h, m>>].order]
           a == [m \in Slots |-> IF m = k THEN 0 ELSE WantOf(h, m, C)]
<1>6. \A m \in Slots : WantOf(h, m, C) \in Nat
  BY <1>0, WantNat
<1>7. a \in [Slots -> Nat]
  BY <1>6
<1>8. IsFiniteSet(S)
  <2>1. orders \in Seq(Range(orders))
    BY DEF ReportInv, FieldsOK
  <2>2. DOMAIN orders = 1 .. Len(orders) /\ Len(orders) \in Nat
    BY <2>1
  <2>3. IsFiniteSet(DOMAIN orders)
    BY <2>2, FS_Interval
  <2> QED BY <2>3, FS_Subset DEF FrozenSet
<1>9. Covered(Lefts, S, Slots, x, a, "BUY")
  <2> SUFFICES ASSUME NEW i \in S
               PROVE  /\ Lefts[i] \in Int /\ Signed("BUY", Lefts[i]) >= 0
                      /\ \E m \in Slots : i = x[m] /\ Signed("BUY", Lefts[i]) <= a[m]
    BY DEF Covered
  <2>1. i \in DOMAIN orders /\ Alive(orders[i]) /\ orders[i].offset \in C
    BY DEF FrozenSet
  <2>2. PICK g \in Handles : Registered(g) /\ i \in task[g].mine /\ Held(g, i)
    BY <2>1, AliveHeld
  <2>3. g = h
    BY <1>1, <2>2, OnlyOne
  <2>4. /\ orders[i].left \in Nat
        /\ \E m \in Slots : /\ runner[<<h, m>>].at \in Busy /\ runner[<<h, m>>].order = i
                            /\ \A D : orders[i].offset \in D => orders[i].left <= WantOf(h, m, D)
    BY <1>0, <1>2, <2>2, <2>3, WorkingIsWanted
  <2>5. PICK m \in Slots : /\ runner[<<h, m>>].at \in Busy /\ runner[<<h, m>>].order = i
                           /\ orders[i].left <= WantOf(h, m, C)
    BY <2>1, <2>4
  <2>6. m # k
    BY <2>5 DEF Busy
  <2>7. x[m] = i /\ a[m] = WantOf(h, m, C)
    BY <2>5, <2>6
  <2>8. Lefts[i] = orders[i].left /\ Signed("BUY", Lefts[i]) = orders[i].left
    BY <2>1 DEF Lefts, Signed
  <2> HIDE DEF x, a, C, S
  <2> QED BY <2>4, <2>5, <2>7, <2>8
<1> DEFINE frozen == Frozen(dir, C)
<1>10. frozen \in Int /\ frozen <= a[1] + a[2] + a[3]
  <2>1. Within(SumOf(Lefts, S), "BUY", a[1] + a[2] + a[3])
    <3> HIDE DEF S, x, a
    <3> QED BY <1>7, <1>8, <1>9, SumBound
  <2>2. frozen = SumOf(Lefts, S)
    BY FrozenIsSum
  <2> HIDE DEF S, a, frozen
  <2> QED BY <2>1, <2>2 DEF Within, Signed
<1>11. Wanted(h, C) = a[1] + a[2] + a[3] + r.left
  <2>1. WantOf(h, k, C) = r.left
    <3>1. r.offset \in C /\ r.at \in Ahead
      BY DEF Ahead
    <3> HIDE DEF C
    <3> QED BY <3>1 DEF WantOf
  <2>2. \A m \in Slots : WantOf(h, m, C) = a[m] + (IF m = k THEN r.left ELSE 0) /\ a[m] \in Nat
    <3> HIDE DEF C
    <3>1. \A m \in Slots : a[m] = (IF m = k THEN 0 ELSE WantOf(h, m, C)) /\ a[m] \in Nat
      BY <1>7
    <3> HIDE DEF a, r
    <3>2. r.left \in Nat /\ WantOf(h, k, C) = r.left /\ \A m \in Slots : WantOf(h, m, C) \in Nat
      BY <1>3, <1>6, <2>1
    <3> QED BY <3>1, <3>2
  <2>3. k \in {1, 2, 3} /\ 1 \in Slots /\ 2 \in Slots /\ 3 \in Slots
    BY DEF Slots
  <2>4. Wanted(h, C) = WantOf(h, 1, C) + WantOf(h, 2, C) + WantOf(h, 3, C)
    BY DEF Wanted
  <2>5. r.left \in Nat
    BY <1>3
  <2> HIDE DEF a, r, C
  <2> QED BY <2>2, <2>3, <2>4, <2>5
<1>12. Wanted(h, C) \in Nat /\ Room(C, dir, goal) \in Int /\ Wanted(h, C) <= Room(C, dir, goal)
  BY <1>2, <1>5
<1>13. n.volume <= Room(C, dir, goal) - frozen
  <2>1. a[1] \in Nat /\ a[2] \in Nat /\ a[3] \in Nat
    BY <1>7 DEF Slots
  <2> HIDE DEF a, n, r, C, frozen, goal
  <2> QED BY <1>3, <1>4, <1>10, <1>11, <1>12, <2>1
<1>14. CASE ShfeRules
  <2>1. Room(C, dir, goal) = IF r.offset = "CLOSETODAY" THEN HeldToday(pos, dir) ELSE HeldHis(pos, dir)
    <3>1. r.offset \in {"CLOSE", "CLOSETODAY"}
      BY <1>3 DEF Offsets, All
    <3> QED BY <1>5, <1>14, <3>1 DEF Room
  <2>2. Exceeds(n) => n.volume > Room(C, dir, goal) - frozen
    <3> HIDE DEF n
    <3> QED BY <1>4, <1>14, <2>1 DEF Exceeds
  <2>3. Room(C, dir, goal) - frozen \in Int
    BY <1>10, <1>12
  <2> HIDE DEF n, r, C, frozen, goal
  <2> QED BY <1>4, <1>13, <2>2, <2>3
<1>15. CASE ~ShfeRules
  <2>1. Room(C, dir, goal) = HeldToday(pos, dir) + HeldHis(pos, dir)
    BY <1>5, <1>15 DEF Room
  <2>2. r.offset = "CLOSE"
    BY <1>3, <1>15 DEF Offsets
  <2>3. Exceeds(n) => n.volume > Room(C, dir, goal) - frozen
    <3>1. C = {"CLOSE"}
      BY <2>2
    <3> HIDE DEF C
    <3>2. frozen = Frozen(dir, {"CLOSE"})
      BY <3>1
    <3> HIDE DEF n, frozen
    <3>3. n.dir = dir /\ HeldToday(pos, dir) \in Nat /\ HeldHis(pos, dir) \in Nat /\ frozen \in Int /\ n.volume \in Int
      BY <1>0, <1>4, <1>10, HeldNat
    <3>4. Exceeds(n) => n.volume > HeldToday(pos, dir) + HeldHis(pos, dir) - frozen
      <4>1. Exceeds(n) => n.volume > HeldToday(pos, n.dir) + HeldHis(pos, n.dir) - Frozen(n.dir, {"CLOSE"})
        BY <1>15 DEF Exceeds
      <4>2. HeldToday(pos, n.dir) = HeldToday(pos, dir) /\ HeldHis(pos, n.dir) = HeldHis(pos, dir)
            /\ Frozen(n.dir, {"CLOSE"}) = frozen
        BY <3>2, <3>3
      <4> QED BY <4>1, <4>2
    <3> HIDE DEF goal
    <3> QED BY <1>12, <2>1, <3>3, <3>4
  <2>4. Room(C, dir, goal) - frozen \in Int
    BY <1>10, <1>12
  <2> HIDE DEF n, r, C, frozen, goal
  <2> QED BY <1>4, <1>13, <2>3, <2>4
<1> QED BY <1>14, <1>15

LEMMA AimedFits ==
    ASSUME ReportInv, AloneInv, OwnedInv, AimInv
    PROVE  PlanFits
<1> SUFFICES ASSUME NEW h \in Handles, NEW k \in Slots, Lone(h), RunnerAt(h, k, "insert")
             PROVE  ~Exceeds(NewOrder(runner[h, k], FALSE))
  BY DEF PlanFits
<1>1. Sole /\ Aimed
  BY DEF Lone, Sole, AimInv
<1>2. runner[<<h, k>>].at = "insert"
  BY DEF RunnerAt
<1>3. ~Exceeds(NewOrder(runner[<<h, k>>], FALSE))
  BY <1>1, <1>2, InsertFits
<1> QED BY <1>3

-----------------------------------------------------------------------------
AimedInv == ReportInv /\ AloneInv /\ OwnedInv /\ AimInv

LEMMA AimedInit ==
    ASSUME Init
    PROVE  AimedInv
<1>1. /\ \A h \in Handles : task[h] = NewTask
      /\ \A h \in Handles, k \in Slots : runner[<<h, k>>] = NoRunner
      /\ orders = <<>> /\ \A c \in Callers : call[c].at = "idle"
      /\ pos \in Holdings
  BY TargetPosAssumption DEF Init
<1>2. /\ NewTask.id = 0 /\ NewTask.at = "off" /\ NoRunner.at = "off"
      /\ NewTask.cmd.volume = 0 /\ NewTask.req.volume = 0 /\ DOMAIN orders = {}
  BY <1>1 DEF NewTask, NoRunner, NoCommand
<1>3. ReportInv
  BY ReportInit
<1>4. AloneInv
  BY <1>1, <1>2 DEF AloneInv, Registered
<1>5. OwnedInv
  BY <1>2 DEF OwnedInv
<1>6. OrdersOK /\ CommandsOK
  BY <1>1, <1>2 DEF OrdersOK, CommandsOK
<1>7. RunnersOK
  BY <1>1, <1>2 DEF RunnersOK, RunnerOK
<1>8. \A h \in Handles : Aims(h)
  BY <1>1, <1>2 DEF Aims, Planned
<1>9. AimInv
  BY <1>1, <1>6, <1>7, <1>8 DEF AimInv, Aimed
<1> QED BY <1>3, <1>4, <1>5, <1>9 DEF AimedInv

LEMMA AimedNext ==
    ASSUME AimedInv, [Next]_vars
    PROVE  AimedInv'
<1>1. ReportInv /\ AloneInv /\ OwnedInv /\ AimInv
  BY DEF AimedInv
<1>2. ReportInv'
  BY <1>1, ReportNext
<1>3. (Sole' => Sole) /\ AloneInv'
  BY <1>1, AloneNext
<1>4. OwnedInv'
  BY <1>1, OwnedNext
<1>5. CommandsOK => CommandsOK'
  BY <1>1, CommandsNext
<1>6. AimInv'
  BY <1>1, <1>3, <1>5, AimNext
<1> QED BY <1>2, <1>3, <1>4, <1>6 DEF AimedInv

(* NoOvershoot for any targets, offset priority, split, exchange rules and    *)
(* first position: what a task has working lies between the position and its  *)
(* target, whatever is filled, killed, repriced or cut off, and it has        *)
(* nothing working before it plans anew.                                      *)
THEOREM NoOvershootHolds == Spec => []NoOvershoot
<1>1. Init => AimedInv
  BY AimedInit
<1>2. AimedInv /\ [Next]_vars => AimedInv'
  BY AimedNext
<1>3. AimedInv => NoOvershoot
  BY AimedOvershootsNot DEF AimedInv
<1> QED BY <1>1, <1>2, <1>3, PTL DEF Spec

(* PlanFits for any of these: no order that a plan calls for asks the         *)
(* exchange to close more than what is held less what other orders close      *)
(* already.                                                                   *)
THEOREM PlanFitsHolds == Spec => []PlanFits
<1>1. Init => AimedInv
  BY AimedInit
<1>2. AimedInv /\ [Next]_vars => AimedInv'
  BY AimedNext
<1>3. AimedInv => PlanFits
  BY AimedFits DEF AimedInv
<1> QED BY <1>1, <1>2, <1>3, PTL DEF Spec
=============================================================================
