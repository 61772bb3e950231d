------------------------------ MODULE SimBroker ------------------------------
(* The simulated broker of a replay (replay/sim.rs): orders, fills, frozen    *)
(* volumes and money, position by position, and the settlement of a trading   *)
(* day.  The broker is a plain struct behind one mutex, so that each of its   *)
(* operations is an operator from broker to broker; Replay calls them.        *)
(*                                                                            *)
(* Money and prices are integers, the instance scales them so that the        *)
(* averages the code computes in f64 are exact (ExactAverages says so).       *)
(* Open cost, open price and float profit, which only reports use, and what   *)
(* is written in messages are left out.  A NaN ask or bid is NoPrice.         *)
(* Time counts in hours from the Monday BEGIN_MARK_NANOS stands for; the unit *)
(* plays the part of the code's nanosecond.                                   *)
(* A definition marked "mutant" is a deliberately broken form of the one      *)
(* after it; no other definition uses it.                                     *)
EXTENDS Integers, Sequences, FiniteSets, SequencesExt, FiniteSetsExt, Functions

CONSTANTS
    Accounts, Symbols,
    Meta,                   \* the InstrumentMetadata of each symbol
    OptionMargin(_, _, _),  \* option_margin_per_lot: class, option price, underlying price
    InitialBalance,
    NoPrice                 \* a NaN price, and what is not there

ASSUME BrokerAssumption ==
    /\ InitialBalance \in Nat
    /\ \A s \in Symbols :
          /\ Meta[s].exchange \in {"SHFE", "DCE"}
          /\ Meta[s].class \in {"FUTURE", "INDEX", "CALL", "PUT"}
          /\ Meta[s].mult \in Nat \ {0}
          /\ Meta[s].underlying \in Symbols \cup {NoPrice}

-----------------------------------------------------------------------------
(* The trading calendar: a day's night session belongs to the next working    *)
(* day, which it begins at 18:00.                                             *)
Day == 24
Evening == 18

TradingDay(t) ==
    LET days == t \div Day + (IF t % Day >= Evening THEN 1 ELSE 0)
        weekday == days % 7
    IN  Day * (IF weekday >= 5 THEN days + 7 - weekday ELSE days)

TradingDayStart(day) ==
    LET start == day - (Day - Evening)
        weekday == (start \div Day) % 7
    IN  IF weekday >= 5 THEN start - Day * (weekday - 4) ELSE start

TradingDayEnd(day) == day + Evening - 1

(* Night hours count from the trading day before, day hours from this one. *)
InTradingTime(s, t) ==
    LET today == TradingDay(t)
        before == TradingDay(TradingDayStart(today) - 1)
    IN  \/ \E r \in Meta[s].night : before + r[1] <= t /\ t < before + r[2]
        \/ \E r \in Meta[s].day : today + r[1] <= t /\ t < today + r[2]

-----------------------------------------------------------------------------
(* Orders, positions, accounts. *)

IsOption(s) == Meta[s].class \in {"CALL", "PUT"}
ShfeRules(s) == Meta[s].exchange = "SHFE"       \* SHFE and INE tell today from history

NoSide == [today |-> 0, his |-> 0, frozenToday |-> 0, frozenHis |-> 0, cost |-> 0, price |-> 0]
DefaultPosition(last) ==
    [long |-> NoSide, short |-> NoSide, last |-> last, profit |-> 0, margin |-> 0, value |-> 0]
DefaultAccount ==
    [static |-> InitialBalance, closeProfit |-> 0, commission |-> 0, premium |-> 0,
     balance |-> InitialBalance, available |-> InitialBalance]

NewBroker ==
    [accounts |-> [a \in Accounts |-> DefaultAccount], orders |-> <<>>,
     positions |-> [k \in {} |-> NoSide], meta |-> {}, quotes |-> [s \in Symbols |-> NoPrice],
     trades |-> <<>>, recent |-> <<>>, settlements |-> <<>>, lastSettled |-> NoPrice]

Volume(side) == side.today + side.his
Frozen(side) == side.frozenToday + side.frozenHis

Alive(o) == o.status = "ALIVE"
Opens(o) == o.offset = "OPEN"

(* The side of the position an order adds to or takes from. *)
SideOf(o) == IF (o.dir = "BUY") = Opens(o) THEN "long" ELSE "short"

RegisterSymbol(b, s) == [b EXCEPT !.meta = @ \cup {s}]

LastPrice(b, s) == IF b.quotes[s] = NoPrice THEN 0 ELSE b.quotes[s].last
UnderlyingPrice(b, s) ==
    IF Meta[s].underlying = NoPrice \/ b.quotes[Meta[s].underlying] = NoPrice
    THEN NoPrice ELSE b.quotes[Meta[s].underlying].last

EnsurePosition(b, a, s) ==
    IF <<a, s>> \in DOMAIN b.positions THEN b
    ELSE [b EXCEPT !.positions = Restrict([k \in Accounts \X Symbols |->
            IF k \in DOMAIN b.positions THEN b.positions[k] ELSE DefaultPosition(LastPrice(b, s))],
            DOMAIN b.positions \cup {<<a, s>>})]

-----------------------------------------------------------------------------
(* Recomputing what derives from fills and prices. *)

MarginPerLot(b, s) ==
    IF IsOption(s) THEN OptionMargin(s, LastPrice(b, s), UnderlyingPrice(b, s))
    ELSE Meta[s].margin

AveragedSide(s, side) ==
    IF Volume(side) > 0 THEN [side EXCEPT !.price = side.cost \div (Volume(side) * Meta[s].mult)]
    ELSE [side EXCEPT !.price = 0, !.cost = 0]

RecomputePosition(b, k) ==
    LET s == k[2]
        m == Meta[s].mult
        p == b.positions[k]
        last == IF b.quotes[s] = NoPrice THEN p.last ELSE b.quotes[s].last
        long == AveragedSide(s, p.long)
        short == AveragedSide(s, p.short)
    IN  [long |-> long, short |-> short, last |-> last,
         profit |-> IF IsOption(s) THEN 0
                    ELSE m * ((last - long.price) * Volume(long) + (short.price - last) * Volume(short)),
         margin |-> (IF IsOption(s) THEN 0 ELSE Volume(long) * MarginPerLot(b, s))
                    + (IF Volume(short) > 0 THEN Volume(short) * MarginPerLot(b, s) ELSE 0),
         value |-> IF IsOption(s) THEN m * last * (Volume(long) - Volume(short)) ELSE 0]

RecomputePositions(b, keys) ==
    [b EXCEPT !.positions = [k \in DOMAIN @ |-> IF k \in keys THEN RecomputePosition(b, k) ELSE @[k]]]

AliveOpens(b, a) ==
    {i \in DOMAIN b.orders : LET o == b.orders[i] IN o.account = a /\ Alive(o) /\ Opens(o)}
FrozenMoney(b, a) ==
    MapThenSumSet(LAMBDA i : b.orders[i].frozenMargin + b.orders[i].frozenPremium, AliveOpens(b, a))

RecomputeAccount(b, a) ==
    LET c == b.accounts[a]
        held == {k \in DOMAIN b.positions : k[1] = a}
        total(F(_)) == MapThenSumSet(LAMBDA k : F(b.positions[k]), held)
        funds == c.static + c.closeProfit - c.commission + c.premium + total(LAMBDA p : p.profit)
    IN  [c EXCEPT !.balance = funds + total(LAMBDA p : p.value),
                  !.available = funds - total(LAMBDA p : p.margin) - FrozenMoney(b, a)]

RecomputeAccounts(b, as) ==
    [b EXCEPT !.accounts = [a \in Accounts |-> IF a \in as THEN RecomputeAccount(b, a) ELSE @[a]]]

(* recompute_symbol_state: the positions that the symbol's price, or it as an *)
(* underlying, values, and the accounts they and the symbol's orders are of.  *)
RecomputeSymbol(b, s) ==
    LET keys == {k \in DOMAIN b.positions : k[2] = s \/ (Meta[k[2]].underlying = s /\ k[2] \in b.meta)}
        owners == {k[1] : k \in keys} \cup {b.orders[i].account : i \in {j \in DOMAIN b.orders : b.orders[j].symbol = s}}
    IN  RecomputeAccounts(RecomputePositions(b, keys), owners)

RecomputeAll(b) == RecomputeAccounts(RecomputePositions(b, DOMAIN b.positions), Accounts)

SyncQuote(b, s, q) == RecomputeSymbol([b EXCEPT !.quotes[s] = q], s)

-----------------------------------------------------------------------------
(* insert_order: what an order freezes, or why it is rejected. *)

(* A close order freezes the bucket it names under the SHFE rules; elsewhere  *)
(* history first, which a release gives back last.                            *)
Freeze(s, side, o) ==
    IF ShfeRules(s)
    THEN IF o.offset = "CLOSETODAY" THEN [side EXCEPT !.frozenToday = @ + o.volume]
         ELSE [side EXCEPT !.frozenHis = @ + o.volume]
    ELSE LET his == Min({side.his - side.frozenHis, o.volume})
         IN  [side EXCEPT !.frozenHis = @ + his, !.frozenToday = @ + o.volume - his]

Closable(s, side, o) ==
    IF ~ShfeRules(s) THEN Volume(side) - Frozen(side)
    ELSE IF o.offset = "CLOSETODAY" THEN side.today - side.frozenToday
    ELSE side.his - side.frozenHis

ReleaseNothing(s, side, o) == side                                  \* mutant
Release(s, side, o) ==
    IF ShfeRules(s)
    THEN IF o.offset = "CLOSETODAY" THEN [side EXCEPT !.frozenToday = @ - o.volume]
         ELSE [side EXCEPT !.frozenHis = @ - o.volume]
    ELSE LET today == Min({side.frozenToday, o.volume})
         IN  [side EXCEPT !.frozenToday = @ - today, !.frozenHis = @ - (o.volume - today)]

Rejected(o) == [o EXCEPT !.status = "FINISHED", !.rejected = TRUE]

(* The money an opening order freezes; NoPrice when a price it needs is not known. *)
OpenMoney(b, o) ==
    LET s == o.symbol
        ref == IF o.price = NoPrice THEN IF b.quotes[s] = NoPrice THEN NoPrice ELSE LastPrice(b, s)
               ELSE o.price
    IN  IF ~IsOption(s) THEN [margin |-> o.volume * Meta[s].margin, premium |-> 0]
        ELSE IF o.dir = "SELL"
        THEN IF b.quotes[s] = NoPrice \/ UnderlyingPrice(b, s) = NoPrice THEN NoPrice
             ELSE [margin |-> o.volume * MarginPerLot(b, s), premium |-> 0]
        ELSE IF ref = NoPrice THEN NoPrice
        ELSE [margin |-> 0, premium |-> o.volume * Meta[s].mult * Max({ref, 0})]

(* freeze_open_order and freeze_close_order: the order as it is accepted. *)
Admitted(b, o) ==
    LET s == o.symbol
        q == b.quotes[s]
        money == OpenMoney(b, o)
        closed == ~Meta[s].always /\ q # NoPrice /\ ~InTradingTime(s, q.t)
    IN  IF ~Meta[s].supported \/ closed THEN Rejected(o)
        ELSE IF ~Opens(o)
        THEN IF Closable(s, b.positions[o.account, s][SideOf(o)], o) < o.volume THEN Rejected(o) ELSE o
        ELSE IF money = NoPrice THEN Rejected(o)
        ELSE IF money.margin + money.premium > b.accounts[o.account].available THEN Rejected(o)
        ELSE [o EXCEPT !.frozenMargin = money.margin, !.frozenPremium = money.premium]

(* A request is [symbol, dir, offset, price, volume]; a market order has no price. *)
NewOrder(b, a, req) ==
    [account |-> a, symbol |-> req.symbol, dir |-> req.dir, offset |-> req.offset, price |-> req.price,
     volume |-> req.volume, left |-> req.volume, status |-> "ALIVE", rejected |-> FALSE,
     frozenMargin |-> 0, frozenPremium |-> 0,
     inserted |-> IF b.quotes[req.symbol] = NoPrice THEN 0 ELSE b.quotes[req.symbol].t]

InsertOrder(b, a, req) ==
    LET s == req.symbol
        held == EnsurePosition(b, a, s)
        o == Admitted(held, NewOrder(b, a, req))
        froze == IF Alive(o) /\ ~Opens(o)
                 THEN [held EXCEPT !.positions[<<a, s>>][SideOf(o)] = Freeze(s, @, o)] ELSE held
    IN  RecomputeAccounts([froze EXCEPT !.orders = Append(@, o)], {a})

-----------------------------------------------------------------------------
(* Fills. *)

(* What an order is filled at by a quote; NoPrice if not at all. *)
AskOf(s, q) == IF q.ask = NoPrice /\ Meta[s].class = "INDEX" THEN q.last + Meta[s].tick ELSE q.ask
BidOf(s, q) == IF q.bid = NoPrice /\ Meta[s].class = "INDEX" THEN q.last - Meta[s].tick ELSE q.bid
FillPrice(o, q) ==
    LET facing == IF o.dir = "BUY" THEN AskOf(o.symbol, q) ELSE BidOf(o.symbol, q)
    IN  IF facing = NoPrice \/ o.price = NoPrice THEN facing
        ELSE IF (o.dir = "BUY" /\ facing <= o.price) \/ (o.dir = "SELL" /\ facing >= o.price)
        THEN o.price ELSE NoPrice

Finished(o) == [o EXCEPT !.status = "FINISHED", !.frozenMargin = 0, !.frozenPremium = 0]

Opened(s, side, o, price) ==
    [side EXCEPT !.today = @ + o.volume, !.cost = @ + price * o.volume * Meta[s].mult]

(* What is closed leaves at the average of the last recomputation, to which   *)
(* the cost of a volume opened by the same quote has not yet been added.      *)
Closed(s, side, o) ==
    LET his == IF ShfeRules(s) THEN IF o.offset = "CLOSE" THEN o.volume ELSE 0
               ELSE Min({side.his, o.volume})
    IN  [side EXCEPT !.his = @ - his, !.today = @ - (o.volume - his),
                     !.cost = @ - side.price * o.volume * Meta[s].mult]

CloseProfit(s, side, o, price) ==
    IF IsOption(s) THEN 0
    ELSE o.volume * Meta[s].mult * (IF o.dir = "SELL" THEN price - side.price ELSE side.price - price)

Premium(s, o, price) ==
    IF ~IsOption(s) THEN 0
    ELSE o.volume * Meta[s].mult * (IF o.dir = "BUY" THEN -price ELSE price)

(* finish_fill: the whole volume at once. *)
Fill(b, i, q, price) ==
    LET o == b.orders[i]
        s == o.symbol
        a == o.account
        held == EnsurePosition(b, a, s)
        side == held.positions[a, s][SideOf(o)]
        commission == o.left * Meta[s].commission
        trade == [order |-> i, account |-> a, symbol |-> s, dir |-> o.dir, offset |-> o.offset,
                  volume |-> o.left, price |-> price, t |-> q.t, commission |-> commission]
    IN  [held EXCEPT
            !.orders[i] = [Finished(o) EXCEPT !.left = 0],
            !.positions[<<a, s>>][SideOf(o)] =
                IF Opens(o) THEN Opened(s, side, o, price) ELSE Closed(s, Release(s, side, o), o),
            !.accounts[a].closeProfit = @ + (IF Opens(o) THEN 0 ELSE CloseProfit(s, side, o, price)),
            !.accounts[a].commission = @ + commission,
            !.accounts[a].premium = @ + Premium(s, o, price),
            !.trades = Append(@, trade),
            !.recent = Append(@, trade)]

(* finish_without_fill, and the first half of cancel_order. *)
FinishUnfilled(b, i) ==
    LET o == b.orders[i]
        over == [b EXCEPT !.orders[i] = Finished(o)]
    IN  IF Opens(o) THEN over
        ELSE [over EXCEPT !.positions[<<o.account, o.symbol>>][SideOf(o)] = Release(o.symbol, @, o)]

Match(b, i, q) ==
    LET o == b.orders[i]
        price == FillPrice(o, q)
    IN  IF price # NoPrice THEN Fill(b, i, q, price)
        ELSE IF o.price = NoPrice THEN FinishUnfilled(b, i)
        ELSE b

(* One quote of a path.  The code takes the orders in the order of a hash map, *)
(* which only the numbering of the trades depends on.                          *)
ApplyQuote(b, s, q) ==
    LET quoted == [b EXCEPT !.quotes[s] = q]
        alive == SetToSeq({i \in DOMAIN b.orders : Alive(b.orders[i]) /\ b.orders[i].symbol = s})
    IN  RecomputeSymbol(FoldLeft(LAMBDA acc, i : Match(acc, i, q), quoted, alive), s)

ApplyPath(b, s, path) == FoldLeft(LAMBDA acc, q : ApplyQuote(acc, s, q), b, path)

CancelOrder(b, i) ==
    IF Alive(b.orders[i]) THEN RecomputeSymbol(FinishUnfilled(b, i), b.orders[i].symbol) ELSE b

-----------------------------------------------------------------------------
(* settle_day. *)

CarriedAtCost(s, side, last) ==                                     \* mutant
    [side EXCEPT !.today = 0, !.his = Volume(side), !.frozenToday = 0, !.frozenHis = 0]
Carried(s, side, last) ==
    [side EXCEPT !.today = 0, !.his = Volume(side), !.frozenToday = 0, !.frozenHis = 0,
                 !.cost = last * Volume(side) * Meta[s].mult]

CarriedPosition(s, p) ==
    [p EXCEPT !.long = Carried(s, @, p.last), !.short = Carried(s, @, p.last)]

MarketValue(b, a) ==
    MapThenSumSet(LAMBDA k : b.positions[k].value, {k \in DOMAIN b.positions : k[1] = a})

CarriedAccount(b, a) ==
    LET c == b.accounts[a] IN
    [c EXCEPT !.static = c.balance - MarketValue(b, a), !.closeProfit = 0, !.commission = 0, !.premium = 0]

Settled(b, day) ==
    LET valued == RecomputeAll(b)
        alive == SetToSeq({i \in DOMAIN b.orders : Alive(b.orders[i])})
        freed == FoldLeft(LAMBDA acc, i : FinishUnfilled(acc, i), valued, alive)
        carried == [freed EXCEPT
            !.accounts = [a \in Accounts |-> CarriedAccount(freed, a)],
            !.positions = [k \in DOMAIN @ |-> CarriedPosition(k[2], @[k])]]
    IN  [RecomputeAll(carried) EXCEPT
            !.settlements = Append(@, [day |-> day, balance |-> valued.accounts, trades |-> b.recent]),
            !.recent = <<>>,
            !.lastSettled = day]

SettleDay(b, day) == IF b.lastSettled = day THEN b ELSE Settled(b, day)

-----------------------------------------------------------------------------
(* Properties of a broker between two operations. *)

ClosingVolume(b, k, side, offsets) ==
    MapThenSumSet(LAMBDA i : b.orders[i].volume,
                  {i \in DOMAIN b.orders : LET o == b.orders[i] IN
                      /\ <<o.account, o.symbol>> = k /\ Alive(o)
                      /\ o.offset \in offsets /\ SideOf(o) = side})

(* What is frozen is what the working close orders will take, and never more  *)
(* than there is; under the SHFE rules in each bucket, elsewhere in all:      *)
(* there, freezing and releasing take the buckets in different orders.        *)
FrozenIsClosing(b) ==
    \A k \in DOMAIN b.positions, side \in {"long", "short"} :
        LET p == b.positions[k][side] IN
        /\ Frozen(p) = ClosingVolume(b, k, side, {"CLOSE", "CLOSETODAY"})
        /\ Frozen(p) <= Volume(p)
        /\ p.today >= 0 /\ p.his >= 0
        /\ ShfeRules(k[2]) =>
              /\ p.frozenToday = ClosingVolume(b, k, side, {"CLOSETODAY"})
              /\ p.frozenToday <= p.today /\ p.frozenHis <= p.his

(* Every balance is the initial one less commissions, plus what the trades    *)
(* paid and received, plus what the position is worth: through averaged       *)
(* costs, fills of one quote that share a stale average, and settlements.     *)
Paid(t) == t.volume * Meta[t.symbol].mult * (IF t.dir = "BUY" THEN -t.price ELSE t.price) - t.commission
MoneyBalances(b) ==
    \A a \in Accounts :
        b.accounts[a].balance =
            InitialBalance
            + MapThenSumSet(LAMBDA i : Paid(b.trades[i]), {i \in DOMAIN b.trades : b.trades[i].account = a})
            + MapThenSumSet(LAMBDA k : Meta[k[2]].mult * b.positions[k].last
                                       * (Volume(b.positions[k].long) - Volume(b.positions[k].short)),
                            {k \in DOMAIN b.positions : k[1] = a})

(* The instance's prices make every average a whole number. *)
ExactAverages(b) ==
    \A k \in DOMAIN b.positions, side \in {"long", "short"} :
        LET p == b.positions[k][side] IN
        p.price * Volume(p) * Meta[k[2]].mult = p.cost
=============================================================================
