----------------------------- MODULE ReplayReport -----------------------------
(* The report of a replay (replay/report.rs), computed from what the broker   *)
(* has recorded.  Rates are fractions <<numerator, denominator>>; the roots   *)
(* and powers of the annualized figures are left out, their inputs are not.   *)
(* The settlements the broker records are those of its primary account.       *)
(* A definition marked "mutant" is a deliberately broken form of the one      *)
(* after it; no other definition uses it.                                     *)
EXTENDS Replay

-----------------------------------------------------------------------------
(* Balances. *)

Primary == CHOOSE a \in Accounts : TRUE
BalanceSeries(settlements) ==
    [i \in DOMAIN settlements |-> settlements[i].balance[Primary].balance]

(* initial_balance: what the first settled day began with. *)
FirstBalance(settlements) ==
    IF settlements = <<>> THEN None ELSE settlements[1].balance[Primary].static

Less(x, y) == x[1] * y[2] < y[1] * x[2]
LargerOf(x, y) == IF Less(x, y) THEN y ELSE x

(* max_drawdown, of a series that is not empty. *)
MaxDrawdown(balances) ==
    FoldLeft(LAMBDA acc, balance :
                LET high == Max({acc.high, balance}) IN
                [high |-> high,
                 drawdown |-> IF high > 0 THEN LargerOf(acc.drawdown, <<high - balance, high>>)
                              ELSE acc.drawdown],
             [high |-> balances[1], drawdown |-> <<0, 1>>], balances).drawdown

(* daily_yields: no yield over a balance that is not positive. *)
DailyYields(first, balances) ==
    LET before(i) == IF i = 1 THEN first ELSE balances[i - 1]
        days == SelectSeq([i \in DOMAIN balances |-> i], LAMBDA i : before(i) > 0)
    IN  IF first = None \/ first <= 0 THEN <<>>
        ELSE [n \in DOMAIN days |-> <<balances[days[n]] - before(days[n]), before(days[n])>>]

-----------------------------------------------------------------------------
(* Lots: every trade is taken apart, and the n-th lot that closes a side of a *)
(* symbol is paired with the n-th that opened it.                             *)

NormalizedNot(offset) == offset                                     \* mutant
Normalized(offset) == IF offset = "CLOSETODAY" THEN "CLOSE" ELSE offset

Lots(trades) ==
    FlattenSeq([i \in DOMAIN trades |->
        [n \in 1 .. trades[i].volume |->
            [symbol |-> trades[i].symbol, dir |-> trades[i].dir,
             offset |-> Normalized(trades[i].offset), price |-> trades[i].price]]])

LotPrices(trades, s, dir, offset) ==
    LET lots == SelectSeq(Lots(trades), LAMBDA l : <<l.symbol, l.dir, l.offset>> = <<s, dir, offset>>)
    IN  [n \in DOMAIN lots |-> lots[n].price]

Sides == {[dir |-> "BUY", close |-> "SELL", sign |-> 1], [dir |-> "SELL", close |-> "BUY", sign |-> -1]}

(* The profit of each pair of a symbol's side, in prices. *)
PairProfits(trades, s, side) ==
    LET opens == LotPrices(trades, s, side.dir, "OPEN")
        closes == LotPrices(trades, s, side.close, "CLOSE")
    IN  [n \in 1 .. Min({Len(opens), Len(closes)}) |-> (closes[n] - opens[n]) * side.sign]

(* trade_metrics: lots and money, won and lost. *)
Counted(trades, Wanted(_)) ==
    MapThenSumSet(LAMBDA k : Len(SelectSeq(PairProfits(trades, k[1], k[2]), Wanted)), Symbols \X Sides)
Money(trades, Wanted(_)) ==
    MapThenSumSet(LAMBDA k : Meta[k[1]].mult
                     * FoldLeft(+, 0, SelectSeq(PairProfits(trades, k[1], k[2]), Wanted)),
                  Symbols \X Sides)
Won(profit) == profit >= 0
Lost(profit) == profit < 0

WinningRate(trades) ==
    LET total == Counted(trades, Won) + Counted(trades, Lost)
    IN  IF total = 0 THEN None ELSE <<Counted(trades, Won), total>>
ProfitLossRatio(trades) ==
    IF Counted(trades, Won) = 0 \/ Counted(trades, Lost) = 0 THEN None
    ELSE <<Money(trades, Won) * Counted(trades, Lost), -Money(trades, Lost) * Counted(trades, Won)>>

-----------------------------------------------------------------------------
(* The report explains the money: the pairs it counts as won or lost, the     *)
(* lots it leaves unpaired at their last price, and the commissions make up    *)
(* what the balance has become, across the settlements that reprice every     *)
(* position, the orders that close today's volume and those that close any;   *)
(* the rates are those of lots that were really closed, and the return is     *)
(* counted from the initial balance (replay/report.rs, replay/sim.rs).        *)
Unpaired(b, s, side) ==
    LET opens == LotPrices(b.trades, s, side.dir, "OPEN")
        paired == Len(PairProfits(b.trades, s, side))
    IN  FoldLeft(LAMBDA sum, price : sum + (b.positions[Primary, s].last - price) * side.sign, 0,
                 SubSeq(opens, paired + 1, Len(opens)))
Traded(b) == {t.symbol : t \in ToSet(b.trades)}

ReportExplainsMoney ==
    broker # NoBroker =>
        /\ broker.accounts[Primary].balance =
              InitialBalance + Money(broker.trades, LAMBDA profit : TRUE)
              + MapThenSumSet(LAMBDA k : Meta[k[1]].mult * Unpaired(broker, k[1], k[2]),
                              Traded(broker) \X Sides)
              - FoldLeft(LAMBDA sum, t : sum + t.commission, 0, broker.trades)
        /\ Counted(broker.trades, Won) + Counted(broker.trades, Lost) =
              FoldLeft(LAMBDA sum, t : sum + (IF t.offset = "OPEN" THEN 0 ELSE t.volume), 0, broker.trades)
        /\ FirstBalance(broker.settlements) \in {None, InitialBalance}
=============================================================================
