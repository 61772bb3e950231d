------------------------------ MODULE MCReplay ------------------------------
(* Replay on a small market: a future under the SHFE rules and a call on it,  *)
(* whose exchange does not tell today from history, over two trading days.    *)
EXTENDS ReplayReport

CONSTANTS fu, opt, acc

Info ==
    (fu :> [exchange |-> "SHFE", class |-> "FUTURE", mult |-> 2, margin |-> 120, commission |-> 1, tick |-> 12,
            underlying |-> NoPrice, supported |-> TRUE, always |-> FALSE,
            day |-> {<<9, 15>>}, night |-> {<<21, 23>>}]) @@
    (opt :> [exchange |-> "DCE", class |-> "CALL", mult |-> 1, margin |-> 0, commission |-> 1, tick |-> 12,
            underlying |-> fu, supported |-> TRUE, always |-> TRUE, day |-> {}, night |-> {}])

CallMargin(s, last, under) == last + under

Bar(t, open, high, low, close) == [t |-> t, open |-> open, high |-> high, low |-> low, close |-> close]

(* A bar of each on Monday; ticks of the option at the instant its bar opens, *)
(* without an ask, and in the night that belongs to Tuesday.                  *)
History ==
    (<<fu, 2>> :> <<Bar(12, 312, 336, 288, 300)>>) @@ (<<opt, 2>> :> <<Bar(12, 60, 72, 48, 72)>>)
SomeTicks ==
    (fu :> <<>>) @@
    (opt :> <<[t |-> 12, last |-> 60, ask |-> NoPrice, bid |-> 48],
             [t |-> 21, last |-> 96, ask |-> 108, bid |-> 84]>>)

Handles == {[symbol |-> opt, dur |-> 0, source |-> TickSource]}

Order(s, dir, offset, price, volume) ==
    [symbol |-> s, dir |-> dir, offset |-> offset, price |-> price, volume |-> volume]

Orders ==
    {Order(fu, "BUY", "OPEN", NoPrice, 2), Order(fu, "SELL", "CLOSETODAY", 312, 1),
     Order(fu, "SELL", "CLOSE", 360, 1),
     Order(opt, "SELL", "OPEN", NoPrice, 2), Order(opt, "BUY", "CLOSE", 60, 1)}

(* Every drawdown of a series is at most the largest one, which is one of     *)
(* them; the yields lead from the first balance to the last.                  *)
Series == UNION {[1 .. n -> 1 .. 5] : n \in 1 .. 4}
Drawdowns(b) == {<<b[p[1]] - b[p[2]], b[p[1]]>> : p \in {q \in (DOMAIN b) \X (DOMAIN b) : q[1] <= q[2]}}
ASSUME DrawdownIsLargest ==
    \A b \in Series :
        LET d == MaxDrawdown(b) IN d \in Drawdowns(b) \cup {<<0, 1>>} /\ \A e \in Drawdowns(b) : ~Less(d, e)
ASSUME YieldsCompound ==
    \A b \in Series :
        LET yields == DailyYields(3, b)
            growth == FoldLeft(LAMBDA g, y : <<g[1] * (y[1] + y[2]), g[2] * y[2]>>, <<3, 1>>, yields)
        IN  growth[1] = Last(b) * growth[2]
=============================================================================
