------------------------------ MODULE MCMarket ------------------------------
(* Market on a small instance: the frames of the quote websocket, who watches *)
(* which path and who waits on what.                                          *)
EXTENDS Market, SequencesExt, TLC

CONSTANTS none, handler, trade, status, w1, w2, u1, u2, u3

SomeFrames == {{"chart"}, {"kline"}, {"quote", "kline"}}
Watches == [w \in Watchers |-> IF w = w1 THEN "kline" ELSE trade]
WaitsOn == [u \in Users |-> IF u = u3 THEN "quote" ELSE "all"]

Load(mine, others, watching, followed, calls, closing) ==
    [frames |-> SomeFrames,
     merges |-> [m \in Mergers |-> IF m = handler THEN mine ELSE IF m = trade THEN others ELSE 0],
     watchers |-> watching, series |-> followed,
     calls |-> [u \in Users |-> IF u \in DOMAIN calls THEN calls[u] ELSE 0],
     closes |-> closing]

Nobody == <<>>

(* Two or three tasks merge while a series is followed, two while a path is    *)
(* watched; a watcher falls behind; a user waits and drains again and again;  *)
(* several users wait while the market is closed.                             *)
SomeLoads ==
    {[Load(1, 1, {}, TRUE, Nobody, FALSE) EXCEPT !.merges[status] = 1, !.frames = {{"chart", "kline"}}],
     Load(2, 1, {}, TRUE, Nobody, FALSE),
     Load(1, 2, {w2}, FALSE, Nobody, FALSE),
     Load(3, 0, {w1}, FALSE, Nobody, FALSE),
     Load(2, 0, {}, FALSE, [u \in {u1} |-> 2], FALSE),
     Load(1, 0, {}, FALSE, [u \in {u1, u2, u3} |-> 1], TRUE)}

-----------------------------------------------------------------------------
(* What a series shows (SeriesWindow), on all small inputs.                   *)
W == INSTANCE SeriesWindow WITH None <- none, DefaultWidth <- 2, CacheMax <- 1

(* A window has the newest ids up to the right end, in order.                 *)
ASSUME WindowIsNewest ==
    \A ids \in SUBSET (0 .. 4), right \in -1 .. 4, width \in 0 .. 3 :
        LET shown == W!WindowedIds(ids, right, width)
            upTo == {i \in ids : right <= 0 \/ i <= right}
        IN  /\ \A n \in DOMAIN shown : shown[n] \in upTo /\ \A k \in 1 .. n - 1 : shown[k] < shown[n]
            /\ \A i \in upTo : i \in ToSet(shown)
                   \/ Cardinality({j \in upTo : j > i}) >= IF width > 0 THEN width ELSE 2

Bars(ids, val) == [i \in ids |-> <<i, val>>]
Line(ids, at, bind) ==
    [last |-> Max(ids \cup {-1}), epoch |-> at, bars |-> Bars(ids, at), bind |-> bind]
Chart(left, right) == [left |-> left, right |-> right, ready |-> TRUE, more |-> FALSE]
Fresh(klines, symbols) ==
    {[id |-> i, vals |-> [s \in ToSet(symbols) |->
        IF s = Head(symbols) THEN klines[s].bars[i] ELSE klines[s].bars[klines[Head(symbols)].bind[s][i]]]] :
     i \in {j \in DOMAIN klines[Head(symbols)].bars : \A s \in ToSet(Tail(symbols)) :
              LET bind == klines[Head(symbols)].bind IN
              s \in DOMAIN bind /\ j \in DOMAIN bind[s] /\ bind[s][j] \in DOMAIN klines[s].bars}}

(* Rows are those of the newest bars of the first symbol that are bound, to    *)
(* bars that are there.                                                       *)
ASSUME RowsAreAligned ==
    \A ids, other, bound \in SUBSET (1 .. 3), shift \in -1 .. 1, right \in {-1, 2}, width \in {0, 2} :
        LET klines == [a |-> Line(ids, 1, [b |-> [i \in bound |-> i + shift]]), b |-> Line(other, 2, <<>>)]
            shown == W!MultiWindow(<<>>, klines, Chart(1, right), <<"a", "b">>, width)
            upTo == {i \in ids : right <= 0 \/ i <= right}
            newest == {i \in upTo : width = 0 \/ Cardinality({j \in upTo : j > i}) < width}
        IN  ToSet(shown.rows) = {r \in Fresh(klines, <<"a", "b">>) : r.id \in newest}

(* However merges and reads follow each other, a row never has the values of  *)
(* an index that is older than the last merge.                                *)
CacheOps == {[merge |-> s, read |-> <<>>] : s \in {"a", "b"}}
            \cup {[merge |-> "", read |-> r] : r \in {<<"a", "b">>, <<"b", "a">>, <<"a">>}}
CacheOp(st, op) ==
    IF op.read = <<>>
    THEN [st EXCEPT !.klines[op.merge] = Line({1}, st.epoch + 1, [a |-> 1 :> 1, b |-> 1 :> 1]), !.epoch = @ + 1]
    ELSE [st EXCEPT !.cache = W!Indexes(@, st.klines, op.read).cache,
                    !.good = @ /\ ToSet(W!MultiWindow(st.cache, st.klines, Chart(1, 1), op.read, 0).rows)
                                    = Fresh(st.klines, op.read)]
ASSUME CacheIsFresh ==
    \A ops \in [1 .. 5 -> CacheOps] :
        FoldLeft(CacheOp, [klines |-> [s \in {"a", "b"} |-> Line({1}, 0, <<>>)], epoch |-> 0,
                           cache |-> <<>>, good |-> TRUE], ops).good

(* While last ids only grow, each new last bar is told once; the chart is     *)
(* told ready once, and stays in sync; every move of its ends is told.        *)
Updates == {[id |-> i, chart |-> c] : i \in -1 .. 1,
            c \in {none} \cup {[left |-> 0, right |-> r, ready |-> b, more |-> FALSE] : r \in {0, 1}, b \in BOOLEAN}}
Told(us) ==
    FoldLeft(LAMBDA st, u :
                [seen |-> W!Seen(st.seen, "s" :> u.id, u.chart),
                 infos |-> Append(st.infos, W!UpdateInfo(st.seen, "s" :> u.id, u.chart, FALSE))],
             [seen |-> W!NothingSeen({"s"}), infos |-> <<>>], us).infos
ASSUME NewsToldOnce ==
    \A us \in [1 .. 3 -> Updates] :
        (\A i \in 1 .. 2 : us[i].id <= us[i + 1].id) =>
            LET told == Told(us)
                before(i) == {k \in 1 .. i - 1 : us[k].chart # none}
            IN  \A i \in 1 .. 3 :
                /\ (told[i].newBarIds # <<>>) = (us[i].id >= 0 /\ \A k \in 1 .. i - 1 : us[k].id # us[i].id)
                /\ told[i].chartSync = (us[i].chart # none
                       /\ \E k \in before(i) \cup {i} : us[k].chart.ready)
                /\ told[i].rangeChanged = (us[i].chart # none /\
                       (before(i) = {} \/ us[Max(before(i))].chart.right # us[i].chart.right))
=============================================================================
