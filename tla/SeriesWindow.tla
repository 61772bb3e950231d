----------------------------- MODULE SeriesWindow -----------------------------
(* What a series shows of the data that has been merged: the window of bars   *)
(* or ticks of one symbol, the rows of several symbols aligned by the         *)
(* bindings of the first (datamanager/query.rs), and what an update is said to *)
(* have changed (series/processing.rs).  Pure functions of the merged data,   *)
(* the chart and what was shown before.                                       *)
(*                                                                            *)
(* klines maps a symbol to [last, epoch, bars, bind]: bars from id to value,  *)
(* bind from another symbol to the ids its bars have there.  A chart is       *)
(* [left, right, ready, more], None when there is none.                       *)
EXTENDS Integers, Sequences, FiniteSets, SequencesExt, FiniteSetsExt, Functions, TLC

CONSTANTS
    None,
    DefaultWidth,   \* default_view_width
    CacheMax        \* MAX_NUMERIC_VALUE_INDEX_CACHE_ENTRIES

LastOf(seq, n) == SubSeq(seq, Max({1, Len(seq) - n + 1}), Len(seq))
UpTo(ids, right) == IF right <= 0 THEN ids ELSE {i \in ids : i <= right}

(* collect_windowed_ids                                                       *)
WindowedIds(ids, right, width) ==
    LastOf(SetToSortSeq(UpTo(ids, right), <), IF width > 0 THEN width ELSE DefaultWidth)

(* get_klines_data, and get_ticks_data                                        *)
Window(series, right, width) ==
    LET ids == WindowedIds(DOMAIN series.bars, right, width)
    IN  [last |-> series.last,
         data |-> [i \in DOMAIN ids |-> [id |-> ids[i], val |-> series.bars[ids[i]]]]]

-----------------------------------------------------------------------------
(* Aligned rows.  The index of a symbol's bars is kept until its epoch        *)
(* changes; a full cache is emptied.                                          *)

Hits(cache, s, series) == s \in DOMAIN cache /\ cache[s].epoch = series.epoch

CacheWith(cache, s, series) ==
    IF Hits(cache, s, series) THEN cache
    ELSE (s :> [epoch |-> series.epoch, index |-> series.bars])
         @@ (IF Cardinality(DOMAIN cache) >= CacheMax /\ s \notin DOMAIN cache THEN <<>> ELSE cache)

(* cached_numeric_value_index for each symbol in turn: the index of each, and *)
(* the cache that is left.                                                    *)
Indexes(cache, klines, symbols) ==
    FoldLeft(LAMBDA acc, s :
                IF s \notin DOMAIN klines THEN acc
                ELSE LET c == CacheWith(acc.cache, s, klines[s])
                     IN  [cache |-> c, index |-> (s :> c[s].index) @@ acc.index],
             [cache |-> cache, index |-> <<>>], symbols)

(* The ids of the main symbol's bars that are shown.                          *)
MainIds(ids, right, width) ==
    LET all == SetToSortSeq(UpTo(ids, right), <)
    IN  IF width > 0 THEN LastOf(all, width) ELSE all

BoundTo(klines, main, s) ==
    IF main \in DOMAIN klines /\ s \in DOMAIN klines[main].bind THEN klines[main].bind[s] ELSE <<>>

(* A row is shown when every other symbol has a bar bound to it.              *)
Aligned(index, klines, symbols, id) ==
    \A s \in ToSet(Tail(symbols)) :
        LET bound == BoundTo(klines, Head(symbols), s) IN
        id \in DOMAIN bound /\ s \in DOMAIN index /\ bound[id] \in DOMAIN index[s]

Row(index, klines, symbols, id) ==
    [s \in ToSet(symbols) |->
        IF s = Head(symbols) THEN index[s][id]
        ELSE index[s][BoundTo(klines, Head(symbols), s)[id]]]

(* get_multi_klines_data; the ends are those of the chart unless bars to the  *)
(* left were cut off.                                                         *)
MultiWindow(cache, klines, chart, symbols, width) ==
    LET main == Head(symbols)
        index == Indexes(cache, klines, symbols).index
        bars == IF main \in DOMAIN index THEN DOMAIN index[main] ELSE {}
        right == IF chart = None THEN -1 ELSE chart.right
        ids == MainIds(bars, right, width)
        cut == Cardinality(UpTo(bars, right)) > Len(ids)
        shown == SelectSeq(ids, LAMBDA id : Aligned(index, klines, symbols, id))
    IN  [left |-> IF cut THEN Head(ids) ELSE IF chart = None THEN -1 ELSE chart.left,
         right |-> IF cut THEN Last(ids) ELSE right,
         rows |-> [i \in DOMAIN shown |-> [id |-> shown[i], vals |-> Row(index, klines, symbols, shown[i])]]]

(* What a subscription shows, to the right end of its chart.                   *)
SeriesOf(cache, klines, chart, symbols, width) ==
    IF Len(symbols) > 1 THEN MultiWindow(cache, klines, chart, symbols, width)
    ELSE Window(klines[Head(symbols)], IF chart = None THEN -1 ELSE chart.right, width)

-----------------------------------------------------------------------------
(* What an update changed.  seen is what the updates before have left: last   *)
(* ids, ends of the chart, whether it was ever ready.                         *)

NothingSeen(symbols) ==
    [ids |-> [s \in symbols |-> -1], left |-> -1, right |-> -1, ready |-> FALSE]

(* detect_new_bars; changed says whether a kline's epoch is newer than the    *)
(* last update's, which ticks do not ask.                                     *)
NewBars(seen, ids) == {s \in DOMAIN ids : ids[s] > seen.ids[s]}

(* detect_chart_range_change *)
RangeChanged(seen, chart) == chart # None /\ (chart.left # seen.left \/ chart.right # seen.right)
BecomesReady(seen, chart) == chart # None /\ chart.ready /\ ~seen.ready

Seen(seen, ids, chart) ==
    [ids |-> ids,
     left |-> IF chart = None THEN seen.left ELSE chart.left,
     right |-> IF chart = None THEN seen.right ELSE chart.right,
     ready |-> seen.ready \/ BecomesReady(seen, chart)]

(* process_series_update *)
UpdateInfo(seen, ids, chart, changed) ==
    LET new == NewBars(seen, ids) IN
    [newBarIds |-> [s \in new |-> ids[s]],
     newBar |-> new # {} \/ BecomesReady(seen, chart),
     barUpdate |-> new # {} \/ BecomesReady(seen, chart) \/ changed,
     rangeChanged |-> RangeChanged(seen, chart),
     chartSync |-> chart # None /\ (seen.ready \/ BecomesReady(seen, chart)),
     chartReady |-> chart # None /\ chart.ready /\ ~chart.more]
=============================================================================
