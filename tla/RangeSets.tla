------------------------------ MODULE RangeSets ------------------------------
(* types/rangeset.rs: sets of integers kept as sequences of half-open ranges. *)
(* The cache of historical data (History.tla) reckons with them in ids and in *)
(* times.  MCHistory compares each operation with the set it stands for.      *)
EXTENDS Integers, Sequences, SequencesExt, FiniteSetsExt, TLC

RangeOf(start, end) == [start |-> start, end |-> end]

IsEmptyRange(r) == r.start = r.end

(* The integers of a sequence of ranges (the reference definition).           *)
PointsOf(ranges) == UNION {ranges[i].start .. ranges[i].end - 1 : i \in DOMAIN ranges}

(* Ordered, disjoint and not adjacent: what rangeset_merge makes of any ranges *)
IsMerged(ranges) ==
    /\ \A i \in DOMAIN ranges : ranges[i].start <= ranges[i].end
    /\ \A i \in 1 .. Len(ranges) - 1 : ranges[i].end < ranges[i + 1].start

Extended(r, other) == [r EXCEPT !.end = Max({@, other.end})]

RangesetMerge(ranges) ==
    LET Join(merged, r) ==
            IF merged # <<>> /\ Last(merged).end >= r.start
              THEN Append(Front(merged), Extended(Last(merged), r))
              ELSE Append(merged, r)
    IN  FoldLeft(Join, <<>>, SortSeq(ranges, LAMBDA r, s : r.start < s.start))

(* The index after the ranges of s, from index i, that touch r, and r extended *)
(* by them.                                                                   *)
Absorb(r, s, i) ==
    LET step[k \in i .. Len(s) + 1] ==
            IF k = i THEN [r |-> r, at |-> i]
            ELSE LET before == step[k - 1] IN
                 IF before.at = k - 1 /\ before.r.end >= s[k - 1].start
                   THEN [r |-> Extended(before.r, s[k - 1]), at |-> k]
                   ELSE before
    IN  step[Len(s) + 1]

RangesetUnion(a, b) ==
    LET union[i \in 1 .. Len(a) + 1, j \in 1 .. Len(b) + 1] ==
            IF i > Len(a) /\ j > Len(b) THEN <<>>
            ELSE LET fromA == i <= Len(a) /\ (j > Len(b) \/ a[i].start < b[j].start)
                     first == IF fromA THEN a[i] ELSE b[j]
                     isA == i <= Len(a) /\ first = a[i]
                     withA == Absorb(first, a, IF isA THEN i + 1 ELSE i)
                     withB == Absorb(withA.r, b, IF isA THEN j ELSE j + 1)
                 IN  <<withB.r>> \o union[withA.at, withB.at]
    IN  RangesetMerge(union[1, 1])

RangesetIntersection(a, b) ==
    LET common[i \in 1 .. Len(a) + 1, j \in 1 .. Len(b) + 1] ==
            IF i > Len(a) \/ j > Len(b) THEN <<>>
            ELSE LET start == Max({a[i].start, b[j].start})
                     end == Min({a[i].end, b[j].end})
                 IN  (IF start < end THEN <<RangeOf(start, end)>> ELSE <<>>)
                       \o (IF a[i].end < b[j].end THEN common[i + 1, j] ELSE common[i, j + 1])
    IN  common[1, 1]

(* What is left of r once the ranges of s are cut out of it, in their order.  *)
Cut(r, s) ==
    LET Cutting(acc, c) ==
            IF acc.rest.start >= acc.rest.end \/ c.start >= acc.rest.end THEN acc
            ELSE [rest |-> [acc.rest EXCEPT !.start = Max({@, c.end})],
                  kept |-> IF acc.rest.start < c.start
                             THEN Append(acc.kept, RangeOf(acc.rest.start, c.start)) ELSE acc.kept]
        cut == FoldLeft(Cutting, [rest |-> r, kept |-> <<>>], s)
    IN  IF cut.rest.start < cut.rest.end THEN Append(cut.kept, cut.rest) ELSE cut.kept

RangesetDifference(a, b) ==
    LET after(i, j) == {k \in j .. Len(b) : b[k].end > a[i].start}
        minus[i \in 1 .. Len(a) + 1, j \in 1 .. Len(b) + 1] ==
            IF i > Len(a) THEN <<>>
            ELSE LET from == IF after(i, j) = {} THEN Len(b) + 1 ELSE Min(after(i, j))
                 IN  Cut(a[i], SubSeq(b, from, Len(b))) \o minus[i + 1, from]
    IN  minus[1, 1]
=============================================================================
