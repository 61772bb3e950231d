------------------------------ MODULE MCHistory ------------------------------
EXTENDS History

CONSTANTS a, b

MCUsers == {a, b}
MCProcess == (a :> "p1") @@ (b :> "p2")
(* Two bars, a weekend, three bars.                                           *)
MCTime == <<2, 4, 10, 12, 14>>

Win(start, end) == RangeOf(start, end)
Load(wa, wb, newest, bars, kind, evicts, crash) ==
    [windows |-> (a :> wa) @@ (b :> wb), live |-> newest, bars |-> bars,
     kind |-> kind, evicts |-> evicts, crashes |-> crash]

MCLoads ==
    {Load(<<Win(2, 12), Win(4, 16)>>, <<Win(3, 14)>>, 3, 2, "cached", FALSE, 1),
     Load(<<Win(2, 6), Win(10, 16)>>, <<Win(2, 16)>>, 4, 1, "cached", TRUE, 0),
     Load(<<Win(12, 16), Win(2, 6)>>, <<Win(4, 12), Win(2, 15)>>, 4, 1, "cached", FALSE, 0),
     Load(<<Win(3, 16)>>, <<Win(10, 14)>>, 4, 1, "direct", FALSE, 0),
     Load(<<Win(3, 16), Win(2, 6)>>, <<Win(10, 13)>>, 4, 1, "replay", FALSE, 0)}

(* One bar of a longer series                                                 *)
OneBarLoads == {Load(<<Win(4, 6)>>, <<>>, 3, 0, "cached", FALSE, 0)}

-----------------------------------------------------------------------------
(* The operations on ranges, against the sets of integers they stand for: all *)
(* merged range sets over five points, and all sequences of three ranges.     *)
AllRanges == {r \in [start : 0 .. 4, end : 0 .. 5] : r.start < r.end}
RangeSetsOver == {s \in UNION {[1 .. n -> AllRanges] : n \in 0 .. 3} : IsMerged(s)}

ASSUME UnorderedMerge ==
    \A n \in 0 .. 3 : \A s \in [1 .. n -> AllRanges] :
        /\ IsMerged(RangesetMerge(s)) /\ PointsOf(RangesetMerge(s)) = PointsOf(s)

ASSUME OperationsOnSets ==
    \A s, t \in RangeSetsOver :
        /\ IsMerged(RangesetUnion(s, t)) /\ PointsOf(RangesetUnion(s, t)) = PointsOf(s) \cup PointsOf(t)
        /\ PointsOf(RangesetIntersection(s, t)) = PointsOf(s) \cap PointsOf(t)
        /\ PointsOf(RangesetDifference(s, t)) = PointsOf(s) \ PointsOf(t)
=============================================================================
