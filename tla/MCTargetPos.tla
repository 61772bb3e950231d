---------------------------- MODULE MCTargetPos ----------------------------
(* A small instance of TargetPos: net positions of at most two lots, a plan   *)
(* of two groups, two handles, and a schedule of two steps.                   *)
EXTENDS TargetPos, TLC

Flat == [longToday |-> 0, longHis |-> 0, shortToday |-> 0, shortHis |-> 0]
MCPositions == {[Flat EXCEPT !.longToday = 1, !.longHis = 1]}
MCPriority == <<<<"today", "yesterday">>, <<"open">>>>
MCSchedule == <<-1, 1>>
MCTargets == {1, 4}
Symmetry == Permutations(Callers)
=============================================================================
