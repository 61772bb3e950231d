----------------------------- MODULE OptionChain -----------------------------
(* The options of an underlying, as the instrument service answers for them   *)
(* (ins/parse.rs, ins/query.rs): which are chosen, which one is at the money, *)
(* and what lies on either side of it.  Pure functions of what the server     *)
(* returned; the query it is asked is left out.                               *)
(*                                                                            *)
(* An option is [id, class, strike, date, expired, a]: its last exercise in   *)
(* months, and whether its name has an A.  None is an argument not given.     *)
EXTENDS Integers, Sequences, FiniteSets, SequencesExt, FiniteSetsExt

CONSTANT None

(* The server's nodes; one without an id, a class, a strike or a date is      *)
(* passed over (parse_option_nodes).                                          *)
Parsed(nodes) ==
    SelectSeq(nodes, LAMBDA o : \A field \in {"id", "class", "strike", "date"} : field \in DOMAIN o)

ExerciseYear(o) == o.date \div 12
ExerciseMonth(o) == o.date % 12

Given(arg, val) == arg = None \/ arg = val

(* The dates the near months stand for: 0 is the first that has not expired.  *)
NearDates(options, nearbys) ==
    LET dates == SetToSortSeq({o.date : o \in ToSet(options)}, <)
    IN  {dates[n + 1] : n \in {k \in nearbys : k < Len(dates)}}

(* filter_option_nodes *)
Filtered(options, class, year, month, a, nearbys) ==
    LET fit == SelectSeq(options, LAMBDA o :
                  /\ Given(class, o.class) /\ Given(a, o.a)
                  /\ Given(year, ExerciseYear(o)) /\ Given(month, ExerciseMonth(o)))
        alive == SelectSeq(fit, LAMBDA o : ~o.expired)
    IN  IF nearbys = None THEN fit
        ELSE SelectSeq(alive, LAMBDA o : o.date \in NearDates(alive, nearbys))

(* query_options: an argument that is given passes only nodes that have it;   *)
(* the nodes need not be complete.                                            *)
Has(o, field, arg) == arg = None \/ (field \in DOMAIN o /\ o[field] = arg)
QueryOptions(nodes, class, year, month, strike, expired, a) ==
    SelectSeq(nodes, LAMBDA o :
        /\ "id" \in DOMAIN o
        /\ Has(o, "class", class) /\ Has(o, "strike", strike) /\ Has(o, "expired", expired)
        /\ Given(a, o.a)
        /\ "date" \in DOMAIN o \/ {year, month} = {None}
        /\ year = None \/ ExerciseYear(o) = year
        /\ month = None \/ ExerciseMonth(o) = month)

-----------------------------------------------------------------------------
(* The sorts of the code are stable.                                          *)
SortedBy(options, Before(_, _)) ==
    LET order == SetToSortSeq(DOMAIN options, LAMBDA i, j :
                    \/ Before(options[i], options[j])
                    \/ ~Before(options[j], options[i]) /\ i < j)
    IN  [n \in DOMAIN options |-> options[order[n]]]

ByStrike(options) ==
    SortedBy(options, LAMBDA o, p : o.strike < p.strike \/ (o.strike = p.strike /\ o.date < p.date))
Descending(options) == SortedBy(options, LAMBDA o, p : o.strike > p.strike)

(* bisect_value_index: the nearest of ascending values; of two as near, the   *)
(* right one or the left one.                                                 *)
NearestIndex(vals, x, priority) ==
    LET left == Cardinality({i \in DOMAIN vals : vals[i] <= x})
        right == left + 1
        d == (x - vals[left]) - (vals[right] - x)
    IN  IF left = 0 THEN 1
        ELSE IF left = Len(vals) THEN left
        ELSE IF d < 0 \/ (d = 0 /\ priority = "left") THEN left ELSE right

(* sort_options_and_get_atm_index, of options that are not empty: in the      *)
(* money come first.  At the money is the first option of the nearest strike. *)
Arranged(options, price, class) ==
    LET sorted == ByStrike(options)
        strikes == [n \in DOMAIN sorted |-> sorted[n].strike]
        mid == strikes[NearestIndex(strikes, price, IF class = "CALL" THEN "right" ELSE "left")]
        atm == sorted[SelectInSeq(sorted, LAMBDA o : o.strike = mid)].id
        shown == IF class = "PUT" THEN Descending(sorted) ELSE sorted
    IN  [options |-> shown, at |-> SelectInSeq(shown, LAMBDA o : o.id = atm)]

Ids(options) == [n \in DOMAIN options |-> options[n].id]

(* The options in, at and out of the money, of those chosen.                  *)
Sides(chosen, price, class) ==
    LET row == Arranged(chosen, price, class) IN
    IF chosen = <<>> THEN [in |-> <<>>, at |-> <<>>, out |-> <<>>]
    ELSE [in |-> Ids(SubSeq(row.options, 1, row.at - 1)),
          at |-> <<row.options[row.at].id>>,
          out |-> Ids(SubSeq(row.options, row.at + 1, Len(row.options)))]

-----------------------------------------------------------------------------
(* The queries, and the arguments they refuse.                                *)

ValidClass(class) == class \in {"CALL", "PUT"}
ValidLevels(levels) == \A n \in DOMAIN levels : levels[n] \in -100 .. 100
(* The near months of an index go further than those of a fund.               *)
ValidNearbys(kind, nearbys) ==
    kind \in {"index", "fund"} /\ nearbys \subseteq IF kind = "index" THEN 0 .. 5 ELSE 0 .. 3

(* query_atm_options: a positive level is in the money.  None is a refusal.   *)
AtLevels(nodes, price, levels, class, year, month, a) ==
    LET chosen == Filtered(Parsed(nodes), class, year, month, a, None)
        row == Arranged(chosen, price, class)
        place(n) == row.at - levels[n]
    IN  IF ~ValidClass(class) \/ ~ValidLevels(levels) THEN None
        ELSE [n \in DOMAIN levels |->
            IF chosen # <<>> /\ place(n) \in DOMAIN row.options THEN row.options[place(n)].id ELSE None]

(* query_all_level_options *)
AllLevels(nodes, price, class, year, month, a) ==
    IF ValidClass(class) THEN Sides(Filtered(Parsed(nodes), class, year, month, a, None), price, class)
    ELSE None

(* query_all_level_finance_options *)
NearLevels(nodes, kind, price, class, nearbys, a) ==
    IF ValidClass(class) /\ ValidNearbys(kind, nearbys)
    THEN Sides(Filtered(Parsed(nodes), class, None, None, a, nearbys), price, class)
    ELSE None
=============================================================================
