---------------------------- MODULE MCSubscriptions ----------------------------
EXTENDS Resync, TLC

CONSTANTS s1, s2, x1, x2, c1, c2

Calls(a, n, b, m, first, breaks) ==
    [ops |-> c1 :> a @@ c2 :> b, calls |-> c1 :> n @@ c2 :> m, first |-> first,
     breaking |-> IF "acquire" \in a THEN {"status"} ELSE {"quote"}, losses |-> breaks,
     answers |-> FALSE]
Answered(calls) == [calls EXCEPT !.answers = TRUE]

(* Two subscriptions, one closed by another caller; three calls on one of     *)
(* them; a chart beside a list, then closed; calls on one chart that cross; receivers of    *)
(* trading status of two symbols; a list and a chart that are answered, and a *)
(* chart whose resynchronisation is itself broken.                            *)
MCLoads ==
    { Calls({"activate"}, 1, {"activate", "close"}, 1, {x1}, 1),
      Calls({"activate", "add", "remove"}, 3, {"close"}, 1, {x1}, 0),
      Calls({"activate"}, 1, {"chart", "unchart"}, 1, {x1}, 1),
      Calls({"activate", "chart", "unchart"}, 3, {}, 0, {x1}, 2),
      Calls({"chart", "unchart"}, 2, {"refresh"}, 2, {x1}, 0),
      Calls({"chart", "refresh"}, 2, {"unchart"}, 2, {x1}, 1),
      Calls({"acquire", "release"}, 2, {"acquire"}, 1, {x1}, 1),
      Answered(Calls({"activate"}, 1, {"chart"}, 1, {x1}, 1)),
      Answered(Calls({"chart"}, 1, {}, 0, {x1}, 2)) }

MCSymmetry == Permutations(Subs)

-----------------------------------------------------------------------------
(* The option queries of the instrument service (OptionChain), on every chain *)
(* of up to three options.                                                    *)
O == INSTANCE OptionChain

Nodes(classes, strikes, dates) ==
    UNION {{[n \in 1 .. k |-> [id |-> n, class |-> cls[n], strike |-> f[n][1], date |-> f[n][2],
                               expired |-> f[n][2] = 1, a |-> FALSE]] :
            cls \in [1 .. k -> classes], f \in [1 .. k -> strikes \X dates]} : k \in 0 .. 3}
Distance(x, y) == IF x < y THEN y - x ELSE x - y
OneOf(seq) == seq[1]

(* Every option of the class is on one side or at the money; what is at the   *)
(* money is nearest to the price, of two as near the one that is out of it;   *)
(* what is in the money is strictly deeper, in order of depth.                *)
ASSUME SidesAreRight ==
    \A nodes \in Nodes({"CALL", "PUT"}, {2, 4, 6}, {1, 2}), price \in 1 .. 7, class \in {"CALL", "PUT"} :
        LET s == O!AllLevels(nodes, price, class, None, None, None)
            all == {n \in DOMAIN nodes : nodes[n].class = class}
            depth(n) == IF class = "CALL" THEN -nodes[n].strike ELSE nodes[n].strike
            row == s.in \o s.at \o s.out
        IN  /\ ToSet(row) = all /\ Len(row) = Cardinality(all)
            /\ \A i, j \in DOMAIN row : i < j => depth(row[i]) >= depth(row[j])
            /\ all # {} =>
                 LET at == OneOf(s.at) IN
                 /\ \A n \in all : LET d == Distance(nodes[n].strike, price) IN
                       \/ d > Distance(nodes[at].strike, price)
                       \/ d = Distance(nodes[at].strike, price) /\ depth(n) >= depth(at)
                 /\ \A n \in ToSet(s.in) : depth(n) > depth(at)

(* The levels count from the option at the money into and out of it.          *)
ASSUME LevelsCountFromAtm ==
    \A nodes \in Nodes({"PUT"}, {2, 4}, {1, 2}), price \in {1, 3, 5} :
        LET levels == <<-2, -1, 0, 1, 2>>
            s == O!AllLevels(nodes, price, "PUT", None, None, None)
            at(seq, n) == IF n \in DOMAIN seq THEN seq[n] ELSE None
        IN  O!AtLevels(nodes, price, levels, "PUT", None, None, None)
              = <<at(s.out, 2), at(s.out, 1), at(s.at, 1),
                  at(s.in, Len(s.in)), at(s.in, Len(s.in) - 1)>>

(* The near months are those of the options that are left: neither expired,   *)
(* nor of the other class.                                                    *)
ASSUME NearMonthsAreAlive ==
    \A nodes \in Nodes({"CALL", "PUT"}, {2}, {1, 2, 3}), near \in SUBSET (0 .. 2) :
        LET s == O!NearLevels(nodes, "fund", 2, "CALL", near, None)
            alive == {n \in DOMAIN nodes : nodes[n].class = "CALL" /\ ~nodes[n].expired}
            earlier(n) == {nodes[k].date : k \in {m \in alive : nodes[m].date < nodes[n].date}}
        IN  ToSet(s.in \o s.at \o s.out) = {n \in alive : Cardinality(earlier(n)) \in near}

(* Two queries for the same options agree: those of a class that are alive    *)
(* are the ones on the sides of all near months.                              *)
ASSUME QueriesAgree ==
    \A nodes \in Nodes({"CALL", "PUT"}, {2, 4}, {1, 2, 3}) :
        LET s == O!NearLevels(nodes, "index", 3, "PUT", 0 .. 5, FALSE)
            some == O!QueryOptions(nodes, "PUT", None, None, None, FALSE, FALSE)
        IN  {o.id : o \in ToSet(some)} = ToSet(s.in \o s.at \o s.out)
=============================================================================
