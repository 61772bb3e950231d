---------------------------- MODULE MCEventHub ----------------------------
(* EventHub on small instances: which publishers there are and what they     *)
(* publish, which readers there are and what they subscribe to.              *)
EXTENDS EventHub

CONSTANTS watch, callback, ra, rb, ro

Order(v) == [kind |-> "order", id |-> "o1", ver |-> v]
Fill == [kind |-> "trade", id |-> "t1"]
Note == [kind |-> "note", id |-> "n1"]

(* A live session: the watch task publishes orders and trades, the callbacks *)
(* of the websocket publish notifications and transport errors.              *)
LiveEmits ==
    [p \in Publishers |-> IF p = watch THEN {Order(1), Order(2), Fill} ELSE {Note}]

(* Two publishers of notifications only: what every journal with more than   *)
(* one publisher is exposed to.                                              *)
NoteEmits == [p \in Publishers |-> {Note}]

Subscribes == [r \in Readers |-> IF r = ro THEN "orders" ELSE "all"]
=============================================================================
