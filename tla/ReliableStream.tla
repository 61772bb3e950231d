--------------------------- MODULE ReliableStream ---------------------------
(***************************************************************************)
(* What a reliable event stream promises its subscribers, whatever it is   *)
(* built from: every subscriber receives, in order and without gaps, the   *)
(* events published after it subscribed, until it falls more than          *)
(* MaxRetained events behind; from then on it is told so.  EventHub        *)
(* implements it for every journal that has a single publisher.            *)
(***************************************************************************)
EXTENDS Integers, Sequences, FiniteSets

CONSTANTS Readers, Events, MaxRetained

VARIABLES
    stream,      \* everything published
    status,      \* "none", "reading", "lagged" or "dropped"
    start,       \* Len(stream) when the reader subscribed
    delivered    \* indices of the stream the reader has received

vars == <<stream, status, start, delivered>>

Position(r) == start[r] + Cardinality(delivered[r])

Init ==
    /\ stream = <<>>
    /\ status = [r \in Readers |-> "none"]
    /\ start = [r \in Readers |-> 0]
    /\ delivered = [r \in Readers |-> {}]

(* Exactly the readers that are more than MaxRetained behind are cut off. *)
Publish(e) ==
    /\ stream' = Append(stream, e)
    /\ status' = [r \in Readers |->
                    IF status[r] = "reading" /\ Len(stream') - Position(r) > MaxRetained
                    THEN "lagged" ELSE status[r]]
    /\ UNCHANGED <<start, delivered>>

Subscribe(r) ==
    /\ status[r] = "none"
    /\ status' = [status EXCEPT ![r] = "reading"]
    /\ start' = [start EXCEPT ![r] = Len(stream)]
    /\ UNCHANGED <<stream, delivered>>

Deliver(r) ==
    /\ status[r] = "reading"
    /\ Position(r) < Len(stream)
    /\ delivered' = [delivered EXCEPT ![r] = @ \cup {Position(r) + 1}]
    /\ UNCHANGED <<stream, status, start>>

Drop(r) ==
    /\ status[r] \in {"reading", "lagged"}
    /\ status' = [status EXCEPT ![r] = "dropped"]
    /\ UNCHANGED <<stream, start, delivered>>

Next ==
    \/ \E e \in Events : Publish(e)
    \/ \E r \in Readers : Subscribe(r) \/ Deliver(r) \/ Drop(r)

Spec == Init /\ [][Next]_vars
=============================================================================
