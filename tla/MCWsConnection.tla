-------------------------- MODULE MCWsConnection --------------------------
(* WsConnection on small instances.  The reconnect tasks are interchangeable. *)
EXTENDS WsConnection, TLC

\* CONSTRAINT, a BOUND: of the dials, losses and calls that the other bounds allow,
\* a behaviour uses up four; a fifth only after a close() has cut into a reconnect,
\* with the senders done and a reconnect task to spare.
Budget ==
    LET used == dials + losses + calls IN
    \/ used <= 4
    \/ /\ used = 5 /\ cuts > 0
       /\ \A s \in Senders : at[s] = "sent"
       /\ \E r \in Reconnectors : at[r] = "none"

Symmetric == Permutations(Reconnectors)
=============================================================================
