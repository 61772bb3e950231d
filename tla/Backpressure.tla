---------------------------- MODULE Backpressure ----------------------------
(***************************************************************************)
(* The inbound message buffer of a websocket session                       *)
(* (src/src/websocket/backpressure.rs): BackpressureState between the      *)
(* on_message callback, which may not wait, and the task that processes    *)
(* messages from a bounded tokio channel.  A frame that finds the channel  *)
(* full goes to a backlog, which a drain task empties into the channel; an *)
(* overflow of the backlog cuts the connection, so that the server sends   *)
(* its whole state again on the next one.                                  *)
(*                                                                         *)
(* A frame is [merges, items]: whether it is an rtn_data frame, and the    *)
(* diffs it carries, numbered as they arrive.  A step is what the callback *)
(* or a drain task does between two accesses to what they share.           *)
(*                                                                         *)
(* A definition marked "mutant" is a deliberately broken form of the one   *)
(* it precedes and is used nowhere.                                        *)
(***************************************************************************)
EXTENDS Integers, Sequences, FiniteSets

CONSTANTS
    Drainers,       \* BOUND: drain tasks that can exist at a time
    Capacity,       \* message_queue_capacity
    BacklogMax,     \* backlog_max
    BatchMax,       \* batch_max
    MaxItems,       \* BOUND: diffs received
    MaxConns        \* BOUND: connections

Items == 1 .. MaxItems
Frames == [merges : BOOLEAN, items : Seq(Items)]
NoFrame == [merges |-> FALSE, items |-> <<>>]

ASSUME BackpressureAssumption ==
    /\ Capacity \in Nat \ {0} /\ BacklogMax \in Nat \ {0} /\ BatchMax \in Nat \ {0}
    /\ MaxItems \in Nat /\ MaxConns \in Nat \ {0}

VARIABLES
    channel,        \* frames in the channel
    receiving,      \* the task that processes messages still runs
    backlog,        \* frames that found the channel full
    draining,       \* a drain task is responsible for the backlog
    overflowNotified,
    producer,       \* step of the on_message callback: "idle", "full", "swap"
    frame,          \* the frame it has
    at, batch,      \* step of each drain task, and the frame it has taken
    received,       \* number of diffs received
    conn, cut,      \* current connection, and whether it has been cut
    delivered,      \* history: diffs processed, in order
    lost,           \* history: diffs dropped
    direct,         \* history: diffs that went to the channel directly
    announced       \* history: connections the overflow handler has cut

tasks   == <<producer, frame, at, batch>>
source  == <<received, conn, cut>>
vars == <<channel, receiving, backlog, draining, overflowNotified, tasks,
          source, delivered, lost, direct, announced>>

Working == {"take", "send", "waiting", "granted"}
Finishing == {"stop", "reset", "recheck", "reswap", "closed", "clear"}

TypeOK ==
    /\ channel \in Seq(Frames)
    /\ backlog \in Seq(Frames) /\ Len(backlog) <= BacklogMax
    /\ {receiving, draining, overflowNotified, cut} \subseteq BOOLEAN
    /\ producer \in {"idle", "full", "swap"} /\ frame \in Frames
    /\ at \in [Drainers -> {"none"} \cup Working \cup Finishing]
    /\ batch \in [Drainers -> Frames]
    /\ received \in 0 .. MaxItems /\ conn \in 1 .. MaxConns
    /\ delivered \in Seq(Items) /\ {lost, direct} \subseteq SUBSET Items
    /\ announced \subseteq 1 .. MaxConns

Init ==
    /\ channel = <<>> /\ receiving = TRUE
    /\ backlog = <<>> /\ draining = FALSE /\ overflowNotified = FALSE
    /\ producer = "idle" /\ frame = NoFrame
    /\ at = [d \in Drainers |-> "none"] /\ batch = [d \in Drainers |-> NoFrame]
    /\ received = 0 /\ conn = 1 /\ cut = FALSE
    /\ delivered = <<>> /\ lost = {} /\ direct = {}
    /\ announced = {}

-----------------------------------------------------------------------------
ItemsOf(f) == {f.items[i] : i \in 1 .. Len(f.items)}
Held(frames) == UNION {ItemsOf(frames[i]) : i \in 1 .. Len(frames)}

(* try_merge_rtn_data_inplace *)
Merges(f, g) == f.merges /\ g.merges
KeepNewest(f, g) == [f EXCEPT !.items = g.items]                    \* mutant
NewestFirst(f, g) == [f EXCEPT !.items = g.items \o @]              \* mutant
Merged(f, g) == [f EXCEPT !.items = @ \o g.items]

(* A permit that a drain task has been granted is not free. *)
HasRoom ==
    Len(channel) + Cardinality({d \in Drainers : at[d] = "granted"}) < Capacity

-----------------------------------------------------------------------------
(* The connection *)

Reconnect ==
    /\ cut /\ conn < MaxConns
    /\ conn' = conn + 1
    /\ cut' = FALSE
    /\ UNCHANGED <<channel, receiving, backlog, draining, overflowNotified, tasks,
                   received, delivered, lost, direct, announced>>

-----------------------------------------------------------------------------
(* enqueue() *)

(* A frame of one diff arrives and is tried on the channel. *)
Enqueue ==
    /\ producer = "idle" /\ ~cut /\ received < MaxItems
    /\ received' = received + 1
    /\ \E merges \in BOOLEAN :
         LET new == [merges |-> merges, items |-> <<received + 1>>] IN
         \/ /\ ~receiving
            /\ lost' = lost \cup ItemsOf(new)
            /\ UNCHANGED <<channel, direct, producer, frame>>
         \/ /\ receiving /\ HasRoom
            /\ channel' = Append(channel, new)
            /\ direct' = direct \cup ItemsOf(new)
            /\ UNCHANGED <<lost, producer, frame>>
         \/ /\ receiving /\ ~HasRoom
            /\ frame' = new
            /\ producer' = "full"
            /\ UNCHANGED <<channel, lost, direct>>
    /\ UNCHANGED <<receiving, backlog, draining, overflowNotified, at, batch,
                   conn, cut, delivered, announced>>

Full == Len(backlog) >= BacklogMax

(* notify_overflow_once() *)
AlreadyDraining == draining                                         \* mutant
AlreadyNotified == overflowNotified

NotifyOverflow ==
    /\ overflowNotified' = TRUE
    /\ IF AlreadyNotified
       THEN UNCHANGED <<cut, announced>>
       ELSE cut' = TRUE /\ announced' = announced \cup {conn}

(* The channel is full: under the lock of the backlog. *)
AddToBacklog ==
    /\ producer = "full"
    /\ producer' = "swap"
    /\ frame' = NoFrame
    /\ LET last == Len(backlog) IN
       \/ /\ last > 0 /\ Merges(backlog[last], frame)
          /\ backlog' = [backlog EXCEPT ![last] = Merged(@, frame)]
          /\ UNCHANGED <<lost, overflowNotified, cut, announced>>
       \/ /\ ~(last > 0 /\ Merges(backlog[last], frame)) /\ ~Full
          /\ backlog' = Append(backlog, frame)
          /\ UNCHANGED <<lost, overflowNotified, cut, announced>>
       \/ /\ ~(last > 0 /\ Merges(backlog[last], frame)) /\ Full
          /\ backlog' = Append(Tail(backlog), frame)
          /\ lost' = lost \cup ItemsOf(Head(backlog))
          /\ NotifyOverflow
    /\ UNCHANGED <<channel, receiving, draining, at, batch, received, conn,
                   delivered, direct>>

StartDraining ==
    /\ producer = "swap"
    /\ producer' = "idle"
    /\ draining' = TRUE
    /\ IF draining
       THEN UNCHANGED at
       ELSE \E d \in Drainers : at[d] = "none" /\ at' = [at EXCEPT ![d] = "take"]
    /\ UNCHANGED <<channel, receiving, backlog, overflowNotified, frame, batch,
                   source, delivered, lost, direct, announced>>

-----------------------------------------------------------------------------
(* drain_backlog() *)

Goto(d, step) == at' = [at EXCEPT ![d] = step]

(* How many frames from the head of the backlog merge into one. *)
BatchLen ==
    LET fits(k) == \A i \in 2 .. k : Merges(backlog[1], backlog[i])
    IN  CHOOSE k \in 1 .. Len(backlog) :
            /\ k <= BatchMax /\ fits(k)
            /\ \A j \in 1 .. Len(backlog) : j <= BatchMax /\ fits(j) => j <= k

BatchOf[k \in 0 .. BacklogMax] ==
    IF k = 0 THEN NoFrame
    ELSE IF k = 1 THEN backlog[1]
    ELSE Merged(BatchOf[k - 1], backlog[k])

DrainTake(d) ==
    /\ at[d] = "take"
    /\ \/ /\ backlog = <<>>
          /\ Goto(d, "stop")
          /\ UNCHANGED <<backlog, batch>>
       \/ /\ backlog # <<>>
          /\ batch' = [batch EXCEPT ![d] = BatchOf[BatchLen]]
          /\ backlog' = SubSeq(backlog, BatchLen + 1, Len(backlog))
          /\ Goto(d, "send")
    /\ UNCHANGED <<channel, receiving, draining, overflowNotified, producer, frame,
                   source, delivered, lost, direct, announced>>

(* sender.send().await takes a free permit or queues for one. *)
SendClosedIsFull(d) ==                                              \* mutant
    /\ at[d] = "send"
    /\ \/ /\ receiving /\ HasRoom
          /\ channel' = Append(channel, batch[d])
          /\ batch' = [batch EXCEPT ![d] = NoFrame]
          /\ Goto(d, "take")
       \/ /\ ~(receiving /\ HasRoom)
          /\ Goto(d, "waiting")
          /\ UNCHANGED <<channel, batch>>
    /\ UNCHANGED <<receiving, backlog, draining, overflowNotified, producer, frame,
                   source, delivered, lost, direct, announced>>
DrainSend(d) ==
    /\ at[d] = "send"
    /\ \/ /\ receiving /\ HasRoom
          /\ channel' = Append(channel, batch[d])
          /\ batch' = [batch EXCEPT ![d] = NoFrame]
          /\ Goto(d, "take")
       \/ /\ receiving /\ ~HasRoom
          /\ Goto(d, "waiting")
          /\ UNCHANGED <<channel, batch>>
       \/ /\ ~receiving
          /\ Goto(d, "closed")
          /\ UNCHANGED <<channel, batch>>
    /\ UNCHANGED <<receiving, backlog, draining, overflowNotified, producer, frame,
                   source, delivered, lost, direct, announced>>

(* A frame that has its permit goes into the channel, even one that is closed. *)
DrainPush(d) ==
    /\ at[d] = "granted"
    /\ channel' = IF receiving THEN Append(channel, batch[d]) ELSE channel
    /\ lost' = IF receiving THEN lost ELSE lost \cup ItemsOf(batch[d])
    /\ batch' = [batch EXCEPT ![d] = NoFrame]
    /\ Goto(d, "take")
    /\ UNCHANGED <<receiving, backlog, draining, overflowNotified, producer, frame,
                   source, delivered, direct, announced>>

(* The channel is closed: what is left goes. *)
DrainClosed(d) ==
    /\ at[d] = "closed"
    /\ draining' = FALSE
    /\ lost' = lost \cup ItemsOf(batch[d])
    /\ batch' = [batch EXCEPT ![d] = NoFrame]
    /\ Goto(d, "clear")
    /\ UNCHANGED <<channel, receiving, backlog, overflowNotified, producer, frame,
                   source, delivered, direct, announced>>

DrainClear(d) ==
    /\ at[d] = "clear"
    /\ lost' = lost \cup Held(backlog)
    /\ backlog' = <<>>
    /\ Goto(d, "none")
    /\ UNCHANGED <<channel, receiving, draining, overflowNotified, producer, frame, batch,
                   source, delivered, direct, announced>>

(* The backlog is empty: let go of it, and look again. *)
DrainStop(d) ==
    /\ at[d] = "stop"
    /\ draining' = FALSE
    /\ Goto(d, "reset")
    /\ UNCHANGED <<channel, receiving, backlog, overflowNotified, producer, frame, batch,
                   source, delivered, lost, direct, announced>>

DrainReset(d) ==
    /\ at[d] = "reset"
    /\ overflowNotified' = FALSE
    /\ Goto(d, "recheck")
    /\ UNCHANGED <<channel, receiving, backlog, draining, producer, frame, batch,
                   source, delivered, lost, direct, announced>>

QuitUnchecked(d) ==                                                 \* mutant
    /\ at[d] = "recheck"
    /\ Goto(d, "none")
    /\ UNCHANGED <<channel, receiving, backlog, draining, overflowNotified, producer, frame, batch,
                   source, delivered, lost, direct, announced>>
DrainRecheck(d) ==
    /\ at[d] = "recheck"
    /\ Goto(d, IF backlog = <<>> THEN "none" ELSE "reswap")
    /\ UNCHANGED <<channel, receiving, backlog, draining, overflowNotified, producer, frame, batch,
                   source, delivered, lost, direct, announced>>

ReswapAlways(d) ==                                                  \* mutant
    /\ at[d] = "reswap"
    /\ draining' = TRUE
    /\ Goto(d, "take")
    /\ UNCHANGED <<channel, receiving, backlog, overflowNotified, producer, frame, batch,
                   source, delivered, lost, direct, announced>>
DrainReswap(d) ==
    /\ at[d] = "reswap"
    /\ draining' = TRUE
    /\ Goto(d, IF draining THEN "none" ELSE "take")
    /\ UNCHANGED <<channel, receiving, backlog, overflowNotified, producer, frame, batch,
                   source, delivered, lost, direct, announced>>

-----------------------------------------------------------------------------
(* The task that processes messages *)

(* A permit that comes free goes to a drain task that waits for one. *)
Process ==
    /\ receiving /\ channel # <<>>
    /\ delivered' = delivered \o Head(channel).items
    /\ channel' = Tail(channel)
    /\ \/ \E d \in Drainers : at[d] = "waiting" /\ Goto(d, "granted")
       \/ (\A d \in Drainers : at[d] # "waiting") /\ UNCHANGED at
    /\ UNCHANGED <<receiving, backlog, draining, overflowNotified, producer, frame, batch,
                   source, lost, direct, announced>>

(* The task ends with the runtime, or with a panic in a callback. *)
ReceiverEnds ==
    /\ receiving
    /\ receiving' = FALSE
    /\ lost' = lost \cup Held(channel)
    /\ channel' = <<>>
    /\ at' = [d \in Drainers |-> IF at[d] = "waiting" THEN "closed" ELSE at[d]]
    /\ UNCHANGED <<backlog, draining, overflowNotified, producer, frame, batch,
                   source, delivered, direct, announced>>

-----------------------------------------------------------------------------
DrainStep(d) ==
    \/ DrainTake(d) \/ DrainSend(d) \/ DrainPush(d)
    \/ DrainClosed(d) \/ DrainClear(d)
    \/ DrainStop(d) \/ DrainReset(d) \/ DrainRecheck(d) \/ DrainReswap(d)

Next ==
    \/ Reconnect
    \/ Enqueue \/ AddToBacklog \/ StartDraining
    \/ \E d \in Drainers : DrainStep(d)
    \/ Process \/ ReceiverEnds

Spec == Init /\ [][Next]_vars

(* The callback runs to its end, a spawned task is polled, and the processing *)
(* task takes what is in the channel.                                         *)
FairSpec ==
    /\ Spec
    /\ WF_vars(AddToBacklog) /\ WF_vars(StartDraining) /\ WF_vars(Process)
    /\ \A d \in Drainers : WF_vars(DrainStep(d))

-----------------------------------------------------------------------------
(* Properties. *)

(* Nobody leaves frames in the backlog behind: where there are any, a drain   *)
(* task is at work or about to look again, or the callback is about to start  *)
(* one.                                                                       *)
NothingStuck ==
    backlog # <<>> => producer = "swap" \/ \E d \in Drainers : at[d] # "none"

(* However the callback and an ending drain task cross between the two swaps  *)
(* of `draining`, exactly one task takes frames from the backlog while it is  *)
(* set, and none otherwise.                                                   *)
Exclusive(d) == at[d] \in Working \cup {"stop", "closed"}
OneDrainer ==
    /\ \A d, e \in Drainers : Exclusive(d) /\ Exclusive(e) => d = e
    /\ draining <=> \E d \in Drainers : Exclusive(d)

(* Every diff received is in exactly one place: with the callback, in the     *)
(* backlog, with a drain task, in the channel, processed, or dropped.         *)
InHand == ItemsOf(frame) \cup UNION {ItemsOf(batch[d]) : d \in Drainers}
Processed == {delivered[i] : i \in 1 .. Len(delivered)}
Conserved ==
    LET places == <<Held(channel), Held(backlog), InHand, Processed, lost>> IN
    /\ UNION {places[i] : i \in 1 .. 5} = 1 .. received
    /\ \A i, j \in 1 .. 5 : i # j => places[i] \cap places[j] = {}
    /\ \A i, j \in 1 .. Len(delivered) : i # j => delivered[i] # delivered[j]

(* Diffs that went through the backlog are processed in the order they came   *)
(* in, and so are those that went to the channel directly.                    *)
TwoLanes ==
    \A i, j \in 1 .. Len(delivered) :
        i < j /\ (delivered[i] \in direct <=> delivered[j] \in direct)
            => delivered[i] < delivered[j]

(* The first loss from the backlog is announced: the overflow handler cuts    *)
(* the connection it happens on.                                              *)
FirstLossAnnounced == receiving /\ lost # {} => 1 \in announced

(* Every diff that is received is processed or dropped in the end. *)
NeverForgotten ==
    \A n \in Items : (received >= n) ~> (n \in Processed \cup lost)

(* The buffers are bounded (README:16): the backlog holds backlog_max frames  *)
(* of at most batch_max diffs.  TLC refutes it: merged frames are not counted *)
(* (README, Findings).                                                        *)
BacklogIsBounded == Cardinality(Held(backlog)) <= BacklogMax * BatchMax
=============================================================================
