------------------------------- MODULE Resync -------------------------------
(* The quote websocket after a reconnect, as an extension of Subscriptions:   *)
(* the market server answers what was resent, and the message handler keeps   *)
(* the answers apart until they are complete, then publishes them in one      *)
(* piece (websocket/quote.rs, websocket/reconnect.rs).  Until then readers    *)
(* see what was published before the connection broke.  The close handler of  *)
(* the connection runs beside the message handler.                            *)
EXTENDS Subscriptions

(* What a frame or the data manager may have of a slot.                       *)
Contents == {None, "on", "more"} \cup SUBSET Symbols

ASSUME ResyncAssumption == None \notin [list : Contents, chart : Contents]

VARIABLES
    pending,    \* reconnect_pending
    diffs,      \* reconnect_diffs
    apart,      \* reconnect_dm: what the diffs amount to, None when absent
    published,  \* the data manager that readers see
    handler     \* the message handler: where it is and the frame it handles

buffers == <<pending, diffs, apart>>
resyncVars == <<buffers, published, handler>>

Empty == [list |-> None, chart |-> None]

ResyncInit ==
    /\ Init
    /\ pending = FALSE /\ diffs = <<>> /\ apart = None
    /\ published = Empty
    /\ handler = [pc |-> "idle", frame |-> None]

(* merge_data; a connection notice is no data of a list or chart.             *)
Merged(data, frame) ==
    IF frame.slot = "notice" THEN data ELSE [data EXCEPT ![frame.slot] = frame.val]

MergedAll(data, frames) == FoldLeft(Merged, data, frames)

(* is_md_reconnect_complete: the chart that is recorded has its state and its *)
(* bars, and the list of the server is the one that is recorded               *)
IsComplete(data) ==
    /\ recorded["chart"] = "on" => data.chart = "on"
    /\ recorded["list"] # None => data.list = recorded["list"]

At(pc) == handler.pc = pc
HandlerTo(pc) == handler' = [handler EXCEPT !.pc = pc]

(* handle_rtn_data: a notice starts the buffering, whatever was buffered.     *)
TakeFrame ==
    /\ At("idle") /\ inbox # <<>>
    /\ inbox' = Tail(inbox)
    /\ handler' = [frame |-> Head(inbox),
                   pc |-> CASE Head(inbox).slot = "notice" -> "start"
                            [] Head(inbox).slot # "notice" /\ pending -> "append"
                            [] OTHER -> "look"]
    /\ pending' = (pending \/ Head(inbox).slot = "notice")
    /\ UNCHANGED <<load, intents, recorded, caller, conn, resend, server, losses, stamps, history,
                   diffs, apart, published>>

StartBuffering ==
    /\ At("start")
    /\ Notice("quote")
    /\ diffs' = <<handler.frame>>
    /\ apart' = Empty
    /\ HandlerTo("look")
    /\ UNCHANGED <<pending, published>>

(* Mutant: the frames are kept apart but not kept.                            *)
KeptNot == diffs
Kept == Append(diffs, handler.frame)

AppendDiffs ==
    /\ At("append")
    /\ diffs' = Kept
    /\ apart' = IF apart = None THEN None ELSE Merged(apart, handler.frame)
    /\ HandlerTo("look")
    /\ UNCHANGED <<vars, pending, published>>

(* reconnect_pending is read again: the close handler may have cleared it.    *)
LookPending ==
    /\ At("look")
    /\ IF pending
         THEN /\ HandlerTo(IF apart # None /\ IsComplete(apart) THEN "complete" ELSE "idle")
              /\ UNCHANGED published
         ELSE /\ published' = Merged(published, handler.frame)
              /\ HandlerTo("idle")
    /\ UNCHANGED <<vars, buffers>>

(* check_reconnect_completion: what is buffered now is published.             *)
Complete ==
    /\ At("complete")
    /\ published' = MergedAll(published, diffs)
    /\ diffs' = <<>> /\ pending' = FALSE /\ apart' = None
    /\ HandlerTo("idle")
    /\ UNCHANGED vars

HandlerStep == TakeFrame \/ StartBuffering \/ AppendDiffs \/ LookPending \/ Complete

(* The close handler clears the buffers.                                      *)
Cleared == pending' = FALSE /\ diffs' = <<>> /\ apart' = None

Breaks == Connected("quote") /\ conn'["quote"].state \in {"down", "left"}

OtherStep ==
    \/ \E c \in Callers : CallStart(c) \/ CallStep(c)
    \/ \E ch \in Channels : ConnStep(ch)
    \/ Notice("status")
    \/ ~load.answers /\ Notice("quote")

ResyncNext ==
    \/ HandlerStep
    \/ /\ OtherStep
       /\ IF Breaks THEN Cleared ELSE UNCHANGED buffers
       /\ UNCHANGED <<published, handler>>

ResyncSpec == ResyncInit /\ [][ResyncNext]_<<vars, resyncVars>>

-----------------------------------------------------------------------------
(* A reconnect comes to its end: when the quote connection is up and nothing  *)
(* is under way on it, no answers are held back, and the published data has   *)
(* the list and the chart that are recorded -- unless the server was told an  *)
(* older request last or a request was dropped from the full queue; then the  *)
(* completion test may fail for ever and every later frame is held back       *)
(* (websocket/reconnect.rs).                                                  *)
Resynced ==
    (load.answers /\ Connected("quote") /\ AtRest("quote") /\ inbox = <<>> /\ At("idle"))
        => \/ ~pending /\ IsComplete(published)
           \/ \E slot \in {"list", "chart"} : Overtaken(slot) \/ slot \in dropped
=============================================================================
