---------------------------- MODULE WsConnection ----------------------------
(***************************************************************************)
(* One websocket connection of the client (src/src/websocket/core.rs): the *)
(* TqWebsocket that the quote, trade and trading-status sessions share.    *)
(* Threads are the application, which opens and closes it, the tasks that  *)
(* on_close spawns to reconnect it, callers of send() and send_or_fail(),  *)
(* and the overflow handler of the message backlog.  Every established     *)
(* connection c has an I/O actor, actor[c].  A step is what a thread or an *)
(* actor does between two accesses to what they share.                     *)
(*                                                                         *)
(* The on_close callback is that of the trade and trading-status sessions, *)
(* which always spawns a reconnect task.  The url parses.                  *)
(*                                                                         *)
(* A definition marked "mutant" is a deliberately broken form of the one   *)
(* it precedes and is used nowhere.                                        *)
(***************************************************************************)
EXTENDS Integers, Sequences, FiniteSets

CONSTANTS
    App, Overflow,       \* the application thread and the overflow handler's
    Reconnectors,        \* BOUND: tasks that can be in reconnect() at a time
    Senders, Critical,   \* callers of send(); those in Critical call send_or_fail()
    QueueMax,            \* pending_queue_max
    MaxTimes,            \* reconnect_max_times
    MaxDials,            \* BOUND: connection attempts
    MaxLosses,           \* BOUND: connections that break and backlogs that overflow
    MaxCalls             \* BOUND: calls of init() and close() by the application

Peek == "peek"
Threads == {App, Overflow} \cup Reconnectors \cup Senders
Messages == Senders \cup {Peek}
Conns == 1 .. MaxDials
Statuses == {"Connecting", "Open", "Closing", "Closed"}

ASSUME WsAssumption ==
    /\ QueueMax \in Nat \ {0} /\ MaxTimes \in Nat /\ MaxDials \in Nat
    /\ MaxLosses \in Nat /\ MaxCalls \in Nat
    /\ Critical \subseteq Senders
    /\ Peek \notin Senders
    /\ App # Overflow /\ {App, Overflow} \cap Reconnectors = {}
    /\ Senders \cap ({App, Overflow} \cup Reconnectors) = {}

VARIABLES
    status, shouldReconnect, connecting, pendingPeek,
    times,          \* reconnect_times
    connId,         \* connection_id
    io,             \* the connection whose actor the WsIoHandle reaches, 0 for None
    queue,          \* messages to send once the connection is open
    actor,          \* what the actor of each connection is doing
    shutdown,       \* connections whose actor has been told to close
    at, hold, load, \* of each thread: its step, the handle or id it holds,
                    \*   and the messages it has still to write
    dials, losses, calls,   \* how much of the bounds is used
    written,        \* history: <<m, c>>, message m was written on connection c
    dropped,        \* history: messages dropped from a full queue
    failed,         \* history: an init() has returned an error, or a reconnect given up
    cuts            \* history: calls of close() that met a reconnect inside init()

shared  == <<status, shouldReconnect, connecting, pendingPeek, times, connId, io, queue>>
actors  == <<actor, shutdown>>
threads == <<at, hold, load>>
bounds  == <<dials, losses, calls>>
history == <<written, dropped, failed, cuts>>
vars == <<shared, actors, threads, bounds, history>>

AppSteps == {"idle", "close", "closing", "release", "take", "closed", "notify"}
InitSteps == {"enter", "gate", "swap", "mark", "dial", "backoff", "nap", "giveUp",
              "replace", "publish", "install", "flush", "flushHandle", "flushing", "peek", "finish"}
SendSteps == {"ready", "handle", "enqueue", "sending", "broken", "lost", "report"}
OtherSteps == {"none", "loop", "wait", "recheck", "settle", "sent", "refused",
               "overflow", "cut", "cutShort"}

TypeOK ==
    /\ status \in Statuses
    /\ {shouldReconnect, connecting, pendingPeek, failed} \subseteq BOOLEAN
    /\ times \in Nat
    /\ connId \in 0 .. MaxDials /\ io \in 0 .. MaxDials
    /\ queue \in Seq(Messages)
    /\ actor \in [Conns -> {"none", "running", "failing", "stopping", "leaving", "left", "gone"}]
    /\ shutdown \subseteq Conns
    /\ at \in [Threads -> AppSteps \cup InitSteps \cup SendSteps \cup OtherSteps]
    /\ hold \in [Threads -> 0 .. MaxDials]
    /\ load \in [Threads -> Seq(Messages)]
    /\ {dials, losses, calls} \subseteq Nat
    /\ written \subseteq Messages \X Conns
    /\ dropped \subseteq Messages
    /\ cuts \in Nat

Init ==
    /\ status = "Closed" /\ shouldReconnect = TRUE /\ connecting = FALSE /\ pendingPeek = FALSE
    /\ times = 0 /\ connId = 0 /\ io = 0 /\ queue = <<>>
    /\ actor = [c \in Conns |-> "none"]
    /\ shutdown = {}
    /\ at = [t \in Threads |-> CASE t = App -> "idle"
                                 [] t \in Senders -> "ready"
                                 [] OTHER -> "none"]
    /\ hold = [t \in Threads |-> 0]
    /\ load = [t \in Threads |-> IF t \in Senders THEN <<t>> ELSE <<>>]
    /\ dials = 0 /\ losses = 0 /\ calls = 0
    /\ written = {} /\ dropped = {} /\ failed = FALSE
    /\ cuts = 0

-----------------------------------------------------------------------------
Goto(t, step) == at' = [at EXCEPT ![t] = step]

(* The on_close callback spawns a task that runs reconnect(). *)
OnClose(t, step) ==
    \E r \in Reconnectors :
        /\ at[r] = "none"
        /\ at' = [at EXCEPT ![t] = step, ![r] = "loop"]

(* init() returns to the application or to the loop of reconnect(). *)
AfterInit(t, ok) ==
    IF t = App THEN "idle" ELSE IF ok THEN "settle" ELSE "loop"

(* Who is inside init(), and who of them has got past the flag `connecting`.  *)
InInit(t) ==
    \/ at[t] \in InitSteps
    \/ t \notin Senders /\ at[t] \in SendSteps
Dialling(t) == InInit(t) /\ at[t] \notin {"enter", "gate", "swap"}

(* Threads rest between calls; they wait for a timer or for the network.     *)
Resting == {"idle", "none", "sent", "refused"}
Waiting(t) ==
    \/ at[t] \in {"nap", "wait", "dial"}
    \/ at[t] \in {"sending", "flushing"} /\ actor[hold[t]] = "running"

(* A reconnect delay is at least reconnect_interval (3s by default), which is *)
(* long against a step of the process: a timer fires when all of them wait.   *)
Calm ==
    /\ \A t \in Threads : at[t] \in Resting \/ Waiting(t)
    /\ \A c \in Conns : actor[c] \in {"none", "running", "gone"}

-----------------------------------------------------------------------------
(* init() *)

AppInit ==
    /\ at[App] = "idle" /\ calls < MaxCalls
    /\ calls' = calls + 1
    /\ Goto(App, "enter")
    /\ UNCHANGED <<shared, actors, hold, load, dials, losses, history>>

InitEnter(t) ==
    /\ at[t] = "enter"
    /\ shouldReconnect' = TRUE
    /\ Goto(t, "gate")
    /\ UNCHANGED <<status, connecting, pendingPeek, times, connId, io, queue,
                   actors, hold, load, bounds, history>>

InitGate(t) ==
    /\ at[t] = "gate"
    /\ Goto(t, IF status \in {"Open", "Connecting"} THEN AfterInit(t, TRUE) ELSE "swap")
    /\ UNCHANGED <<shared, actors, hold, load, bounds, history>>

InitSwapAlways(t) ==                                                \* mutant
    /\ at[t] = "swap"
    /\ connecting' = TRUE
    /\ Goto(t, "mark")
    /\ UNCHANGED <<status, shouldReconnect, pendingPeek, times, connId, io, queue,
                   actors, hold, load, bounds, history>>

InitSwap(t) ==
    /\ at[t] = "swap"
    /\ connecting' = TRUE
    /\ Goto(t, IF connecting THEN AfterInit(t, TRUE) ELSE "mark")
    /\ UNCHANGED <<status, shouldReconnect, pendingPeek, times, connId, io, queue,
                   actors, hold, load, bounds, history>>

InitMark(t) ==
    /\ at[t] = "mark"
    /\ dials < MaxDials
    /\ dials' = dials + 1
    /\ status' = "Connecting"
    /\ Goto(t, "dial")
    /\ UNCHANGED <<shouldReconnect, connecting, pendingPeek, times, connId, io, queue,
                   actors, hold, load, losses, calls, history>>

(* The connection attempt fails.  In the maintenance window of the exchange a *)
(* first connection reports that at once; otherwise init() waits before it    *)
(* returns the error, unless reconnecting has been switched off.              *)
DialFails(t) ==
    /\ at[t] = "dial"
    /\ \E maintenance \in BOOLEAN :
          Goto(t, IF (maintenance /\ t = App) \/ ~shouldReconnect THEN "giveUp" ELSE "backoff")
    /\ UNCHANGED <<shared, actors, hold, load, bounds, history>>

Backoff(t) ==
    /\ at[t] = "backoff"
    /\ IF times >= MaxTimes
       THEN Goto(t, "giveUp") /\ UNCHANGED times
       ELSE Goto(t, "nap") /\ times' = times + 1
    /\ UNCHANGED <<status, shouldReconnect, connecting, pendingPeek, connId, io, queue,
                   actors, hold, load, bounds, history>>

BackoffEnds(t) ==
    /\ at[t] = "nap" /\ Calm
    /\ Goto(t, "giveUp")
    /\ UNCHANGED <<shared, actors, hold, load, bounds, history>>

InitGivesUp(t) ==
    /\ at[t] = "giveUp"
    /\ connecting' = FALSE
    /\ failed' = TRUE
    /\ Goto(t, AfterInit(t, FALSE))
    /\ UNCHANGED <<status, shouldReconnect, pendingPeek, times, connId, io, queue,
                   actors, hold, load, bounds, written, dropped, cuts>>

NextId == connId + 1

DialSucceeds(t) ==
    /\ at[t] = "dial"
    /\ connId' = NextId
    /\ hold' = [hold EXCEPT ![t] = NextId]
    /\ Goto(t, "replace")
    /\ UNCHANGED <<status, shouldReconnect, connecting, pendingPeek, times, io, queue,
                   actors, load, bounds, history>>

ReplaceHandle(t) ==
    /\ at[t] = "replace"
    /\ io' = 0
    /\ shutdown' = shutdown \cup ({io} \ {0})
    /\ Goto(t, "publish")
    /\ UNCHANGED <<status, shouldReconnect, connecting, pendingPeek, times, connId, queue,
                   actor, hold, load, bounds, history>>

PublishOpen(t) ==
    /\ at[t] = "publish"
    /\ status' = "Open"
    /\ times' = IF t = App THEN 0 ELSE times
    /\ Goto(t, "install")
    /\ UNCHANGED <<shouldReconnect, connecting, pendingPeek, connId, io, queue,
                   actors, hold, load, bounds, history>>

InstallActor(t) ==
    /\ at[t] = "install"
    /\ io' = hold[t]
    /\ actor' = [actor EXCEPT ![hold[t]] = "running"]
    /\ Goto(t, "flush")
    /\ UNCHANGED <<status, shouldReconnect, connecting, pendingPeek, times, connId, queue,
                   shutdown, hold, load, bounds, history>>

FlushTake(t) ==
    /\ at[t] = "flush"
    /\ load' = [load EXCEPT ![t] = queue]
    /\ queue' = <<>>
    /\ Goto(t, IF queue = <<>> THEN "peek" ELSE "flushHandle")
    /\ UNCHANGED <<status, shouldReconnect, connecting, pendingPeek, times, connId, io,
                   actors, hold, bounds, history>>

(* What could not be written goes back behind what was queued meanwhile. *)
KeepNone(t) == queue                                                \* mutant
Requeued(t) == queue \o load[t]

FlushHandle(t) ==
    /\ at[t] = "flushHandle"
    /\ hold' = [hold EXCEPT ![t] = io]
    /\ IF io = 0
       THEN /\ queue' = Requeued(t)
            /\ load' = [load EXCEPT ![t] = <<>>]
            /\ Goto(t, "peek")
       ELSE /\ UNCHANGED <<queue, load>>
            /\ Goto(t, "flushing")
    /\ UNCHANGED <<status, shouldReconnect, connecting, pendingPeek, times, connId, io,
                   actors, bounds, history>>

-----------------------------------------------------------------------------
(* Writing: send_text hands the message to the actor and waits for its       *)
(* answer.  A write that fails makes the actor fail; an actor that has       *)
(* stopped answers with an error.                                            *)

Write(t) ==
    /\ actor[hold[t]] = "running"
    /\ written' = written \cup {<<Head(load[t]), hold[t]>>}
    /\ load' = [load EXCEPT ![t] = Tail(@)]

WriteFails(t) ==
    \/ /\ actor[hold[t]] = "running" /\ losses < MaxLosses
       /\ actor' = [actor EXCEPT ![hold[t]] = "failing"]
       /\ losses' = losses + 1
    \/ /\ actor[hold[t]] # "running"
       /\ UNCHANGED <<actor, losses>>

FlushWrite(t) ==
    /\ at[t] = "flushing"
    /\ Write(t)
    /\ Goto(t, IF Len(load[t]) = 1 THEN "peek" ELSE "flushing")
    /\ UNCHANGED <<shared, actors, hold, bounds, dropped, failed, cuts>>

FlushFails(t) ==
    /\ at[t] = "flushing"
    /\ WriteFails(t)
    /\ queue' = Requeued(t)
    /\ load' = [load EXCEPT ![t] = <<>>]
    /\ Goto(t, "peek")
    /\ UNCHANGED <<status, shouldReconnect, connecting, pendingPeek, times, connId, io,
                   shutdown, hold, dials, calls, history>>

(* send_peek_message: one peek at a time. *)
SendPeek(t) ==
    /\ at[t] = "peek"
    /\ pendingPeek' = TRUE
    /\ IF pendingPeek
       THEN Goto(t, "finish") /\ UNCHANGED load
       ELSE Goto(t, "ready") /\ load' = [load EXCEPT ![t] = <<Peek>>]
    /\ UNCHANGED <<status, shouldReconnect, connecting, times, connId, io, queue,
                   actors, hold, bounds, history>>

InitFinish(t) ==
    /\ at[t] = "finish"
    /\ connecting' = FALSE
    /\ Goto(t, AfterInit(t, TRUE))
    /\ UNCHANGED <<status, shouldReconnect, pendingPeek, times, connId, io, queue,
                   actors, hold, load, bounds, history>>

-----------------------------------------------------------------------------
(* send(), send_or_fail(), and the send() inside send_peek_message. *)

(* send() has returned: to its caller, or to init(), which a peek that fails *)
(* makes return with `connecting` still set.                                 *)
AfterSend(t, ok) ==
    IF t \in Senders THEN (IF ok THEN "sent" ELSE "refused")
    ELSE IF ok THEN "finish" ELSE AfterInit(t, FALSE)

SendErr(t) ==
    /\ Goto(t, AfterSend(t, FALSE))
    /\ load' = [load EXCEPT ![t] = <<>>]
    /\ pendingPeek' = IF t \in Senders THEN pendingPeek ELSE FALSE
    /\ failed' = (failed \/ t \notin Senders)

(* A critical message is refused where another one is queued. *)
QueueOrRefuseAlways(t) ==                                           \* mutant
    Goto(t, "enqueue") /\ UNCHANGED <<load, pendingPeek, failed>>
QueueOrRefuse(t) ==
    IF t \in Critical
    THEN SendErr(t)
    ELSE Goto(t, "enqueue") /\ UNCHANGED <<load, pendingPeek, failed>>

SendReady(t) ==
    /\ at[t] = "ready"
    /\ IF status = "Open"
       THEN Goto(t, "handle") /\ UNCHANGED <<load, pendingPeek, failed>>
       ELSE QueueOrRefuse(t)
    /\ UNCHANGED <<status, shouldReconnect, connecting, times, connId, io, queue,
                   actors, hold, bounds, written, dropped, cuts>>

SendHandle(t) ==
    /\ at[t] = "handle"
    /\ hold' = [hold EXCEPT ![t] = io]
    /\ IF io # 0
       THEN Goto(t, "sending") /\ UNCHANGED <<load, pendingPeek, failed>>
       ELSE QueueOrRefuse(t)
    /\ UNCHANGED <<status, shouldReconnect, connecting, times, connId, io, queue,
                   actors, bounds, written, dropped, cuts>>

Enqueue(t) ==
    /\ at[t] = "enqueue"
    /\ LET full == Len(queue) >= QueueMax IN
         /\ queue' = (IF full THEN Tail(queue) ELSE queue) \o load[t]
         /\ dropped' = IF full THEN dropped \cup {Head(queue)} ELSE dropped
    /\ load' = [load EXCEPT ![t] = <<>>]
    /\ Goto(t, AfterSend(t, TRUE))
    /\ UNCHANGED <<status, shouldReconnect, connecting, pendingPeek, times, connId, io,
                   actors, hold, bounds, written, failed, cuts>>

SendWrite(t) ==
    /\ at[t] = "sending"
    /\ Write(t)
    /\ Goto(t, AfterSend(t, TRUE))
    /\ UNCHANGED <<shared, actors, hold, bounds, dropped, failed, cuts>>

SendFails(t) ==
    /\ at[t] = "sending"
    /\ WriteFails(t)
    /\ Goto(t, "broken")
    /\ UNCHANGED <<shared, shutdown, hold, load, dials, calls, history>>

(* The caller whose write failed marks the connection lost, if nobody has. *)
SendBroken(t) ==
    /\ at[t] = "broken"
    /\ IF status = "Open"
       THEN Goto(t, "lost") /\ UNCHANGED <<load, pendingPeek, failed>>
       ELSE SendErr(t)
    /\ UNCHANGED <<status, shouldReconnect, connecting, times, connId, io, queue,
                   actors, hold, bounds, written, dropped, cuts>>

SendLost(t) ==
    /\ at[t] = "lost"
    /\ status' = "Closed"
    /\ Goto(t, "report")
    /\ UNCHANGED <<shouldReconnect, connecting, pendingPeek, times, connId, io, queue,
                   actors, hold, load, bounds, history>>

SendReport(t) ==
    /\ at[t] = "report"
    /\ OnClose(t, AfterSend(t, FALSE))
    /\ load' = [load EXCEPT ![t] = <<>>]
    /\ pendingPeek' = IF t \in Senders THEN pendingPeek ELSE FALSE
    /\ failed' = (failed \/ t \notin Senders)
    /\ UNCHANGED <<status, shouldReconnect, connecting, times, connId, io, queue,
                   actors, hold, bounds, written, dropped, cuts>>

-----------------------------------------------------------------------------
(* reconnect() *)

ReconnectLoop(r) ==
    /\ at[r] = "loop"
    /\ IF ~shouldReconnect \/ times >= MaxTimes
       THEN Goto(r, "none") /\ UNCHANGED times /\ failed' = (failed \/ shouldReconnect)
       ELSE Goto(r, "wait") /\ times' = times + 1 /\ UNCHANGED failed
    /\ UNCHANGED <<status, shouldReconnect, connecting, pendingPeek, connId, io, queue,
                   actors, hold, load, bounds, written, dropped, cuts>>

ReconnectWaited(r) ==
    /\ at[r] = "wait" /\ Calm
    /\ Goto(r, "recheck")
    /\ UNCHANGED <<shared, actors, hold, load, bounds, history>>

ReconnectRecheck(r) ==
    /\ at[r] = "recheck"
    /\ Goto(r, IF shouldReconnect THEN "enter" ELSE "none")
    /\ UNCHANGED <<shared, actors, hold, load, bounds, history>>

ReconnectSettle(r) ==
    /\ at[r] = "settle"
    /\ times' = 0
    /\ Goto(r, "none")
    /\ UNCHANGED <<status, shouldReconnect, connecting, pendingPeek, connId, io, queue,
                   actors, hold, load, bounds, history>>

-----------------------------------------------------------------------------
(* close() *)

AppClose ==
    /\ at[App] = "idle" /\ calls < MaxCalls
    /\ calls' = calls + 1
    /\ Goto(App, "close")
    /\ UNCHANGED <<shared, actors, hold, load, dials, losses, history>>

CloseDisable ==
    /\ at[App] = "close"
    /\ shouldReconnect' = FALSE
    /\ cuts' = IF \E r \in Reconnectors : InInit(r) THEN cuts + 1 ELSE cuts
    /\ Goto(App, "closing")
    /\ UNCHANGED <<status, connecting, pendingPeek, times, connId, io, queue,
                   actors, hold, load, bounds, written, dropped, failed>>

CloseMark ==
    /\ at[App] = "closing"
    /\ pendingPeek' = FALSE
    /\ status' = "Closing"
    /\ Goto(App, "release")
    /\ UNCHANGED <<shouldReconnect, connecting, times, connId, io, queue,
                   actors, hold, load, bounds, history>>

CloseRelease ==
    /\ at[App] = "release"
    /\ connecting' = FALSE
    /\ Goto(App, "take")
    /\ UNCHANGED <<status, shouldReconnect, pendingPeek, times, connId, io, queue,
                   actors, hold, load, bounds, history>>

CloseTake ==
    /\ at[App] = "take"
    /\ io' = 0
    /\ shutdown' = shutdown \cup ({io} \ {0})
    /\ Goto(App, IF io = 0 THEN "closed" ELSE "idle")
    /\ UNCHANGED <<status, shouldReconnect, connecting, pendingPeek, times, connId, queue,
                   actor, hold, load, bounds, history>>

CloseClosed ==
    /\ at[App] = "closed"
    /\ status' = "Closed"
    /\ Goto(App, "notify")
    /\ UNCHANGED <<shouldReconnect, connecting, pendingPeek, times, connId, io, queue,
                   actors, hold, load, bounds, history>>

CloseNotify ==
    /\ at[App] = "notify"
    /\ OnClose(App, "idle")
    /\ UNCHANGED <<shared, actors, hold, load, bounds, history>>

-----------------------------------------------------------------------------
(* force_reconnect_due_to_backpressure() *)

OverflowBegins ==
    /\ at[Overflow] = "none" /\ connId > 0 /\ losses < MaxLosses
    /\ shouldReconnect
    /\ losses' = losses + 1
    /\ Goto(Overflow, "overflow")
    /\ UNCHANGED <<shared, actors, hold, load, dials, calls, history>>

OverflowMark ==
    /\ at[Overflow] = "overflow"
    /\ IF status \in {"Closed", "Closing"}
       THEN Goto(Overflow, "cutShort") /\ UNCHANGED status
       ELSE Goto(Overflow, "cut") /\ status' = "Closed"
    /\ UNCHANGED <<shouldReconnect, connecting, pendingPeek, times, connId, io, queue,
                   actors, hold, load, bounds, history>>

OverflowCut ==
    /\ at[Overflow] \in {"cut", "cutShort"}
    /\ pendingPeek' = FALSE
    /\ io' = 0
    /\ shutdown' = shutdown \cup ({io} \ {0})
    /\ IF io = 0 /\ at[Overflow] = "cut" THEN OnClose(Overflow, "none") ELSE Goto(Overflow, "none")
    /\ UNCHANGED <<status, shouldReconnect, connecting, times, connId, queue,
                   actor, hold, load, bounds, history>>

-----------------------------------------------------------------------------
(* ws_io_actor_loop *)

(* No handle is left that reaches the actor: its command channel is closed. *)
Orphaned(c) ==
    io # c /\ \A t \in Threads : at[t] \in {"sending", "flushing"} => hold[t] # c

(* A frame arrives and settles the outstanding peek; a data frame is         *)
(* answered with the next one.                                               *)
ActorFrame(c) ==
    /\ actor[c] = "running"
    /\ \E data \in BOOLEAN : pendingPeek' = data
    /\ UNCHANGED <<status, shouldReconnect, connecting, times, connId, io, queue,
                   actors, threads, bounds, history>>

(* A close frame, the end of the stream, or a peek that cannot be written. *)
ActorFails(c) ==
    /\ actor[c] = "running" /\ losses < MaxLosses
    /\ actor' = [actor EXCEPT ![c] = "failing"]
    /\ losses' = losses + 1
    /\ pendingPeek' \in {pendingPeek, FALSE}
    /\ UNCHANGED <<status, shouldReconnect, connecting, times, connId, io, queue,
                   shutdown, threads, dials, calls, history>>

(* disconnect_and_close *)
ActorMarksClosed(c) ==
    /\ actor[c] \in {"failing", "leaving"}
    /\ status' = "Closed"
    /\ actor' = [actor EXCEPT ![c] = "left"]
    /\ UNCHANGED <<shouldReconnect, connecting, pendingPeek, times, connId, io, queue,
                   shutdown, threads, bounds, history>>

ActorMustStop(c) ==
    /\ actor[c] = "running"
    /\ connId # c \/ status # "Open" \/ c \in shutdown \/ Orphaned(c)

ActorStops(c) ==
    /\ ActorMustStop(c)
    /\ actor' = [actor EXCEPT ![c] = "stopping"]
    /\ UNCHANGED <<shared, shutdown, threads, bounds, history>>

ExitUnreported(c) ==                                                \* mutant
    /\ actor[c] = "stopping"
    /\ actor' = [actor EXCEPT ![c] = "gone"]
    /\ UNCHANGED <<shared, shutdown, threads, bounds, history>>

(* An actor that stops without having reported the loss does so only if its  *)
(* connection is still the current one.                                      *)
ActorExits(c) ==
    /\ actor[c] = "stopping"
    /\ actor' = [actor EXCEPT ![c] = IF connId = c THEN "leaving" ELSE "gone"]
    /\ UNCHANGED <<shared, shutdown, threads, bounds, history>>

ReportNothing(c) ==                                                 \* mutant
    /\ actor[c] = "left"
    /\ actor' = [actor EXCEPT ![c] = "gone"]
    /\ UNCHANGED <<shared, shutdown, threads, bounds, history>>

ActorReports(c) ==
    /\ actor[c] = "left"
    /\ \E r \in Reconnectors :
         /\ at[r] = "none"
         /\ Goto(r, "loop")
    /\ actor' = [actor EXCEPT ![c] = "gone"]
    /\ UNCHANGED <<shared, shutdown, hold, load, bounds, history>>

-----------------------------------------------------------------------------
InitStep(t) ==
    \/ InitEnter(t) \/ InitGate(t) \/ InitSwap(t) \/ InitMark(t)
    \/ DialFails(t) \/ Backoff(t) \/ BackoffEnds(t) \/ InitGivesUp(t)
    \/ DialSucceeds(t) \/ ReplaceHandle(t) \/ PublishOpen(t) \/ InstallActor(t)
    \/ FlushTake(t) \/ FlushHandle(t) \/ FlushWrite(t) \/ FlushFails(t)
    \/ SendPeek(t) \/ InitFinish(t)

SendStep(t) ==
    \/ SendReady(t) \/ SendHandle(t) \/ Enqueue(t) \/ SendWrite(t)
    \/ SendFails(t) \/ SendBroken(t) \/ SendLost(t) \/ SendReport(t)

ReconnectStep(r) ==
    ReconnectLoop(r) \/ ReconnectWaited(r) \/ ReconnectRecheck(r) \/ ReconnectSettle(r)

CloseStep ==
    AppClose \/ CloseDisable \/ CloseMark \/ CloseRelease \/ CloseTake \/ CloseClosed \/ CloseNotify

ActorStep(c) ==
    \/ ActorFrame(c) \/ ActorFails(c) \/ ActorMarksClosed(c)
    \/ ActorStops(c) \/ ActorExits(c) \/ ActorReports(c)

Next ==
    \/ AppInit
    \/ \E t \in {App} \cup Reconnectors : InitStep(t)
    \/ \E t \in Threads \ {Overflow} : SendStep(t)
    \/ \E r \in Reconnectors : ReconnectStep(r)
    \/ CloseStep
    \/ OverflowBegins \/ OverflowMark \/ OverflowCut
    \/ \E c \in Conns : ActorStep(c)

Spec == Init /\ [][Next]_vars

-----------------------------------------------------------------------------
(* Properties. *)

(* The connection is wanted and down, and nobody is doing anything about it. *)
Up == status = "Open" /\ connId > 0 /\ actor[connId] = "running"
Unattended ==
    /\ shouldReconnect /\ connId > 0 /\ ~Up
    /\ \A t \in Threads : at[t] \in Resting
    /\ \A c \in Conns : actor[c] \in {"none", "gone"}

(* A connection that is lost is reconnected automatically (README:54). *)
AutoReconnect == Unattended => times >= MaxTimes

(* However a connection is lost, and however many threads notice, the loss is *)
(* attended to, until an init() fails or reconnecting is given up, and unless *)
(* a close() has cut into a reconnect.                                        *)
LossIsAttended == cuts = 0 /\ Unattended => failed

(* Once nothing is in motion, a status of Open, which senders and readiness   *)
(* checks go by, means that there is a connection, that its actor runs and    *)
(* that the handle reaches it, whichever calls have crossed, unless a close() *)
(* has cut into a reconnect.                                                  *)
Settled ==
    /\ \A t \in Threads : at[t] \in Resting
    /\ \A c \in Conns : actor[c] \in {"none", "running", "gone"} /\ ~ActorMustStop(c)
OpenMeansUp == cuts = 0 /\ Settled /\ status = "Open" => Up /\ io = connId

(* `connecting` keeps the attempts to connect apart; only a close() that      *)
(* resets it while a reconnect is under way lets one more in beside that.     *)
OneDial == Cardinality({t \in Threads : Dialling(t)}) <= 1 + cuts

(* A critical message is never queued for a later connection: it is written  *)
(* on the connection its caller found open, or refused.                      *)
CriticalNeverQueued ==
    \A m \in Critical :
        /\ \A i \in 1 .. Len(queue) : queue[i] # m
        /\ \A t \in Threads \ {m} : \A i \in 1 .. Len(load[t]) : load[t][i] # m
        /\ at[m] = "refused" => \A c \in Conns : <<m, c>> \notin written

(* A message that send() has accepted has been written, once, or waits in the *)
(* queue or in the hands of the thread that empties it, or has been pushed    *)
(* out of the full queue.                                                     *)
AcceptedIsAccounted ==
    \A m \in Senders :
        /\ at[m] = "sent" =>
              \/ \E c \in Conns : <<m, c>> \in written
              \/ m \in dropped
              \/ \E i \in 1 .. Len(queue) : queue[i] = m
              \/ \E t \in Threads : \E i \in 1 .. Len(load[t]) : load[t][i] = m
        /\ Cardinality({c \in Conns : <<m, c>> \in written}) <= 1
=============================================================================
