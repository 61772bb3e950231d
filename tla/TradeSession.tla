---------------------------- MODULE TradeSession ----------------------------
(***************************************************************************)
(* A trading session: how it becomes ready, how it survives the loss of    *)
(* its connection, and when it may be trusted                              *)
(* (src/src/trade_session/{ops,core,watch}.rs, src/src/websocket/trade.rs, *)
(* src/src/websocket/reconnect.rs).                                        *)
(*                                                                         *)
(* The task that processes messages, the watch task, the on_close callback *)
(* and the application are threads; a step is what one of them does        *)
(* between two accesses to what they share.  The websocket underneath is   *)
(* WsConnection, reduced to connections that open and break, each          *)
(* announced in the message stream; the server answers the first login on  *)
(* a connection with its snapshot in two frames and sends changes later.   *)
(*                                                                         *)
(* A reconnect is slow: between the notice that it begins and the opened   *)
(* connection lies a handshake over the network (Calm).                    *)
(*                                                                         *)
(* A definition marked "mutant" is a deliberately broken form of the one   *)
(* it precedes and is used nowhere.                                        *)
(***************************************************************************)
EXTENDS Integers, Sequences

CONSTANTS
    Symbols,        \* instruments the account may hold
    MaxConns,       \* BOUND: connections
    MaxLosses,      \* BOUND: connections that break
    MaxCalls,       \* BOUND: calls of connect() and close()
    MaxTrades       \* BOUND: changes of the account on the server

ASSUME SessionAssumption ==
    {MaxConns, MaxLosses, MaxCalls, MaxTrades} \subseteq Nat

Conns == 0 .. MaxConns
Notices == {"none", "connected", "reconnected", "reconnecting", "lost"}

(* What the data manager knows of the user, and what a diff says: the        *)
(* connection its session data is from, trade_more_data, the positions if    *)
(* there is a map of them, and the connection whose snapshot is complete.    *)
Data == [login : Conns, more : {"unset", "yes", "no"},
         keyed : BOOLEAN, pos : SUBSET Symbols, from : Conns]
Empty == [login |-> 0, more |-> "unset", keyed |-> FALSE, pos |-> {}, from |-> 0]
Frames == [notice : Notices, data : Data]

VARIABLES
    up, conn, auto,         \* the websocket: status Open, connection_id, should_reconnect
    connectedOnce, recorded,\* connected_once; req_login is recorded
    inbox,                  \* frames for the task that processes messages
    closer,                 \* step of the on_close callback
    pending, diffs, temp, armed, prev,  \* TradeRuntime: reconnect_pending, reconnect_diffs,
                            \*   reconnect_dm (armed: it is Some), reconnect_prev_positions
    proc, frame,            \* step of the processing task, and its frame
    held, gone,             \* its locals: dm_temp or the diffs it takes, and the
                            \*   positions to remove
    dm, epoch, loginEpoch,  \* the data manager, its epoch and that of the session data
    running, loggedIn, snapshotReady,   \* TradeSession
    watch, aborted, cur, last, more,    \* step of the watch task, whether it is
                            \*   aborted, and its locals
    app,                    \* step of the application
    loginOn, srv, sent, book,   \* the server: connection a login is under way on, is done on,
                            \*   frames of the snapshot sent, and the positions
    losses, calls, trades,  \* how much of the bounds is used
    closes                  \* history: how often the application has called close()

ws       == <<up, conn, auto, connectedOnce>>
runtime  == <<pending, diffs, temp, armed, prev>>
task     == <<proc, frame, held, gone>>
store    == <<dm, epoch, loginEpoch>>
session  == <<running, loggedIn, snapshotReady>>
watcher  == <<watch, aborted, cur, last, more>>
server   == <<loginOn, srv, sent, book>>
bounds   == <<losses, calls, trades, closes>>
vars == <<ws, recorded, inbox, closer, runtime, task, store, session, watcher, app, server, bounds>>

ProcSteps == {"idle", "callback", "route", "armPrev", "armDiffs", "armTemp", "buffer",
              "bufferTemp", "check", "complete", "decide", "claim", "release", "disarm", "commit", "merge"}

TypeOK ==
    /\ {up, auto, connectedOnce, recorded, pending, armed} \subseteq BOOLEAN
    /\ {running, loggedIn, snapshotReady, more, aborted} \subseteq BOOLEAN
    /\ {conn, loginOn, srv} \subseteq Conns /\ sent \in 0 .. 2
    /\ inbox \in Seq(Frames)
    /\ {diffs, temp, dm, held} \subseteq Data /\ gone \subseteq Symbols /\ frame \in Frames
    /\ prev \in [known : BOOLEAN, pos : SUBSET Symbols]
    /\ closer \in {"none", "pending", "diffs", "temp", "prev", "reconnect", "dial"}
    /\ proc \in ProcSteps
    /\ watch \in {"off", "idle", "login", "more", "swap"}
    /\ app \in {"idle", "reset", "init", "watch", "login", "close", "hide", "abort", "drop"}
    /\ {epoch, loginEpoch, cur, last, losses, calls, trades, closes} \subseteq Nat
    /\ loginEpoch <= epoch /\ last <= epoch
    /\ book \subseteq Symbols

NoPrev == [known |-> FALSE, pos |-> {}]
Blank == [notice |-> "none", data |-> Empty]

Init ==
    /\ up = FALSE /\ conn = 0 /\ auto = TRUE /\ connectedOnce = FALSE /\ recorded = FALSE
    /\ inbox = <<>> /\ closer = "none"
    /\ pending = FALSE /\ diffs = Empty /\ temp = Empty /\ armed = FALSE /\ prev = NoPrev
    /\ proc = "idle" /\ frame = Blank /\ held = Empty /\ gone = {}
    /\ dm = Empty /\ epoch = 0 /\ loginEpoch = 0
    /\ running = FALSE /\ loggedIn = FALSE /\ snapshotReady = FALSE
    /\ watch = "off" /\ aborted = FALSE /\ cur = 0 /\ last = 0 /\ more = FALSE
    /\ app = "idle"
    /\ loginOn = 0 /\ srv = 0 /\ sent = 0 /\ book \in SUBSET Symbols
    /\ losses = 0 /\ calls = 0 /\ trades = 0 /\ closes = 0

-----------------------------------------------------------------------------
(* Data *)

(* DataManager::merge_data: what a diff names replaces what was there. *)
Merged(d, e) ==
    [login |-> IF e.login # 0 THEN e.login ELSE d.login,
     more  |-> IF e.more # "unset" THEN e.more ELSE d.more,
     keyed |-> d.keyed \/ e.keyed,
     pos   |-> d.pos \cup e.pos,
     from  |-> IF e.from # 0 THEN e.from ELSE d.from]

Notify(n) == [notice |-> n, data |-> Empty]
Diff(e) == [notice |-> "none", data |-> e]

(* The snapshot of connection c: the session and what follows, then the rest. *)
Opening(c) == [Empty EXCEPT !.login = c, !.more = "yes"]
Closing(c) == [Empty EXCEPT !.more = "no", !.keyed = TRUE, !.pos = book, !.from = c]

-----------------------------------------------------------------------------
(* The server *)

ServerLogsIn ==
    /\ up /\ loginOn = conn /\ srv # conn
    /\ srv' = conn /\ sent' = 0
    /\ UNCHANGED <<ws, recorded, inbox, closer, runtime, task, store, session, watcher, app,
                   loginOn, book, bounds>>

ServerSends ==
    /\ up /\ srv = conn /\ sent < 2
    /\ sent' = sent + 1
    /\ inbox' = Append(inbox, Diff(IF sent = 0 THEN Opening(conn) ELSE Closing(conn)))
    /\ UNCHANGED <<ws, recorded, closer, runtime, task, store, session, watcher, app,
                   loginOn, srv, book, bounds>>

(* The account changes.  A connection that has its snapshot is sent what is   *)
(* new; a position that is closed leaves the next snapshot.                   *)
ServerTrades ==
    /\ trades < MaxTrades
    /\ trades' = trades + 1
    /\ \E b \in SUBSET Symbols :
         /\ b # book
         /\ book' = b
         /\ \/ /\ up /\ srv = conn /\ sent = 2
               /\ book \subseteq b
               /\ inbox' = Append(inbox, Diff([Empty EXCEPT !.keyed = TRUE, !.pos = b \ book]))
            \/ ~(up /\ srv = conn) /\ UNCHANGED inbox
    /\ UNCHANGED <<ws, recorded, closer, runtime, task, store, session, watcher, app,
                   loginOn, srv, sent, losses, calls, closes>>

-----------------------------------------------------------------------------
(* The connection, as WsConnection has it *)

Lose ==
    /\ up /\ losses < MaxLosses /\ closer = "none"
    /\ losses' = losses + 1
    /\ up' = FALSE
    /\ inbox' = Append(inbox, Notify("lost"))
    /\ closer' = "pending"
    /\ UNCHANGED <<conn, auto, connectedOnce, recorded, runtime, task, store, session,
                   watcher, app, server, calls, trades, closes>>

(* on_close of the trade websocket: it clears the reconnect state piece by    *)
(* piece and spawns a reconnect.  The processing task holds the lock of       *)
(* reconnect_diffs through the steps that use it.                             *)
HoldsDiffs == proc \in {"armTemp", "bufferTemp", "release", "disarm", "commit"}

CloserClears ==
    /\ \/ /\ closer = "pending" /\ pending' = FALSE /\ closer' = "diffs"
          /\ UNCHANGED <<diffs, temp, armed, prev>>
       \/ /\ closer = "diffs" /\ ~HoldsDiffs /\ diffs' = Empty /\ closer' = "temp"
          /\ UNCHANGED <<pending, temp, armed, prev>>
       \/ /\ closer = "temp" /\ armed' = FALSE /\ temp' = Empty /\ closer' = "prev"
          /\ UNCHANGED <<pending, diffs, prev>>
       \/ /\ closer = "prev" /\ prev' = NoPrev /\ closer' = "reconnect"
          /\ UNCHANGED <<pending, diffs, temp, armed>>
    /\ UNCHANGED <<ws, recorded, inbox, task, store, session, watcher, app, server, bounds>>

ReconnectBegins ==
    /\ closer = "reconnect"
    /\ IF auto
       THEN closer' = "dial" /\ inbox' = Append(inbox, Notify("reconnecting"))
       ELSE closer' = "none" /\ UNCHANGED inbox
    /\ UNCHANGED <<ws, recorded, runtime, task, store, session, watcher, app, server, bounds>>

(* init() opens a connection; on_open sends the login that is recorded. *)
Open(first) ==
    /\ conn < MaxConns
    /\ conn' = conn + 1 /\ up' = TRUE /\ connectedOnce' = TRUE
    /\ loginOn' = IF recorded THEN conn + 1 ELSE loginOn
    /\ inbox' = Append(inbox, Notify(IF first /\ ~connectedOnce THEN "connected" ELSE "reconnected"))

Calm == inbox = <<>> /\ proc = "idle" /\ watch \in {"off", "idle"} /\ (watch = "idle" => last = epoch)

Reconnect ==
    /\ closer = "dial" /\ Calm
    /\ Open(FALSE)
    /\ closer' = "none"
    /\ UNCHANGED <<auto, recorded, runtime, task, store, session, watcher, app,
                   srv, sent, book, bounds>>

-----------------------------------------------------------------------------
(* The task that processes messages *)

Goto(step) == proc' = step

(* A frame is done with, and what the task held for it. *)
Finish == Goto("idle") /\ frame' = Blank /\ held' = Empty /\ gone' = {}

Take ==
    /\ proc = "idle" /\ inbox # <<>>
    /\ frame' = Head(inbox) /\ inbox' = Tail(inbox)
    /\ Goto(IF Head(inbox).notice # "none" THEN "callback" ELSE "route")
    /\ UNCHANGED <<ws, recorded, closer, runtime, held, gone, store, session, watcher, app, server, bounds>>

(* The on_notify callback of the session resets readiness. *)
IgnoreNotice ==                                                     \* mutant
    /\ proc = "callback"
    /\ Goto("route")
    /\ UNCHANGED <<ws, recorded, inbox, closer, runtime, frame, held, gone, store, session,
                   watcher, app, server, bounds>>
OnNotify ==
    /\ proc = "callback"
    /\ snapshotReady' = FALSE
    /\ Goto("route")
    /\ UNCHANGED <<ws, recorded, inbox, closer, runtime, frame, held, gone, store, running, loggedIn,
                   watcher, app, server, bounds>>

(* A reconnect notice starts buffering; while it lasts, frames are buffered. *)
Route ==
    /\ proc = "route"
    /\ pending' = (pending \/ frame.notice = "reconnected")
    /\ Goto(IF frame.notice = "reconnected" THEN "armPrev" ELSE IF pending THEN "buffer" ELSE "check")
    /\ UNCHANGED <<ws, recorded, inbox, closer, diffs, temp, armed, prev, frame, held, gone, store,
                   session, watcher, app, server, bounds>>

ArmPrev ==
    /\ proc = "armPrev"
    /\ prev' = [known |-> dm.keyed, pos |-> dm.pos]
    /\ Goto("armDiffs")
    /\ UNCHANGED <<ws, recorded, inbox, closer, pending, diffs, temp, armed, frame, held, gone, store,
                   session, watcher, app, server, bounds>>

ArmDiffs ==
    /\ proc = "armDiffs"
    /\ diffs' = frame.data
    /\ Goto("armTemp")
    /\ UNCHANGED <<ws, recorded, inbox, closer, pending, temp, armed, prev, frame, held, gone, store,
                   session, watcher, app, server, bounds>>

(* The login that is recorded is sent once more. *)
ArmTemp ==
    /\ proc = "armTemp"
    /\ armed' = TRUE /\ temp' = diffs
    /\ loginOn' = IF recorded /\ up THEN conn ELSE loginOn
    /\ Goto("check")
    /\ UNCHANGED <<ws, recorded, inbox, closer, pending, diffs, prev, frame, held, gone, store,
                   session, watcher, app, srv, sent, book, bounds>>

Buffer ==
    /\ proc = "buffer"
    /\ diffs' = Merged(diffs, frame.data)
    /\ Goto("bufferTemp")
    /\ UNCHANGED <<ws, recorded, inbox, closer, pending, temp, armed, prev, frame, held, gone, store,
                   session, watcher, app, server, bounds>>

BufferTemp ==
    /\ proc = "bufferTemp"
    /\ temp' = IF armed THEN Merged(temp, frame.data) ELSE temp
    /\ Goto("check")
    /\ UNCHANGED <<ws, recorded, inbox, closer, pending, diffs, armed, prev, frame, held, gone, store,
                   session, watcher, app, server, bounds>>

Check ==
    /\ proc = "check"
    /\ IF pending /\ ~armed
       THEN Finish
       ELSE Goto(IF pending THEN "complete" ELSE "merge") /\ UNCHANGED <<frame, held, gone>>
    /\ UNCHANGED <<ws, recorded, inbox, closer, runtime, store, session, watcher,
                   app, server, bounds>>

(* It looks at dm_temp and then at the previous positions.                    *)
Complete ==
    /\ proc = "complete"
    /\ IF armed
       THEN Goto("decide") /\ held' = temp /\ UNCHANGED <<frame, gone>>
       ELSE Finish
    /\ UNCHANGED <<ws, recorded, inbox, closer, runtime, store, session, watcher,
                   app, server, bounds>>

(* is_trade_reconnect_complete: with no user known, or none that has more to  *)
(* come.                                                                      *)
IsComplete == (~prev.known /\ held = Empty) \/ held.more = "no"

(* The positions the new snapshot has no more.                                *)
GoneNever == {}                                                     \* mutant
Gone == IF prev.known /\ held.keyed THEN prev.pos \ held.pos ELSE {}

Decide ==
    /\ proc = "decide"
    /\ IF IsComplete
       THEN Goto("claim") /\ gone' = Gone /\ UNCHANGED <<frame, held>>
       ELSE Finish
    /\ UNCHANGED <<ws, recorded, inbox, closer, runtime, store, session, watcher,
                   app, server, bounds>>

Claim ==
    /\ proc = "claim"
    /\ held' = diffs /\ diffs' = Empty
    /\ Goto("release")
    /\ UNCHANGED <<ws, recorded, inbox, closer, pending, temp, armed, prev, frame, gone, store,
                   session, watcher, app, server, bounds>>

Release ==
    /\ proc = "release"
    /\ pending' = FALSE
    /\ Goto("disarm")
    /\ UNCHANGED <<ws, recorded, inbox, closer, diffs, temp, armed, prev, frame, held, gone, store,
                   session, watcher, app, server, bounds>>

Disarm ==
    /\ proc = "disarm"
    /\ armed' = FALSE /\ temp' = Empty
    /\ Goto("commit")
    /\ UNCHANGED <<ws, recorded, inbox, closer, pending, diffs, prev, frame, held, gone, store,
                   session, watcher, app, server, bounds>>

(* merge_data gives the merge an epoch of its own and wakes the watch task.   *)
StoreUncounted(d) ==                                                \* mutant
    /\ dm' = d
    /\ loginEpoch' = IF d.login # dm.login THEN epoch + 1 ELSE loginEpoch
    /\ UNCHANGED epoch
    /\ Finish
Store(d) ==
    /\ dm' = d
    /\ epoch' = epoch + 1
    /\ loginEpoch' = IF d.login # dm.login THEN epoch + 1 ELSE loginEpoch
    /\ Finish

Commit ==
    /\ proc = "commit"
    /\ Store([Merged(dm, held) EXCEPT !.pos = @ \ gone])
    /\ UNCHANGED <<ws, recorded, inbox, closer, runtime, session, watcher, app, server, bounds>>

Merge ==
    /\ proc = "merge"
    /\ Store(Merged(dm, frame.data))
    /\ UNCHANGED <<ws, recorded, inbox, closer, runtime, session, watcher, app, server, bounds>>

-----------------------------------------------------------------------------
(* The watch task *)

WatchRead ==
    /\ watch = "idle" /\ running /\ epoch > last
    /\ cur' = epoch
    /\ watch' = "login"
    /\ UNCHANGED <<ws, recorded, inbox, closer, runtime, task, store, session, aborted, last, more, app,
                   server, bounds>>

WatchStops ==
    /\ watch = "idle"
    /\ ~running \/ (aborted /\ epoch <= last)
    /\ watch' = "off" /\ last' = 0
    /\ UNCHANGED <<ws, recorded, inbox, closer, runtime, task, store, session, aborted, cur,
                   more, app, server, bounds>>

WatchLogin ==
    /\ watch = "login"
    /\ loggedIn' = (loggedIn \/ (loginEpoch > last /\ dm.login # 0))
    /\ watch' = "more"
    /\ UNCHANGED <<ws, recorded, inbox, closer, runtime, task, store, running, snapshotReady,
                   aborted, cur, last, more, app, server, bounds>>

WatchMore ==
    /\ watch = "more"
    /\ more' = (dm.more # "no")
    /\ watch' = "swap"
    /\ UNCHANGED <<ws, recorded, inbox, closer, runtime, task, store, session, aborted, cur, last, app,
                   server, bounds>>

WatchSwap ==
    /\ watch = "swap"
    /\ snapshotReady' = ~more
    /\ last' = cur
    /\ cur' = 0 /\ more' = FALSE
    /\ watch' = "idle"
    /\ UNCHANGED <<ws, recorded, inbox, closer, runtime, task, store, running, loggedIn,
                   aborted, app, server, bounds>>

-----------------------------------------------------------------------------
(* The application: connect() and close() *)

At(step) == app' = step

Connect ==
    /\ app = "idle" /\ calls < MaxCalls /\ ~running
    /\ calls' = calls + 1
    /\ running' = TRUE
    /\ At("reset")
    /\ UNCHANGED <<ws, recorded, inbox, closer, runtime, task, store, loggedIn, snapshotReady,
                   watcher, server, losses, trades, closes>>

ConnectResets ==
    /\ app = "reset"
    /\ loggedIn' = FALSE /\ snapshotReady' = FALSE
    /\ At("init")
    /\ UNCHANGED <<ws, recorded, inbox, closer, runtime, task, store, running, watcher, server, bounds>>

(* A connection of before must have gone for init() to open a new one. *)
ConnectOpens ==
    /\ app = "init" /\ ~up /\ closer = "none" /\ Calm
    /\ auto' = TRUE
    /\ Open(TRUE)
    /\ At("watch")
    /\ UNCHANGED <<recorded, closer, runtime, task, store, session, watcher, srv, sent, book, bounds>>

(* init() fails: cleanup_after_disconnect. *)
ConnectFails ==
    /\ app = "init" /\ ~up /\ closer = "none"
    /\ auto' = TRUE
    /\ running' = FALSE
    /\ At("close")
    /\ UNCHANGED <<up, conn, connectedOnce, recorded, inbox, closer, runtime, task, store,
                   loggedIn, snapshotReady, watcher, server, bounds>>

StartWatching ==
    /\ app = "watch" /\ watch = "off"
    /\ watch' = "idle" /\ aborted' = FALSE
    /\ At("login")
    /\ UNCHANGED <<ws, recorded, inbox, closer, runtime, task, store, session, cur, last, more,
                   server, bounds>>

SendLogin ==
    /\ app = "login"
    /\ recorded' = TRUE
    /\ loginOn' = IF up THEN conn ELSE loginOn
    /\ At("idle")
    /\ UNCHANGED <<ws, inbox, closer, runtime, task, store, session, watcher, srv, sent, book, bounds>>

SendLoginFails ==
    /\ app = "login" /\ ~up
    /\ recorded' = TRUE
    /\ running' = FALSE /\ closes' = closes + 1
    /\ At("close")
    /\ UNCHANGED <<ws, inbox, closer, runtime, task, store, loggedIn, snapshotReady, watcher,
                   server, losses, calls, trades>>

Close ==
    /\ app = "idle" /\ calls < MaxCalls
    /\ calls' = calls + 1 /\ closes' = closes + 1
    /\ running' = FALSE
    /\ At("close")
    /\ UNCHANGED <<ws, recorded, inbox, closer, runtime, task, store, loggedIn, snapshotReady,
                   watcher, server, losses, trades>>

CloseLogsOut ==
    /\ app = "close"
    /\ loggedIn' = FALSE
    /\ At("hide")
    /\ UNCHANGED <<ws, recorded, inbox, closer, runtime, task, store, running, snapshotReady,
                   watcher, server, bounds>>

CloseHides ==
    /\ app = "hide"
    /\ snapshotReady' = FALSE
    /\ At("abort")
    /\ UNCHANGED <<ws, recorded, inbox, closer, runtime, task, store, running, loggedIn,
                   watcher, server, bounds>>

(* The abort reaches the watch task where it awaits the next epoch. *)
CloseAborts ==
    /\ app = "abort"
    /\ IF watch = "idle" THEN watch' = "off" /\ last' = 0 ELSE UNCHANGED <<watch, last>>
    /\ aborted' = (watch # "off")
    /\ At("drop")
    /\ UNCHANGED <<ws, recorded, inbox, closer, runtime, task, store, session, cur, more,
                   server, bounds>>

(* ws.close(): on_close runs whether or not there was a connection. *)
CloseDrops ==
    /\ app = "drop" /\ closer \in {"none", "dial"}
    /\ auto' = FALSE /\ up' = FALSE
    /\ closer' = "pending"
    /\ At("idle")
    /\ UNCHANGED <<conn, connectedOnce, recorded, inbox, runtime, task, store, session, watcher,
                   server, bounds>>

-----------------------------------------------------------------------------
ServerStep == ServerLogsIn \/ ServerSends
CloserStep == CloserClears \/ ReconnectBegins \/ Reconnect
ProcStep ==
    \/ Take \/ OnNotify \/ Route \/ ArmPrev \/ ArmDiffs \/ ArmTemp \/ Buffer \/ BufferTemp
    \/ Check \/ Complete \/ Decide \/ Claim \/ Release \/ Disarm \/ Commit \/ Merge
WatchStep == WatchRead \/ WatchStops \/ WatchLogin \/ WatchMore \/ WatchSwap
AppStep ==
    \/ ConnectResets \/ ConnectOpens \/ ConnectFails \/ StartWatching \/ SendLogin
    \/ SendLoginFails
    \/ CloseLogsOut \/ CloseHides \/ CloseAborts \/ CloseDrops

Next ==
    \/ ServerStep \/ ServerTrades \/ Lose
    \/ CloserStep \/ ProcStep \/ WatchStep
    \/ Connect \/ Close \/ AppStep

Spec == Init /\ [][Next]_vars

(* Every thread that can run does, the server answers, and a reconnect       *)
(* succeeds in the end.                                                      *)
FairSpec ==
    /\ Spec
    /\ WF_vars(ServerStep) /\ WF_vars(CloserStep) /\ WF_vars(ProcStep)
    /\ WF_vars(WatchStep) /\ WF_vars(AppStep)

-----------------------------------------------------------------------------
(* Properties. *)

Ready == loggedIn /\ snapshotReady /\ up
CaughtUp ==
    /\ inbox = <<>> /\ proc = "idle" /\ closer = "none"
    /\ watch = "idle" /\ last = epoch

(* Ready means that quotes of the account may be trusted and orders sent      *)
(* (README:565): once every frame is processed and seen, the data is the      *)
(* snapshot of the connection that an order would go to.  TLC refutes it of a *)
(* session that is closed and connected again (README, Findings).             *)
ReadyIsCurrent == CaughtUp /\ Ready => dm.from = conn

(* The same of a session that is connected once, however often its connection *)
(* is lost and recovered.                                                     *)
ReadyAfterReconnect == closes = 0 => ReadyIsCurrent

(* Once a reconnect is complete the positions are those the server has: what  *)
(* was closed meanwhile is gone, what was opened is there.                    *)
PositionsCurrent ==
    CaughtUp /\ up /\ srv = conn /\ sent = 2 => ~pending /\ dm.pos = book

(* A session whose connection holds becomes ready and stays so. *)
BecomesReady == <>[](up /\ running /\ app = "idle") => <>[]Ready
=============================================================================
