------------------------- MODULE TradeSessionProofs -------------------------
(***************************************************************************)
(* Proofs about TradeSession, for any number of connections, losses, calls *)
(* and changes of the account: after a reconnect the positions are the     *)
(* server's, and a session that says it is ready shows the snapshot of the *)
(* connection it has.                                                      *)
(*                                                                         *)
(* The idea is the same for both: while a connection is up, what is to     *)
(* come of its snapshot is in the inbox, in the hands of the task that     *)
(* processes messages, in the buffers of a reconnect or merged, and the    *)
(* invariant says for each step of that task which of these together are   *)
(* what the server has sent.                                               *)
(***************************************************************************)
EXTENDS TradeSession, SequenceTheorems, TLAPS

-----------------------------------------------------------------------------
(* The frames of the inbox, as a set. *)
Elems(s) == {s[i] : i \in 1 .. Len(s)}

LEMMA ElemsAppend ==
    ASSUME NEW S, NEW s \in Seq(S), NEW x \in S
    PROVE  Elems(Append(s, x)) = Elems(s) \cup {x}
<1>1. /\ Len(Append(s, x)) = Len(s) + 1
      /\ \A i \in 1 .. Len(s) : Append(s, x)[i] = s[i]
      /\ Append(s, x)[Len(s) + 1] = x
  OBVIOUS
<1>2. Len(s) \in Nat /\ 1 .. (Len(s) + 1) = 1 .. Len(s) \cup {Len(s) + 1}
  OBVIOUS
<1> QED BY <1>1, <1>2 DEF Elems

LEMMA ElemsTail ==
    ASSUME NEW S, NEW s \in Seq(S), s # <<>>
    PROVE  /\ Head(s) \in S /\ Tail(s) \in Seq(S)
           /\ Elems(s) = {Head(s)} \cup Elems(Tail(s))
<1>1. /\ Len(s) \in Nat \ {0} /\ Len(Tail(s)) = Len(s) - 1 /\ Head(s) = s[1]
      /\ \A i \in 1 .. Len(s) - 1 : Tail(s)[i] = s[i + 1]
      /\ Head(s) \in S /\ Tail(s) \in Seq(S)
  OBVIOUS
<1>2. Elems(s) \subseteq {Head(s)} \cup Elems(Tail(s))
  <2> SUFFICES ASSUME NEW i \in 1 .. Len(s) PROVE s[i] \in {Head(s)} \cup Elems(Tail(s))
    BY DEF Elems
  <2>1. CASE i = 1
    BY <1>1, <2>1
  <2>2. CASE i # 1
    <3>1. i - 1 \in 1 .. Len(Tail(s)) /\ (i - 1) + 1 = i
      BY <1>1, <2>2
    <3>2. Tail(s)[i - 1] = s[i]
      BY <1>1, <3>1
    <3> QED BY <3>1, <3>2 DEF Elems
  <2> QED BY <2>1, <2>2
<1>3. {Head(s)} \cup Elems(Tail(s)) \subseteq Elems(s)
  <2>1. Head(s) \in Elems(s)
    BY <1>1 DEF Elems
  <2>2. ASSUME NEW i \in 1 .. Len(Tail(s)) PROVE Tail(s)[i] \in Elems(s)
    <3>1. i + 1 \in 1 .. Len(s) /\ Tail(s)[i] = s[i + 1]
      BY <1>1
    <3> QED BY <3>1 DEF Elems
  <2> QED BY <2>1, <2>2 DEF Elems
<1> QED BY <1>1, <1>2, <1>3

(* A frame that is appended leaves the first one first and the others what    *)
(* they were.                                                                 *)
LEMMA HeadAppend ==
    ASSUME NEW S, NEW s \in Seq(S), NEW x \in S
    PROVE  /\ Append(s, x) # <<>> /\ Append(s, x) \in Seq(S)
           /\ s = <<>> => Head(Append(s, x)) = x /\ Tail(Append(s, x)) = <<>>
           /\ s # <<>> => /\ Head(Append(s, x)) = Head(s)
                          /\ Elems(Tail(Append(s, x))) = Elems(Tail(s)) \cup {x}
<1>1. Append(s, x) # <<>> /\ Append(s, x) \in Seq(S)
  <2>1. Len(Append(s, x)) = Len(s) + 1 /\ Append(s, x) \in Seq(S)
    OBVIOUS
  <2>2. Len(s) \in Nat /\ Len(<<>>) = 0
    OBVIOUS
  <2> QED BY <2>1, <2>2
<1>2. s = <<>> => Head(Append(s, x)) = x /\ Tail(Append(s, x)) = <<>>
  OBVIOUS
<1>3. ASSUME s # <<>>
      PROVE  /\ Head(Append(s, x)) = Head(s)
             /\ Elems(Tail(Append(s, x))) = Elems(Tail(s)) \cup {x}
  <2>1. Head(Append(s, x)) = Head(s) /\ Tail(s) \in Seq(S)
    BY <1>3
  <2>2. Tail(Append(s, x)) = Append(Tail(s), x)
    BY <1>3
  <2> DEFINE r == Tail(s)
  <2>3. r \in Seq(S)
    BY <2>1
  <2> HIDE DEF r
  <2>4. Elems(Append(r, x)) = Elems(r) \cup {x}
    BY <2>3, ElemsAppend
  <2> QED BY <2>1, <2>2, <2>4 DEF r
<1> QED BY <1>1, <1>2, <1>3

LEMMA ElemsOf ==
    ASSUME NEW S, NEW s \in Seq(S)
    PROVE  /\ \A x \in Elems(s) : x \in S
           /\ s = <<>> => Elems(s) = {}
           /\ s # <<>> => Head(s) \in Elems(s)
  BY DEF Elems

-----------------------------------------------------------------------------
(* What the operators on data return. *)

LEMMA MergedIs ==
    ASSUME NEW d \in Data, NEW e \in Data
    PROVE  /\ Merged(d, e) \in Data
           /\ Merged(d, e).login \in {d.login, e.login}
           /\ Merged(d, e).more \in {d.more, e.more}
           /\ e.more = "no" => Merged(d, e).more = "no"
           /\ Merged(d, e).more = "no" => e.more = "no" \/ (d.more = "no" /\ e.more = "unset")
           /\ Merged(d, e).keyed <=> d.keyed \/ e.keyed
           /\ Merged(d, e).pos = d.pos \cup e.pos
           /\ e.from # 0 => Merged(d, e).from = e.from
           /\ e.from = 0 => Merged(d, e).from = d.from
  BY DEF Merged, Data

LEMMA DataFields ==
    ASSUME NEW d \in Data
    PROVE  /\ d.login \in Conns /\ d.more \in {"unset", "yes", "no"} /\ d.keyed \in BOOLEAN
           /\ d.pos \subseteq Symbols /\ d.from \in Conns
  BY DEF Data

LEMMA EmptyIs ==
    /\ Empty \in Data /\ Empty.login = 0 /\ Empty.more = "unset" /\ ~Empty.keyed
    /\ Empty.pos = {} /\ Empty.from = 0
  BY SessionAssumption DEF Empty, Data, Conns

(* A record with one field set. *)
LEMMA LoginSet ==
    ASSUME NEW d \in Data, NEW c \in Conns
    PROVE  LET e == [d EXCEPT !.login = c]
           IN  /\ e \in Data
               /\ e.more = d.more
               /\ e.keyed = d.keyed
               /\ e.pos = d.pos
               /\ e.from = d.from
  BY DEF Data

LEMMA MoreSet ==
    ASSUME NEW d \in Data, NEW m \in {"unset", "yes", "no"}
    PROVE  LET e == [d EXCEPT !.more = m]
           IN  /\ e \in Data
               /\ e.more = m
               /\ e.keyed = d.keyed
               /\ e.pos = d.pos
               /\ e.from = d.from
  BY DEF Data

LEMMA KeyedSet ==
    ASSUME NEW d \in Data
    PROVE  LET e == [d EXCEPT !.keyed = TRUE]
           IN  /\ e \in Data
               /\ e.more = d.more
               /\ e.keyed
               /\ e.pos = d.pos
               /\ e.from = d.from
  BY DEF Data

LEMMA PosSet ==
    ASSUME NEW d \in Data, NEW S \in SUBSET Symbols
    PROVE  LET e == [d EXCEPT !.pos = S]
           IN  /\ e \in Data
               /\ e.more = d.more
               /\ e.keyed = d.keyed
               /\ e.pos = S
               /\ e.from = d.from
  BY DEF Data

LEMMA FromSet ==
    ASSUME NEW d \in Data, NEW c \in Conns
    PROVE  LET e == [d EXCEPT !.from = c]
           IN  /\ e \in Data
               /\ e.more = d.more
               /\ e.keyed = d.keyed
               /\ e.pos = d.pos
               /\ e.from = c
  BY DEF Data

LEMMA SentIs ==
    ASSUME NEW c \in Conns, book \subseteq Symbols
    PROVE  /\ Opening(c) \in Data /\ Opening(c).more = "yes" /\ ~Opening(c).keyed
           /\ Opening(c).pos = {} /\ Opening(c).from = 0
           /\ Closing(c) \in Data /\ Closing(c).more = "no" /\ Closing(c).keyed
           /\ Closing(c).pos = book /\ Closing(c).from = c
<1> DEFINE o1 == [Empty EXCEPT !.login = c]
           o2 == [o1 EXCEPT !.more = "yes"]
           c1 == [Empty EXCEPT !.more = "no"]
           c2 == [c1 EXCEPT !.keyed = TRUE]
           c3 == [c2 EXCEPT !.pos = book]
           c4 == [c3 EXCEPT !.from = c]
<1>1. Opening(c) = o2 /\ Closing(c) = c4
  BY DEF Opening, Closing
<1>2. /\ o1 \in Data /\ o1.keyed = Empty.keyed /\ o1.pos = Empty.pos
      /\ o1.from = Empty.from
  BY EmptyIs, LoginSet
<1>7. c1 \in Data /\ c1.more = "no"
  BY EmptyIs, MoreSet
<1> HIDE DEF o1, c1
<1>3. /\ o2 \in Data /\ o2.more = "yes" /\ o2.keyed = o1.keyed /\ o2.pos = o1.pos
      /\ o2.from = o1.from
  BY <1>2, MoreSet
<1>4. c2 \in Data /\ c2.more = c1.more /\ c2.keyed
  BY <1>7, KeyedSet
<1> HIDE DEF o2, c2
<1>5. c3 \in Data /\ c3.more = c2.more /\ c3.keyed = c2.keyed /\ c3.pos = book
  BY <1>4, PosSet
<1> HIDE DEF c3
<1>6. /\ c4 \in Data /\ c4.more = c3.more /\ c4.keyed = c3.keyed /\ c4.pos = c3.pos
      /\ c4.from = c
  BY <1>5, FromSet
<1> HIDE DEF c4
<1> QED BY <1>1, <1>2, <1>3, <1>4, <1>5, <1>6, <1>7, EmptyIs

(* What the server says of positions that were opened. *)
LEMMA OpenedIs ==
    ASSUME NEW S \in SUBSET Symbols
    PROVE  LET d == [Empty EXCEPT !.keyed = TRUE, !.pos = S]
           IN  d \in Data /\ d.more = "unset" /\ d.keyed /\ d.pos = S /\ d.from = 0
<1> DEFINE e == [Empty EXCEPT !.keyed = TRUE]
           d == [e EXCEPT !.pos = S]
<1>1. e \in Data /\ e.more = "unset" /\ e.keyed /\ e.from = 0
  BY EmptyIs, KeyedSet
<1> HIDE DEF e
<1>2. d \in Data /\ d.more = e.more /\ d.keyed = e.keyed /\ d.pos = S /\ d.from = e.from
  BY <1>1, PosSet
<1>3. d = [Empty EXCEPT !.keyed = TRUE, !.pos = S]
  BY DEF e
<1> HIDE DEF d
<1> QED BY <1>1, <1>2, <1>3

LEMMA FramesIs ==
    /\ \A n \in Notices : /\ Notify(n) \in Frames /\ Notify(n).notice = n
                          /\ Notify(n).data = Empty
    /\ \A d \in Data : Diff(d) \in Frames /\ Diff(d).notice = "none" /\ Diff(d).data = d
    /\ \A f \in Frames : f.notice \in Notices /\ f.data \in Data
    /\ Blank \in Frames /\ Blank.notice = "none" /\ Blank.data = Empty
  BY EmptyIs DEF Notify, Diff, Frames, Blank, Notices

-----------------------------------------------------------------------------
(***************************************************************************)
(* Types, in the groups that the steps leave alone together.               *)
(***************************************************************************)
CloserSteps == {"none", "pending", "diffs", "temp", "prev", "reconnect", "dial"}
WatchSteps == {"off", "idle", "login", "more", "swap"}
AppSteps == {"idle", "reset", "init", "watch", "login", "close", "hide", "abort", "drop"}

WsTypes ==
    /\ up \in BOOLEAN /\ conn \in Conns /\ auto \in BOOLEAN /\ connectedOnce \in BOOLEAN
StreamTypes == recorded \in BOOLEAN /\ inbox \in Seq(Frames) /\ closer \in CloserSteps
RuntimeTypes ==
    /\ pending \in BOOLEAN /\ diffs \in Data /\ temp \in Data /\ armed \in BOOLEAN
    /\ prev \in [known : BOOLEAN, pos : SUBSET Symbols]
TaskTypes ==
    /\ proc \in ProcSteps /\ frame \in Frames /\ held \in Data /\ gone \subseteq Symbols
StoreTypes == dm \in Data /\ epoch \in Nat /\ loginEpoch \in Nat /\ loginEpoch <= epoch
SessionTypes == running \in BOOLEAN /\ loggedIn \in BOOLEAN /\ snapshotReady \in BOOLEAN
WatcherTypes ==
    /\ watch \in WatchSteps /\ aborted \in BOOLEAN /\ more \in BOOLEAN
    /\ cur \in Nat /\ last \in Nat /\ cur <= epoch /\ last <= epoch
ServerTypes ==
    /\ loginOn \in Conns /\ srv \in Conns /\ sent \in 0 .. 2 /\ book \subseteq Symbols
BoundTypes ==
    /\ app \in AppSteps
    /\ losses \in Nat /\ calls \in Nat /\ trades \in Nat /\ closes \in Nat

SessionTypesAll ==
    /\ WsTypes /\ StreamTypes /\ RuntimeTypes /\ TaskTypes /\ StoreTypes
    /\ SessionTypes /\ WatcherTypes /\ ServerTypes /\ BoundTypes


LEMMA TypesOf == SessionTypesAll =>
    /\ WsTypes /\ StreamTypes /\ RuntimeTypes /\ TaskTypes /\ StoreTypes
    /\ SessionTypes /\ WatcherTypes /\ ServerTypes /\ BoundTypes
  BY DEF SessionTypesAll

LEMMA TypesKept ==
    ASSUME SessionTypesAll
    PROVE  /\ UNCHANGED ws => WsTypes'
           /\ UNCHANGED <<recorded, inbox, closer>> => StreamTypes'
           /\ UNCHANGED runtime => RuntimeTypes'
           /\ UNCHANGED task => TaskTypes'
           /\ UNCHANGED store => StoreTypes'
           /\ UNCHANGED session => SessionTypes'
           /\ UNCHANGED <<watcher, store>> => WatcherTypes'
           /\ UNCHANGED server => ServerTypes'
           /\ UNCHANGED <<app, bounds>> => BoundTypes'
<1> USE TypesOf
<1>1. UNCHANGED ws => WsTypes'
  BY DEF ws, WsTypes
<1>2. UNCHANGED <<recorded, inbox, closer>> => StreamTypes'
  BY DEF StreamTypes
<1>3. UNCHANGED runtime => RuntimeTypes'
  BY DEF runtime, RuntimeTypes
<1>4. UNCHANGED task => TaskTypes'
  BY DEF task, TaskTypes
<1>5. UNCHANGED store => StoreTypes'
  BY DEF store, StoreTypes
<1>6. UNCHANGED session => SessionTypes'
  BY DEF session, SessionTypes
<1>7. UNCHANGED <<watcher, store>> => WatcherTypes'
  BY DEF watcher, store, WatcherTypes
<1>8. UNCHANGED server => ServerTypes'
  BY DEF server, ServerTypes
<1>9. UNCHANGED <<app, bounds>> => BoundTypes'
  BY DEF bounds, BoundTypes
<1> QED BY <1>1, <1>2, <1>3, <1>4, <1>5, <1>6, <1>7, <1>8, <1>9

LEMMA TypesInit == Init => SessionTypesAll
<1> SUFFICES ASSUME Init PROVE SessionTypesAll OBVIOUS
<1>0. 0 \in Conns
  BY SessionAssumption DEF Conns
<1>1. WsTypes
  BY <1>0 DEF Init, WsTypes
<1>2. StreamTypes
  <2>1. inbox = <<>> /\ closer = "none" /\ recorded = FALSE
    BY DEF Init
  <2>2. <<>> \in Seq(Frames)
    OBVIOUS
  <2>3. recorded \in BOOLEAN /\ closer \in CloserSteps
    BY <2>1 DEF CloserSteps
  <2> QED BY <2>1, <2>2, <2>3 DEF StreamTypes
<1>3. NoPrev \in [known : BOOLEAN, pos : SUBSET Symbols]
  BY DEF NoPrev
<1>4. RuntimeTypes
  <2>1. /\ pending = FALSE /\ diffs = Empty /\ temp = Empty /\ armed = FALSE
        /\ prev = NoPrev
    BY DEF Init
  <2> QED BY <1>3, <2>1, EmptyIs DEF RuntimeTypes
<1>5. TaskTypes
  <2>1. proc = "idle" /\ frame = Blank /\ held = Empty /\ gone = {}
    BY DEF Init
  <2> QED BY <2>1, EmptyIs, FramesIs DEF TaskTypes, ProcSteps
<1>6. StoreTypes
  <2>1. dm = Empty /\ epoch = 0 /\ loginEpoch = 0
    BY DEF Init
  <2> QED BY <2>1, EmptyIs DEF StoreTypes
<1>7. SessionTypes
  BY DEF Init, SessionTypes
<1>8. WatcherTypes
  <2>1. /\ watch = "off" /\ aborted = FALSE /\ cur = 0 /\ last = 0 /\ more = FALSE
        /\ epoch = 0
    BY DEF Init
  <2>2. watch \in WatchSteps /\ aborted \in BOOLEAN /\ more \in BOOLEAN
    BY <2>1 DEF WatchSteps
  <2>3. cur \in Nat /\ last \in Nat /\ cur <= epoch /\ last <= epoch
    BY <2>1
  <2> QED BY <2>2, <2>3 DEF WatcherTypes
<1>9. ServerTypes /\ BoundTypes
  <2>1. /\ loginOn = 0 /\ srv = 0 /\ sent = 0 /\ book \in SUBSET Symbols /\ app = "idle"
        /\ losses = 0 /\ calls = 0 /\ trades = 0 /\ closes = 0
    BY DEF Init
  <2> QED BY <1>0, <2>1 DEF ServerTypes, BoundTypes, AppSteps
<1> QED
  BY <1>1, <1>2, <1>4, <1>5, <1>6, <1>7, <1>8, <1>9 DEF SessionTypesAll

(* A connection that opens is one of those there may be, and says so. *)
LEMMA OpenTypes ==
    ASSUME SessionTypesAll, NEW first, Open(first)
    PROVE  /\ conn' \in Conns /\ conn' = conn + 1 /\ up' = TRUE /\ connectedOnce' = TRUE
           /\ loginOn' \in Conns
           /\ \E n \in {"connected", "reconnected"} :
                 /\ inbox' = Append(inbox, Notify(n))
                 /\ n = "connected" => ~connectedOnce
           /\ inbox' \in Seq(Frames)
<1>1. conn' \in Conns /\ conn' = conn + 1 /\ up' = TRUE /\ connectedOnce' = TRUE
  BY SessionAssumption DEF Open, SessionTypesAll, WsTypes, Conns
<1>2. loginOn' \in Conns
  BY <1>1 DEF Open, SessionTypesAll, ServerTypes
<1>3. PICK n \in {"connected", "reconnected"} :
          inbox' = Append(inbox, Notify(n)) /\ (n = "connected" => ~connectedOnce)
  BY DEF Open
<1>4. inbox' \in Seq(Frames)
  BY <1>3, FramesIs DEF SessionTypesAll, StreamTypes, Notices
<1> QED BY <1>1, <1>2, <1>3, <1>4

LEMMA TypesServer ==
    ASSUME SessionTypesAll, ServerStep \/ ServerTrades \/ Lose
    PROVE  SessionTypesAll'
<1>1. CASE ServerLogsIn
  <2>1. UNCHANGED <<ws, recorded, inbox, closer, runtime, task, store, session, watcher, app, bounds>>
    BY <1>1 DEF ServerLogsIn
  <2>2. ServerTypes'
    BY <1>1, TypesOf DEF ServerLogsIn, ServerTypes, server
  <2> QED
    BY <2>1, <2>2, TypesKept DEF SessionTypesAll
<1>2. CASE ServerSends
  <2>0. inbox' \in Seq(Frames) /\ sent' \in 0 .. 2
    <3> DEFINE d == IF sent = 0 THEN Opening(conn) ELSE Closing(conn)
    <3>1. d \in Data
      BY SentIs, TypesOf DEF WsTypes, ServerTypes
    <3>2. Diff(d) \in Frames
      BY <3>1, FramesIs
    <3> QED BY <1>2, <3>2, TypesOf DEF ServerSends, StreamTypes, ServerTypes
  <2>1. UNCHANGED <<ws, runtime, task, store, session, watcher, app, bounds>>
    BY <1>2 DEF ServerSends
  <2>2. StreamTypes'
    BY <1>2, TypesOf, <2>0 DEF ServerSends, CloserSteps, StreamTypes
  <2>3. ServerTypes'
    BY <1>2, TypesOf, <2>0 DEF ServerSends, CloserSteps, ServerTypes, server
  <2> QED
    BY <2>1, <2>2, <2>3, TypesKept DEF SessionTypesAll
<1>3. CASE ServerTrades
  <2>0. inbox' \in Seq(Frames) /\ book' \subseteq Symbols
    <3>1. PICK b \in SUBSET Symbols :
              /\ book' = b
              /\ \/ inbox' = Append(inbox, Diff([Empty EXCEPT !.keyed = TRUE, !.pos = b \ book]))
                 \/ inbox' = inbox
      BY <1>3 DEF ServerTrades
    <3>2. Diff([Empty EXCEPT !.keyed = TRUE, !.pos = b \ book]) \in Frames
      BY OpenedIs, FramesIs
    <3> QED BY <3>1, <3>2, TypesOf DEF StreamTypes
  <2>1. UNCHANGED <<ws, runtime, task, store, session, watcher>>
    BY <1>3 DEF ServerTrades
  <2>2. StreamTypes'
    BY <1>3, TypesOf, <2>0 DEF ServerTrades, CloserSteps, StreamTypes
  <2>3. ServerTypes'
    BY <1>3, TypesOf, <2>0 DEF ServerTrades, CloserSteps, ServerTypes, server
  <2>4. BoundTypes'
    <3>1. BoundTypes
      BY TypesOf
    <3>2. /\ app' = app /\ losses' = losses /\ calls' = calls /\ closes' = closes
          /\ trades' = trades + 1
      BY <1>3 DEF ServerTrades
    <3> QED BY <3>1, <3>2 DEF BoundTypes
  <2> QED
    BY <2>1, <2>2, <2>3, <2>4, TypesKept DEF SessionTypesAll
<1>4. CASE Lose
  <2>0. inbox' \in Seq(Frames)
    BY <1>4, FramesIs, TypesOf DEF Lose, StreamTypes, Notices
  <2>1. UNCHANGED <<runtime, task, store, session, watcher, server>>
    BY <1>4 DEF Lose
  <2>2. WsTypes'
    BY <1>4, TypesOf, <2>0 DEF Lose, CloserSteps, WsTypes, ws
  <2>3. StreamTypes'
    BY <1>4, TypesOf, <2>0 DEF Lose, CloserSteps, StreamTypes
  <2>4. BoundTypes'
    BY <1>4, TypesOf, <2>0 DEF Lose, CloserSteps, BoundTypes, bounds
  <2> QED
    BY <2>1, <2>2, <2>3, <2>4, TypesKept DEF SessionTypesAll
<1> QED
  BY <1>1, <1>2, <1>3, <1>4 DEF ServerStep

LEMMA TypesCloser ==
    ASSUME SessionTypesAll, CloserStep
    PROVE  SessionTypesAll'
<1>1. CASE CloserClears
  <2>1. UNCHANGED <<ws, task, store, session, watcher, server, app, bounds>>
    BY <1>1 DEF CloserClears
  <2>2. StreamTypes'
    BY <1>1, TypesOf, EmptyIs DEF CloserClears, CloserSteps, NoPrev, StreamTypes
  <2>3. RuntimeTypes'
    <3>1. RuntimeTypes
      BY TypesOf
    <3>2. /\ pending' \in {pending, FALSE} /\ armed' \in {armed, FALSE}
          /\ diffs' \in {diffs, Empty} /\ temp' \in {temp, Empty} /\ prev' \in {prev, NoPrev}
      BY <1>1 DEF CloserClears
    <3>3. NoPrev \in [known : BOOLEAN, pos : SUBSET Symbols]
      BY DEF NoPrev
    <3>4. pending' \in BOOLEAN /\ armed' \in BOOLEAN
      BY <3>1, <3>2 DEF RuntimeTypes
    <3>5. /\ diffs' \in Data /\ temp' \in Data
          /\ prev' \in [known : BOOLEAN, pos : SUBSET Symbols]
      BY <3>1, <3>2, <3>3, EmptyIs DEF RuntimeTypes
    <3> QED BY <3>4, <3>5 DEF RuntimeTypes
  <2> QED
    BY <2>1, <2>2, <2>3, TypesKept DEF SessionTypesAll
<1>2. CASE ReconnectBegins
  <2>0. inbox' \in Seq(Frames)
    BY <1>2, FramesIs, TypesOf DEF ReconnectBegins, StreamTypes, Notices
  <2>1. UNCHANGED <<ws, runtime, task, store, session, watcher, server, app, bounds>>
    BY <1>2 DEF ReconnectBegins
  <2>2. StreamTypes'
    BY <1>2, TypesOf, <2>0 DEF ReconnectBegins, CloserSteps, StreamTypes
  <2> QED
    BY <2>1, <2>2, TypesKept DEF SessionTypesAll
<1>3. CASE Reconnect
  <2>1. UNCHANGED <<runtime, task, store, session, watcher, app, bounds>>
    BY <1>3 DEF Reconnect
  <2>2. WsTypes'
    BY <1>3, TypesOf, OpenTypes DEF Reconnect, CloserSteps, WsTypes, ws
  <2>3. StreamTypes'
    BY <1>3, TypesOf, OpenTypes DEF Reconnect, CloserSteps, StreamTypes
  <2>4. ServerTypes'
    BY <1>3, TypesOf, OpenTypes DEF Reconnect, CloserSteps, ServerTypes, server
  <2> QED
    BY <2>1, <2>2, <2>3, <2>4, TypesKept DEF SessionTypesAll
<1> QED
  BY <1>1, <1>2, <1>3 DEF CloserStep

LEMMA TypesProc ==
    ASSUME SessionTypesAll, ProcStep
    PROVE  SessionTypesAll'
<1>1. CASE Take
  <2>0. Head(inbox) \in Frames /\ Tail(inbox) \in Seq(Frames)
    BY <1>1, ElemsTail, TypesOf DEF Take, StreamTypes
  <2>1. UNCHANGED <<ws, runtime, store, session, watcher, server, app, bounds>>
    BY <1>1 DEF Take
  <2>2. StreamTypes'
    BY <1>1, TypesOf, <2>0 DEF Take, Goto, ProcSteps, StreamTypes
  <2>3. TaskTypes'
    BY <1>1, TypesOf, <2>0 DEF Take, Goto, ProcSteps, TaskTypes, task
  <2> QED
    BY <2>1, <2>2, <2>3, TypesKept DEF SessionTypesAll
<1>2. CASE OnNotify
  <2>1. UNCHANGED <<ws, recorded, inbox, closer, runtime, store, watcher, server, app, bounds>>
    BY <1>2 DEF OnNotify
  <2>2. TaskTypes'
    BY <1>2, TypesOf DEF OnNotify, Goto, ProcSteps, TaskTypes, task
  <2>3. SessionTypes'
    BY <1>2, TypesOf DEF OnNotify, Goto, ProcSteps, SessionTypes, session
  <2> QED
    BY <2>1, <2>2, <2>3, TypesKept DEF SessionTypesAll
<1>3. CASE Route
  <2>1. UNCHANGED <<ws, recorded, inbox, closer, store, session, watcher, server, app, bounds>>
    BY <1>3 DEF Route
  <2>2. RuntimeTypes'
    BY <1>3, TypesOf DEF Route, Goto, ProcSteps, RuntimeTypes, runtime
  <2>3. TaskTypes'
    BY <1>3, TypesOf DEF Route, Goto, ProcSteps, TaskTypes, task
  <2> QED
    BY <2>1, <2>2, <2>3, TypesKept DEF SessionTypesAll
<1>4. CASE ArmPrev
  <2>1. UNCHANGED <<ws, recorded, inbox, closer, store, session, watcher, server, app, bounds>>
    BY <1>4 DEF ArmPrev
  <2>2. RuntimeTypes'
    <3>1. RuntimeTypes /\ StoreTypes /\ TaskTypes
      BY TypesOf
    <3> QED BY <1>4, <3>1, DataFields DEF ArmPrev, Goto, ProcSteps, RuntimeTypes, runtime, StoreTypes, TaskTypes
  <2>3. TaskTypes'
    BY <1>4, TypesOf, DataFields DEF ArmPrev, Goto, ProcSteps, TaskTypes, task
  <2> QED
    BY <2>1, <2>2, <2>3, TypesKept DEF SessionTypesAll
<1>5. CASE ArmDiffs
  <2>1. UNCHANGED <<ws, recorded, inbox, closer, store, session, watcher, server, app, bounds>>
    BY <1>5 DEF ArmDiffs
  <2>2. RuntimeTypes'
    <3>1. RuntimeTypes /\ TaskTypes
      BY TypesOf
    <3> QED BY <1>5, <3>1, FramesIs DEF ArmDiffs, Goto, ProcSteps, RuntimeTypes, runtime, TaskTypes
  <2>3. TaskTypes'
    BY <1>5, TypesOf, FramesIs DEF ArmDiffs, Goto, ProcSteps, TaskTypes, task
  <2> QED
    BY <2>1, <2>2, <2>3, TypesKept DEF SessionTypesAll
<1>6. CASE ArmTemp
  <2>1. UNCHANGED <<ws, recorded, inbox, closer, store, session, watcher, app, bounds>>
    BY <1>6 DEF ArmTemp
  <2>2. RuntimeTypes'
    BY <1>6, TypesOf DEF ArmTemp, Goto, ProcSteps, RuntimeTypes, runtime
  <2>3. TaskTypes'
    BY <1>6, TypesOf DEF ArmTemp, Goto, ProcSteps, TaskTypes, task
  <2>4. ServerTypes'
    <3>1. ServerTypes /\ WsTypes
      BY TypesOf
    <3> QED BY <1>6, <3>1 DEF ArmTemp, Goto, ProcSteps, ServerTypes, server, WsTypes
  <2> QED
    BY <2>1, <2>2, <2>3, <2>4, TypesKept DEF SessionTypesAll
<1>7. CASE Buffer
  <2>1. UNCHANGED <<ws, recorded, inbox, closer, store, session, watcher, server, app, bounds>>
    BY <1>7 DEF Buffer
  <2>2. RuntimeTypes'
    <3>1. RuntimeTypes /\ TaskTypes
      BY TypesOf
    <3> QED BY <1>7, <3>1, MergedIs, FramesIs DEF Buffer, Goto, ProcSteps, RuntimeTypes, runtime, TaskTypes
  <2>3. TaskTypes'
    BY <1>7, TypesOf, MergedIs, FramesIs DEF Buffer, Goto, ProcSteps, TaskTypes, task
  <2> QED
    BY <2>1, <2>2, <2>3, TypesKept DEF SessionTypesAll
<1>8. CASE BufferTemp
  <2>1. UNCHANGED <<ws, recorded, inbox, closer, store, session, watcher, server, app, bounds>>
    BY <1>8 DEF BufferTemp
  <2>2. RuntimeTypes'
    <3>1. RuntimeTypes /\ TaskTypes
      BY TypesOf
    <3> QED BY <1>8, <3>1, MergedIs, FramesIs DEF BufferTemp, Goto, ProcSteps, RuntimeTypes, runtime, TaskTypes
  <2>3. TaskTypes'
    BY <1>8, TypesOf, MergedIs, FramesIs DEF BufferTemp, Goto, ProcSteps, TaskTypes, task
  <2> QED
    BY <2>1, <2>2, <2>3, TypesKept DEF SessionTypesAll
<1>9. CASE Check
  <2>1. UNCHANGED <<ws, recorded, inbox, closer, runtime, store, session, watcher, server, app, bounds>>
    BY <1>9 DEF Check
  <2>2. TaskTypes'
    BY <1>9, TypesOf, EmptyIs, FramesIs DEF Check, Goto, Finish, ProcSteps, TaskTypes, task
  <2> QED
    BY <2>1, <2>2, TypesKept DEF SessionTypesAll
<1>10. CASE Complete
  <2>1. UNCHANGED <<ws, recorded, inbox, closer, runtime, store, session, watcher, server, app, bounds>>
    BY <1>10 DEF Complete
  <2>2. TaskTypes'
    <3>1. RuntimeTypes /\ TaskTypes
      BY TypesOf
    <3> QED BY <1>10, <3>1, EmptyIs, FramesIs DEF Complete, Goto, Finish, ProcSteps, TaskTypes, task, RuntimeTypes
  <2> QED
    BY <2>1, <2>2, TypesKept DEF SessionTypesAll
<1>11. CASE Decide
  <2>0. Gone \subseteq Symbols
    BY TypesOf DEF Gone, RuntimeTypes
  <2>1. UNCHANGED <<ws, recorded, inbox, closer, runtime, store, session, watcher, server, app, bounds>>
    BY <1>11 DEF Decide
  <2>2. TaskTypes'
    BY <1>11, TypesOf, <2>0, EmptyIs, FramesIs DEF Decide, Goto, Finish, ProcSteps, TaskTypes, task
  <2> QED
    BY <2>1, <2>2, TypesKept DEF SessionTypesAll
<1>12. CASE Claim
  <2>1. UNCHANGED <<ws, recorded, inbox, closer, store, session, watcher, server, app, bounds>>
    BY <1>12 DEF Claim
  <2>2. RuntimeTypes'
    BY <1>12, TypesOf, EmptyIs DEF Claim, Goto, ProcSteps, RuntimeTypes, runtime
  <2>3. TaskTypes'
    <3>1. RuntimeTypes /\ TaskTypes
      BY TypesOf
    <3> QED BY <1>12, <3>1, EmptyIs DEF Claim, Goto, ProcSteps, TaskTypes, task, RuntimeTypes
  <2> QED
    BY <2>1, <2>2, <2>3, TypesKept DEF SessionTypesAll
<1>13. CASE Release
  <2>1. UNCHANGED <<ws, recorded, inbox, closer, store, session, watcher, server, app, bounds>>
    BY <1>13 DEF Release
  <2>2. RuntimeTypes'
    BY <1>13, TypesOf DEF Release, Goto, ProcSteps, RuntimeTypes, runtime
  <2>3. TaskTypes'
    BY <1>13, TypesOf DEF Release, Goto, ProcSteps, TaskTypes, task
  <2> QED
    BY <2>1, <2>2, <2>3, TypesKept DEF SessionTypesAll
<1>14. CASE Disarm
  <2>1. UNCHANGED <<ws, recorded, inbox, closer, store, session, watcher, server, app, bounds>>
    BY <1>14 DEF Disarm
  <2>2. RuntimeTypes'
    BY <1>14, TypesOf, EmptyIs DEF Disarm, Goto, ProcSteps, RuntimeTypes, runtime
  <2>3. TaskTypes'
    BY <1>14, TypesOf, EmptyIs DEF Disarm, Goto, ProcSteps, TaskTypes, task
  <2> QED
    BY <2>1, <2>2, <2>3, TypesKept DEF SessionTypesAll
<1>15. CASE Commit
  <2> DEFINE d == [Merged(dm, held) EXCEPT !.pos = @ \ gone]
  <2>1. d \in Data
    BY MergedIs, FramesIs, TypesOf DEF StoreTypes, TaskTypes, Data
  <2>2. Store(d) /\ UNCHANGED <<ws, recorded, inbox, closer, runtime, session, watcher, app, server, bounds>>
    BY <1>15 DEF Commit
  <2> HIDE DEF d
  <2>3. /\ dm' \in Data /\ epoch' = epoch + 1 /\ loginEpoch' \in {loginEpoch, epoch'}
        /\ proc' = "idle" /\ frame' = Blank /\ held' = Empty /\ gone' = {}
    BY <2>1, <2>2 DEF Store, Finish, Goto
  <2>4. StoreTypes' /\ TaskTypes'
    BY <2>3, EmptyIs, FramesIs, TypesOf DEF StoreTypes, TaskTypes, ProcSteps
  <2>5. WatcherTypes'
    BY <2>2, <2>3, TypesOf DEF watcher, WatcherTypes, StoreTypes
  <2> QED
    BY <2>2, <2>4, <2>5, TypesKept DEF SessionTypesAll
<1>16. CASE Merge
  <2> DEFINE d == Merged(dm, frame.data)
  <2>1. d \in Data
    BY MergedIs, FramesIs, TypesOf DEF StoreTypes, TaskTypes
  <2>2. Store(d) /\ UNCHANGED <<ws, recorded, inbox, closer, runtime, session, watcher, app, server, bounds>>
    BY <1>16 DEF Merge
  <2> HIDE DEF d
  <2>3. /\ dm' \in Data /\ epoch' = epoch + 1 /\ loginEpoch' \in {loginEpoch, epoch'}
        /\ proc' = "idle" /\ frame' = Blank /\ held' = Empty /\ gone' = {}
    BY <2>1, <2>2 DEF Store, Finish, Goto
  <2>4. StoreTypes' /\ TaskTypes'
    BY <2>3, EmptyIs, FramesIs, TypesOf DEF StoreTypes, TaskTypes, ProcSteps
  <2>5. WatcherTypes'
    BY <2>2, <2>3, TypesOf DEF watcher, WatcherTypes, StoreTypes
  <2> QED
    BY <2>2, <2>4, <2>5, TypesKept DEF SessionTypesAll
<1> QED
  BY <1>1, <1>2, <1>3, <1>4, <1>5, <1>6, <1>7, <1>8, <1>9, <1>10, <1>11, <1>12, <1>13, <1>14, <1>15, <1>16 DEF ProcStep

LEMMA TypesWatch ==
    ASSUME SessionTypesAll, WatchStep
    PROVE  SessionTypesAll'
<1>1. CASE WatchRead
  <2>1. UNCHANGED <<ws, recorded, inbox, closer, runtime, task, store, session, server, app, bounds>>
    BY <1>1 DEF WatchRead
  <2>2. WatcherTypes'
    <3>1. StoreTypes /\ WatcherTypes
      BY TypesOf
    <3> QED BY <1>1, <3>1 DEF WatchRead, WatchSteps, WatcherTypes, watcher, store, StoreTypes
  <2> QED
    BY <2>1, <2>2, TypesKept DEF SessionTypesAll
<1>2. CASE WatchStops
  <2>1. UNCHANGED <<ws, recorded, inbox, closer, runtime, task, store, session, server, app, bounds>>
    BY <1>2 DEF WatchStops
  <2>2. WatcherTypes'
    <3>1. StoreTypes /\ WatcherTypes
      BY TypesOf
    <3> QED BY <1>2, <3>1 DEF WatchStops, WatchSteps, WatcherTypes, watcher, store, StoreTypes
  <2> QED
    BY <2>1, <2>2, TypesKept DEF SessionTypesAll
<1>3. CASE WatchLogin
  <2>1. UNCHANGED <<ws, recorded, inbox, closer, runtime, task, store, server, app, bounds>>
    BY <1>3 DEF WatchLogin
  <2>2. SessionTypes'
    BY <1>3, TypesOf DEF WatchLogin, WatchSteps, SessionTypes, session
  <2>3. WatcherTypes'
    BY <1>3, TypesOf DEF WatchLogin, WatchSteps, WatcherTypes, watcher, store
  <2> QED
    BY <2>1, <2>2, <2>3, TypesKept DEF SessionTypesAll
<1>4. CASE WatchMore
  <2>1. UNCHANGED <<ws, recorded, inbox, closer, runtime, task, store, session, server, app, bounds>>
    BY <1>4 DEF WatchMore
  <2>2. WatcherTypes'
    BY <1>4, TypesOf DEF WatchMore, WatchSteps, WatcherTypes, watcher, store
  <2> QED
    BY <2>1, <2>2, TypesKept DEF SessionTypesAll
<1>5. CASE WatchSwap
  <2>1. UNCHANGED <<ws, recorded, inbox, closer, runtime, task, store, server, app, bounds>>
    BY <1>5 DEF WatchSwap
  <2>2. SessionTypes'
    BY <1>5, TypesOf DEF WatchSwap, WatchSteps, SessionTypes, session
  <2>3. WatcherTypes'
    <3>1. StoreTypes /\ WatcherTypes
      BY TypesOf
    <3>2. /\ watch' = "idle" /\ aborted' = aborted /\ more' = FALSE /\ cur' = 0 /\ last' = cur
          /\ epoch' = epoch
      BY <1>5 DEF WatchSwap, store
    <3>3. watch' \in WatchSteps /\ aborted' \in BOOLEAN /\ more' \in BOOLEAN
      BY <3>1, <3>2 DEF WatcherTypes, WatchSteps
    <3>4. cur' \in Nat /\ last' \in Nat /\ cur' <= epoch' /\ last' <= epoch'
      BY <3>1, <3>2 DEF WatcherTypes, StoreTypes
    <3> QED BY <3>3, <3>4 DEF WatcherTypes
  <2> QED
    BY <2>1, <2>2, <2>3, TypesKept DEF SessionTypesAll
<1> QED
  BY <1>1, <1>2, <1>3, <1>4, <1>5 DEF WatchStep

LEMMA TypesApp ==
    ASSUME SessionTypesAll, Connect \/ Close \/ AppStep
    PROVE  SessionTypesAll'
<1>1. CASE Connect
  <2>1. UNCHANGED <<ws, recorded, inbox, closer, runtime, task, store, watcher, server>>
    BY <1>1 DEF Connect
  <2>2. SessionTypes'
    BY <1>1, TypesOf DEF Connect, At, WatchSteps, AppSteps, CloserSteps, SessionTypes, session
  <2>3. BoundTypes'
    BY <1>1, TypesOf DEF Connect, At, WatchSteps, AppSteps, CloserSteps, BoundTypes, bounds
  <2> QED
    BY <2>1, <2>2, <2>3, TypesKept DEF SessionTypesAll
<1>2. CASE Close
  <2>1. UNCHANGED <<ws, recorded, inbox, closer, runtime, task, store, watcher, server>>
    BY <1>2 DEF Close
  <2>2. SessionTypes'
    BY <1>2, TypesOf DEF Close, At, WatchSteps, AppSteps, CloserSteps, SessionTypes, session
  <2>3. BoundTypes'
    BY <1>2, TypesOf DEF Close, At, WatchSteps, AppSteps, CloserSteps, BoundTypes, bounds
  <2> QED
    BY <2>1, <2>2, <2>3, TypesKept DEF SessionTypesAll
<1>3. CASE ConnectResets
  <2>1. UNCHANGED <<ws, recorded, inbox, closer, runtime, task, store, watcher, server>>
    BY <1>3 DEF ConnectResets
  <2>2. SessionTypes'
    BY <1>3, TypesOf DEF ConnectResets, At, WatchSteps, AppSteps, CloserSteps, SessionTypes, session
  <2>3. BoundTypes'
    BY <1>3, TypesOf DEF ConnectResets, At, WatchSteps, AppSteps, CloserSteps, BoundTypes, bounds
  <2> QED
    BY <2>1, <2>2, <2>3, TypesKept DEF SessionTypesAll
<1>4. CASE ConnectFails
  <2>1. UNCHANGED <<recorded, inbox, closer, runtime, task, store, watcher, server>>
    BY <1>4 DEF ConnectFails
  <2>2. WsTypes'
    BY <1>4, TypesOf DEF ConnectFails, At, WatchSteps, AppSteps, CloserSteps, WsTypes, ws
  <2>3. SessionTypes'
    BY <1>4, TypesOf DEF ConnectFails, At, WatchSteps, AppSteps, CloserSteps, SessionTypes, session
  <2>4. BoundTypes'
    BY <1>4, TypesOf DEF ConnectFails, At, WatchSteps, AppSteps, CloserSteps, BoundTypes, bounds
  <2> QED
    BY <2>1, <2>2, <2>3, <2>4, TypesKept DEF SessionTypesAll
<1>5. CASE StartWatching
  <2>1. UNCHANGED <<ws, recorded, inbox, closer, runtime, task, store, session, server>>
    BY <1>5 DEF StartWatching
  <2>2. WatcherTypes'
    BY <1>5, TypesOf DEF StartWatching, At, WatchSteps, AppSteps, CloserSteps, WatcherTypes, watcher, store
  <2>3. BoundTypes'
    BY <1>5, TypesOf DEF StartWatching, At, WatchSteps, AppSteps, CloserSteps, BoundTypes, bounds
  <2> QED
    BY <2>1, <2>2, <2>3, TypesKept DEF SessionTypesAll
<1>6. CASE SendLogin
  <2>1. UNCHANGED <<ws, runtime, task, store, session, watcher>>
    BY <1>6 DEF SendLogin
  <2>2. StreamTypes'
    BY <1>6, TypesOf DEF SendLogin, At, WatchSteps, AppSteps, CloserSteps, StreamTypes
  <2>3. ServerTypes'
    <3>1. ServerTypes /\ WsTypes
      BY TypesOf
    <3> QED BY <1>6, <3>1 DEF SendLogin, At, WatchSteps, AppSteps, CloserSteps, ServerTypes, server, WsTypes
  <2>4. BoundTypes'
    BY <1>6, TypesOf DEF SendLogin, At, WatchSteps, AppSteps, CloserSteps, BoundTypes, bounds
  <2> QED
    BY <2>1, <2>2, <2>3, <2>4, TypesKept DEF SessionTypesAll
<1>7. CASE SendLoginFails
  <2>1. UNCHANGED <<ws, runtime, task, store, watcher, server>>
    BY <1>7 DEF SendLoginFails
  <2>2. StreamTypes'
    BY <1>7, TypesOf DEF SendLoginFails, At, WatchSteps, AppSteps, CloserSteps, StreamTypes
  <2>3. SessionTypes'
    BY <1>7, TypesOf DEF SendLoginFails, At, WatchSteps, AppSteps, CloserSteps, SessionTypes, session
  <2>4. BoundTypes'
    BY <1>7, TypesOf DEF SendLoginFails, At, WatchSteps, AppSteps, CloserSteps, BoundTypes, bounds
  <2> QED
    BY <2>1, <2>2, <2>3, <2>4, TypesKept DEF SessionTypesAll
<1>8. CASE CloseLogsOut
  <2>1. UNCHANGED <<ws, recorded, inbox, closer, runtime, task, store, watcher, server>>
    BY <1>8 DEF CloseLogsOut
  <2>2. SessionTypes'
    BY <1>8, TypesOf DEF CloseLogsOut, At, WatchSteps, AppSteps, CloserSteps, SessionTypes, session
  <2>3. BoundTypes'
    BY <1>8, TypesOf DEF CloseLogsOut, At, WatchSteps, AppSteps, CloserSteps, BoundTypes, bounds
  <2> QED
    BY <2>1, <2>2, <2>3, TypesKept DEF SessionTypesAll
<1>9. CASE CloseHides
  <2>1. UNCHANGED <<ws, recorded, inbox, closer, runtime, task, store, watcher, server>>
    BY <1>9 DEF CloseHides
  <2>2. SessionTypes'
    BY <1>9, TypesOf DEF CloseHides, At, WatchSteps, AppSteps, CloserSteps, SessionTypes, session
  <2>3. BoundTypes'
    BY <1>9, TypesOf DEF CloseHides, At, WatchSteps, AppSteps, CloserSteps, BoundTypes, bounds
  <2> QED
    BY <2>1, <2>2, <2>3, TypesKept DEF SessionTypesAll
<1>10. CASE CloseAborts
  <2>1. UNCHANGED <<ws, recorded, inbox, closer, runtime, task, store, session, server>>
    BY <1>10 DEF CloseAborts
  <2>2. WatcherTypes'
    <3>1. StoreTypes /\ WatcherTypes
      BY TypesOf
    <3> QED BY <1>10, <3>1 DEF CloseAborts, At, WatchSteps, AppSteps, CloserSteps, WatcherTypes, watcher, store, StoreTypes
  <2>3. BoundTypes'
    BY <1>10, TypesOf DEF CloseAborts, At, WatchSteps, AppSteps, CloserSteps, BoundTypes, bounds
  <2> QED
    BY <2>1, <2>2, <2>3, TypesKept DEF SessionTypesAll
<1>11. CASE CloseDrops
  <2>1. UNCHANGED <<runtime, task, store, session, watcher, server>>
    BY <1>11 DEF CloseDrops
  <2>2. WsTypes'
    BY <1>11, TypesOf DEF CloseDrops, At, WatchSteps, AppSteps, CloserSteps, WsTypes, ws
  <2>3. StreamTypes'
    BY <1>11, TypesOf DEF CloseDrops, At, WatchSteps, AppSteps, CloserSteps, StreamTypes
  <2>4. BoundTypes'
    BY <1>11, TypesOf DEF CloseDrops, At, WatchSteps, AppSteps, CloserSteps, BoundTypes, bounds
  <2> QED
    BY <2>1, <2>2, <2>3, <2>4, TypesKept DEF SessionTypesAll
<1>12. CASE ConnectOpens
  <2>1. UNCHANGED <<runtime, task, store, session, watcher>>
    BY <1>12 DEF ConnectOpens
  <2>2. WsTypes'
    BY <1>12, TypesOf, OpenTypes DEF ConnectOpens, At, WatchSteps, AppSteps, CloserSteps, WsTypes, ws
  <2>3. StreamTypes'
    BY <1>12, TypesOf, OpenTypes DEF ConnectOpens, At, WatchSteps, AppSteps, CloserSteps, StreamTypes
  <2>4. ServerTypes'
    BY <1>12, TypesOf, OpenTypes DEF ConnectOpens, At, WatchSteps, AppSteps, CloserSteps, ServerTypes, server
  <2>5. BoundTypes'
    BY <1>12, TypesOf, OpenTypes DEF ConnectOpens, At, WatchSteps, AppSteps, CloserSteps, BoundTypes, bounds
  <2> QED
    BY <2>1, <2>2, <2>3, <2>4, <2>5, TypesKept DEF SessionTypesAll
<1> QED
  BY <1>1, <1>2, <1>3, <1>4, <1>5, <1>6, <1>7, <1>8, <1>9, <1>10, <1>11, <1>12 DEF AppStep

LEMMA TypesNext == SessionTypesAll /\ [Next]_vars => SessionTypesAll'
<1> SUFFICES ASSUME SessionTypesAll, [Next]_vars PROVE SessionTypesAll'
  OBVIOUS
<1>1. CASE UNCHANGED vars
  <2>1. UNCHANGED <<ws, recorded, inbox, closer, runtime, task, store, session, watcher, app, server, bounds>>
    BY <1>1 DEF vars
  <2> QED BY <2>1, TypesKept DEF SessionTypesAll
<1> QED
  BY <1>1, TypesServer, TypesCloser, TypesProc, TypesWatch, TypesApp DEF Next

(* Every variable of a session keeps its type, whatever is lost and called;  *)
(* in particular no epoch that the watch task has processed is ahead of the *)
(* data manager's (trade_session/watch.rs, datamanager/core.rs).            *)
THEOREM SessionTypesHold == Spec => []TypeOK
<1>1. SessionTypesAll => TypeOK
  BY DEF SessionTypesAll, TypeOK, WsTypes, StreamTypes, RuntimeTypes, TaskTypes, StoreTypes,
      SessionTypes, WatcherTypes, ServerTypes, BoundTypes, CloserSteps, WatchSteps, AppSteps
<1> QED BY <1>1, TypesInit, TypesNext, PTL DEF Spec

-----------------------------------------------------------------------------
(***************************************************************************)
(* The invariant, in parts.                                                *)
(***************************************************************************)
Told(d) == d.more = "no"

(* Data that may be there when c connections have been opened: a snapshot   *)
(* that is complete names its positions and its connection, which is none   *)
(* to come, and without a login nothing is told (r: it is recorded).        *)
Fit(d, c, r) ==
    /\ Told(d) => d.keyed /\ d.from # 0 /\ r
    /\ ~d.keyed => d.pos = {}
    /\ d.from <= c

FitRuntime == Fit(diffs, conn, recorded) /\ Fit(temp, conn, recorded)
FitTask == Fit(held, conn, recorded) /\ Fit(frame.data, conn, recorded)
FitInbox == \A x \in Elems(inbox) : Fit(x.data, conn, recorded)
Resting == proc = "idle" => frame = Blank /\ held = Empty
Silent == ~recorded => loginOn = 0 /\ srv = 0
DataInv ==
    /\ Fit(dm, conn, recorded) /\ FitRuntime /\ FitTask /\ FitInbox
    /\ Resting /\ Silent

(* Before the first connection nothing has happened, and a connection that  *)
(* is up is not being closed.                                               *)
FirstInv == connectedOnce <=> conn # 0
UpInv == up => conn # 0 /\ closer = "none"
SrvInv == srv <= conn /\ (srv = 0 => sent = 0)
BeforeInv ==
    conn = 0 =>
        /\ ~recorded /\ watch = "off" /\ ~aborted /\ dm = Empty /\ ~pending
        /\ inbox = <<>> /\ proc = "idle"
        /\ closer # "none" => ~auto /\ closer # "dial"
        /\ app \notin {"watch", "login"}

(* A session that was never closed is watched from before it logs in.       *)
OnceInv ==
    /\ app \in {"reset", "init"} => running
    /\ (closes = 0 /\ conn # 0) =>
          /\ running /\ ~aborted
          /\ app \in {"watch", "login", "idle"}
          /\ app = "watch" <=> watch = "off"
          /\ recorded <=> app = "idle"

(* What the inbox holds.                                                    *)
InboxPos == UNION {x.data.pos : x \in Elems(inbox)}
InboxTold == \E x \in Elems(inbox) : Told(x.data)
HeadNotice == inbox # <<>> /\ Head(inbox).notice # "none"

(* While the connection is up: its notice comes first, the data is its own. *)
Opened == {"connected", "reconnected"}
Arming == {"armPrev", "armDiffs", "armTemp"}
Completing == {"release", "disarm", "commit"}
Own(d) == d.from = 0 \/ d.from = conn
Announces(f) ==
    /\ f.data = Empty /\ f.notice \in Opened
    /\ f.notice = "connected" => ~pending /\ ~dm.keyed

InboxInv ==
    /\ \A x \in Elems(inbox) : Own(x.data)
    /\ inbox # <<>> => \A x \in Elems(Tail(inbox)) : x.notice = "none"
    /\ HeadNotice => proc = "idle" /\ Announces(Head(inbox))
FrameInv ==
    /\ Own(frame.data)
    /\ frame.notice # "none" => frame.data = Empty /\ frame.notice \in Opened
    /\ (frame.notice = "connected" /\ proc \in {"callback", "route"}) => ~pending /\ ~dm.keyed
StepInv ==
    /\ proc = "callback" => frame.notice # "none"
    /\ proc \in Arming => pending /\ frame.notice = "reconnected"
    /\ proc = "merge" => ~pending
    /\ proc \in {"buffer", "bufferTemp", "complete", "decide", "claim", "release"} => pending
    /\ proc \in {"disarm", "commit"} => ~pending

(* The notice has not been acted on yet.                                    *)
Waiting ==
    \/ HeadNotice
    \/ proc \in {"callback", "route"} /\ frame.notice # "none"
    \/ proc \in Arming

(* What is still to come: in the inbox and in the frame at hand.            *)
Unread == {"callback", "route", "armPrev", "armDiffs", "armTemp", "buffer", "merge"}
FrameUnread == proc \in Unread \/ (proc = "check" /\ ~pending)
Coming == InboxPos \cup (IF FrameUnread THEN frame.data.pos ELSE {})
ClosingComes == InboxTold \/ (FrameUnread /\ Told(frame.data))

(* What the server has sent of its positions.                               *)
AllSent == srv = conn /\ sent = 2
Book == IF AllSent THEN book ELSE {}
Prev == [known |-> dm.keyed, pos |-> dm.pos]

WaitingInv ==
    Waiting =>
        /\ Book = Coming
        /\ AllSent => ClosingComes
        /\ proc \in {"armDiffs", "armTemp"} => prev = Prev
        /\ proc = "armTemp" => diffs = Empty

BufferInv ==
    (~Waiting /\ pending /\ proc \notin Completing) =>
        /\ Book = Coming \cup diffs.pos
        /\ AllSent => ClosingComes \/ Told(diffs)
        /\ Told(diffs) => proc \in {"bufferTemp", "check", "complete", "decide", "claim"}
        /\ Own(diffs)
        /\ armed /\ prev = Prev
        /\ diffs = IF proc = "bufferTemp" THEN Merged(temp, frame.data) ELSE temp
        /\ proc \in {"decide", "claim"} => held = temp
        /\ proc = "claim" => IsComplete /\ gone = Gone

CompleteInv ==
    proc \in Completing =>
        /\ Book = Coming \cup held.pos
        /\ (dm.pos \cup held.pos) \ gone = held.pos
        /\ Own(held)
        /\ Told(held) \/ (~dm.keyed /\ held = Empty)

DirectInv ==
    (~Waiting /\ ~pending /\ proc \notin Completing) =>
        /\ Book = Coming \cup dm.pos
        /\ Told(dm) => dm.from = conn

FlowInv ==
    up => /\ InboxInv /\ FrameInv /\ StepInv
          /\ WaitingInv /\ BufferInv /\ CompleteInv /\ DirectInv

(* The watch task shows no snapshot of a connection that is gone.           *)
ReadyInv ==
    (up /\ closes = 0 /\ dm.from # conn) =>
        /\ (watch = "idle" /\ last = epoch) \/ ~Told(dm)
        /\ watch = "swap" => more
        /\ snapshotReady => HeadNotice \/ proc = "callback"

-----------------------------------------------------------------------------
(* What the steps of a thread leave alone. *)

LEMMA ProcKeeps ==
    ASSUME ProcStep
    PROVE  UNCHANGED <<ws, recorded, closer, running, loggedIn, watcher, app, srv, sent, book, bounds>>
<1>1. CASE Take \/ OnNotify \/ Route \/ ArmPrev \/ ArmDiffs
  BY <1>1 DEF Take, OnNotify, Route, ArmPrev, ArmDiffs, session, server
<1>2. CASE ArmTemp \/ Buffer \/ BufferTemp \/ Check \/ Complete
  BY <1>2 DEF ArmTemp, Buffer, BufferTemp, Check, Complete, session, server
<1>3. CASE Decide \/ Claim \/ Release \/ Disarm \/ Commit \/ Merge
  BY <1>3 DEF Decide, Claim, Release, Disarm, Commit, Merge, session, server
<1> QED BY <1>1, <1>2, <1>3 DEF ProcStep

LEMMA ProcRuns ==
    ASSUME ProcStep
    PROVE  proc # "idle" \/ (Take /\ inbox # <<>>)
  BY DEF ProcStep, Take, OnNotify, Route, ArmPrev, ArmDiffs, ArmTemp, Buffer, BufferTemp,
      Check, Complete, Decide, Claim, Release, Disarm, Commit, Merge

LEMMA WatchKeeps ==
    ASSUME WatchStep
    PROVE  /\ UNCHANGED <<ws, recorded, inbox, closer, runtime, task, store, running, app, server, bounds>>
           /\ aborted' = aborted /\ watch # "off"
  BY DEF WatchStep, WatchRead, WatchStops, WatchLogin, WatchMore, WatchSwap, session, watcher

LEMMA QuietAppKeeps ==
    ASSUME \/ Connect \/ Close \/ ConnectResets \/ StartWatching \/ SendLogin
           \/ SendLoginFails \/ CloseLogsOut \/ CloseHides \/ CloseAborts
    PROVE  UNCHANGED <<ws, inbox, closer, runtime, task, store, srv, sent, book>>
<1>1. CASE Connect \/ Close \/ ConnectResets \/ StartWatching \/ SendLogin
  BY <1>1 DEF Connect, Close, ConnectResets, StartWatching, SendLogin, server
<1>2. CASE SendLoginFails \/ CloseLogsOut \/ CloseHides \/ CloseAborts
  BY <1>2 DEF SendLoginFails, CloseLogsOut, CloseHides, CloseAborts, server
<1> QED BY <1>1, <1>2

LEMMA OpenIs ==
    ASSUME SessionTypesAll, NEW first, Open(first)
    PROVE  /\ conn \in Nat /\ conn' = conn + 1 /\ up' = TRUE /\ connectedOnce' = TRUE
           /\ recorded \/ loginOn' = loginOn
           /\ \E n \in Opened :
                 /\ inbox' = Append(inbox, Notify(n))
                 /\ n = "connected" => ~connectedOnce
  BY TypesOf DEF Open, WsTypes, Conns, Opened

LEMMA ConnGrows ==
    ASSUME SessionTypesAll, [Next]_vars
    PROVE  conn \in Nat /\ conn' \in Nat /\ (conn' = conn \/ conn' = conn + 1)
<1>0. conn \in Nat
  BY TypesOf DEF WsTypes, Conns
<1>1. CASE ServerStep \/ ServerTrades \/ Lose
  BY <1>0, <1>1 DEF ServerStep, ServerLogsIn, ServerSends, ServerTrades, Lose, ws
<1>2. CASE CloserClears \/ ReconnectBegins \/ ConnectFails \/ CloseDrops
  BY <1>0, <1>2 DEF CloserClears, ReconnectBegins, ConnectFails, CloseDrops, ws
<1>3. CASE Reconnect \/ ConnectOpens
  <2>1. conn' = conn + 1
    BY <1>3, OpenIs DEF Reconnect, ConnectOpens
  <2> QED BY <1>0, <2>1
<1>4. CASE ProcStep \/ WatchStep
  BY <1>0, <1>4, ProcKeeps, WatchKeeps DEF ws
<1>5. CASE UNCHANGED vars
  BY <1>0, <1>5 DEF vars, ws
<1>6. CASE Connect \/ Close \/ (AppStep /\ ~ConnectOpens /\ ~ConnectFails /\ ~CloseDrops)
  <2>1. UNCHANGED ws
    BY <1>6, QuietAppKeeps DEF AppStep
  <2> QED BY <1>0, <2>1 DEF ws
<1> QED BY <1>1, <1>2, <1>3, <1>4, <1>5, <1>6 DEF Next, CloserStep, AppStep

-----------------------------------------------------------------------------
(* Connections: their count, their server and what there is before the first. *)

LEMMA LinkInit == Init => FirstInv /\ UpInv /\ SrvInv /\ BeforeInv
  BY DEF Init, FirstInv, UpInv, SrvInv, BeforeInv

LEMMA FirstKept ==
    ASSUME SessionTypesAll, FirstInv, [Next]_vars
    PROVE  FirstInv'
<1>1. CASE ServerStep \/ ServerTrades \/ Lose
  BY <1>1 DEF FirstInv, ServerStep, ServerLogsIn, ServerSends, ServerTrades, Lose, ws
<1>2. CASE CloserClears \/ ReconnectBegins \/ ConnectFails \/ CloseDrops
  BY <1>2 DEF FirstInv, CloserClears, ReconnectBegins, ConnectFails, CloseDrops, ws
<1>3. CASE Reconnect \/ ConnectOpens
  <2>1. conn \in Nat /\ conn' = conn + 1 /\ connectedOnce' = TRUE
    BY <1>3, OpenIs DEF Reconnect, ConnectOpens
  <2> QED BY <2>1 DEF FirstInv
<1>4. CASE ProcStep \/ WatchStep
  BY <1>4, ProcKeeps, WatchKeeps DEF FirstInv, ws
<1>5. CASE UNCHANGED vars
  BY <1>5 DEF FirstInv, vars, ws
<1>6. CASE Connect \/ Close \/ (AppStep /\ ~ConnectOpens /\ ~ConnectFails /\ ~CloseDrops)
  <2>1. UNCHANGED ws
    BY <1>6, QuietAppKeeps DEF AppStep
  <2> QED BY <2>1 DEF FirstInv, ws
<1> QED BY <1>1, <1>2, <1>3, <1>4, <1>5, <1>6 DEF Next, CloserStep, AppStep

LEMMA UpKept ==
    ASSUME SessionTypesAll, UpInv, [Next]_vars
    PROVE  UpInv'
<1>1. CASE ServerStep \/ ServerTrades
  BY <1>1 DEF UpInv, ServerStep, ServerLogsIn, ServerSends, ServerTrades, ws
<1>2. CASE Lose \/ CloserClears \/ ReconnectBegins \/ ConnectFails \/ CloseDrops
  BY <1>2 DEF UpInv, Lose, CloserClears, ReconnectBegins, ConnectFails, CloseDrops, ws
<1>3. CASE Reconnect \/ ConnectOpens
  <2>1. conn \in Nat /\ conn' = conn + 1
    BY <1>3, OpenIs DEF Reconnect, ConnectOpens
  <2>2. closer' = "none"
    BY <1>3 DEF Reconnect, ConnectOpens
  <2> QED BY <2>1, <2>2 DEF UpInv
<1>4. CASE ProcStep \/ WatchStep
  BY <1>4, ProcKeeps, WatchKeeps DEF UpInv, ws
<1>5. CASE UNCHANGED vars
  BY <1>5 DEF UpInv, vars, ws
<1>6. CASE Connect \/ Close \/ (AppStep /\ ~ConnectOpens /\ ~ConnectFails /\ ~CloseDrops)
  <2>1. UNCHANGED <<ws, closer>>
    BY <1>6, QuietAppKeeps DEF AppStep
  <2> QED BY <2>1 DEF UpInv, ws
<1> QED BY <1>1, <1>2, <1>3, <1>4, <1>5, <1>6 DEF Next, CloserStep, AppStep

LEMMA SrvKept ==
    ASSUME SessionTypesAll, UpInv, SrvInv, [Next]_vars
    PROVE  SrvInv'
<1>0. /\ conn \in Nat /\ conn' \in Nat /\ (conn' = conn \/ conn' = conn + 1)
      /\ srv \in Nat /\ sent \in 0 .. 2
  BY ConnGrows, TypesOf DEF ServerTypes, Conns
<1>1. CASE ServerStep
  BY <1>0, <1>1 DEF UpInv, SrvInv, ServerStep, ServerLogsIn, ServerSends, ws
<1>2. ASSUME UNCHANGED <<srv, sent>> PROVE SrvInv'
  BY <1>0, <1>2 DEF SrvInv
<1>3. CASE ServerTrades \/ Lose \/ CloserClears \/ ReconnectBegins
  BY <1>2, <1>3 DEF ServerTrades, Lose, CloserClears, ReconnectBegins, server
<1>4. CASE Reconnect \/ ConnectOpens \/ ConnectFails \/ CloseDrops
  BY <1>2, <1>4 DEF Reconnect, ConnectOpens, ConnectFails, CloseDrops, server
<1>5. CASE ProcStep \/ WatchStep
  BY <1>2, <1>5, ProcKeeps, WatchKeeps DEF server
<1>6. CASE UNCHANGED vars
  BY <1>2, <1>6 DEF vars, server
<1>7. CASE Connect \/ Close \/ (AppStep /\ ~ConnectOpens /\ ~ConnectFails /\ ~CloseDrops)
  BY <1>2, <1>7, QuietAppKeeps DEF AppStep
<1> QED BY <1>1, <1>3, <1>4, <1>5, <1>6, <1>7 DEF Next, CloserStep, AppStep

LEMMA BeforeKept ==
    ASSUME SessionTypesAll, UpInv, BeforeInv, [Next]_vars
    PROVE  BeforeInv'
<1> SUFFICES ASSUME conn' = 0 PROVE BeforeInv'
  BY DEF BeforeInv
<1>0. conn = 0 /\ ~up
  BY ConnGrows DEF UpInv
<1> DEFINE B == /\ ~recorded /\ watch = "off" /\ ~aborted /\ dm = Empty /\ ~pending
                /\ inbox = <<>> /\ proc = "idle"
                /\ closer # "none" => ~auto /\ closer # "dial"
                /\ app \notin {"watch", "login"}
<1>b. B
  BY <1>0 DEF BeforeInv
<1> SUFFICES B'
  BY DEF BeforeInv
<1>1. CASE ServerStep \/ Lose
  BY <1>0, <1>1 DEF ServerStep, ServerLogsIn, ServerSends, Lose
<1>12. CASE ServerTrades
  <2>1. UNCHANGED <<ws, recorded, closer, runtime, task, store, watcher, app>> /\ inbox' = inbox
    BY <1>0, <1>12 DEF ServerTrades
  <2> QED BY <1>b, <2>1 DEF ws, runtime, task, store, watcher
<1>2. CASE CloserClears
  BY <1>2, <1>b DEF CloserClears, ws, runtime, task, store, watcher
<1>3. CASE ReconnectBegins
  <2>1. /\ UNCHANGED <<ws, recorded, runtime, task, store, watcher, app>>
        /\ inbox' = inbox /\ closer' = "none"
    BY <1>3, <1>b DEF ReconnectBegins
  <2> QED BY <1>b, <2>1 DEF ws, runtime, task, store, watcher
<1>13. CASE Reconnect
  BY <1>13, <1>b DEF Reconnect
<1>4. CASE ProcStep \/ WatchStep
  BY <1>4, <1>b, ProcRuns, WatchKeeps
<1>5. CASE UNCHANGED vars
  BY <1>5, <1>b DEF vars, ws, runtime, task, store, watcher
<1>6. CASE Connect \/ Close \/ ConnectResets \/ StartWatching \/ SendLogin
  BY <1>6, <1>b DEF Connect, Close, ConnectResets, StartWatching, SendLogin, At, ws, runtime, task,
      store, watcher
<1>7. CASE SendLoginFails \/ CloseLogsOut \/ CloseHides
  BY <1>7, <1>b DEF SendLoginFails, CloseLogsOut, CloseHides, At, ws, runtime, task, store, watcher
<1>11. CASE CloseAborts
  <2>1. UNCHANGED <<ws, recorded, inbox, closer, runtime, task, store>>
    BY <1>11 DEF CloseAborts
  <2>2. watch' = "off" /\ app' = "drop" /\ ~aborted'
    BY <1>11, <1>b DEF CloseAborts, At
  <2> QED BY <1>b, <2>1, <2>2 DEF ws, runtime, task, store
<1>8. CASE ConnectOpens
  <2>1. conn \in Nat /\ conn' = conn + 1
    BY <1>8, OpenIs DEF ConnectOpens
  <2> QED BY <1>0, <2>1
<1>9. CASE ConnectFails
  BY <1>9, <1>b DEF ConnectFails, At, runtime, task, store, watcher
<1>10. CASE CloseDrops
  BY <1>10, <1>b DEF CloseDrops, At, runtime, task, store, watcher
<1> QED BY <1>1, <1>2, <1>3, <1>4, <1>5, <1>6, <1>7, <1>8, <1>9, <1>10, <1>11, <1>12, <1>13
  DEF Next, CloserStep, AppStep

-----------------------------------------------------------------------------
(* Data stays fit. *)

LEMMA FitEmpty ==
    ASSUME NEW c \in Nat, NEW r \in BOOLEAN
    PROVE  Fit(Empty, c, r)
  BY EmptyIs DEF Fit, Told

LEMMA FitSent ==
    ASSUME NEW c \in Conns, c # 0, book \subseteq Symbols
    PROVE  Fit(Opening(c), c, TRUE) /\ Fit(Closing(c), c, TRUE)
<1>1. c \in Nat
  BY DEF Conns
<1>2. Fit(Opening(c), c, TRUE)
  <2>1. Opening(c).more = "yes" /\ Opening(c).pos = {} /\ Opening(c).from = 0
    BY SentIs
  <2> QED BY <1>1, <2>1 DEF Fit, Told
<1>3. Fit(Closing(c), c, TRUE)
  <2>1. Closing(c).keyed /\ Closing(c).from = c
    BY SentIs
  <2> QED BY <1>1, <2>1 DEF Fit, Told
<1> QED BY <1>2, <1>3

LEMMA FitMerged ==
    ASSUME NEW c \in Nat, NEW r \in BOOLEAN, NEW d \in Data, NEW e \in Data,
           Fit(d, c, r), Fit(e, c, r)
    PROVE  Fit(Merged(d, e), c, r)
<1> DEFINE m == Merged(d, e)
<1>1. /\ m.more = "no" => e.more = "no" \/ (d.more = "no" /\ e.more = "unset")
      /\ m.keyed <=> d.keyed \/ e.keyed
      /\ m.pos = d.pos \cup e.pos
      /\ e.from # 0 => m.from = e.from
      /\ e.from = 0 => m.from = d.from
  BY MergedIs
<1> HIDE DEF m
<1>2. Told(m) => m.keyed /\ m.from # 0 /\ r
  BY <1>1 DEF Fit, Told
<1>3. ~m.keyed => m.pos = {}
  BY <1>1 DEF Fit
<1>4. m.from <= c
  BY <1>1 DEF Fit
<1> QED BY <1>2, <1>3, <1>4 DEF Fit, m

LEMMA RecordedStays ==
    ASSUME SessionTypesAll, [Next]_vars
    PROVE  recorded \in BOOLEAN /\ recorded' \in BOOLEAN /\ (recorded => recorded')
<1>0. recorded \in BOOLEAN /\ recorded' \in BOOLEAN
  BY TypesNext, TypesOf DEF StreamTypes, SessionTypesAll
<1>1. CASE ServerStep \/ ServerTrades \/ Lose
  BY <1>0, <1>1 DEF ServerStep, ServerLogsIn, ServerSends, ServerTrades, Lose
<1>2. CASE CloserStep
  BY <1>0, <1>2 DEF CloserStep, CloserClears, ReconnectBegins, Reconnect
<1>3. CASE ProcStep \/ WatchStep
  BY <1>0, <1>3, ProcKeeps, WatchKeeps
<1>4. CASE UNCHANGED vars
  BY <1>0, <1>4 DEF vars
<1>5. CASE Connect \/ Close \/ ConnectResets \/ StartWatching \/ SendLogin
  BY <1>0, <1>5 DEF Connect, Close, ConnectResets, StartWatching, SendLogin
<1>6. CASE SendLoginFails \/ CloseLogsOut \/ CloseHides \/ CloseAborts
  BY <1>0, <1>6 DEF SendLoginFails, CloseLogsOut, CloseHides, CloseAborts
<1>7. CASE ConnectOpens \/ ConnectFails \/ CloseDrops
  BY <1>0, <1>7 DEF ConnectOpens, ConnectFails, CloseDrops
<1> QED BY <1>1, <1>2, <1>3, <1>4, <1>5, <1>6, <1>7 DEF Next, AppStep

LEMMA FitLater ==
    ASSUME SessionTypesAll, [Next]_vars, NEW d \in Data, Fit(d, conn, recorded)
    PROVE  Fit(d, conn', recorded')
<1>1. d.from \in Nat /\ d.from <= conn
  BY DataFields DEF Fit, Conns
<1>2. conn \in Nat /\ conn' \in Nat /\ conn <= conn'
  BY ConnGrows
<1>3. d.from <= conn'
  BY <1>1, <1>2
<1>4. Told(d) => d.keyed /\ d.from # 0 /\ recorded'
  BY RecordedStays DEF Fit
<1> QED BY <1>3, <1>4 DEF Fit

(* What a step leaves alone stays fit, and so does what it appends. *)
LEMMA DataKept ==
    ASSUME SessionTypesAll, DataInv, [Next]_vars
    PROVE  /\ UNCHANGED dm => Fit(dm, conn, recorded)'
           /\ UNCHANGED <<diffs, temp>> => FitRuntime'
           /\ UNCHANGED <<held, frame>> => FitTask'
           /\ UNCHANGED inbox => FitInbox'
           /\ \A f \in Frames : inbox' = Append(inbox, f) /\ Fit(f.data, conn', recorded') => FitInbox'
           /\ UNCHANGED <<proc, held, frame>> => Resting'
           /\ UNCHANGED <<recorded, loginOn, srv>> => Silent'
<1>0. /\ dm \in Data /\ diffs \in Data /\ temp \in Data /\ held \in Data /\ frame.data \in Data
      /\ inbox \in Seq(Frames)
  BY TypesOf, FramesIs DEF StoreTypes, RuntimeTypes, TaskTypes, StreamTypes
<1>1. UNCHANGED dm => Fit(dm, conn, recorded)'
  BY <1>0, FitLater DEF DataInv
<1>2. UNCHANGED <<diffs, temp>> => FitRuntime'
  <2>1. Fit(diffs, conn', recorded') /\ Fit(temp, conn', recorded')
    BY <1>0, FitLater DEF DataInv, FitRuntime
  <2> QED BY <2>1 DEF FitRuntime
<1>3. UNCHANGED <<held, frame>> => FitTask'
  <2>1. Fit(held, conn', recorded') /\ Fit(frame.data, conn', recorded')
    BY <1>0, FitLater DEF DataInv, FitTask
  <2> QED BY <2>1 DEF FitTask
<1>4. \A x \in Elems(inbox) : Fit(x.data, conn', recorded')
  <2> TAKE x \in Elems(inbox)
  <2>1. x.data \in Data /\ Fit(x.data, conn, recorded)
    BY <1>0, ElemsOf, FramesIs DEF DataInv, FitInbox
  <2> QED BY <2>1, FitLater
<1>5. UNCHANGED inbox => FitInbox'
  BY <1>4 DEF FitInbox
<1>6. ASSUME NEW f \in Frames, inbox' = Append(inbox, f), Fit(f.data, conn', recorded')
      PROVE  FitInbox'
  <2>1. Elems(inbox)' = Elems(inbox) \cup {f}
    BY <1>0, <1>6, ElemsAppend
  <2> QED BY <1>4, <1>6, <2>1 DEF FitInbox
<1>7. UNCHANGED <<proc, held, frame>> => Resting'
  BY DEF DataInv, Resting
<1>8. UNCHANGED <<recorded, loginOn, srv>> => Silent'
  BY DEF DataInv, Silent
<1> QED BY <1>1, <1>2, <1>3, <1>5, <1>6, <1>7, <1>8

LEMMA DataInit == Init => DataInv
<1> SUFFICES ASSUME Init PROVE DataInv
  OBVIOUS
<1>1. /\ dm = Empty /\ diffs = Empty /\ temp = Empty /\ held = Empty /\ frame = Blank
      /\ inbox = <<>> /\ conn = 0 /\ recorded = FALSE /\ loginOn = 0 /\ srv = 0
  BY DEF Init
<1>2. Fit(Empty, conn, recorded) /\ frame.data = Empty
  BY <1>1, FitEmpty, FramesIs
<1>3. Fit(dm, conn, recorded) /\ FitRuntime /\ FitTask
  BY <1>1, <1>2 DEF FitRuntime, FitTask
<1>4. FitInbox
  BY <1>1 DEF FitInbox, Elems
<1> QED BY <1>1, <1>3, <1>4 DEF DataInv, Resting, Silent

LEMMA DataServer ==
    ASSUME SessionTypesAll, DataInv, UpInv, ServerStep \/ ServerTrades \/ Lose
    PROVE  DataInv'
<1>0. /\ [Next]_vars /\ conn \in Conns /\ conn \in Nat /\ book \subseteq Symbols /\ srv \in Nat
      /\ recorded \in BOOLEAN
  BY TypesOf DEF Next, WsTypes, ServerTypes, StreamTypes, Conns
<1>1. CASE ServerLogsIn
  <2>1. UNCHANGED <<ws, recorded, inbox, runtime, task, store>>
    BY <1>1 DEF ServerLogsIn
  <2>2. Silent'
    BY <1>1, <2>1 DEF ServerLogsIn, DataInv, Silent, UpInv
  <2> QED BY <1>0, <2>1, <2>2, DataKept DEF DataInv, ws, runtime, task, store
<1>2. CASE ServerSends
  <2>1. UNCHANGED <<ws, recorded, runtime, task, store, loginOn, srv>>
    BY <1>2 DEF ServerSends
  <2>2. conn # 0 /\ recorded
    BY <1>2 DEF ServerSends, UpInv, DataInv, Silent
  <2>3. FitInbox'
    <3> DEFINE d == IF sent = 0 THEN Opening(conn) ELSE Closing(conn)
    <3>1. d \in Data /\ Fit(d, conn, TRUE)
      BY <1>0, <2>2, SentIs, FitSent
    <3>2. inbox' = Append(inbox, Diff(d))
      BY <1>2 DEF ServerSends
    <3> HIDE DEF d
    <3>3. Diff(d) \in Frames /\ Diff(d).data = d
      BY <3>1, FramesIs
    <3>4. conn' = conn /\ recorded'
      BY <2>1, <2>2 DEF ws
    <3>5. Fit(Diff(d).data, conn', recorded')
      BY <3>1, <3>3, <3>4 DEF Fit
    <3> QED BY <1>0, <3>2, <3>3, <3>5, DataKept
  <2> QED BY <1>0, <2>1, <2>3, DataKept DEF DataInv, ws, runtime, task, store
<1>3. CASE ServerTrades
  <2>1. UNCHANGED <<ws, recorded, runtime, task, store, loginOn, srv>>
    BY <1>3 DEF ServerTrades
  <2>2. CASE inbox' = inbox
    BY <1>0, <2>1, <2>2, DataKept DEF DataInv, ws, runtime, task, store
  <2>3. CASE inbox' # inbox
    <3>1. PICK b \in SUBSET Symbols :
            inbox' = Append(inbox, Diff([Empty EXCEPT !.keyed = TRUE, !.pos = b \ book]))
      BY <1>3, <2>3 DEF ServerTrades
    <3> DEFINE d == [Empty EXCEPT !.keyed = TRUE, !.pos = b \ book]
    <3>2. d \in Data /\ d.more = "unset" /\ d.keyed /\ d.from = 0
      BY OpenedIs
    <3> HIDE DEF d
    <3>3. Diff(d) \in Frames /\ Diff(d).data = d
      BY <3>2, FramesIs
    <3>4. conn' = conn
      BY <2>1 DEF ws
    <3>5. Fit(Diff(d).data, conn', recorded')
      BY <1>0, <3>2, <3>3, <3>4 DEF Fit, Told
    <3>6. FitInbox'
      BY <1>0, <3>1, <3>3, <3>5, DataKept DEF d
    <3> QED BY <1>0, <2>1, <3>6, DataKept DEF DataInv, ws, runtime, task, store
  <2> QED BY <2>2, <2>3
<1>4. CASE Lose
  <2>1. /\ UNCHANGED <<recorded, runtime, task, store, server>>
        /\ inbox' = Append(inbox, Notify("lost"))
    BY <1>4 DEF Lose
  <2>2. Notify("lost") \in Frames /\ Notify("lost").data = Empty
    BY FramesIs DEF Notices
  <2>3. FitInbox'
    <3>1. Fit(Empty, conn', recorded')
      BY <1>0, ConnGrows, RecordedStays, FitEmpty
    <3> QED BY <1>0, <2>1, <2>2, <3>1, DataKept
  <2> QED BY <1>0, <2>1, <2>3, DataKept DEF DataInv, runtime, task, store, server
<1> QED BY <1>1, <1>2, <1>3, <1>4 DEF ServerStep

(* A notice carries no data. *)
LEMMA DataNotice ==
    ASSUME SessionTypesAll, DataInv, [Next]_vars, NEW n \in Notices,
           inbox' = Append(inbox, Notify(n))
    PROVE  FitInbox'
<1>1. Notify(n) \in Frames /\ Notify(n).data = Empty
  BY FramesIs
<1>2. Fit(Empty, conn', recorded')
  BY ConnGrows, RecordedStays, FitEmpty
<1> QED BY <1>1, <1>2, DataKept

LEMMA DataOpens ==
    ASSUME SessionTypesAll, DataInv, Reconnect \/ ConnectOpens
    PROVE  DataInv'
<1>0. [Next]_vars
  BY DEF Next, CloserStep, AppStep
<1>1. UNCHANGED <<recorded, runtime, task, store, srv>> /\ (recorded \/ loginOn' = loginOn)
  BY OpenIs DEF Reconnect, ConnectOpens
<1>2. PICK n \in Opened : inbox' = Append(inbox, Notify(n))
  BY OpenIs DEF Reconnect, ConnectOpens
<1>3. n \in Notices
  BY DEF Opened, Notices
<1>4. FitInbox'
  BY <1>0, <1>2, <1>3, DataNotice
<1>5. Silent'
  BY <1>1 DEF DataInv, Silent
<1> QED BY <1>0, <1>1, <1>4, <1>5, DataKept DEF DataInv, runtime, task, store

LEMMA DataCloser ==
    ASSUME SessionTypesAll, DataInv, CloserClears \/ ReconnectBegins \/ ConnectFails \/ CloseDrops
    PROVE  DataInv'
<1>0. [Next]_vars
  BY DEF Next, CloserStep, AppStep
<1>1. CASE CloserClears
  <2>1. UNCHANGED <<recorded, inbox, task, store, server>>
    BY <1>1 DEF CloserClears
  <2>2. diffs' \in {diffs, Empty} /\ temp' \in {temp, Empty}
    BY <1>1 DEF CloserClears
  <2>3. /\ Fit(Empty, conn', recorded') /\ Fit(diffs, conn', recorded')
        /\ Fit(temp, conn', recorded')
    <3>1. diffs \in Data /\ temp \in Data
      BY TypesOf DEF RuntimeTypes
    <3> QED BY <1>0, <3>1, FitLater, FitEmpty, ConnGrows, RecordedStays DEF DataInv, FitRuntime
  <2>4. FitRuntime'
    BY <2>2, <2>3 DEF FitRuntime
  <2> QED BY <1>0, <2>1, <2>4, DataKept DEF DataInv, task, store, server
<1>2. CASE ReconnectBegins
  <2>1. /\ UNCHANGED <<recorded, runtime, task, store, server>>
        /\ inbox' = inbox \/ inbox' = Append(inbox, Notify("reconnecting"))
    BY <1>2 DEF ReconnectBegins
  <2>2. FitInbox'
    BY <1>0, <2>1, DataKept, DataNotice DEF Notices
  <2> QED BY <1>0, <2>1, <2>2, DataKept DEF DataInv, runtime, task, store, server
<1>3. CASE ConnectFails \/ CloseDrops
  <2>1. UNCHANGED <<recorded, inbox, runtime, task, store, server>>
    BY <1>3 DEF ConnectFails, CloseDrops
  <2> QED BY <1>0, <2>1, DataKept DEF DataInv, runtime, task, store, server
<1> QED BY <1>1, <1>2, <1>3

LEMMA DataQuiet ==
    ASSUME SessionTypesAll, DataInv,
           \/ UNCHANGED vars \/ WatchStep \/ Connect \/ Close \/ ConnectResets \/ StartWatching
           \/ SendLogin \/ SendLoginFails \/ CloseLogsOut \/ CloseHides \/ CloseAborts
    PROVE  DataInv'
<1>0. [Next]_vars
  BY DEF Next, AppStep
<1>1. UNCHANGED <<inbox, runtime, task, store, srv>>
  BY WatchKeeps, QuietAppKeeps DEF vars, server
<1>2. Silent'
  <2>1. CASE SendLogin \/ SendLoginFails
    BY <2>1 DEF SendLogin, SendLoginFails, Silent
  <2>2. ASSUME UNCHANGED <<recorded, loginOn>> PROVE Silent'
    BY <1>1, <2>2 DEF DataInv, Silent
  <2>3. CASE WatchStep \/ UNCHANGED vars
    BY <2>2, <2>3, WatchKeeps DEF vars, server
  <2>4. CASE Connect \/ Close \/ ConnectResets \/ StartWatching
    BY <2>2, <2>4 DEF Connect, Close, ConnectResets, StartWatching, server
  <2>5. CASE CloseLogsOut \/ CloseHides \/ CloseAborts
    BY <2>2, <2>5 DEF CloseLogsOut, CloseHides, CloseAborts, server
  <2> QED BY <2>1, <2>3, <2>4, <2>5
<1> QED BY <1>0, <1>1, <1>2, DataKept DEF DataInv, runtime, task, store

(* The task that processes messages moves data on and merges it. *)
LEMMA DataProc ==
    ASSUME SessionTypesAll, DataInv, ProcStep
    PROVE  DataInv'
<1>0. [Next]_vars
  BY DEF Next
<1>1. /\ dm \in Data /\ diffs \in Data /\ temp \in Data /\ held \in Data /\ frame.data \in Data
      /\ frame \in Frames /\ inbox \in Seq(Frames) /\ conn \in Nat /\ recorded \in BOOLEAN
  BY TypesOf, FramesIs DEF StoreTypes, RuntimeTypes, TaskTypes, StreamTypes, WsTypes, Conns
<1>2. conn' = conn /\ recorded' = recorded
  BY ProcKeeps DEF ws
<1>3. /\ Fit(dm, conn, recorded) /\ Fit(diffs, conn, recorded) /\ Fit(temp, conn, recorded)
      /\ Fit(held, conn, recorded) /\ Fit(frame.data, conn, recorded) /\ Fit(Empty, conn, recorded)
  BY <1>1, FitEmpty DEF DataInv, FitRuntime, FitTask
<1>4. Blank.data = Empty
  BY FramesIs
<1>5. /\ UNCHANGED dm => Fit(dm, conn, recorded)'
      /\ UNCHANGED <<diffs, temp>> => FitRuntime'
      /\ UNCHANGED <<held, frame>> => FitTask'
      /\ UNCHANGED inbox => FitInbox'
      /\ UNCHANGED <<recorded, loginOn, srv>> => Silent'
  BY <1>0, DataKept
<1>6. CASE Take
  <2>1. /\ UNCHANGED <<recorded, runtime, held, store, server>>
        /\ frame' = Head(inbox) /\ inbox' = Tail(inbox) /\ proc' # "idle" /\ inbox # <<>>
    BY <1>6 DEF Take, Goto
  <2>2. Elems(inbox) = {Head(inbox)} \cup Elems(Tail(inbox))
    BY <1>1, <2>1, ElemsTail
  <2>3. /\ Fit(Head(inbox).data, conn, recorded)
        /\ \A x \in Elems(Tail(inbox)) : Fit(x.data, conn, recorded)
    BY <2>2 DEF DataInv, FitInbox
  <2>4. FitInbox'
    BY <1>2, <2>1, <2>3 DEF FitInbox
  <2>5. FitTask'
    BY <1>2, <1>3, <2>1, <2>3 DEF FitTask
  <2> QED BY <1>5, <2>1, <2>4, <2>5 DEF DataInv, Resting, runtime, store, server
<1>7. CASE OnNotify \/ Route
  <2>1. /\ UNCHANGED <<recorded, inbox, diffs, temp, held, frame, store, server>>
        /\ proc' # "idle"
    BY <1>7 DEF OnNotify, Route, Goto, runtime
  <2> QED BY <1>5, <2>1 DEF DataInv, Resting, store, server
<1>8. CASE ArmPrev \/ Release
  <2>1. /\ UNCHANGED <<recorded, inbox, diffs, temp, held, frame, store, server>>
        /\ proc' # "idle"
    BY <1>8 DEF ArmPrev, Release, Goto
  <2> QED BY <1>5, <2>1 DEF DataInv, Resting, store, server
<1>9. CASE ArmDiffs \/ Buffer
  <2>1. /\ UNCHANGED <<recorded, inbox, temp, held, frame, store, server>>
        /\ proc' # "idle" /\ diffs' \in {frame.data, Merged(diffs, frame.data)}
    BY <1>9 DEF ArmDiffs, Buffer, Goto
  <2>2. Fit(Merged(diffs, frame.data), conn, recorded)
    BY <1>1, <1>3, FitMerged
  <2>3. FitRuntime'
    BY <1>2, <1>3, <2>1, <2>2 DEF FitRuntime
  <2> QED BY <1>5, <2>1, <2>3 DEF DataInv, Resting, store, server
<1>10. CASE ArmTemp
  <2>1. /\ UNCHANGED <<recorded, inbox, diffs, held, frame, store>>
        /\ proc' # "idle" /\ temp' = diffs
    BY <1>10 DEF ArmTemp, Goto
  <2>2. FitRuntime'
    BY <1>2, <1>3, <2>1 DEF FitRuntime
  <2>3. Silent'
    BY <1>2, <1>10 DEF ArmTemp, DataInv, Silent
  <2> QED BY <1>5, <2>1, <2>2, <2>3 DEF DataInv, Resting, store
<1>11. CASE BufferTemp
  <2>1. /\ UNCHANGED <<recorded, inbox, diffs, held, frame, store, server>>
        /\ proc' # "idle" /\ temp' \in {temp, Merged(temp, frame.data)}
    BY <1>11 DEF BufferTemp, Goto
  <2>2. Fit(Merged(temp, frame.data), conn, recorded)
    BY <1>1, <1>3, FitMerged
  <2>3. FitRuntime'
    BY <1>2, <1>3, <2>1, <2>2 DEF FitRuntime
  <2> QED BY <1>5, <2>1, <2>3 DEF DataInv, Resting, store, server
<1>12. CASE Check \/ Complete
  <2>1. /\ UNCHANGED <<recorded, inbox, runtime, store, server>>
        /\ \/ proc' = "idle" /\ frame' = Blank /\ held' = Empty
           \/ proc' # "idle" /\ frame' = frame /\ held' \in {held, temp}
    BY <1>12 DEF Check, Complete, Goto, Finish
  <2>2. FitTask' /\ Resting'
    BY <1>2, <1>3, <1>4, <2>1 DEF FitTask, Resting
  <2> QED BY <1>5, <2>1, <2>2 DEF DataInv, runtime, store, server
<1>13. CASE Decide
  <2>1. /\ UNCHANGED <<recorded, inbox, runtime, store, server>>
        /\ \/ proc' = "idle" /\ frame' = Blank /\ held' = Empty
           \/ proc' # "idle" /\ frame' = frame /\ held' = held
    BY <1>13 DEF Decide, Goto, Finish
  <2>2. FitTask' /\ Resting'
    BY <1>2, <1>3, <1>4, <2>1 DEF FitTask, Resting
  <2> QED BY <1>5, <2>1, <2>2 DEF DataInv, runtime, store, server
<1>14. CASE Claim
  <2>1. /\ UNCHANGED <<recorded, inbox, temp, frame, store, server>>
        /\ proc' # "idle" /\ held' = diffs /\ diffs' = Empty
    BY <1>14 DEF Claim, Goto
  <2>2. FitTask' /\ FitRuntime' /\ Resting'
    BY <1>2, <1>3, <2>1 DEF FitTask, FitRuntime, Resting
  <2> QED BY <1>5, <2>1, <2>2 DEF DataInv, store, server
<1>15. CASE Disarm
  <2>1. /\ UNCHANGED <<recorded, inbox, diffs, held, frame, store, server>>
        /\ proc' # "idle" /\ temp' = Empty
    BY <1>15 DEF Disarm, Goto
  <2>2. FitRuntime'
    BY <1>2, <1>3, <2>1 DEF FitRuntime
  <2> QED BY <1>5, <2>1, <2>2 DEF DataInv, Resting, store, server
<1>16. CASE Commit \/ Merge
  <2>1. /\ UNCHANGED <<recorded, inbox, runtime, server>>
        /\ proc' = "idle" /\ frame' = Blank /\ held' = Empty
        /\ dm' \in {[Merged(dm, held) EXCEPT !.pos = @ \ gone], Merged(dm, frame.data)}
    BY <1>16 DEF Commit, Merge, Store, Finish, Goto
  <2>2. Fit(Merged(dm, frame.data), conn, recorded) /\ Fit(Merged(dm, held), conn, recorded)
    BY <1>1, <1>3, FitMerged
  <2>3. Fit([Merged(dm, held) EXCEPT !.pos = @ \ gone], conn, recorded)
    <3> DEFINE m == Merged(dm, held)
               S == m.pos \ gone
               e == [m EXCEPT !.pos = S]
    <3>1. m \in Data /\ S \in SUBSET Symbols
      BY <1>1, MergedIs, DataFields
    <3>2. Fit(m, conn, recorded)
      BY <2>2
    <3>3. e = [Merged(dm, held) EXCEPT !.pos = @ \ gone] /\ S \subseteq m.pos
      OBVIOUS
    <3> HIDE DEF m, S
    <3>4. e.more = m.more /\ e.keyed = m.keyed /\ e.pos = S /\ e.from = m.from
      BY <3>1, PosSet
    <3> HIDE DEF e
    <3>5. Fit(e, conn, recorded)
      BY <3>2, <3>3, <3>4 DEF Fit, Told
    <3> QED BY <3>3, <3>5
  <2>4. Fit(dm, conn, recorded)'
    BY <1>2, <2>1, <2>2, <2>3
  <2>5. FitTask' /\ Resting'
    BY <1>2, <1>3, <1>4, <2>1 DEF FitTask, Resting
  <2> QED BY <1>5, <2>1, <2>4, <2>5 DEF DataInv, runtime, server
<1> QED BY <1>6, <1>7, <1>8, <1>9, <1>10, <1>11, <1>12, <1>13, <1>14, <1>15, <1>16 DEF ProcStep

LEMMA DataNext ==
    ASSUME SessionTypesAll, DataInv, UpInv, [Next]_vars
    PROVE  DataInv'
  BY DataServer, DataOpens, DataCloser, DataQuiet, DataProc DEF Next, CloserStep, AppStep

-----------------------------------------------------------------------------
(* A session that was never closed. *)

LEMMA OnceInit == Init => OnceInv
  BY DEF Init, OnceInv

LEMMA OnceKept ==
    ASSUME SessionTypesAll, UpInv, BeforeInv, OnceInv, [Next]_vars
    PROVE  OnceInv'
<1> DEFINE Once == (closes = 0 /\ conn # 0) =>
              /\ running /\ ~aborted
              /\ app \in {"watch", "login", "idle"}
              /\ app = "watch" <=> watch = "off"
              /\ recorded <=> app = "idle"
<1>0. /\ conn \in Nat /\ closes \in Nat /\ (app \in {"reset", "init"} => running) /\ Once
  BY TypesOf DEF WsTypes, BoundTypes, Conns, OnceInv
<1>1. ASSUME UNCHANGED <<conn, running, aborted, app, watch, recorded, closes>>
      PROVE  OnceInv'
  BY <1>0, <1>1 DEF OnceInv
<1>2. CASE ServerStep \/ ServerTrades \/ Lose
  BY <1>1, <1>2 DEF ServerStep, ServerLogsIn, ServerSends, ServerTrades, Lose, ws, session, watcher,
      bounds
<1>3. CASE CloserClears \/ ReconnectBegins \/ CloseDrops
  <2>1. CASE CloserClears \/ ReconnectBegins
    BY <1>1, <2>1 DEF CloserClears, ReconnectBegins, ws, session, watcher, bounds
  <2>2. CASE CloseDrops
    <3>1. /\ conn' = conn /\ running' = running /\ closes' = closes /\ app = "drop" /\ app' = "idle"
      BY <2>2 DEF CloseDrops, At, session, bounds
    <3> QED BY <1>0, <3>1 DEF OnceInv
  <2> QED BY <1>3, <2>1, <2>2
<1>4. CASE ProcStep
  BY <1>1, <1>4, ProcKeeps DEF ws, watcher, bounds
<1>5. CASE UNCHANGED vars
  BY <1>1, <1>5 DEF vars, ws, session, watcher, bounds
<1>6. CASE WatchStep
  <2>1. UNCHANGED <<conn, recorded, running, app, closes, aborted>> /\ watch # "off"
    BY <1>6, WatchKeeps DEF ws, bounds
  <2>2. watch' = "off" => ~running \/ aborted
    BY <1>6 DEF WatchStep, WatchRead, WatchStops, WatchLogin, WatchMore, WatchSwap
  <2> QED BY <1>0, <2>1, <2>2 DEF OnceInv
<1>7. CASE Reconnect
  <2>1. UNCHANGED <<recorded, running, aborted, app, watch, closes>> /\ closer = "dial"
    BY <1>7 DEF Reconnect, session, watcher, bounds
  <2>2. conn # 0
    BY <2>1 DEF BeforeInv
  <2> QED BY <1>0, <2>1, <2>2 DEF OnceInv
<1>8. CASE ConnectOpens
  <2>1. /\ UNCHANGED <<recorded, running, aborted, watch, closes>>
        /\ app = "init" /\ app' = "watch"
    BY <1>8 DEF ConnectOpens, At, session, watcher, bounds
  <2>2. (closes = 0) => conn = 0
    BY <1>0, <2>1
  <2>3. closes' = 0 => running' /\ ~aborted' /\ watch' = "off" /\ ~recorded'
    BY <1>0, <2>1, <2>2 DEF BeforeInv
  <2> QED BY <2>1, <2>3 DEF OnceInv
<1>9. CASE ConnectFails
  <2>1. conn' = conn /\ closes' = closes /\ app = "init" /\ app' = "close"
    BY <1>9 DEF ConnectFails, At, bounds
  <2> QED BY <1>0, <2>1 DEF OnceInv
<1>10. CASE Connect
  <2>1. conn' = conn /\ closes' = closes /\ ~running /\ running' /\ app' = "reset"
    BY <1>10 DEF Connect, At, ws
  <2> QED BY <1>0, <2>1 DEF OnceInv
<1>11. CASE ConnectResets
  <2>1. /\ UNCHANGED <<conn, running, closes>> /\ app = "reset" /\ app' = "init"
    BY <1>11 DEF ConnectResets, At, ws, bounds
  <2> QED BY <1>0, <2>1 DEF OnceInv
<1>12. CASE StartWatching
  <2>1. /\ UNCHANGED <<conn, running, closes, recorded>> /\ app = "watch" /\ app' = "login"
        /\ watch' = "idle" /\ ~aborted'
    BY <1>12 DEF StartWatching, At, ws, session, bounds
  <2> QED BY <1>0, <2>1 DEF OnceInv
<1>13. CASE SendLogin
  <2>1. /\ UNCHANGED <<conn, running, closes, aborted, watch>> /\ app = "login" /\ app' = "idle"
        /\ recorded' = TRUE
    BY <1>13 DEF SendLogin, At, ws, session, watcher, bounds
  <2> QED BY <1>0, <2>1 DEF OnceInv
<1>14. CASE SendLoginFails \/ Close
  <2>1. closes' # 0 /\ app' = "close"
    BY <1>0, <1>14 DEF SendLoginFails, Close, At
  <2> QED BY <2>1 DEF OnceInv
<1>15. CASE CloseLogsOut \/ CloseHides \/ CloseAborts
  <2>1. /\ conn' = conn /\ closes' = closes /\ app \in {"close", "hide", "abort"}
        /\ app' \in {"hide", "abort", "drop"}
    BY <1>15 DEF CloseLogsOut, CloseHides, CloseAborts, At, ws, bounds
  <2> QED BY <1>0, <2>1 DEF OnceInv
<1> QED BY <1>2, <1>3, <1>4, <1>5, <1>6, <1>7, <1>8, <1>9, <1>10, <1>11, <1>12, <1>13, <1>14, <1>15
  DEF Next, CloserStep, AppStep

-----------------------------------------------------------------------------
(***************************************************************************)
(* The flow of a snapshot, while the connection is up.                     *)
(***************************************************************************)
FlowParts ==
    /\ InboxInv /\ FrameInv /\ StepInv
    /\ WaitingInv /\ BufferInv /\ CompleteInv /\ DirectInv

LEMMA FlowIs == (FlowInv <=> (up => FlowParts)) /\ (FlowInv' <=> (up' => FlowParts'))
  BY DEF FlowInv, FlowParts

(* The server and the connection add P to what is to come, and to the book. *)
LEMMA FlowMore ==
    ASSUME FlowParts, UNCHANGED <<conn, pending, diffs, temp, armed, prev, proc, frame, held, gone, dm>>,
           NEW P, InboxInv', HeadNotice' <=> HeadNotice,
           InboxPos' = InboxPos \cup P, InboxTold => InboxTold',
           Book' = Book \cup P, AllSent' => AllSent \/ InboxTold'
    PROVE  FlowParts'
<1>1. /\ Waiting' <=> Waiting
      /\ FrameUnread' <=> FrameUnread
      /\ Coming' = Coming \cup P
      /\ ClosingComes => ClosingComes'
      /\ AllSent' => AllSent \/ ClosingComes'
  BY DEF Waiting, FrameUnread, Coming, ClosingComes
<1>2. Prev' = Prev
  BY DEF Prev
<1>3. FrameInv' /\ StepInv'
  BY DEF FlowParts, FrameInv, StepInv, Own
<1>4. WaitingInv'
  BY <1>1, <1>2 DEF FlowParts, WaitingInv
<1>5. BufferInv'
  <2> SUFFICES ASSUME ~Waiting', pending', proc' \notin Completing
               PROVE  BufferInv'
    BY DEF BufferInv
  <2>1. /\ Book = Coming \cup diffs.pos
        /\ AllSent => ClosingComes \/ Told(diffs)
        /\ Told(diffs) => proc \in {"bufferTemp", "check", "complete", "decide", "claim"}
        /\ Own(diffs)
        /\ armed /\ prev = Prev
        /\ diffs = IF proc = "bufferTemp" THEN Merged(temp, frame.data) ELSE temp
        /\ proc \in {"decide", "claim"} => held = temp
        /\ proc = "claim" => IsComplete /\ gone = Gone
    BY <1>1 DEF FlowParts, BufferInv
  <2>2. (IsComplete' <=> IsComplete) /\ Gone' = Gone
    BY DEF IsComplete, Gone
  <2>3. Own(diffs)' /\ (Told(diffs)' <=> Told(diffs))
    BY <2>1 DEF Own, Told
  <2>4. Book' = Coming' \cup diffs'.pos
    BY <1>1, <2>1
  <2>5. diffs' = IF proc' = "bufferTemp" THEN Merged(temp', frame'.data) ELSE temp'
    BY <2>1
  <2> QED BY <1>1, <1>2, <2>1, <2>2, <2>3, <2>4, <2>5 DEF BufferInv
<1>6. CompleteInv'
  BY <1>1 DEF FlowParts, CompleteInv, Own, Told
<1>7. DirectInv'
  BY <1>1 DEF FlowParts, DirectInv, Told
<1> QED BY <1>3, <1>4, <1>5, <1>6, <1>7 DEF FlowParts

LEMMA FlowQuiet ==
    ASSUME SessionTypesAll, FlowInv,
           UNCHANGED <<ws, inbox, runtime, task, dm, srv, sent, book>>
    PROVE  FlowInv'
<1> SUFFICES ASSUME up PROVE FlowParts'
  BY FlowIs DEF ws
<1>1. /\ FlowParts
      /\ UNCHANGED <<conn, pending, diffs, temp, armed, prev, proc, frame, held, gone, dm>>
      /\ UNCHANGED <<inbox, srv, sent, book>>
  BY FlowIs DEF ws, runtime, task
<1>2. InboxInv' /\ (HeadNotice' <=> HeadNotice)
  BY <1>1 DEF FlowParts, InboxInv, HeadNotice, Own, Announces
<1>3. InboxPos' = InboxPos \cup {} /\ (InboxTold => InboxTold')
  BY <1>1 DEF InboxPos, InboxTold
<1>4. Book' = Book \cup {} /\ (AllSent' => AllSent)
  BY <1>1 DEF Book, AllSent
<1> QED BY <1>1, <1>2, <1>3, <1>4, FlowMore

(* A frame of data that the server appends. *)
LEMMA InboxAppends ==
    ASSUME SessionTypesAll, InboxInv, NEW d \in Data, Own(d), inbox' = Append(inbox, Diff(d)),
           UNCHANGED <<conn, proc, pending, dm>>
    PROVE  /\ InboxInv' /\ (HeadNotice' <=> HeadNotice)
           /\ InboxPos' = InboxPos \cup d.pos
           /\ InboxTold' <=> InboxTold \/ Told(d)
<1>1. inbox \in Seq(Frames) /\ Diff(d) \in Frames /\ Diff(d).notice = "none" /\ Diff(d).data = d
  BY TypesOf, FramesIs DEF StreamTypes
<1>2. Elems(inbox)' = Elems(inbox) \cup {Diff(d)}
  BY <1>1, ElemsAppend
<1>3. /\ inbox' # <<>>
      /\ inbox = <<>> => Head(inbox') = Diff(d) /\ Tail(inbox') = <<>>
      /\ inbox # <<>> => /\ Head(inbox') = Head(inbox)
                         /\ Elems(Tail(inbox')) = Elems(Tail(inbox)) \cup {Diff(d)}
  BY <1>1, HeadAppend
<1>4. HeadNotice' <=> HeadNotice
  BY <1>1, <1>3 DEF HeadNotice
<1>5. \A x \in Elems(inbox)' : Own(x.data)'
  BY <1>1, <1>2 DEF InboxInv, Own
<1>6. \A x \in Elems(Tail(inbox')) : x.notice = "none"
  <2>1. CASE inbox = <<>>
    BY <1>3, <2>1 DEF Elems
  <2>2. CASE inbox # <<>>
    BY <1>1, <1>3, <2>2 DEF InboxInv
  <2> QED BY <2>1, <2>2
<1>7. HeadNotice' => proc' = "idle" /\ Announces(Head(inbox))'
  BY <1>3, <1>4 DEF InboxInv, HeadNotice, Announces
<1>8. InboxInv'
  BY <1>5, <1>6, <1>7 DEF InboxInv
<1>9. InboxPos' = InboxPos \cup d.pos
  BY <1>1, <1>2 DEF InboxPos
<1>10. InboxTold' <=> InboxTold \/ Told(d)
  BY <1>1, <1>2 DEF InboxTold
<1> QED BY <1>4, <1>8, <1>9, <1>10

LEMMA FlowServer ==
    ASSUME SessionTypesAll, FlowInv, ServerStep \/ ServerTrades
    PROVE  FlowInv'
<1>0. UNCHANGED <<ws, runtime, task, dm>>
  BY DEF ServerStep, ServerLogsIn, ServerSends, ServerTrades, store
<1> SUFFICES ASSUME up PROVE FlowParts'
  BY <1>0, FlowIs DEF ws
<1>1. /\ FlowParts
      /\ UNCHANGED <<conn, pending, diffs, temp, armed, prev, proc, frame, held, gone, dm>>
  BY <1>0, FlowIs DEF ws, runtime, task
<1>2. conn \in Conns /\ book \subseteq Symbols
  BY TypesOf DEF WsTypes, ServerTypes
<1>3. ASSUME inbox' = inbox, Book' = Book, AllSent' => AllSent PROVE FlowParts'
  <2>1. InboxInv' /\ (HeadNotice' <=> HeadNotice)
    BY <1>1, <1>3 DEF FlowParts, InboxInv, HeadNotice, Own, Announces
  <2>2. InboxPos' = InboxPos \cup {} /\ (InboxTold => InboxTold') /\ Book' = Book \cup {}
    BY <1>3 DEF InboxPos, InboxTold
  <2> QED BY <1>1, <1>3, <2>1, <2>2, FlowMore
<1>4. CASE ServerLogsIn
  <2>1. inbox' = inbox /\ srv # conn /\ sent' = 0
    BY <1>4 DEF ServerLogsIn
  <2>2. ~AllSent /\ ~AllSent'
    BY <2>1 DEF AllSent
  <2> QED BY <1>3, <2>1, <2>2 DEF Book
<1>5. CASE ServerSends
  <2> DEFINE d == IF sent = 0 THEN Opening(conn) ELSE Closing(conn)
  <2>1. /\ srv = conn /\ sent < 2 /\ sent' = sent + 1 /\ inbox' = Append(inbox, Diff(d))
        /\ UNCHANGED <<srv, book, conn>>
    BY <1>1, <1>5 DEF ServerSends
  <2>2. sent \in {0, 1}
    BY <2>1, TypesOf DEF ServerTypes
  <2>3. /\ d \in Data /\ (d.from = 0 \/ d.from = conn)
        /\ sent = 0 => d.pos = {}
        /\ sent = 1 => d.pos = book /\ d.more = "no"
    BY <1>2, <2>2, SentIs
  <2> HIDE DEF d
  <2>4. /\ InboxInv' /\ (HeadNotice' <=> HeadNotice)
        /\ InboxPos' = InboxPos \cup d.pos
        /\ InboxTold' <=> InboxTold \/ Told(d)
    BY <1>1, <2>1, <2>3, InboxAppends DEF FlowParts, Own
  <2>5. ~AllSent /\ (AllSent' <=> sent = 1)
    BY <2>1, <2>2 DEF AllSent
  <2>6. Book' = Book \cup d.pos
    BY <2>1, <2>2, <2>3, <2>5 DEF Book
  <2>7. AllSent' => InboxTold'
    BY <2>3, <2>4, <2>5 DEF Told
  <2> QED BY <1>1, <2>4, <2>6, <2>7, FlowMore
<1>6. CASE ServerTrades
  <2>1. UNCHANGED <<srv, sent, conn>>
    BY <1>1, <1>6 DEF ServerTrades
  <2>2. PICK b \in SUBSET Symbols :
          /\ book' = b
          /\ \/ /\ srv = conn /\ sent = 2 /\ book \subseteq b
                /\ inbox' = Append(inbox, Diff([Empty EXCEPT !.keyed = TRUE, !.pos = b \ book]))
             \/ srv # conn /\ inbox' = inbox
    BY <1>6 DEF ServerTrades
  <2>3. CASE srv # conn
    <3>1. inbox' = inbox /\ ~AllSent /\ ~AllSent'
      BY <2>1, <2>2, <2>3 DEF AllSent
    <3> QED BY <1>3, <3>1 DEF Book
  <2>4. CASE srv = conn
    <3> DEFINE d == [Empty EXCEPT !.keyed = TRUE, !.pos = b \ book]
    <3>1. AllSent /\ AllSent' /\ book \subseteq b /\ inbox' = Append(inbox, Diff(d))
      BY <2>1, <2>2, <2>4 DEF AllSent
    <3>2. d \in Data /\ d.pos = b \ book /\ d.from = 0
      BY OpenedIs
    <3> HIDE DEF d
    <3>3. /\ InboxInv' /\ (HeadNotice' <=> HeadNotice)
          /\ InboxPos' = InboxPos \cup d.pos
          /\ InboxTold => InboxTold'
      BY <1>1, <3>1, <3>2, InboxAppends DEF FlowParts, Own
    <3>4. Book' = Book \cup d.pos
      BY <2>2, <3>1, <3>2 DEF Book
    <3> QED BY <1>1, <3>1, <3>3, <3>4, FlowMore
  <2> QED BY <2>3, <2>4
<1> QED BY <1>4, <1>5, <1>6 DEF ServerStep

(* A connection that opens announces itself, and the server has sent nothing. *)
LEMMA FlowOpens ==
    ASSUME SessionTypesAll, DataInv, FirstInv, SrvInv, BeforeInv, Reconnect \/ ConnectOpens
    PROVE  FlowInv'
<1>1. /\ UNCHANGED <<recorded, runtime, task, store, srv>> /\ inbox = <<>> /\ proc = "idle"
  BY DEF Reconnect, ConnectOpens, Calm
<1>2. conn \in Nat /\ conn' = conn + 1 /\ srv \in Nat
  <2>1. conn \in Nat /\ conn' = conn + 1
    BY OpenIs DEF Reconnect, ConnectOpens
  <2>2. srv \in Nat
    BY TypesOf DEF ServerTypes, Conns
  <2> QED BY <2>1, <2>2
<1>3. PICK n \in Opened : inbox' = Append(inbox, Notify(n)) /\ (n = "connected" => ~connectedOnce)
  BY OpenIs DEF Reconnect, ConnectOpens
<1>4. /\ Notify(n) \in Frames /\ Notify(n).notice = n /\ Notify(n).data = Empty /\ n # "none"
      /\ inbox \in Seq(Frames)
  BY FramesIs, TypesOf DEF Opened, Notices, StreamTypes
<1>5. /\ Elems(inbox)' = {Notify(n)} /\ inbox' # <<>> /\ Head(inbox') = Notify(n)
      /\ Tail(inbox') = <<>>
  <2>1. Elems(inbox) = {}
    BY <1>1 DEF Elems
  <2>2. Elems(inbox') = Elems(inbox) \cup {Notify(n)}
    BY <1>3, <1>4, ElemsAppend
  <2>3. inbox' # <<>> /\ Head(inbox') = Notify(n) /\ Tail(inbox') = <<>>
    BY <1>1, <1>3, <1>4, HeadAppend
  <2> QED BY <2>1, <2>2, <2>3
<1>6. n = "connected" => ~pending /\ dm = Empty
  BY <1>2, <1>3 DEF FirstInv, BeforeInv
<1>7. ~AllSent'
  BY <1>1, <1>2 DEF AllSent, SrvInv
<1>8. InboxInv'
  <2>1. \A x \in Elems(inbox)' : Own(x.data)'
    BY <1>4, <1>5, EmptyIs DEF Own
  <2>2. Elems(Tail(inbox')) = {}
    <3>1. Elems(<<>>) = {}
      BY DEF Elems
    <3> QED BY <1>5, <3>1
  <2>3. proc' = "idle" /\ Announces(Head(inbox))'
    BY <1>1, <1>4, <1>5, <1>6, EmptyIs DEF Announces, task, runtime, store
  <2> QED BY <2>1, <2>2, <2>3 DEF InboxInv
<1>9. Waiting' /\ proc' = "idle" /\ frame' = Blank /\ Blank.notice = "none" /\ Blank.data = Empty
  BY <1>1, <1>4, <1>5, FramesIs DEF Waiting, HeadNotice, task, DataInv, Resting
<1>10. FrameInv' /\ StepInv'
  BY <1>9, EmptyIs DEF FrameInv, StepInv, Own, Arming
<1>11. WaitingInv'
  <2>1. InboxPos' = {}
    BY <1>4, <1>5, EmptyIs DEF InboxPos
  <2>2. Coming' = {}
    BY <1>9, <2>1 DEF Coming, FrameUnread, Unread
  <2> QED BY <1>7, <1>9, <2>2 DEF WaitingInv, Book
<1>12. BufferInv' /\ CompleteInv' /\ DirectInv'
  BY <1>9 DEF BufferInv, CompleteInv, DirectInv, Completing
<1> QED BY <1>8, <1>10, <1>11, <1>12, FlowIs DEF FlowParts

(* The task that processes messages, with the connection up. *)
LEMMA FlowTake ==
    ASSUME SessionTypesAll, FlowParts, Take
    PROVE  FlowParts'
<1> DEFINE h == Head(inbox)
<1>0. inbox \in Seq(Frames) /\ inbox # <<>>
  BY TypesOf DEF StreamTypes, Take
<1>1. /\ UNCHANGED <<conn, pending, diffs, temp, armed, prev, held, gone, dm, srv, sent, book>>
      /\ proc = "idle" /\ frame' = h /\ inbox' = Tail(inbox)
      /\ proc' = IF h.notice # "none" THEN "callback" ELSE "route"
  BY DEF Take, Goto, ws, runtime, store, server
<1>2. h \in Frames /\ Tail(inbox) \in Seq(Frames) /\ Elems(inbox) = {h} \cup Elems(Tail(inbox))
  BY <1>0, ElemsTail
<1>3. /\ \A x \in Elems(inbox) : Own(x.data)
      /\ \A x \in Elems(Tail(inbox)) : x.notice = "none"
      /\ h.notice # "none" => Announces(h)
  BY <1>0 DEF FlowParts, InboxInv, HeadNotice
<1>4. ~HeadNotice'
  <2>1. inbox' # <<>> => Head(inbox') \in Elems(inbox')
    BY <1>1, <1>2, ElemsOf
  <2> QED BY <1>1, <1>3, <2>1 DEF HeadNotice
<1>5. InboxInv'
  <2>1. \A x \in Elems(inbox)' : Own(x.data)'
    BY <1>1, <1>2, <1>3 DEF Own
  <2>2. inbox' # <<>> => \A x \in Elems(Tail(inbox')) : x.notice = "none"
    <3>1. inbox' # <<>> => Elems(inbox') = {Head(inbox')} \cup Elems(Tail(inbox'))
      BY <1>1, <1>2, ElemsTail
    <3> QED BY <1>1, <1>3, <3>1
  <2> QED BY <1>4, <2>1, <2>2 DEF InboxInv
<1>6. /\ InboxPos = h.data.pos \cup InboxPos'
      /\ InboxTold <=> Told(h.data) \/ InboxTold'
      /\ HeadNotice <=> h.notice # "none"
  BY <1>0, <1>1, <1>2 DEF InboxPos, InboxTold, HeadNotice
<1> HIDE DEF h
<1>7. /\ FrameUnread' /\ ~FrameUnread
      /\ Coming' = Coming
      /\ ClosingComes' <=> ClosingComes
  BY <1>1, <1>6 DEF FrameUnread, Coming, ClosingComes, Unread
<1>8. Waiting' <=> Waiting
  BY <1>1, <1>4, <1>6 DEF Waiting, Arming
<1>9. Book' = Book /\ (AllSent' <=> AllSent) /\ Prev' = Prev
  BY <1>1 DEF Book, AllSent, Prev
<1>10. FrameInv'
  <2>1. Own(h.data)
    BY <1>2, <1>3
  <2> QED BY <1>1, <1>3, <2>1 DEF FrameInv, Own, Announces
<1>11. StepInv'
  BY <1>1 DEF StepInv, Arming
<1>12. WaitingInv'
  BY <1>1, <1>7, <1>8, <1>9 DEF FlowParts, WaitingInv
<1>13. BufferInv'
  <2> SUFFICES ASSUME ~Waiting', pending' PROVE BufferInv'
    BY DEF BufferInv
  <2>1. /\ Book = Coming \cup diffs.pos
        /\ AllSent => ClosingComes \/ Told(diffs)
        /\ ~Told(diffs)
        /\ Own(diffs)
        /\ armed /\ prev = Prev /\ diffs = temp
    BY <1>1, <1>8 DEF FlowParts, BufferInv, Completing
  <2>2. Own(diffs)' /\ ~Told(diffs)'
    BY <1>1, <2>1 DEF Own, Told
  <2> QED BY <1>1, <1>7, <1>9, <2>1, <2>2 DEF BufferInv
<1>14. CompleteInv'
  BY <1>1 DEF CompleteInv, Completing
<1>15. DirectInv'
  BY <1>1, <1>7, <1>8, <1>9 DEF FlowParts, DirectInv, Completing, Told
<1> QED BY <1>5, <1>10, <1>11, <1>12, <1>13, <1>14, <1>15 DEF FlowParts

(* The steps on a frame leave the inbox and the server alone. *)
LEMMA FlowProcFrame ==
    ASSUME SessionTypesAll, FlowParts, ProcStep, ~Take
    PROVE  /\ proc # "idle" /\ conn' = conn
           /\ ~HeadNotice /\ ~HeadNotice' /\ InboxInv'
           /\ InboxPos' = InboxPos /\ (InboxTold' <=> InboxTold)
           /\ Book' = Book /\ (AllSent' <=> AllSent)
<1>1. proc # "idle" /\ UNCHANGED <<conn, srv, sent, book>>
  BY ProcRuns, ProcKeeps DEF ws
<1>2. inbox' = inbox
  <2>1. CASE OnNotify \/ Route \/ ArmPrev \/ ArmDiffs \/ ArmTemp
    BY <2>1 DEF OnNotify, Route, ArmPrev, ArmDiffs, ArmTemp
  <2>2. CASE Buffer \/ BufferTemp \/ Check \/ Complete \/ Decide
    BY <2>2 DEF Buffer, BufferTemp, Check, Complete, Decide
  <2>3. CASE Claim \/ Release \/ Disarm \/ Commit \/ Merge
    BY <2>3 DEF Claim, Release, Disarm, Commit, Merge
  <2> QED BY <2>1, <2>2, <2>3 DEF ProcStep
<1>3. ~HeadNotice
  BY <1>1 DEF FlowParts, InboxInv
<1>4. ~HeadNotice'
  BY <1>2, <1>3 DEF HeadNotice
<1>5. InboxInv'
  <2>1. \A x \in Elems(inbox)' : Own(x.data)'
    BY <1>1, <1>2 DEF FlowParts, InboxInv, Own
  <2>2. inbox' # <<>> => \A x \in Elems(Tail(inbox')) : x.notice = "none"
    BY <1>2 DEF FlowParts, InboxInv
  <2> QED BY <1>4, <2>1, <2>2 DEF InboxInv
<1>6. InboxPos' = InboxPos /\ (InboxTold' <=> InboxTold)
  BY <1>2 DEF InboxPos, InboxTold
<1>7. Book' = Book /\ (AllSent' <=> AllSent)
  BY <1>1 DEF Book, AllSent
<1> QED BY <1>1, <1>3, <1>4, <1>5, <1>6, <1>7

(* The notice, from the callback to the state of a reconnect. *)
LEMMA FlowArms ==
    ASSUME SessionTypesAll, DataInv, FlowParts,
           OnNotify \/ Route \/ ArmPrev \/ ArmDiffs \/ ArmTemp
    PROVE  FlowParts'
<1>0. /\ conn' = conn
      /\ ~HeadNotice /\ ~HeadNotice' /\ InboxInv'
      /\ InboxPos' = InboxPos /\ (InboxTold' <=> InboxTold)
      /\ Book' = Book /\ (AllSent' <=> AllSent)
  <2>1. ProcStep /\ ~Take
    BY DEF ProcStep, Take, OnNotify, Route, ArmPrev, ArmDiffs, ArmTemp
  <2> QED BY <2>1, FlowProcFrame
<1>1. InboxInv /\ FrameInv /\ StepInv /\ WaitingInv /\ BufferInv /\ DirectInv
  BY DEF FlowParts
<1>2. CASE OnNotify
  <2>1. /\ proc = "callback" /\ proc' = "route"
        /\ UNCHANGED <<pending, diffs, temp, armed, prev, frame, held, gone, dm>>
    BY <1>2 DEF OnNotify, Goto, runtime, store
  <2>2. Waiting /\ Waiting' /\ Coming' = Coming /\ (ClosingComes' <=> ClosingComes)
    BY <1>0, <1>1, <2>1 DEF StepInv, Waiting, Coming, ClosingComes, FrameUnread, Unread
  <2>3. FrameInv' /\ StepInv'
    BY <1>0, <1>1, <2>1 DEF FrameInv, StepInv, Arming, Own
  <2>4. WaitingInv'
    BY <1>0, <1>1, <2>1, <2>2 DEF WaitingInv
  <2>5. BufferInv' /\ CompleteInv' /\ DirectInv'
    BY <2>1, <2>2 DEF BufferInv, CompleteInv, DirectInv, Completing
  <2> QED BY <1>0, <2>3, <2>4, <2>5 DEF FlowParts
<1>3. CASE Route
  <2>1. /\ proc = "route"
        /\ pending' = (pending \/ frame.notice = "reconnected")
        /\ proc' = IF frame.notice = "reconnected" THEN "armPrev"
                   ELSE IF pending THEN "buffer" ELSE "check"
        /\ UNCHANGED <<diffs, temp, armed, prev, frame, held, gone, dm>>
    BY <1>3 DEF Route, Goto, store
  <2>2. CASE frame.notice = "reconnected"
    <3>1. proc' = "armPrev" /\ pending'
      BY <2>1, <2>2
    <3>2. Waiting /\ Waiting' /\ Coming' = Coming /\ (ClosingComes' <=> ClosingComes)
      BY <1>0, <2>1, <2>2, <3>1
      DEF Waiting, Coming, ClosingComes, FrameUnread, Unread, Arming
    <3>3. FrameInv' /\ StepInv'
      BY <1>0, <1>1, <2>1, <2>2, <3>1 DEF FrameInv, StepInv, Arming, Own
    <3>4. WaitingInv'
      BY <1>0, <1>1, <2>1, <3>1, <3>2 DEF WaitingInv
    <3>5. BufferInv' /\ CompleteInv' /\ DirectInv'
      BY <3>1, <3>2 DEF BufferInv, CompleteInv, DirectInv, Completing
    <3> QED BY <1>0, <3>3, <3>4, <3>5 DEF FlowParts
  <2>3. CASE frame.notice # "reconnected" /\ pending
    <3>1. proc' = "buffer" /\ pending' /\ frame.notice = "none"
      BY <1>1, <2>1, <2>3 DEF FrameInv, Opened
    <3>2. ~Waiting /\ ~Waiting' /\ Coming' = Coming /\ (ClosingComes' <=> ClosingComes)
      BY <1>0, <2>1, <3>1 DEF Waiting, Coming, ClosingComes, FrameUnread, Unread, Arming
    <3>3. FrameInv' /\ StepInv'
      BY <1>0, <1>1, <2>1, <3>1 DEF FrameInv, StepInv, Arming, Own
    <3>4. WaitingInv' /\ CompleteInv' /\ DirectInv'
      BY <3>1, <3>2 DEF WaitingInv, CompleteInv, DirectInv, Completing
    <3>5. /\ Book = Coming \cup diffs.pos
          /\ AllSent => ClosingComes \/ Told(diffs)
          /\ ~Told(diffs) /\ Own(diffs) /\ armed /\ prev = Prev /\ diffs = temp
      BY <1>1, <2>1, <2>3, <3>2 DEF BufferInv, Completing
    <3>6. Own(diffs)' /\ ~Told(diffs)' /\ Prev' = Prev
      BY <1>0, <2>1, <3>5 DEF Own, Told, Prev
    <3>7. BufferInv'
      BY <1>0, <2>1, <3>1, <3>2, <3>5, <3>6 DEF BufferInv
    <3> QED BY <1>0, <3>3, <3>4, <3>7 DEF FlowParts
  <2>4. CASE frame.notice # "reconnected" /\ ~pending
    <3>1. proc' = "check" /\ ~pending'
      BY <2>1, <2>4
    <3>2. ~Waiting' /\ Coming' = Coming
      BY <1>0, <2>1, <3>1 DEF Waiting, Coming, FrameUnread, Unread, Arming
    <3>3. FrameInv' /\ StepInv'
      BY <1>0, <1>1, <2>1, <3>1 DEF FrameInv, StepInv, Arming, Own
    <3>4. WaitingInv' /\ BufferInv' /\ CompleteInv'
      BY <3>1, <3>2 DEF WaitingInv, BufferInv, CompleteInv, Completing
    <3>5. Book = Coming \cup dm.pos /\ (Told(dm) => dm.from = conn)
      <4>1. CASE frame.notice = "none"
        <5>1. ~Waiting
          BY <1>0, <2>1, <4>1 DEF Waiting, Arming
        <5> QED BY <1>1, <2>1, <2>4, <5>1 DEF DirectInv, Completing
      <4>2. CASE frame.notice # "none"
        <5>1. frame.notice = "connected" /\ ~dm.keyed
          BY <1>1, <2>1, <2>4, <4>2 DEF FrameInv, Opened
        <5>2. Waiting
          BY <2>1, <4>2 DEF Waiting
        <5>3. dm.pos = {} /\ ~Told(dm)
          BY <5>1 DEF DataInv, Fit
        <5> QED BY <1>1, <5>2, <5>3 DEF WaitingInv
      <4> QED BY <4>1, <4>2
    <3>6. DirectInv'
      BY <1>0, <2>1, <3>2, <3>5 DEF DirectInv, Told
    <3> QED BY <1>0, <3>3, <3>4, <3>6 DEF FlowParts
  <2> QED BY <2>2, <2>3, <2>4
<1>4. CASE ArmPrev
  <2>1. /\ proc = "armPrev" /\ proc' = "armDiffs"
        /\ prev' = [known |-> dm.keyed, pos |-> dm.pos]
        /\ UNCHANGED <<pending, diffs, temp, armed, frame, held, gone, dm>>
    BY <1>4 DEF ArmPrev, Goto, store
  <2>2. Waiting /\ Waiting' /\ Coming' = Coming /\ (ClosingComes' <=> ClosingComes)
    BY <1>0, <2>1 DEF Waiting, Arming, Coming, ClosingComes, FrameUnread, Unread
  <2>3. FrameInv' /\ StepInv'
    BY <1>0, <1>1, <2>1 DEF FrameInv, StepInv, Arming, Own
  <2>4. prev' = Prev'
    BY <2>1 DEF Prev
  <2>5. WaitingInv'
    BY <1>0, <1>1, <2>1, <2>2, <2>4 DEF WaitingInv
  <2>6. BufferInv' /\ CompleteInv' /\ DirectInv'
    BY <2>1, <2>2 DEF BufferInv, CompleteInv, DirectInv, Completing
  <2> QED BY <1>0, <2>3, <2>5, <2>6 DEF FlowParts
<1>5. CASE ArmDiffs
  <2>1. /\ proc = "armDiffs" /\ proc' = "armTemp" /\ diffs' = frame.data
        /\ UNCHANGED <<pending, prev, temp, armed, frame, held, gone, dm>>
    BY <1>5 DEF ArmDiffs, Goto, store
  <2>2. Waiting /\ Waiting' /\ Coming' = Coming /\ (ClosingComes' <=> ClosingComes)
    BY <1>0, <2>1 DEF Waiting, Arming, Coming, ClosingComes, FrameUnread, Unread
  <2>3. FrameInv' /\ StepInv'
    BY <1>0, <1>1, <2>1 DEF FrameInv, StepInv, Arming, Own
  <2>4. diffs' = Empty
    BY <1>1, <2>1 DEF StepInv, FrameInv, Arming
  <2>5. prev' = Prev'
    BY <1>1, <2>1, <2>2 DEF WaitingInv, Prev
  <2>6. WaitingInv'
    BY <1>0, <1>1, <2>1, <2>2, <2>4, <2>5 DEF WaitingInv
  <2>7. BufferInv' /\ CompleteInv' /\ DirectInv'
    BY <2>1, <2>2 DEF BufferInv, CompleteInv, DirectInv, Completing
  <2> QED BY <1>0, <2>3, <2>6, <2>7 DEF FlowParts
<1>6. CASE ArmTemp
  <2>1. /\ proc = "armTemp" /\ proc' = "check" /\ armed' /\ temp' = diffs
        /\ UNCHANGED <<pending, prev, diffs, frame, held, gone, dm>>
    BY <1>6 DEF ArmTemp, Goto, store
  <2>2. pending /\ frame.notice = "reconnected" /\ frame.data = Empty
    BY <1>1, <2>1 DEF StepInv, FrameInv, Arming
  <2>3. /\ Waiting /\ ~Waiting'
        /\ Coming = InboxPos /\ Coming' = InboxPos
        /\ (ClosingComes <=> InboxTold) /\ (ClosingComes' <=> InboxTold)
    BY <1>0, <2>1, <2>2, EmptyIs
    DEF Waiting, Arming, Coming, ClosingComes, FrameUnread, Unread, Told
  <2>4. FrameInv' /\ StepInv'
    BY <1>0, <1>1, <2>1 DEF FrameInv, StepInv, Arming, Own
  <2>5. Book = Coming /\ (AllSent => ClosingComes) /\ prev = Prev /\ diffs = Empty
    BY <1>1, <2>1, <2>3 DEF WaitingInv
  <2>6. Own(diffs)' /\ ~Told(diffs)' /\ Prev' = Prev /\ diffs'.pos = {}
    BY <2>1, <2>5, EmptyIs DEF Own, Told, Prev
  <2>7. BufferInv'
    BY <1>0, <2>1, <2>3, <2>5, <2>6 DEF BufferInv
  <2>8. WaitingInv' /\ CompleteInv' /\ DirectInv'
    BY <2>1, <2>2, <2>3 DEF WaitingInv, CompleteInv, DirectInv, Completing
  <2> QED BY <1>0, <2>4, <2>7, <2>8 DEF FlowParts
<1> QED BY <1>2, <1>3, <1>4, <1>5, <1>6

(* A frame that is buffered, up to the snapshot that is complete. *)
LEMMA FlowBuffers ==
    ASSUME SessionTypesAll, DataInv, FlowParts,
           Buffer \/ BufferTemp \/ (Check /\ pending) \/ Complete \/ Decide \/ Claim
    PROVE  FlowParts'
<1>0. /\ conn' = conn
      /\ ~HeadNotice /\ ~HeadNotice' /\ InboxInv'
      /\ InboxPos' = InboxPos /\ (InboxTold' <=> InboxTold)
      /\ Book' = Book /\ (AllSent' <=> AllSent)
  <2>1. ProcStep /\ ~Take
    BY DEF ProcStep, Take, Buffer, BufferTemp, Check, Complete, Decide, Claim
  <2> QED BY <2>1, FlowProcFrame
<1>1. InboxInv /\ FrameInv /\ StepInv /\ BufferInv
  BY DEF FlowParts
<1>2. /\ proc \in {"buffer", "bufferTemp", "check", "complete", "decide", "claim"}
      /\ pending
  BY <1>1 DEF Buffer, BufferTemp, Check, Complete, Decide, Claim, StepInv
<1>3. ~Waiting /\ proc \notin Completing /\ proc \notin Arming
  BY <1>0, <1>2 DEF Waiting, Arming, Completing
<1>4. /\ Book = Coming \cup diffs.pos
      /\ AllSent => ClosingComes \/ Told(diffs)
      /\ Told(diffs) => proc \in {"bufferTemp", "check", "complete", "decide", "claim"}
      /\ Own(diffs)
      /\ armed /\ prev = Prev
      /\ diffs = IF proc = "bufferTemp" THEN Merged(temp, frame.data) ELSE temp
      /\ proc \in {"decide", "claim"} => held = temp
      /\ proc = "claim" => IsComplete /\ gone = Gone
  BY <1>1, <1>2, <1>3 DEF BufferInv
<1>5. diffs \in Data /\ temp \in Data /\ frame.data \in Data
  BY TypesOf, FramesIs DEF RuntimeTypes, TaskTypes
<1>6. CASE Buffer
  <2>1. /\ proc = "buffer" /\ proc' = "bufferTemp" /\ diffs' = Merged(diffs, frame.data)
        /\ UNCHANGED <<pending, temp, armed, prev, frame, held, gone, dm>>
    BY <1>6 DEF Buffer, Goto, store
  <2>2. /\ Coming = InboxPos \cup frame.data.pos /\ Coming' = InboxPos
        /\ (ClosingComes <=> InboxTold \/ Told(frame.data)) /\ (ClosingComes' <=> InboxTold)
        /\ ~Waiting'
    BY <1>0, <2>1 DEF Coming, ClosingComes, FrameUnread, Unread, Waiting, Arming
  <2>3. FrameInv' /\ StepInv'
    BY <1>0, <1>1, <1>2, <2>1 DEF FrameInv, StepInv, Arming, Own
  <2>4. /\ diffs'.pos = diffs.pos \cup frame.data.pos
        /\ frame.data.more = "no" => diffs'.more = "no"
        /\ diffs'.from \in {diffs.from, frame.data.from}
    BY <1>5, <2>1, MergedIs
  <2>5. Own(diffs)' /\ (AllSent' => ClosingComes' \/ Told(diffs)')
    BY <1>0, <1>1, <1>4, <2>1, <2>2, <2>4 DEF Own, Told, FrameInv
  <2>6. Book' = Coming' \cup diffs'.pos /\ Prev' = Prev
    BY <1>0, <1>4, <2>1, <2>2, <2>4 DEF Prev
  <2>7. diffs' = Merged(temp', frame'.data) /\ armed' /\ prev' = Prev'
    BY <1>4, <2>1, <2>6
  <2>8. BufferInv'
    BY <2>1, <2>5, <2>6, <2>7 DEF BufferInv
  <2>9. WaitingInv' /\ CompleteInv' /\ DirectInv'
    BY <1>2, <2>1, <2>2 DEF WaitingInv, CompleteInv, DirectInv, Completing
  <2> QED BY <1>0, <2>3, <2>8, <2>9 DEF FlowParts
<1>7. CASE BufferTemp
  <2>1. /\ proc = "bufferTemp" /\ proc' = "check" /\ temp' = Merged(temp, frame.data)
        /\ UNCHANGED <<pending, diffs, armed, prev, frame, held, gone, dm>>
    BY <1>4, <1>7 DEF BufferTemp, Goto, store
  <2>2. /\ Coming = InboxPos /\ Coming' = InboxPos /\ (ClosingComes' <=> ClosingComes)
        /\ ~Waiting'
    BY <1>0, <1>2, <2>1 DEF Coming, ClosingComes, FrameUnread, Unread, Waiting, Arming
  <2>3. FrameInv' /\ StepInv'
    BY <1>0, <1>1, <1>2, <2>1 DEF FrameInv, StepInv, Arming, Own
  <2>4. Own(diffs)' /\ (Told(diffs)' <=> Told(diffs)) /\ Prev' = Prev /\ diffs' = temp'
    BY <1>0, <1>4, <2>1 DEF Own, Told, Prev
  <2>5. BufferInv'
    BY <1>0, <1>4, <2>1, <2>2, <2>4 DEF BufferInv
  <2>6. WaitingInv' /\ CompleteInv' /\ DirectInv'
    BY <1>2, <2>1, <2>2 DEF WaitingInv, CompleteInv, DirectInv, Completing
  <2> QED BY <1>0, <2>3, <2>5, <2>6 DEF FlowParts
<1>8. CASE (Check /\ pending) \/ Complete
  <2>1. /\ proc \in {"check", "complete"}
        /\ \/ proc = "check" /\ proc' = "complete" /\ held' = held
           \/ proc = "complete" /\ proc' = "decide" /\ held' = temp
        /\ UNCHANGED <<pending, diffs, temp, armed, prev, frame, gone, dm>>
    BY <1>2, <1>4, <1>8 DEF Check, Complete, Goto, store, runtime
  <2>2. /\ Coming = InboxPos /\ Coming' = InboxPos /\ (ClosingComes' <=> ClosingComes)
        /\ ~Waiting'
    BY <1>0, <1>2, <2>1 DEF Coming, ClosingComes, FrameUnread, Unread, Waiting, Arming
  <2>3. FrameInv' /\ StepInv'
    BY <1>0, <1>1, <1>2, <2>1 DEF FrameInv, StepInv, Arming, Own
  <2>4. Own(diffs)' /\ (Told(diffs)' <=> Told(diffs)) /\ Prev' = Prev /\ diffs' = temp'
    BY <1>0, <1>4, <2>1 DEF Own, Told, Prev
  <2>5. BufferInv'
    BY <1>0, <1>4, <2>1, <2>2, <2>4 DEF BufferInv
  <2>6. WaitingInv' /\ CompleteInv' /\ DirectInv'
    BY <1>2, <2>1, <2>2 DEF WaitingInv, CompleteInv, DirectInv, Completing
  <2> QED BY <1>0, <2>3, <2>5, <2>6 DEF FlowParts
<1>9. CASE Decide
  <2>1. /\ proc = "decide" /\ UNCHANGED <<pending, diffs, temp, armed, prev, dm>>
        /\ IF IsComplete
           THEN proc' = "claim" /\ gone' = Gone /\ UNCHANGED <<frame, held>>
           ELSE proc' = "idle" /\ frame' = Blank
    BY <1>9 DEF Decide, Goto, Finish, store, runtime
  <2>2. /\ Coming = InboxPos /\ Coming' = InboxPos /\ (ClosingComes' <=> ClosingComes)
        /\ ~Waiting'
    BY <1>0, <1>2, <2>1 DEF Coming, ClosingComes, FrameUnread, Unread, Waiting, Arming
  <2>3. FrameInv' /\ StepInv'
    BY <1>0, <1>1, <1>2, <2>1, FramesIs, EmptyIs DEF FrameInv, StepInv, Arming, Own
  <2>4. Own(diffs)' /\ (Told(diffs)' <=> Told(diffs)) /\ Prev' = Prev
    BY <1>0, <1>4, <2>1 DEF Own, Told, Prev
  <2>5. BufferInv'
    <3>1. CASE IsComplete
      <4>1. IsComplete' /\ gone' = Gone'
        BY <2>1, <3>1 DEF IsComplete, Gone
      <4> QED BY <1>0, <1>4, <2>1, <2>2, <2>4, <3>1, <4>1 DEF BufferInv
    <3>2. CASE ~IsComplete
      <4>1. ~Told(diffs)
        BY <1>4, <2>1, <3>2 DEF IsComplete, Told
      <4> QED BY <1>0, <1>4, <2>1, <2>2, <2>4, <3>2, <4>1 DEF BufferInv
    <3> QED BY <3>1, <3>2
  <2>6. WaitingInv' /\ CompleteInv' /\ DirectInv'
    BY <1>2, <2>1, <2>2 DEF WaitingInv, CompleteInv, DirectInv, Completing
  <2> QED BY <1>0, <2>3, <2>5, <2>6 DEF FlowParts
<1>10. CASE Claim
  <2>1. /\ proc = "claim" /\ proc' = "release" /\ held' = diffs /\ diffs' = Empty
        /\ UNCHANGED <<pending, temp, armed, prev, frame, gone, dm>>
    BY <1>10 DEF Claim, Goto, store
  <2>2. /\ Coming = InboxPos /\ Coming' = InboxPos /\ ~Waiting'
    BY <1>0, <1>2, <2>1 DEF Coming, FrameUnread, Unread, Waiting, Arming
  <2>3. FrameInv' /\ StepInv'
    BY <1>0, <1>1, <1>2, <2>1 DEF FrameInv, StepInv, Arming, Own
  <2>4. (prev.known <=> dm.keyed) /\ prev.pos = dm.pos
    BY <1>4 DEF Prev
  <2>5. diffs = held /\ ((~prev.known /\ held = Empty) \/ held.more = "no") /\ gone = Gone
    BY <1>4, <2>1 DEF IsComplete
  <2>6. /\ Told(held) => held.keyed
        /\ ~dm.keyed => dm.pos = {}
    BY DEF DataInv, FitTask, Fit
  <2>7. (dm.pos \cup held.pos) \ gone = held.pos
    <3>1. CASE prev.known /\ held.keyed
      BY <2>4, <2>5, <3>1 DEF Gone
    <3>2. CASE ~prev.known
      BY <2>4, <2>5, <2>6, <3>2 DEF Gone
    <3>3. CASE prev.known /\ ~held.keyed
      BY <2>5, <2>6, <3>3 DEF Told
    <3> QED BY <3>1, <3>2, <3>3
  <2>8. Own(held)' /\ (Told(held)' \/ (~dm'.keyed /\ held' = Empty))
    BY <1>0, <1>4, <2>1, <2>4, <2>5 DEF Own, Told
  <2>9. CompleteInv'
    BY <1>0, <1>4, <2>1, <2>2, <2>5, <2>7, <2>8 DEF CompleteInv
  <2>10. WaitingInv' /\ BufferInv' /\ DirectInv'
    BY <2>1, <2>2 DEF WaitingInv, BufferInv, DirectInv, Completing
  <2> QED BY <1>0, <2>3, <2>9, <2>10 DEF FlowParts
<1> QED BY <1>6, <1>7, <1>8, <1>9, <1>10

(* What is complete is committed, and what needs no buffering is merged.    *)
LEMMA FlowCompletes ==
    ASSUME SessionTypesAll, DataInv, FlowParts, Release \/ Disarm \/ Commit
    PROVE  FlowParts'
<1>0. /\ conn' = conn
      /\ ~HeadNotice /\ ~HeadNotice' /\ InboxInv'
      /\ InboxPos' = InboxPos /\ (InboxTold' <=> InboxTold)
      /\ Book' = Book /\ (AllSent' <=> AllSent)
  <2>1. ProcStep /\ ~Take
    BY DEF ProcStep, Take, Release, Disarm, Commit
  <2> QED BY <2>1, FlowProcFrame
<1>1. FrameInv /\ StepInv /\ CompleteInv
  BY DEF FlowParts
<1>2. proc \in Completing
  BY DEF Release, Disarm, Commit, Completing
<1>3. /\ Book = Coming \cup held.pos
      /\ (dm.pos \cup held.pos) \ gone = held.pos
      /\ Own(held)
      /\ Told(held) \/ (~dm.keyed /\ held = Empty)
      /\ Coming = InboxPos
  BY <1>1, <1>2 DEF CompleteInv, Coming, FrameUnread, Unread, Completing
<1>4. CASE Release \/ Disarm
  <2>1. /\ ~pending' /\ proc' \in {"disarm", "commit"}
        /\ UNCHANGED <<frame, held, gone, dm>>
    BY <1>1, <1>4 DEF Release, Disarm, Goto, store, StepInv
  <2>2. Coming' = InboxPos /\ ~Waiting'
    BY <1>0, <2>1 DEF Coming, FrameUnread, Unread, Waiting, Arming
  <2>3. FrameInv' /\ StepInv'
    BY <1>0, <1>1, <2>1 DEF FrameInv, StepInv, Arming, Own
  <2>4. Own(held)' /\ (Told(held)' <=> Told(held))
    BY <1>0, <1>3, <2>1 DEF Own, Told
  <2>5. CompleteInv'
    BY <1>0, <1>3, <2>1, <2>2, <2>4 DEF CompleteInv
  <2>6. WaitingInv' /\ BufferInv' /\ DirectInv'
    BY <2>1, <2>2 DEF WaitingInv, BufferInv, DirectInv, Completing
  <2> QED BY <1>0, <2>3, <2>5, <2>6 DEF FlowParts
<1>5. CASE Commit
  <2> DEFINE m == Merged(dm, held)
             S == m.pos \ gone
             e == [m EXCEPT !.pos = S]
  <2>1. /\ proc = "commit" /\ proc' = "idle" /\ frame' = Blank /\ pending' = pending
        /\ dm' = e
    BY <1>5 DEF Commit, Store, Finish, Goto, runtime
  <2>2. dm \in Data /\ held \in Data
    BY TypesOf DEF StoreTypes, TaskTypes
  <2>3. /\ m \in Data /\ m.pos = dm.pos \cup held.pos
        /\ m.more = "no" => held.more = "no" \/ dm.more = "no"
        /\ held.from # 0 => m.from = held.from
    BY <2>2, MergedIs
  <2>4. S \in SUBSET Symbols
    BY <2>3, DataFields
  <2> HIDE DEF m, S
  <2>5. e.pos = S /\ e.more = m.more /\ e.from = m.from
    BY <2>3, <2>4, PosSet
  <2> HIDE DEF e
  <2>6. dm'.pos = held.pos
    BY <1>3, <2>1, <2>3, <2>5 DEF S
  <2>7. Told(held) => held.from # 0
    BY DEF DataInv, FitTask, Fit
  <2>8. Told(dm) => dm.keyed
    BY DEF DataInv, Fit
  <2>9. Told(dm') => dm'.from = conn'
    BY <1>0, <1>3, <2>1, <2>3, <2>5, <2>7, <2>8, EmptyIs DEF Own, Told
  <2>10. ~pending' /\ ~Waiting' /\ Coming' = InboxPos
    BY <1>0, <1>1, <2>1 DEF StepInv, Coming, FrameUnread, Unread, Waiting, Arming
  <2>11. FrameInv' /\ StepInv'
    BY <2>1, FramesIs, EmptyIs DEF FrameInv, StepInv, Arming, Own
  <2>12. Book' = Coming' \cup dm'.pos
    BY <1>0, <1>3, <2>6, <2>10
  <2>13. DirectInv'
    BY <2>9, <2>12 DEF DirectInv, Told
  <2>14. WaitingInv' /\ BufferInv' /\ CompleteInv'
    BY <2>1, <2>10 DEF WaitingInv, BufferInv, CompleteInv, Completing
  <2> QED BY <1>0, <2>11, <2>13, <2>14 DEF FlowParts
<1> QED BY <1>4, <1>5

LEMMA FlowMerges ==
    ASSUME SessionTypesAll, DataInv, FlowParts, (Check /\ ~pending) \/ Merge
    PROVE  FlowParts'
<1>0. /\ conn' = conn
      /\ ~HeadNotice /\ ~HeadNotice' /\ InboxInv'
      /\ InboxPos' = InboxPos /\ (InboxTold' <=> InboxTold)
      /\ Book' = Book /\ (AllSent' <=> AllSent)
  <2>1. ProcStep /\ ~Take
    BY DEF ProcStep, Take, Check, Merge
  <2> QED BY <2>1, FlowProcFrame
<1>1. FrameInv /\ StepInv /\ DirectInv
  BY DEF FlowParts
<1>2. proc \in {"check", "merge"} /\ ~pending
  BY <1>1 DEF Check, Merge, StepInv
<1>3. Book = Coming \cup dm.pos /\ (Told(dm) => dm.from = conn)
  BY <1>0, <1>1, <1>2 DEF DirectInv, Completing, Waiting, Arming
<1>4. Coming = InboxPos \cup frame.data.pos
  BY <1>2 DEF Coming, FrameUnread, Unread
<1>5. CASE Check
  <2>1. proc' = "merge" /\ ~pending' /\ UNCHANGED <<frame, held, gone, dm>>
    BY <1>2, <1>5 DEF Check, Goto, store, runtime
  <2>2. Coming' = Coming /\ ~Waiting'
    BY <1>0, <1>4, <2>1 DEF Coming, FrameUnread, Unread, Waiting, Arming
  <2>3. FrameInv' /\ StepInv'
    BY <1>0, <1>1, <2>1 DEF FrameInv, StepInv, Arming, Own
  <2>4. DirectInv'
    BY <1>0, <1>3, <2>1, <2>2 DEF DirectInv, Told
  <2>5. WaitingInv' /\ BufferInv' /\ CompleteInv'
    BY <2>1, <2>2 DEF WaitingInv, BufferInv, CompleteInv, Completing
  <2> QED BY <1>0, <2>3, <2>4, <2>5 DEF FlowParts
<1>6. CASE Merge
  <2> DEFINE m == Merged(dm, frame.data)
  <2>1. proc' = "idle" /\ frame' = Blank /\ pending' = pending /\ dm' = m
    BY <1>6 DEF Merge, Store, Finish, Goto, runtime
  <2>2. dm \in Data /\ frame.data \in Data
    BY TypesOf, FramesIs DEF StoreTypes, TaskTypes
  <2>3. /\ m.pos = dm.pos \cup frame.data.pos
        /\ m.more = "no" => frame.data.more = "no" \/ dm.more = "no"
        /\ frame.data.from # 0 => m.from = frame.data.from
        /\ frame.data.from = 0 => m.from = dm.from
    BY <2>2, MergedIs
  <2> HIDE DEF m
  <2>4. Told(frame.data) => frame.data.from # 0
    BY DEF DataInv, FitTask, Fit
  <2>5. Told(dm') => dm'.from = conn'
    BY <1>0, <1>1, <1>3, <2>1, <2>3, <2>4 DEF FrameInv, Own, Told
  <2>6. ~pending' /\ ~Waiting' /\ Coming' = InboxPos
    BY <1>0, <1>2, <2>1 DEF Coming, FrameUnread, Unread, Waiting, Arming
  <2>7. FrameInv' /\ StepInv'
    BY <2>1, FramesIs, EmptyIs DEF FrameInv, StepInv, Arming, Own
  <2>8. Book' = Coming' \cup dm'.pos
    BY <1>0, <1>3, <1>4, <2>1, <2>3, <2>6
  <2>9. DirectInv'
    BY <2>5, <2>8 DEF DirectInv, Told
  <2>10. WaitingInv' /\ BufferInv' /\ CompleteInv'
    BY <2>1, <2>6 DEF WaitingInv, BufferInv, CompleteInv, Completing
  <2> QED BY <1>0, <2>7, <2>9, <2>10 DEF FlowParts
<1> QED BY <1>5, <1>6

LEMMA FlowNext ==
    ASSUME SessionTypesAll, DataInv, FirstInv, UpInv, SrvInv, BeforeInv, FlowInv, [Next]_vars
    PROVE  FlowInv'
<1>1. CASE ServerStep \/ ServerTrades
  BY <1>1, FlowServer
<1>2. CASE Reconnect \/ ConnectOpens
  BY <1>2, FlowOpens
<1>3. CASE Lose \/ CloserClears \/ ReconnectBegins \/ ConnectFails \/ CloseDrops
  <2>1. ~up'
    BY <1>3 DEF UpInv, Lose, CloserClears, ReconnectBegins, ConnectFails, CloseDrops, ws
  <2> QED BY <2>1 DEF FlowInv
<1>4. CASE ProcStep
  <2>1. up' = up
    BY <1>4, ProcKeeps DEF ws
  <2>2. ASSUME FlowParts PROVE FlowParts'
    BY <1>4, <2>2, FlowTake, FlowArms, FlowBuffers, FlowCompletes, FlowMerges DEF ProcStep
  <2> QED BY <2>1, <2>2, FlowIs
<1>5. CASE UNCHANGED vars
  BY <1>5, FlowQuiet DEF vars, store, server
<1>6. CASE WatchStep
  BY <1>6, WatchKeeps, FlowQuiet DEF store, server
<1>7. CASE Connect \/ Close \/ (AppStep /\ ~ConnectOpens /\ ~ConnectFails /\ ~CloseDrops)
  <2>1. UNCHANGED <<ws, inbox, runtime, task, store, srv, sent, book>>
    BY <1>7, QuietAppKeeps DEF AppStep
  <2> QED BY <2>1, FlowQuiet DEF store
<1> QED BY <1>1, <1>2, <1>3, <1>4, <1>5, <1>6, <1>7 DEF Next, CloserStep, AppStep

-----------------------------------------------------------------------------
(***************************************************************************)
(* What the watch task has seen.  It cannot have seen the snapshot of a    *)
(* connection that is gone without a notice being still to come.           *)
(***************************************************************************)
Unseen ==
    /\ (watch = "idle" /\ last = epoch) \/ ~Told(dm)
    /\ watch = "swap" => more
    /\ snapshotReady => HeadNotice \/ proc = "callback"

LEMMA ReadyIs ==
    /\ ReadyInv <=> ((up /\ closes = 0 /\ dm.from # conn) => Unseen)
    /\ ReadyInv' <=> ((up' /\ closes' = 0 /\ dm'.from # conn') => Unseen')
  BY DEF ReadyInv, Unseen

LEMMA ReadyInit == Init => ReadyInv
  BY DEF Init, ReadyInv

(* Frames that the server appends leave a notice where it is. *)
LEMMA NoticeStays ==
    ASSUME SessionTypesAll, ServerStep \/ ServerTrades, HeadNotice
    PROVE  HeadNotice'
<1>0. inbox \in Seq(Frames) /\ conn \in Conns /\ book \subseteq Symbols
  BY TypesOf DEF StreamTypes, WsTypes, ServerTypes
<1>1. inbox' = inbox \/ \E f \in Frames : inbox' = Append(inbox, f)
  <2>1. CASE ServerLogsIn
    BY <2>1 DEF ServerLogsIn
  <2>2. CASE ServerSends
    <3> DEFINE d == IF sent = 0 THEN Opening(conn) ELSE Closing(conn)
    <3>1. d \in Data
      BY <1>0, SentIs
    <3>2. inbox' = Append(inbox, Diff(d))
      BY <2>2 DEF ServerSends
    <3> HIDE DEF d
    <3> QED BY <3>1, <3>2, FramesIs
  <2>3. CASE ServerTrades
    <3>1. PICK b \in SUBSET Symbols :
            \/ inbox' = Append(inbox, Diff([Empty EXCEPT !.keyed = TRUE, !.pos = b \ book]))
            \/ inbox' = inbox
      BY <2>3 DEF ServerTrades
    <3>2. Diff([Empty EXCEPT !.keyed = TRUE, !.pos = b \ book]) \in Frames
      BY OpenedIs, FramesIs
    <3> QED BY <3>1, <3>2
  <2> QED BY <2>1, <2>2, <2>3 DEF ServerStep
<1>2. CASE inbox' = inbox
  BY <1>2 DEF HeadNotice
<1>3. ASSUME NEW f \in Frames, inbox' = Append(inbox, f) PROVE HeadNotice'
  BY <1>0, <1>3, HeadAppend DEF HeadNotice
<1> QED BY <1>1, <1>2, <1>3

LEMMA ReadyProc ==
    ASSUME SessionTypesAll, DataInv, FlowInv, FlowInv', ReadyInv, ProcStep,
           up, closes = 0, dm'.from # conn'
    PROVE  Unseen'
<1>0. /\ up' = up /\ conn' = conn /\ closes' = closes
      /\ watch' = watch /\ last' = last /\ more' = more
  BY ProcKeeps DEF ws, watcher, bounds
<1>p. FlowParts
  BY FlowIs
<1>1. CASE Commit \/ Merge
  <2>1. /\ proc' = "idle" /\ pending' = pending /\ inbox' = inbox /\ snapshotReady' = snapshotReady
        /\ proc \in {"commit", "merge"}
        /\ dm' \in {[Merged(dm, held) EXCEPT !.pos = @ \ gone], Merged(dm, frame.data)}
    BY <1>1 DEF Commit, Merge, Store, Finish, Goto, runtime, session
  <2>2. ~pending /\ ~HeadNotice
    BY <1>p, <2>1 DEF FlowParts, StepInv, InboxInv
  <2>3. ~Told(dm')
    <3>1. ~Waiting' /\ ~pending' /\ proc' \notin Completing
      BY <2>1, <2>2 DEF Waiting, HeadNotice, Arming, Completing
    <3>2. DirectInv'
      BY <1>0, FlowIs DEF FlowParts
    <3> QED BY <3>1, <3>2 DEF DirectInv, Told
  <2>4. dm.from # conn
    <3>1. dm \in Data /\ held \in Data /\ frame.data \in Data
      BY TypesOf, FramesIs DEF StoreTypes, TaskTypes
    <3>2. Own(frame.data) /\ (proc = "commit" => Own(held))
      BY <1>p DEF FlowParts, FrameInv, CompleteInv, Completing
    <3>3. CASE Merge
      <4>1. dm' = Merged(dm, frame.data)
        BY <3>3 DEF Merge, Store
      <4> QED BY <1>0, <3>1, <3>2, <4>1, MergedIs DEF Own
    <3>4. CASE Commit
      <4> DEFINE m == Merged(dm, held)
                 S == m.pos \ gone
                 e == [m EXCEPT !.pos = S]
      <4>1. dm' = e /\ proc = "commit"
        BY <3>4 DEF Commit, Store
      <4>2. /\ m \in Data
            /\ held.from # 0 => m.from = held.from
            /\ held.from = 0 => m.from = dm.from
        BY <3>1, MergedIs
      <4>3. S \in SUBSET Symbols
        BY <4>2, DataFields
      <4> HIDE DEF m, S
      <4>4. e.from = m.from
        BY <4>2, <4>3, PosSet
      <4> HIDE DEF e
      <4> QED BY <1>0, <3>2, <4>1, <4>2, <4>4 DEF Own
    <3> QED BY <1>1, <3>3, <3>4
  <2>5. (watch = "swap" => more) /\ (snapshotReady => HeadNotice \/ proc = "callback")
    BY <2>4, ReadyIs DEF Unseen
  <2> QED BY <1>0, <2>1, <2>2, <2>3, <2>5 DEF Unseen
<1>2. CASE ~(Commit \/ Merge)
  <2>1. dm' = dm /\ epoch' = epoch
    <3>1. CASE Take \/ OnNotify \/ Route \/ ArmPrev \/ ArmDiffs \/ ArmTemp \/ Buffer
      BY <3>1 DEF Take, OnNotify, Route, ArmPrev, ArmDiffs, ArmTemp, Buffer, store
    <3>2. CASE BufferTemp \/ Check \/ Complete \/ Decide \/ Claim \/ Release \/ Disarm
      BY <3>2 DEF BufferTemp, Check, Complete, Decide, Claim, Release, Disarm, store
    <3> QED BY <1>2, <3>1, <3>2 DEF ProcStep
  <2>2. Unseen
    BY <1>0, <2>1, ReadyIs
  <2>3. snapshotReady' => HeadNotice' \/ proc' = "callback"
    <3>1. CASE Take
      BY <2>2, <3>1 DEF Take, Goto, session, Unseen, HeadNotice
    <3>2. CASE OnNotify
      BY <3>2 DEF OnNotify
    <3>3. CASE ~Take /\ ~OnNotify
      <4>1. ~HeadNotice /\ proc # "callback"
        <5>1. ~HeadNotice
          BY <1>p, <3>3, FlowProcFrame
        <5>2. proc # "callback"
          BY <3>3 DEF ProcStep, Route, ArmPrev, ArmDiffs, ArmTemp, Buffer, BufferTemp, Check,
              Complete, Decide, Claim, Release, Disarm, Commit, Merge
        <5> QED BY <5>1, <5>2
      <4>2. snapshotReady' = snapshotReady
        <5>1. CASE Route \/ ArmPrev \/ ArmDiffs \/ ArmTemp \/ Buffer \/ BufferTemp
          BY <5>1 DEF Route, ArmPrev, ArmDiffs, ArmTemp, Buffer, BufferTemp, session
        <5>2. CASE Check \/ Complete \/ Decide \/ Claim \/ Release \/ Disarm
          BY <5>2 DEF Check, Complete, Decide, Claim, Release, Disarm, session
        <5> QED BY <1>2, <3>3, <5>1, <5>2 DEF ProcStep
      <4> QED BY <2>2, <4>1, <4>2 DEF Unseen
    <3> QED BY <3>1, <3>2, <3>3
  <2> QED BY <1>0, <2>1, <2>2, <2>3 DEF Unseen, Told
<1> QED BY <1>1, <1>2

LEMMA ReadyOpens ==
    ASSUME SessionTypesAll, DataInv, BeforeInv, OnceInv, Reconnect \/ ConnectOpens,
           closes' = 0
    PROVE  Unseen'
<1>1. /\ UNCHANGED <<dm, epoch, watch, last, more, closes, recorded>> /\ inbox = <<>>
      /\ watch = "off" \/ (watch = "idle" /\ last = epoch)
  BY DEF Reconnect, ConnectOpens, Calm, store, watcher, bounds
<1>2. HeadNotice'
  <2>1. PICK n \in Opened : inbox' = Append(inbox, Notify(n))
    BY OpenIs DEF Reconnect, ConnectOpens
  <2>2. /\ inbox \in Seq(Frames) /\ Notify(n) \in Frames /\ Notify(n).notice = n /\ n # "none"
    BY FramesIs, TypesOf DEF Opened, Notices, StreamTypes
  <2> QED BY <1>1, <2>1, <2>2, HeadAppend DEF HeadNotice
<1>3. watch = "off" => ~Told(dm)
  <2>1. CASE conn = 0
    BY <2>1, EmptyIs DEF BeforeInv, Told
  <2>2. CASE conn # 0 /\ watch = "off"
    <3>1. ~recorded
      BY <1>1, <2>2 DEF OnceInv
    <3> QED BY <3>1 DEF DataInv, Fit
  <2> QED BY <2>1, <2>2
<1> QED BY <1>1, <1>2, <1>3 DEF Unseen, Told

LEMMA ReadyWatch ==
    ASSUME SessionTypesAll, UpInv, OnceInv, ReadyInv, WatchStep, up, closes = 0, dm'.from # conn'
    PROVE  Unseen'
<1>1. UNCHANGED <<conn, dm, epoch, proc, inbox, running, app, aborted>>
  BY WatchKeeps DEF ws, store, task
<1>2. Unseen /\ running /\ ~aborted
  BY <1>1, ReadyIs DEF UpInv, OnceInv
<1>3. HeadNotice' <=> HeadNotice
  BY <1>1 DEF HeadNotice
<1>4. epoch \in Nat /\ last \in Nat
  BY TypesOf DEF StoreTypes, WatcherTypes
<1>5. CASE WatchRead
  <2>1. watch' = "login" /\ snapshotReady' = snapshotReady /\ epoch > last
    BY <1>5 DEF WatchRead, session
  <2> QED BY <1>1, <1>2, <1>3, <1>4, <2>1 DEF Unseen, Told
<1>6. CASE WatchStops
  BY <1>2, <1>6 DEF WatchStops, Unseen, Told, store, session, watcher, task
<1>7. CASE WatchLogin
  <2>1. watch = "login" /\ watch' = "more" /\ snapshotReady' = snapshotReady
    BY <1>7 DEF WatchLogin
  <2> QED BY <1>1, <1>2, <1>3, <2>1 DEF Unseen, Told
<1>8. CASE WatchMore
  <2>1. /\ watch = "more" /\ watch' = "swap" /\ snapshotReady' = snapshotReady
        /\ more' = (dm.more # "no")
    BY <1>8 DEF WatchMore, session
  <2> QED BY <1>1, <1>2, <1>3, <2>1 DEF Unseen, Told
<1>9. CASE WatchSwap
  <2>1. watch = "swap" /\ watch' = "idle" /\ snapshotReady' = ~more
    BY <1>9 DEF WatchSwap
  <2> QED BY <1>1, <1>2, <1>3, <2>1 DEF Unseen, Told
<1> QED BY <1>5, <1>6, <1>7, <1>8, <1>9 DEF WatchStep

LEMMA ReadyApp ==
    ASSUME SessionTypesAll, DataInv, UpInv, OnceInv, ReadyInv,
           \/ Connect \/ Close \/ ConnectResets \/ StartWatching \/ SendLogin
           \/ SendLoginFails \/ CloseLogsOut \/ CloseHides \/ CloseAborts,
           up, closes' = 0, dm'.from # conn'
    PROVE  Unseen'
<1>1. UNCHANGED <<conn, dm, epoch, proc, inbox>>
  BY QuietAppKeeps DEF ws, store, task
<1>2. closes \in Nat /\ conn # 0
  BY TypesOf DEF BoundTypes, UpInv
<1>3. closes = 0
  <2>1. CASE Close \/ SendLoginFails
    BY <1>2, <2>1 DEF Close, SendLoginFails
  <2>2. CASE Connect \/ ConnectResets \/ StartWatching \/ SendLogin
    BY <2>2 DEF Connect, ConnectResets, StartWatching, SendLogin, bounds
  <2>3. CASE CloseLogsOut \/ CloseHides \/ CloseAborts
    BY <2>3 DEF CloseLogsOut, CloseHides, CloseAborts, bounds
  <2> QED BY <2>1, <2>2, <2>3
<1>4. /\ running /\ ~aborted
      /\ app \in {"watch", "login", "idle"}
      /\ app = "watch" <=> watch = "off"
      /\ recorded <=> app = "idle"
  BY <1>2, <1>3 DEF OnceInv
<1>5. Unseen
  BY <1>1, <1>3, ReadyIs
<1>6. HeadNotice' <=> HeadNotice
  BY <1>1 DEF HeadNotice
<1>7. CASE StartWatching
  <2>1. app = "watch" /\ watch' = "idle" /\ more' = more /\ snapshotReady' = snapshotReady
    BY <1>7 DEF StartWatching, session
  <2>2. ~Told(dm)
    BY <1>4, <2>1 DEF DataInv, Fit
  <2> QED BY <1>1, <1>5, <1>6, <2>1, <2>2 DEF Unseen, Told
<1>8. CASE SendLogin
  <2>1. UNCHANGED <<watch, last, more, snapshotReady>>
    BY <1>8 DEF SendLogin, session, watcher
  <2> QED BY <1>1, <1>5, <1>6, <2>1 DEF Unseen, Told
<1>9. CASE SendLoginFails \/ Close
  <2>1. closes' = closes + 1
    BY <1>9 DEF SendLoginFails, Close
  <2> QED BY <1>3, <2>1
<1>10. CASE Connect \/ ConnectResets
  BY <1>4, <1>10 DEF Connect, ConnectResets
<1>11. CASE CloseLogsOut \/ CloseHides \/ CloseAborts
  BY <1>4, <1>11 DEF CloseLogsOut, CloseHides, CloseAborts
<1> QED BY <1>7, <1>8, <1>9, <1>10, <1>11

LEMMA ReadyNext ==
    ASSUME SessionTypesAll, DataInv, UpInv, BeforeInv, OnceInv, FlowInv, FlowInv', ReadyInv,
           [Next]_vars
    PROVE  ReadyInv'
<1> SUFFICES ASSUME up', closes' = 0, dm'.from # conn' PROVE Unseen'
  BY ReadyIs
<1>1. CASE ServerStep \/ ServerTrades
  <2>1. UNCHANGED <<up, conn, closes, dm, epoch, watch, last, more, snapshotReady, proc>>
    BY <1>1 DEF ServerStep, ServerLogsIn, ServerSends, ServerTrades, ws, store, session, watcher,
        task, bounds
  <2>2. Unseen
    BY <2>1, ReadyIs
  <2> QED BY <1>1, <2>1, <2>2, NoticeStays DEF Unseen, Told
<1>2. CASE Reconnect \/ ConnectOpens
  BY <1>2, ReadyOpens
<1>3. CASE Lose \/ CloserClears \/ ReconnectBegins \/ ConnectFails \/ CloseDrops
  BY <1>3 DEF UpInv, Lose, CloserClears, ReconnectBegins, ConnectFails, CloseDrops, ws
<1>4. CASE ProcStep
  <2>1. up /\ closes = 0
    BY <1>4, ProcKeeps DEF ws, bounds
  <2> QED BY <1>4, <2>1, ReadyProc
<1>5. CASE UNCHANGED vars
  BY <1>5 DEF vars, ws, store, session, watcher, task, bounds, ReadyInv, Unseen, Told, HeadNotice
<1>6. CASE WatchStep
  <2>1. up /\ closes = 0
    BY <1>6, WatchKeeps DEF ws, bounds
  <2> QED BY <1>6, <2>1, ReadyWatch
<1>7. CASE Connect \/ Close \/ (AppStep /\ ~ConnectOpens /\ ~ConnectFails /\ ~CloseDrops)
  <2>1. \/ Connect \/ Close \/ ConnectResets \/ StartWatching \/ SendLogin
        \/ SendLoginFails \/ CloseLogsOut \/ CloseHides \/ CloseAborts
    BY <1>7 DEF AppStep
  <2>2. up
    BY <2>1, QuietAppKeeps DEF ws
  <2> QED BY <2>1, <2>2, ReadyApp
<1> QED BY <1>1, <1>2, <1>3, <1>4, <1>5, <1>6, <1>7 DEF Next, CloserStep, AppStep

-----------------------------------------------------------------------------
(***************************************************************************)
(* The theorems.                                                           *)
(***************************************************************************)
SessionInv ==
    /\ SessionTypesAll /\ DataInv /\ FirstInv /\ UpInv /\ SrvInv /\ BeforeInv
    /\ OnceInv /\ FlowInv /\ ReadyInv

LEMMA SessionInit == Init => SessionInv
<1>1. Init => FlowInv
  BY DEF Init, FlowInv
<1> QED BY <1>1, TypesInit, DataInit, LinkInit, OnceInit, ReadyInit DEF SessionInv

LEMMA SessionNext == SessionInv /\ [Next]_vars => SessionInv'
<1> SUFFICES ASSUME SessionInv, [Next]_vars PROVE SessionInv'
  OBVIOUS
<1>0. /\ SessionTypesAll /\ DataInv /\ FirstInv /\ UpInv /\ SrvInv /\ BeforeInv
      /\ OnceInv /\ FlowInv /\ ReadyInv
  BY DEF SessionInv
<1>1. SessionTypesAll' /\ DataInv'
  BY <1>0, TypesNext, DataNext
<1>2. FirstInv' /\ UpInv' /\ SrvInv' /\ BeforeInv'
  BY <1>0, FirstKept, UpKept, SrvKept, BeforeKept
<1>3. OnceInv' /\ FlowInv'
  BY <1>0, OnceKept, FlowNext
<1>4. ReadyInv'
  BY <1>0, <1>3, ReadyNext
<1> QED BY <1>1, <1>2, <1>3, <1>4 DEF SessionInv

(* Once every frame of a connection is processed, no reconnect is pending   *)
(* and the positions are those the server has: what was closed while the    *)
(* connection was down is gone and what was opened is there, however often  *)
(* it was lost and whatever was buffered (websocket/trade.rs,               *)
(* websocket/reconnect.rs).                                                 *)
THEOREM PositionsHold == Spec => []PositionsCurrent
<1>1. SessionInv => PositionsCurrent
  <2> SUFFICES ASSUME SessionInv, CaughtUp, up, srv = conn, sent = 2
               PROVE  ~pending /\ dm.pos = book
    BY DEF PositionsCurrent
  <2>1. FlowParts
    BY FlowIs DEF SessionInv
  <2>2. inbox = <<>> /\ proc = "idle" /\ AllSent /\ Book = book
    BY DEF CaughtUp, AllSent, Book
  <2>3. ~Waiting /\ proc \notin Completing
    BY <2>2 DEF Waiting, HeadNotice, Arming, Completing
  <2>4. InboxPos = {} /\ ~InboxTold
    <3>1. Elems(<<>>) = {}
      BY DEF Elems
    <3> QED BY <2>2, <3>1 DEF InboxPos, InboxTold
  <2>5. Coming = {} /\ ~ClosingComes
    BY <2>2, <2>4 DEF Coming, ClosingComes, FrameUnread, Unread
  <2>6. ~pending
    BY <2>1, <2>2, <2>3, <2>5 DEF FlowParts, BufferInv
  <2>7. dm.pos = book
    BY <2>1, <2>2, <2>3, <2>5, <2>6 DEF FlowParts, DirectInv
  <2> QED BY <2>6, <2>7
<1> QED BY <1>1, SessionInit, SessionNext, PTL DEF Spec

(* A session that was never closed and says it is ready, with every frame   *)
(* processed and seen, has the snapshot of the connection an order would go *)
(* to, however often that connection was lost (trade_session/core.rs,       *)
(* trade_session/watch.rs).                                                 *)
THEOREM ReadyHolds == Spec => []ReadyAfterReconnect
<1>1. SessionInv => ReadyAfterReconnect
  <2> SUFFICES ASSUME SessionInv, closes = 0, CaughtUp, Ready PROVE dm.from = conn
    BY DEF ReadyAfterReconnect, ReadyIsCurrent
  <2>1. inbox = <<>> /\ proc = "idle" /\ up /\ snapshotReady
    BY DEF CaughtUp, Ready
  <2> QED BY <2>1 DEF SessionInv, ReadyInv, HeadNotice
<1> QED BY <1>1, SessionInit, SessionNext, PTL DEF Spec

=============================================================================
