------------------------ MODULE SubscriptionsProofs ------------------------
(***************************************************************************)
(* Proofs about Subscriptions: the server is told the last request of each *)
(* slot, and that request is what the holders want, for any number of      *)
(* callers, subscriptions, symbols and losses of the connections; and the   *)
(* buffering of a reconnect comes to its end.                              *)
(***************************************************************************)
EXTENDS Resync, FiniteSetTheorems, WellFoundedInduction, TLAPS

LEMMA MaxOfTwo ==
    ASSUME NEW a \in Nat, NEW b \in Nat
    PROVE  Max({a, b}) \in {a, b} /\ Max({a, b}) >= a /\ Max({a, b}) >= b
<1>1. \E x \in {a, b} : \A y \in {a, b} : x >= y
  OBVIOUS
<1> QED BY <1>1 DEF Max

-----------------------------------------------------------------------------
(***************************************************************************)
(* The elements of a sequence.                                             *)
(***************************************************************************)
Elems(q) == {q[i] : i \in 1 .. Len(q)}

LEMMA ElemsOfEmpty == Elems(<<>>) = {}
  BY DEF Elems

LEMMA ElemsOfOne ==
    ASSUME NEW m
    PROVE  Elems(<<m>>) = {m}
  BY DEF Elems

LEMMA ElemsOfAppend ==
    ASSUME NEW S, NEW q \in Seq(S), NEW m \in S
    PROVE  Elems(Append(q, m)) = Elems(q) \cup {m}
<1>1. /\ Len(Append(q, m)) = Len(q) + 1
      /\ \A i \in 1 .. Len(q) : Append(q, m)[i] = q[i]
      /\ Append(q, m)[Len(q) + 1] = m
  OBVIOUS
<1>2. Len(q) \in Nat /\ 1 .. (Len(q) + 1) = 1 .. Len(q) \cup {Len(q) + 1}
  OBVIOUS
<1> QED BY <1>1, <1>2 DEF Elems

LEMMA ElemsOfTail ==
    ASSUME NEW S, NEW q \in Seq(S), q # <<>>
    PROVE  /\ Head(q) \in S /\ Tail(q) \in Seq(S)
           /\ Elems(q) = Elems(Tail(q)) \cup {Head(q)}
<1>1. /\ Len(q) \in Nat \ {0} /\ Len(Tail(q)) = Len(q) - 1 /\ Head(q) = q[1]
      /\ \A i \in 1 .. Len(q) - 1 : Tail(q)[i] = q[i + 1]
      /\ Head(q) \in S /\ Tail(q) \in Seq(S)
  OBVIOUS
<1>2. Elems(q) \subseteq Elems(Tail(q)) \cup {Head(q)}
  <2> SUFFICES ASSUME NEW i \in 1 .. Len(q) PROVE q[i] \in Elems(Tail(q)) \cup {Head(q)}
    BY DEF Elems
  <2>1. CASE i = 1
    BY <1>1, <2>1
  <2>2. CASE i # 1
    <3>1. i - 1 \in 1 .. Len(Tail(q)) /\ (i - 1) + 1 = i
      BY <1>1, <2>2
    <3>2. Tail(q)[i - 1] = q[i]
      BY <1>1, <3>1
    <3> QED BY <3>1, <3>2 DEF Elems
  <2> QED BY <2>1, <2>2
<1>3. Elems(Tail(q)) \cup {Head(q)} \subseteq Elems(q)
  <2> SUFFICES ASSUME NEW i \in 1 .. Len(Tail(q)) PROVE Tail(q)[i] \in Elems(q)
    BY <1>1 DEF Elems
  <2>1. i + 1 \in 1 .. Len(q) /\ Tail(q)[i] = q[i + 1]
    BY <1>1
  <2> QED BY <2>1 DEF Elems
<1> QED BY <1>1, <1>2, <1>3

LEMMA ElemsOfBoth ==
    ASSUME NEW S, NEW q \in Seq(S), NEW r \in Seq(S)
    PROVE  q \o r \in Seq(S) /\ Elems(q \o r) = Elems(q) \cup Elems(r)
<1>1. /\ q \o r \in Seq(S) /\ Len(q \o r) = Len(q) + Len(r) /\ Len(q) \in Nat /\ Len(r) \in Nat
      /\ \A i \in 1 .. Len(q) + Len(r) :
            (q \o r)[i] = IF i <= Len(q) THEN q[i] ELSE r[i - Len(q)]
  OBVIOUS
<1>2. Elems(q \o r) \subseteq Elems(q) \cup Elems(r)
  <2> SUFFICES ASSUME NEW i \in 1 .. Len(q) + Len(r) PROVE (q \o r)[i] \in Elems(q) \cup Elems(r)
    BY <1>1 DEF Elems
  <2>1. CASE i <= Len(q)
    BY <1>1, <2>1 DEF Elems
  <2>2. CASE ~(i <= Len(q))
    <3>1. i - Len(q) \in 1 .. Len(r)
      BY <1>1, <2>2
    <3> QED BY <1>1, <2>2, <3>1 DEF Elems
  <2> QED BY <2>1, <2>2
<1>3. Elems(q) \subseteq Elems(q \o r)
  BY <1>1 DEF Elems
<1>4. Elems(r) \subseteq Elems(q \o r)
  <2> SUFFICES ASSUME NEW i \in 1 .. Len(r) PROVE r[i] \in Elems(q \o r)
    BY DEF Elems
  <2>1. Len(q) + i \in 1 .. Len(q) + Len(r) /\ ~(Len(q) + i <= Len(q)) /\ (Len(q) + i) - Len(q) = i
    BY <1>1
  <2> QED BY <1>1, <2>1 DEF Elems
<1> QED BY <1>1, <1>2, <1>3, <1>4

-----------------------------------------------------------------------------
(***************************************************************************)
(* Types.                                                                  *)
(***************************************************************************)
Values == {None, "on"} \cup SUBSET Symbols
MessageRec == [slot : Slots, val : Values, age : Nat]
SubRec == [symbols : SUBSET Symbols, made : BOOLEAN, running : BOOLEAN]
ChartRec == [made : BOOLEAN, running : BOOLEAN, unsubscribed : BOOLEAN]
ConnRec == [state : {"up", "down", "left", "open"}, queue : Seq(MessageRec),
            flush : Seq(MessageRec), notice : BOOLEAN]
ListOps == {"activate", "add", "remove", "close", "undo", "drop"}
ChartOps == {"chart", "refresh", "unchart"}
StatusOps == {"acquire", "release"}
CallerRec ==
    [pc : {"idle", "running", "symbols", "hold", "forget", "gather", "record", "send"},
     op : {None} \cup ListOps \cup ChartOps \cup StatusOps,
     on : {None, "chart"} \cup Subs \cup Symbols,
     val : {None} \cup SUBSET Symbols, age : Nat, calls : Nat]
Ages == [Slots -> Nat]

IntentTypes ==
    /\ load \in Loads
    /\ subs \in [Subs -> SubRec]
    /\ held \in [Subs -> {None} \cup SUBSET Symbols]
    /\ chart \in ChartRec
    /\ counts \in [Symbols -> Nat]
    /\ receivers \in [Symbols -> Nat]
    /\ leaked \in [Symbols -> Nat]

CallerTypes == caller \in [Callers -> CallerRec]

WireTypes ==
    /\ recorded \in [Slots -> Values]
    /\ conn \in [Channels -> ConnRec]
    /\ resend \in [Channels -> [Tasks -> Seq(MessageRec)]]
    /\ server \in [Slots -> Values]

StampTypes ==
    stamps \in [intent : Ages, record : Ages, recordMost : Ages, write : Ages, writeMost : Ages,
                version : Ages]

SubscriptionTypes == IntentTypes /\ CallerTypes /\ WireTypes /\ StampTypes

(* What a call is on fits what it does. *)
Shape(c) == caller[c].pc # "idle" =>
    /\ caller[c].op \in ListOps \cup ChartOps \cup StatusOps
    /\ caller[c].op \in ListOps => caller[c].on \in Subs
    /\ caller[c].op \in ChartOps => caller[c].on = "chart" /\ caller[c].pc \in {"record", "send"}
    /\ caller[c].op \in StatusOps => caller[c].on \in Symbols /\ caller[c].pc \in {"record", "send"}

Shapes == \A c \in Callers : Shape(c)

LEMMA TypesInit == Init => SubscriptionTypes
<1> SUFFICES ASSUME Init PROVE SubscriptionTypes
  OBVIOUS
<1> USE DEF Init
<1>1. IntentTypes
  BY SubscriptionsAssumption DEF IntentTypes, SubRec, ChartRec
<1>2. CallerTypes
  BY DEF CallerTypes, CallerRec, Idle
<1>3. WireTypes
  BY DEF WireTypes, ConnRec, Values
<1>4. StampTypes
  BY DEF StampTypes, Ages
<1> QED BY <1>1, <1>2, <1>3, <1>4 DEF SubscriptionTypes

(* A call of a caller stays a call. *)
LEMMA StartedType ==
    ASSUME CallerTypes, NEW c \in Callers, NEW op \in ListOps \cup ChartOps \cup StatusOps,
           NEW on \in {"chart"} \cup Subs \cup Symbols,
           NEW pc \in {"idle", "running", "symbols", "hold", "forget", "gather", "record", "send"}
    PROVE  /\ Started(c, op, on, pc) \in CallerRec
           /\ \A val \in SUBSET Symbols, age \in Nat :
                 [Started(c, op, on, pc) EXCEPT !.val = val, !.age = age] \in CallerRec
<1>1. caller[c].calls + 1 \in Nat
  BY DEF CallerTypes, CallerRec
<1>2. Started(c, op, on, pc) \in CallerRec
  BY <1>1 DEF Started, CallerRec
<1>3. ASSUME NEW r \in CallerRec, NEW val \in SUBSET Symbols, NEW age \in Nat
      PROVE  [r EXCEPT !.val = val, !.age = age] \in CallerRec
  BY DEF CallerRec
<1> QED BY <1>2, <1>3

LEMMA StartType ==
    ASSUME CallerTypes, NEW c \in Callers, NEW op \in ListOps \cup ChartOps \cup StatusOps,
           NEW on \in {"chart"} \cup Subs \cup Symbols,
           NEW pc \in {"idle", "running", "symbols", "hold", "forget", "gather", "record", "send"},
           Start(c, op, on, pc)
    PROVE  CallerTypes'
<1>1. Started(c, op, on, pc) \in CallerRec
  BY StartedType
<1> QED BY <1>1 DEF Start, CallerTypes

LEMMA IntentStamped ==
    ASSUME StampTypes, NEW slot \in Slots
    PROVE  [stamps EXCEPT !.intent[slot] = @ + 1] \in
               [intent : Ages, record : Ages, recordMost : Ages, write : Ages, writeMost : Ages,
                version : Ages]
<1>1. stamps.intent \in Ages /\ stamps.intent[slot] + 1 \in Nat
  BY DEF StampTypes, Ages
<1>2. [stamps.intent EXCEPT ![slot] = stamps.intent[slot] + 1] \in Ages
  BY <1>1 DEF Ages
<1> QED BY <1>2 DEF StampTypes

LEMMA CountsType ==
    ASSUME IntentTypes, NEW x \in Symbols
    PROVE  Counted(x) \in [Symbols -> Nat] /\ Uncounted(x) \in [Symbols -> Nat]
  BY DEF IntentTypes, Counted, Uncounted

LEMMA CallStartTypes ==
    ASSUME SubscriptionTypes, NEW c \in Callers, CallStart(c)
    PROVE  SubscriptionTypes'
<1> USE DEF SubscriptionTypes
<1>1. UNCHANGED <<load, recorded, conn, resend, server>>
  BY DEF CallStart, Activate, AddSymbol, RemoveSymbol, CloseSub, ChartOn, Refresh, ChartOff, ChartCall,
         AcquireStatus, ReleaseStatus, wires
<1>2. WireTypes'
  BY <1>1 DEF WireTypes
<1>3. CASE Activate(c) \/ AddSymbol(c) \/ RemoveSymbol(c) \/ CloseSub(c)
  <2>1. UNCHANGED <<held, chart, counts, stamps, receivers, leaked>>
    BY <1>3 DEF Activate, AddSymbol, RemoveSymbol, CloseSub
  <2>2. CallerTypes'
    BY <1>3, StartType DEF Activate, AddSymbol, RemoveSymbol, CloseSub, ListOps
  <2>3. subs' \in [Subs -> SubRec]
    <3>1. CASE Activate(c)
      <4>1. PICK s \in Subs : subs' = [subs EXCEPT ![s].made = TRUE, ![s].running = TRUE]
        BY <3>1 DEF Activate
      <4> QED BY <4>1, ZenonT(60) DEF IntentTypes, SubRec
    <3>2. CASE AddSymbol(c)
      BY <3>2 DEF AddSymbol, IntentTypes, SubRec
    <3>3. CASE RemoveSymbol(c)
      BY <3>3 DEF RemoveSymbol, IntentTypes, SubRec
    <3>4. CASE CloseSub(c)
      BY <3>4, ZenonT(60) DEF CloseSub, IntentTypes, SubRec
    <3> QED BY <1>3, <3>1, <3>2, <3>3, <3>4
  <2> QED BY <1>1, <1>2, <2>1, <2>2, <2>3 DEF IntentTypes, StampTypes
<1>4. CASE ChartOn(c) \/ Refresh(c) \/ ChartOff(c)
  <2>1. UNCHANGED <<subs, held, counts, stamps, receivers, leaked>>
    BY <1>4 DEF ChartOn, Refresh, ChartOff, ChartCall
  <2>2. CallerTypes'
    BY <1>4, StartType DEF ChartOn, Refresh, ChartOff, ChartCall, ChartOps
  <2>3. chart' \in ChartRec
    <3>1. \/ chart' = Shown
          \/ chart' = [made |-> TRUE, running |-> FALSE, unsubscribed |-> TRUE]
      BY <1>4 DEF ChartOn, Refresh, ChartOff, ChartCall
    <3>2. Shown \in ChartRec
      BY DEF Shown, ChartRec
    <3>3. [made |-> TRUE, running |-> FALSE, unsubscribed |-> TRUE] \in ChartRec
      BY DEF ChartRec
    <3> QED BY <3>1, <3>2, <3>3
  <2>4. IntentTypes'
    BY <1>1, <2>1, <2>3 DEF IntentTypes
  <2>5. StampTypes'
    BY <2>1 DEF StampTypes
  <2> QED BY <1>2, <2>2, <2>4, <2>5
<1>5. CASE AcquireStatus(c) \/ ReleaseStatus(c)
  <2>1. PICK op \in StatusOps, x \in Symbols, n \in [Symbols -> Nat] : CountAndList(c, op, x, n)
    BY <1>5, CountsType DEF AcquireStatus, ReleaseStatus, StatusOps
  <2>2. UNCHANGED <<subs, held, chart, leaked>>
    BY <1>5 DEF AcquireStatus, ReleaseStatus, history
  <2>3. receivers' \in [Symbols -> Nat]
    <3>1. CASE AcquireStatus(c)
      BY <3>1 DEF AcquireStatus, history, IntentTypes
    <3>2. CASE ReleaseStatus(c)
      <4>1. PICK y \in Symbols : receivers[y] > 0 /\ receivers' = [receivers EXCEPT ![y] = @ - 1]
        BY <3>2 DEF ReleaseStatus
      <4> QED BY <4>1 DEF IntentTypes
    <3> QED BY <1>5, <3>1, <3>2
  <2>4. CallerTypes'
    <3>1. Listed(n) \in SUBSET Symbols /\ stamps.intent["status"] + 1 \in Nat
      BY DEF Listed, StampTypes, Ages, Slots
    <3>2. [Started(c, op, x, "record") EXCEPT !.val = Listed(n), !.age = stamps.intent["status"] + 1]
             \in CallerRec
      BY <3>1, StartedType
    <3> QED BY <2>1, <3>2 DEF CountAndList, CallerTypes
  <2>5. StampTypes'
    BY <2>1, IntentStamped DEF CountAndList, StampTypes, Slots
  <2>6. counts' \in [Symbols -> Nat]
    BY <2>1 DEF CountAndList
  <2> QED BY <1>1, <1>2, <2>2, <2>3, <2>4, <2>5, <2>6 DEF IntentTypes
<1> QED BY <1>3, <1>4, <1>5 DEF CallStart

(* What a caller is about to record and to send. *)
LEMMA RequestTypes ==
    ASSUME CallerTypes, NEW c \in Callers
    PROVE  /\ SlotOf(c) \in Slots /\ Request(c) \in Values
           /\ StampTypes => MessageOf(c) \in MessageRec
<1>1. SlotOf(c) \in Slots
  BY DEF SlotOf, Slots
<1>2. Request(c) \in Values
  BY DEF Request, Values, CallerTypes, CallerRec
<1>3. caller[c].age \in Nat
  BY DEF CallerTypes, CallerRec
<1> QED BY <1>1, <1>2, <1>3 DEF MessageOf, Message, MessageRec

LEMMA StampFields ==
    ASSUME StampTypes
    PROVE  \A s \in Slots : /\ stamps.intent[s] \in Nat /\ stamps.record[s] \in Nat
                           /\ stamps.recordMost[s] \in Nat /\ stamps.write[s] \in Nat
                           /\ stamps.writeMost[s] \in Nat /\ stamps.version[s] \in Nat
  BY DEF StampTypes, Ages

(* What a frame that is written changes. *)
LEMMA WrittenIs ==
    ASSUME SubscriptionTypes, NEW m \in MessageRec, Written(m)
    PROVE  /\ server' = [server EXCEPT ![m.slot] = m.val] /\ server' \in [Slots -> Values]
           /\ stamps'.write = [stamps.write EXCEPT ![m.slot] = m.age]
           /\ stamps'.writeMost = [stamps.writeMost EXCEPT ![m.slot] = stamps'.writeMost[m.slot]]
           /\ stamps'.writeMost[m.slot] \in {stamps.writeMost[m.slot], m.age}
           /\ stamps'.writeMost[m.slot] >= stamps.writeMost[m.slot]
           /\ stamps'.writeMost[m.slot] >= m.age
           /\ stamps'.intent = stamps.intent /\ stamps'.record = stamps.record
           /\ stamps'.recordMost = stamps.recordMost /\ stamps'.version = stamps.version
           /\ StampTypes'
<1> DEFINE most == Max({stamps.writeMost[m.slot], m.age})
<1>1. m.slot \in Slots /\ m.val \in Values /\ m.age \in Nat /\ stamps.writeMost[m.slot] \in Nat
  BY StampFields DEF MessageRec, SubscriptionTypes
<1>2. most \in {stamps.writeMost[m.slot], m.age} /\ most >= stamps.writeMost[m.slot] /\ most >= m.age
      /\ most \in Nat
  BY <1>1, MaxOfTwo
<1>3. /\ stamps'.write = [stamps.write EXCEPT ![m.slot] = m.age]
      /\ stamps'.writeMost = [stamps.writeMost EXCEPT ![m.slot] = most]
      /\ stamps'.intent = stamps.intent /\ stamps'.record = stamps.record
      /\ stamps'.recordMost = stamps.recordMost /\ stamps'.version = stamps.version
      /\ stamps' = [stamps EXCEPT !.write = stamps'.write, !.writeMost = stamps'.writeMost]
  BY DEF Written, SubscriptionTypes, StampTypes
<1>4. stamps'.writeMost[m.slot] = most
  BY <1>1, <1>3 DEF SubscriptionTypes, StampTypes, Ages
<1>5. stamps'.write \in Ages /\ stamps'.writeMost \in Ages
  BY <1>1, <1>2, <1>3 DEF SubscriptionTypes, StampTypes, Ages
<1>6. StampTypes'
  BY <1>3, <1>5 DEF SubscriptionTypes, StampTypes
<1>7. server' = [server EXCEPT ![m.slot] = m.val] /\ server' \in [Slots -> Values]
  BY <1>1 DEF Written, SubscriptionTypes, WireTypes
<1> QED BY <1>2, <1>3, <1>4, <1>6, <1>7

LEMMA QueueSet ==
    ASSUME conn \in [Channels -> ConnRec], NEW ch \in Channels, NEW q \in Seq(MessageRec),
           conn' = [conn EXCEPT ![ch].queue = q]
    PROVE  conn' \in [Channels -> ConnRec] /\ conn'[ch].queue = q
  BY DEF ConnRec

(* What is sent while a connection is not up goes to its queue, and what    *)
(* has to go from the queue for it is dropped.                              *)
LEMMA QueuedIs ==
    ASSUME SubscriptionTypes, NEW m \in MessageRec, ~Connected(ChannelOf(m.slot)), Deliver(m)
    PROVE  LET ch == ChannelOf(m.slot) IN
           /\ UNCHANGED <<server, stamps>>
           /\ conn' \in [Channels -> ConnRec]
           /\ conn' = [conn EXCEPT ![ch].queue = conn'[ch].queue]
           /\ m \in Elems(conn'[ch].queue)
           /\ Elems(conn'[ch].queue) \subseteq Elems(conn[ch].queue) \cup {m}
           /\ dropped \subseteq dropped'
           /\ \A k \in Elems(conn[ch].queue) \ Elems(conn'[ch].queue) : k.slot \in dropped'
<1> DEFINE ch == ChannelOf(m.slot)
           q == conn[ch].queue
<1>1. ch \in Channels /\ q \in Seq(MessageRec) /\ conn \in [Channels -> ConnRec]
  BY DEF SubscriptionTypes, WireTypes, ConnRec, ChannelOf, Channels
<1>2. /\ UNCHANGED <<server, stamps>>
      /\ conn' = Queued(ch, m) /\ dropped' = dropped \cup Overflow(ch)
  BY DEF Deliver
<1> HIDE DEF ch, q
<1>5. \A r \in Seq(MessageRec) : /\ Append(r, m) \in Seq(MessageRec)
                                /\ Elems(Append(r, m)) = Elems(r) \cup {m}
  BY ElemsOfAppend
<1>3. CASE Len(q) >= QueueMax
  <2>1. q # <<>>
    BY <1>1, <1>3, SubscriptionsAssumption
  <2>2. Tail(q) \in Seq(MessageRec) /\ Elems(q) = Elems(Tail(q)) \cup {Head(q)}
    BY <1>1, <2>1, ElemsOfTail
  <2>3. /\ Append(Tail(q), m) \in Seq(MessageRec)
        /\ Elems(Append(Tail(q), m)) = Elems(Tail(q)) \cup {m}
    BY <1>5, <2>2
  <2>4. conn' = [conn EXCEPT ![ch].queue = Append(Tail(q), m)]
    BY <1>2, <1>3 DEF Queued, q
  <2>5. conn'[ch].queue = Append(Tail(q), m) /\ conn' \in [Channels -> ConnRec]
    BY <1>1, <2>3, <2>4, QueueSet
  <2>6. Head(q).slot \in dropped'
    BY <1>2, <1>3 DEF Overflow, q
  <2> QED BY <1>2, <2>2, <2>3, <2>4, <2>5, <2>6 DEF ch, q
<1>4. CASE ~(Len(q) >= QueueMax)
  <2>1. Append(q, m) \in Seq(MessageRec) /\ Elems(Append(q, m)) = Elems(q) \cup {m}
    BY <1>1, <1>5
  <2>2. conn' = [conn EXCEPT ![ch].queue = Append(q, m)]
    BY <1>2, <1>4 DEF Queued, q
  <2>3. conn'[ch].queue = Append(q, m) /\ conn' \in [Channels -> ConnRec]
    BY <1>1, <2>1, <2>2, QueueSet
  <2> QED BY <1>2, <2>1, <2>2, <2>3 DEF ch, q
<1> QED BY <1>3, <1>4

LEMMA DeliverTypes ==
    ASSUME SubscriptionTypes, NEW m \in MessageRec, Deliver(m)
    PROVE  conn' \in [Channels -> ConnRec] /\ server' \in [Slots -> Values] /\ StampTypes'
<1>1. CASE Connected(ChannelOf(m.slot))
  <2>1. Written(m) /\ conn' = conn
    BY <1>1 DEF Deliver
  <2> QED BY <2>1, WrittenIs DEF SubscriptionTypes, WireTypes
<1>2. CASE ~Connected(ChannelOf(m.slot))
  BY <1>2, QueuedIs DEF SubscriptionTypes, WireTypes, StampTypes
<1> QED BY <1>1, <1>2

(* The steps of a call that concern the intents only. *)
LEMMA QuietCallTypes ==
    ASSUME SubscriptionTypes, Shapes, NEW c \in Callers,
           CheckRunning(c) \/ ReadSymbols(c) \/ Hold(c) \/ Forget(c) \/ Gather(c)
    PROVE  SubscriptionTypes'
<1> USE DEF SubscriptionTypes
<1>1. UNCHANGED <<load, subs, chart, counts, receivers, leaked, recorded, conn, resend, server>>
  BY DEF CheckRunning, ReadSymbols, Hold, Forget, Gather, SetHeld, intents, wires, history
<1>2. WireTypes'
  BY <1>1 DEF WireTypes
<1>3. CASE CheckRunning(c)
  <2>1. PICK pc \in {"symbols", "idle"} : caller' = [caller EXCEPT ![c].pc = pc]
    BY <1>3 DEF CheckRunning, Goto
  <2>2. CallerTypes'
    BY <2>1 DEF CallerTypes, CallerRec
  <2>3. held' = held /\ stamps' = stamps
    BY <1>3 DEF CheckRunning, intents
  <2> QED BY <1>1, <1>2, <2>2, <2>3 DEF IntentTypes, StampTypes
<1>4. CASE ReadSymbols(c)
  <2>1. caller[c].on \in Subs
    BY <1>4 DEF ReadSymbols, Shapes, Shape, CallerTypes, CallerRec
  <2>2. PICK val \in SUBSET Symbols : caller' = [caller EXCEPT ![c].pc = "hold", ![c].val = val]
    BY <1>4, <2>1 DEF ReadSymbols, IntentTypes, SubRec
  <2>3. CallerTypes'
    BY <2>2, ZenonT(60) DEF CallerTypes, CallerRec
  <2>4. held' = held /\ stamps' = stamps
    BY <1>4 DEF ReadSymbols, intents
  <2> QED BY <1>1, <1>2, <2>3, <2>4 DEF IntentTypes, StampTypes
<1>5. CASE Hold(c) \/ Forget(c)
  <2>1. PICK val \in {None} \cup SUBSET Symbols : SetHeld(c, val)
    BY <1>5 DEF Hold, Forget, CallerTypes, CallerRec
  <2>2. CallerTypes'
    BY <2>1 DEF SetHeld, Goto, CallerTypes, CallerRec
  <2>3. StampTypes'
    BY <2>1, IntentStamped DEF SetHeld, StampTypes, Slots
  <2>4. held' \in [Subs -> {None} \cup SUBSET Symbols]
    BY <2>1 DEF SetHeld, IntentTypes
  <2> QED BY <1>1, <1>2, <2>2, <2>3, <2>4 DEF IntentTypes
<1>6. CASE Gather(c)
  <2>1. Wanted \in SUBSET Symbols
    BY DEF Wanted, IntentTypes
  <2>2. stamps.intent["list"] \in Nat
    BY StampFields DEF Slots
  <2>3. CallerTypes'
    <3>1. PICK val \in SUBSET Symbols, age \in Nat :
              caller' = [caller EXCEPT ![c].pc = "record", ![c].val = val, ![c].age = age]
      BY <1>6, <2>1, <2>2 DEF Gather
    <3>2. [caller[c] EXCEPT !.pc = "record", !.val = val, !.age = age] \in CallerRec
      <4>1. ASSUME NEW r \in CallerRec
            PROVE  [r EXCEPT !.pc = "record", !.val = val, !.age = age] \in CallerRec
        BY DEF CallerRec
      <4> QED BY <4>1 DEF CallerTypes
    <3>3. caller' = [caller EXCEPT ![c] = [caller[c] EXCEPT !.pc = "record", !.val = val, !.age = age]]
      BY <3>1 DEF CallerTypes
    <3> QED BY <3>2, <3>3 DEF CallerTypes
  <2>4. held' = held /\ stamps' = stamps
    BY <1>6 DEF Gather, intents
  <2> QED BY <1>1, <1>2, <2>3, <2>4 DEF IntentTypes, StampTypes
<1> QED BY <1>3, <1>4, <1>5, <1>6

LEMMA EndTypes ==
    ASSUME SubscriptionTypes, Shapes, NEW c \in Callers, End(c), caller[c].pc # "idle"
    PROVE  /\ CallerTypes' /\ receivers' \in [Symbols -> Nat]
           /\ caller'[c].pc \in {"idle", "forget"}
           /\ \A d \in Callers \ {c} : caller'[d] = caller[d]
<1> USE DEF SubscriptionTypes
<1>1. PICK pc \in {"idle", "forget"}, op \in {caller[c].op, "drop"} :
          caller' = [caller EXCEPT ![c].pc = pc, ![c].op = op]
  BY DEF End, CallerTypes
<1>2. op \in ListOps \cup ChartOps \cup StatusOps
  BY <1>1 DEF Shapes, Shape, ListOps
<1>3. CallerTypes'
  BY <1>1, <1>2, ZenonT(60) DEF CallerTypes, CallerRec
<1>4. receivers' \in [Symbols -> Nat]
  <2>1. caller[c].op = "acquire" => caller[c].on \in Symbols
    BY DEF Shapes, Shape, StatusOps
  <2> QED BY <2>1 DEF End, IntentTypes
<1> QED BY <1>1, <1>3, <1>4 DEF CallerTypes, CallerRec

(* What the record of a request changes: the slot has a newer version, unless *)
(* the request is the one recorded.                                        *)
LEMMA RecordIs ==
    ASSUME SubscriptionTypes, NEW c \in Callers, Record(c)
    PROVE  LET slot == SlotOf(c)
               age == IF slot = "chart" THEN stamps.record[slot] + 1 ELSE caller[c].age
           IN
           /\ stamps'.intent = stamps.intent /\ stamps'.write = stamps.write
           /\ stamps'.writeMost = stamps.writeMost
           /\ stamps'.record = [stamps.record EXCEPT ![slot] = age]
           /\ stamps'.recordMost = [stamps.recordMost EXCEPT ![slot] = stamps'.recordMost[slot]]
           /\ stamps'.recordMost[slot] \in {stamps.recordMost[slot], age}
           /\ stamps'.recordMost[slot] >= stamps.recordMost[slot] /\ stamps'.recordMost[slot] >= age
           /\ stamps'.version = [stamps.version EXCEPT ![slot] =
                                    IF Skips(c) THEN @ ELSE @ + 1]
           /\ recorded' = [recorded EXCEPT ![slot] = IF Skips(c) THEN @ ELSE Request(c)]
           /\ StampTypes' /\ recorded' \in [Slots -> Values]
<1> DEFINE slot == SlotOf(c)
           age == IF slot = "chart" THEN stamps.record[slot] + 1 ELSE caller[c].age
           most == Max({stamps.recordMost[slot], age})
           version == IF Skips(c) THEN stamps.version[slot] ELSE stamps.version[slot] + 1
<1> USE DEF SubscriptionTypes
<1>1. slot \in Slots /\ Request(c) \in Values /\ age \in Nat /\ stamps.recordMost[slot] \in Nat
      /\ version \in Nat
  BY RequestTypes, StampFields DEF CallerTypes, CallerRec
<1>2. most \in {stamps.recordMost[slot], age} /\ most >= stamps.recordMost[slot] /\ most >= age
      /\ most \in Nat
  BY <1>1, MaxOfTwo
<1>3. stamps' = [stamps EXCEPT !.record[slot] = age, !.recordMost[slot] = most, !.version[slot] = version]
  BY DEF Record
<1>4. /\ stamps'.record = [stamps.record EXCEPT ![slot] = age]
      /\ stamps'.recordMost = [stamps.recordMost EXCEPT ![slot] = most]
      /\ stamps'.version = [stamps.version EXCEPT ![slot] = version]
      /\ stamps'.intent = stamps.intent /\ stamps'.write = stamps.write
      /\ stamps'.writeMost = stamps.writeMost
      /\ stamps' = [stamps EXCEPT !.record = stamps'.record, !.recordMost = stamps'.recordMost,
                                  !.version = stamps'.version]
  BY <1>3 DEF StampTypes
<1>5. stamps'.record \in Ages /\ stamps'.recordMost \in Ages /\ stamps'.version \in Ages
  BY <1>1, <1>2, <1>4 DEF StampTypes, Ages
<1>6. StampTypes'
  BY <1>4, <1>5 DEF StampTypes
<1>7. stamps'.recordMost[slot] = most
  BY <1>1, <1>4 DEF StampTypes, Ages
<1>8. recorded' = [recorded EXCEPT ![slot] = IF Skips(c) THEN @ ELSE Request(c)]
  BY DEF Record, WireTypes
<1>9. recorded' \in [Slots -> Values]
  BY <1>1, <1>8 DEF WireTypes
<1> QED BY <1>2, <1>4, <1>6, <1>7, <1>8, <1>9

LEMMA RecordTypes ==
    ASSUME SubscriptionTypes, Shapes, NEW c \in Callers, Record(c)
    PROVE  SubscriptionTypes'
<1> USE DEF SubscriptionTypes
<1>1. UNCHANGED <<load, subs, held, chart, counts, leaked, conn, resend, server>>
  BY DEF Record, intents, wires
<1>2. WireTypes' /\ StampTypes'
  BY <1>1, RecordIs DEF WireTypes
<1>3. CallerTypes' /\ receivers' \in [Symbols -> Nat]
  <2>1. CASE Skips(c) /\ End(c)
    <3>1. caller[c].pc # "idle"
      BY DEF Record, Shapes, Shape
    <3> QED BY <2>1, <3>1, EndTypes
  <2>2. CASE UNCHANGED receivers /\ caller' = [caller EXCEPT ![c].pc = "send",
                                                ![c].age = stamps.version[SlotOf(c)] + 1]
    <3> DEFINE age == stamps.version[SlotOf(c)] + 1
    <3>1. age \in Nat /\ caller' = [caller EXCEPT ![c].pc = "send", ![c].age = age]
      BY <2>2, RequestTypes, StampFields
    <3> HIDE DEF age
    <3>2. CallerTypes'
      BY <3>1, ZenonT(60) DEF CallerTypes, CallerRec
    <3> QED BY <2>2, <3>2 DEF IntentTypes
  <2> QED BY <2>1, <2>2 DEF Record
<1> QED BY <1>1, <1>2, <1>3 DEF IntentTypes

LEMMA SendTypes ==
    ASSUME SubscriptionTypes, Shapes, NEW c \in Callers, Send(c)
    PROVE  SubscriptionTypes'
<1> USE DEF SubscriptionTypes
<1>1. UNCHANGED <<load, subs, held, chart, counts, leaked, recorded, resend>>
  BY DEF Send, intents
<1>2. MessageOf(c) \in MessageRec /\ Deliver(MessageOf(c)) /\ End(c)
  BY RequestTypes DEF Send
<1>3. caller[c].pc # "idle"
  BY DEF Send, Shapes, Shape
<1>4. conn' \in [Channels -> ConnRec] /\ server' \in [Slots -> Values] /\ StampTypes'
  BY <1>2, DeliverTypes
<1>5. CallerTypes' /\ receivers' \in [Symbols -> Nat]
  BY <1>2, <1>3, EndTypes
<1> QED BY <1>1, <1>4, <1>5 DEF IntentTypes, WireTypes

(* A connection that breaks keeps what was queued and not yet flushed. *)
LEMMA BrokenIs ==
    ASSUME WireTypes, NEW ch \in Channels, conn' = Broken(ch)
    PROVE  /\ conn' \in [Channels -> ConnRec]
           /\ \A k \in Channels \ {ch} : conn'[k] = conn[k]
           /\ conn'[ch].state \in {"down", "left"} /\ conn'[ch].notice = conn[ch].notice
           /\ Elems(conn'[ch].queue) = Elems(conn[ch].queue) \cup Elems(conn[ch].flush)
           /\ Elems(conn'[ch].flush) = {}
<1>1. conn \in [Channels -> ConnRec] /\ conn[ch].queue \in Seq(MessageRec) /\ conn[ch].flush \in Seq(MessageRec)
  BY DEF WireTypes, ConnRec
<1> DEFINE q == conn[ch].queue \o conn[ch].flush
<1>2. q \in Seq(MessageRec) /\ Elems(q) = Elems(conn[ch].queue) \cup Elems(conn[ch].flush)
  BY <1>1, ElemsOfBoth
<1>3. PICK state \in {"down", "left"} :
          conn' = [conn EXCEPT ![ch].state = state, ![ch].queue = q, ![ch].flush = <<>>]
  BY DEF Broken
<1> HIDE DEF q
<1>4. /\ conn'[ch].state = state /\ conn'[ch].queue = q /\ conn'[ch].flush = <<>>
      /\ conn'[ch].notice = conn[ch].notice
      /\ \A k \in Channels \ {ch} : conn'[k] = conn[k]
  BY <1>1, <1>3 DEF ConnRec
<1>5. << >> \in Seq(MessageRec)
  OBVIOUS
<1>6. conn' \in [Channels -> ConnRec]
  <2>1. ASSUME NEW r \in ConnRec
        PROVE  [r EXCEPT !.state = state, !.queue = q, !.flush = <<>>] \in ConnRec
    BY <1>2, <1>5 DEF ConnRec
  <2>2. conn' = [conn EXCEPT ![ch] = [conn[ch] EXCEPT !.state = state, !.queue = q, !.flush = <<>>]]
    BY <1>1, <1>3
  <2> QED BY <1>1, <2>1, <2>2
<1> QED BY <1>2, <1>4, <1>6, ElemsOfEmpty

LEMMA SendFailsTypes ==
    ASSUME SubscriptionTypes, Shapes, NEW c \in Callers, SendFails(c)
    PROVE  SubscriptionTypes'
<1> USE DEF SubscriptionTypes
<1>1. /\ UNCHANGED <<load, held, counts, receivers, recorded, resend, server, stamps>>
      /\ conn' = Broken(ChannelOf(SlotOf(c)))
  BY DEF SendFails
<1>2. WireTypes'
  <2>1. ChannelOf(SlotOf(c)) \in Channels
    BY DEF ChannelOf, Channels
  <2> QED BY <1>1, <2>1, BrokenIs DEF WireTypes
<1>3. CallerTypes'
  <2>1. PICK pc \in {"forget", "record", "idle"}, op \in {caller[c].op, "undo", "drop", "unchart"} :
            caller' = [caller EXCEPT ![c].pc = pc, ![c].op = op]
    BY DEF SendFails
  <2>2. op \in {None} \cup ListOps \cup ChartOps \cup StatusOps
    BY <2>1 DEF CallerTypes, CallerRec, ListOps, ChartOps
  <2> QED BY <2>1, <2>2, ZenonT(60) DEF CallerTypes, CallerRec
<1>4. subs' \in [Subs -> SubRec]
  <2>1. subs' = subs \/ subs' = [subs EXCEPT ![caller[c].on].running = FALSE]
    BY DEF SendFails
  <2>2. CASE subs' = [subs EXCEPT ![caller[c].on].running = FALSE]
    <3> DEFINE on == caller[c].on
    <3>1. subs' = [subs EXCEPT ![on].running = FALSE]
      BY <2>2
    <3> HIDE DEF on
    <3> QED BY <3>1 DEF IntentTypes, SubRec
  <2> QED BY <2>1, <2>2 DEF IntentTypes
<1>5. chart' \in ChartRec
  <2>1. \/ chart' = [made |-> FALSE, running |-> FALSE, unsubscribed |-> TRUE]
        \/ chart' = [chart EXCEPT !.running = FALSE] \/ chart' = chart
    BY DEF SendFails
  <2>2. [made |-> FALSE, running |-> FALSE, unsubscribed |-> TRUE] \in ChartRec
    BY DEF ChartRec
  <2>3. [chart EXCEPT !.running = FALSE] \in ChartRec
    BY DEF IntentTypes, ChartRec
  <2> QED BY <2>1, <2>2, <2>3 DEF IntentTypes
<1>6. leaked' \in [Symbols -> Nat]
  <2>1. leaked' = leaked \/ leaked' = [leaked EXCEPT ![caller[c].on] = @ + 1]
    BY DEF SendFails
  <2> QED BY <2>1 DEF IntentTypes
<1>7. IntentTypes' /\ StampTypes'
  BY <1>1, <1>4, <1>5, <1>6 DEF IntentTypes, StampTypes
<1> QED BY <1>2, <1>3, <1>7

LEMMA RecordedIs ==
    ASSUME SubscriptionTypes, NEW ch \in Channels
    PROVE  /\ Recorded(ch) \in Seq(MessageRec)
           /\ Elems(Recorded(ch)) =
                 {Message(s, recorded[s], stamps.version[s]) :
                    s \in {z \in Slots : ChannelOf(z) = ch /\ recorded[z] # None}}
<1>1. ASSUME NEW s \in Slots
      PROVE  /\ Again(s) \in Seq(MessageRec)
             /\ Elems(Again(s)) = IF recorded[s] = None THEN {}
                                  ELSE {Message(s, recorded[s], stamps.version[s])}
  <2>1. Message(s, recorded[s], stamps.version[s]) \in MessageRec
    BY StampFields DEF Message, MessageRec, SubscriptionTypes, WireTypes
  <2> DEFINE m == Message(s, recorded[s], stamps.version[s])
  <2> HIDE DEF m
  <2>2. CASE recorded[s] = None
    <3>1. Again(s) = <<>> /\ << >> \in Seq(MessageRec)
      BY <2>2 DEF Again
    <3> QED BY <2>2, <3>1, ElemsOfEmpty
  <2>3. CASE recorded[s] # None
    <3>1. Again(s) = <<m>> /\ m \in MessageRec
      BY <2>1, <2>3 DEF Again, m
    <3>2. <<m>> \in Seq(MessageRec)
      BY <3>1
    <3> QED BY <2>3, <3>1, <3>2, ElemsOfOne DEF m
  <2> QED BY <2>2, <2>3
<1>2. CASE ch = "quote"
  <2>1. Recorded(ch) = Again("list") \o Again("chart")
    BY <1>2 DEF Recorded
  <2>2. Recorded(ch) \in Seq(MessageRec) /\ Elems(Recorded(ch)) = Elems(Again("list")) \cup Elems(Again("chart"))
    BY <1>1, <2>1, ElemsOfBoth DEF Slots
  <2>3. {z \in Slots : ChannelOf(z) = ch /\ recorded[z] # None}
          = {z \in {"list", "chart"} : recorded[z] # None}
    BY <1>2 DEF Slots, ChannelOf
  <2> HIDE DEF Message
  <2> QED BY <1>1, <2>2, <2>3 DEF Slots
<1>3. CASE ch # "quote"
  <2>1. Recorded(ch) = Again("status")
    BY <1>3 DEF Recorded
  <2>2. {z \in Slots : ChannelOf(z) = ch /\ recorded[z] # None} = {z \in {"status"} : recorded[z] # None}
    BY <1>3 DEF Slots, ChannelOf, Channels
  <2> HIDE DEF Message
  <2> QED BY <1>1, <2>1, <2>2 DEF Slots
<1> QED BY <1>2, <1>3

-----------------------------------------------------------------------------
(***************************************************************************)
(* What the steps of a connection change.                                  *)
(***************************************************************************)
LEMMA LoseTypes ==
    ASSUME SubscriptionTypes, NEW ch \in Channels, Lose(ch)
    PROVE  SubscriptionTypes'
<1> USE DEF SubscriptionTypes
<1>1. /\ UNCHANGED <<load, subs, held, chart, counts, receivers, leaked, caller, recorded, resend,
                     server, stamps>>
      /\ conn' = Broken(ch)
  BY DEF Lose, intents, history
<1>2. WireTypes'
  BY <1>1, BrokenIs DEF WireTypes
<1> QED BY <1>1, <1>2 DEF IntentTypes, CallerTypes, StampTypes

(* The server of a new connection knows nothing, and everything recorded is  *)
(* to be resent.                                                           *)
LEMMA OpenIs ==
    ASSUME SubscriptionTypes, NEW ch \in Channels, Open(ch)
    PROVE  /\ SubscriptionTypes'
           /\ conn[ch].state = "down" /\ conn'[ch].state = "open"
           /\ conn'[ch].queue = conn[ch].queue /\ conn'[ch].flush = conn[ch].flush
           /\ \A k \in Channels \ {ch} : conn'[k] = conn[k] /\ resend'[k] = resend[k]
           /\ resend[ch]["open"] = <<>> /\ resend'[ch]["open"] = Recorded(ch)
           /\ resend'[ch]["notify"] = resend[ch]["notify"]
           /\ server' = [s \in Slots |-> IF ChannelOf(s) = ch THEN None ELSE server[s]]
           /\ stamps'.version = stamps.version
           /\ \A s \in Slots :
                 LET told == IF recorded[s] = None THEN stamps.version[s] ELSE 0 IN
                 /\ stamps'.write[s] = IF ChannelOf(s) = ch THEN told ELSE stamps.write[s]
                 /\ stamps'.writeMost[s] = IF ChannelOf(s) = ch THEN told ELSE stamps.writeMost[s]
<1> USE DEF SubscriptionTypes
<1>1. UNCHANGED <<load, subs, held, chart, counts, receivers, leaked, caller, recorded>>
  BY DEF Open, intents, history
<1> DEFINE told == [s \in Slots |-> IF recorded[s] = None THEN stamps.version[s] ELSE 0]
           write == [s \in Slots |-> IF ChannelOf(s) = ch THEN told[s] ELSE stamps.write[s]]
           most == [s \in Slots |-> IF ChannelOf(s) = ch THEN told[s] ELSE stamps.writeMost[s]]
<1>2. write \in Ages /\ most \in Ages
  BY StampFields DEF Ages
<1>3. stamps' = [stamps EXCEPT !.write = write, !.writeMost = most]
  BY DEF Open
<1>4. /\ \A s \in Slots : /\ write[s] = IF ChannelOf(s) = ch THEN told[s] ELSE stamps.write[s]
                          /\ most[s] = IF ChannelOf(s) = ch THEN told[s] ELSE stamps.writeMost[s]
                          /\ told[s] = IF recorded[s] = None THEN stamps.version[s] ELSE 0
  OBVIOUS
<1> HIDE DEF write, most, told
<1>5. StampTypes' /\ stamps'.write = write /\ stamps'.writeMost = most /\ stamps'.version = stamps.version
  BY <1>2, <1>3 DEF StampTypes
<1>6. conn' \in [Channels -> ConnRec] /\ conn'[ch].state = "open" /\ conn[ch].state = "down"
      /\ conn'[ch].queue = conn[ch].queue /\ conn'[ch].flush = conn[ch].flush
      /\ \A k \in Channels \ {ch} : conn'[k] = conn[k]
  <2>1. conn' = [conn EXCEPT ![ch] = [conn[ch] EXCEPT !.state = "open", !.notice = TRUE]]
    BY DEF Open, WireTypes
  <2>2. ASSUME NEW r \in ConnRec
        PROVE  LET n == [r EXCEPT !.state = "open", !.notice = TRUE] IN
               n \in ConnRec /\ n.state = "open" /\ n.queue = r.queue /\ n.flush = r.flush
    BY DEF ConnRec
  <2>3. conn[ch].state = "down" /\ conn \in [Channels -> ConnRec]
    BY DEF Open, WireTypes
  <2> QED BY <2>1, <2>2, <2>3
<1>7. /\ resend' = [resend EXCEPT ![ch]["open"] = Recorded(ch)]
      /\ resend' \in [Channels -> [Tasks -> Seq(MessageRec)]]
      /\ resend[ch]["open"] = <<>> /\ resend'[ch]["open"] = Recorded(ch)
      /\ resend'[ch]["notify"] = resend[ch]["notify"]
      /\ \A k \in Channels \ {ch} : resend'[k] = resend[k]
  BY RecordedIs DEF Open, WireTypes, Tasks
<1>8. server' = [s \in Slots |-> IF ChannelOf(s) = ch THEN None ELSE server[s]] /\ server' \in [Slots -> Values]
  BY DEF Open, WireTypes, Values
<1>9. SubscriptionTypes'
  BY <1>1, <1>5, <1>6, <1>7, <1>8 DEF IntentTypes, CallerTypes, WireTypes
<1> QED BY <1>4, <1>5, <1>6, <1>7, <1>8, <1>9

LEMMA InstallIs ==
    ASSUME SubscriptionTypes, NEW ch \in Channels, Install(ch)
    PROVE  /\ SubscriptionTypes'
           /\ conn[ch].state = "open" /\ conn'[ch].state = "up"
           /\ conn'[ch].queue = <<>> /\ conn'[ch].flush = conn[ch].queue
           /\ \A k \in Channels \ {ch} : conn'[k] = conn[k]
<1> USE DEF SubscriptionTypes
<1>1. UNCHANGED <<load, subs, held, chart, counts, receivers, leaked, caller, recorded, resend, server,
                  stamps>>
  BY DEF Install, intents, history
<1> DEFINE q == conn[ch].queue
<1>2. q \in Seq(MessageRec) /\ << >> \in Seq(MessageRec) /\ conn \in [Channels -> ConnRec]
  BY DEF WireTypes, ConnRec
<1>3. conn' = [conn EXCEPT ![ch] = [conn[ch] EXCEPT !.state = "up", !.queue = <<>>, !.flush = q]]
  BY <1>2 DEF Install
<1> HIDE DEF q
<1>4. ASSUME NEW r \in ConnRec
      PROVE  LET n == [r EXCEPT !.state = "up", !.queue = <<>>, !.flush = q] IN
             n \in ConnRec /\ n.state = "up" /\ n.queue = <<>> /\ n.flush = q
  BY <1>2 DEF ConnRec
<1>5. /\ conn' \in [Channels -> ConnRec] /\ conn'[ch].state = "up" /\ conn'[ch].queue = <<>>
      /\ conn'[ch].flush = q /\ \A k \in Channels \ {ch} : conn'[k] = conn[k]
  BY <1>2, <1>3, <1>4
<1>6. conn[ch].state = "open"
  BY DEF Install
<1>7. SubscriptionTypes'
  BY <1>1, <1>5 DEF IntentTypes, CallerTypes, WireTypes, StampTypes
<1> QED BY <1>5, <1>6, <1>7 DEF q

LEMMA NoticeIs ==
    ASSUME SubscriptionTypes, NEW ch \in Channels, Notice(ch)
    PROVE  /\ SubscriptionTypes'
           /\ \A k \in Channels : /\ conn'[k].state = conn[k].state /\ conn'[k].queue = conn[k].queue
                                  /\ conn'[k].flush = conn[k].flush
           /\ \A k \in Channels \ {ch} : resend'[k] = resend[k]
           /\ resend[ch]["notify"] = <<>> /\ resend'[ch]["notify"] = Recorded(ch)
           /\ resend'[ch]["open"] = resend[ch]["open"]
<1> USE DEF SubscriptionTypes
<1>1. UNCHANGED <<load, subs, held, chart, counts, receivers, leaked, caller, recorded, server, stamps>>
  BY DEF Notice, intents, history
<1>2. /\ conn' \in [Channels -> ConnRec]
      /\ \A k \in Channels : /\ conn'[k].state = conn[k].state /\ conn'[k].queue = conn[k].queue
                             /\ conn'[k].flush = conn[k].flush
  BY DEF Notice, WireTypes, ConnRec
<1>3. /\ resend' \in [Channels -> [Tasks -> Seq(MessageRec)]]
      /\ resend[ch]["notify"] = <<>> /\ resend'[ch]["notify"] = Recorded(ch)
      /\ resend'[ch]["open"] = resend[ch]["open"]
      /\ \A k \in Channels \ {ch} : resend'[k] = resend[k]
  BY RecordedIs DEF Notice, WireTypes, Tasks
<1>4. SubscriptionTypes'
  BY <1>1, <1>2, <1>3 DEF IntentTypes, CallerTypes, WireTypes, StampTypes
<1> QED BY <1>2, <1>3, <1>4

LEMMA FlushIs ==
    ASSUME SubscriptionTypes, NEW ch \in Channels, Flush(ch)
    PROVE  LET m == Head(conn[ch].flush) IN
           /\ SubscriptionTypes'
           /\ m \in MessageRec /\ Written(m) /\ Connected(ch)
           /\ Elems(conn[ch].flush) = Elems(conn'[ch].flush) \cup {m}
           /\ conn'[ch].queue = conn[ch].queue
           /\ \A k \in Channels : conn'[k].state = conn[k].state
           /\ \A k \in Channels \ {ch} : conn'[k] = conn[k]
<1> USE DEF SubscriptionTypes
<1>1. UNCHANGED <<load, subs, held, chart, counts, receivers, leaked, caller, recorded, resend>>
  BY DEF Flush, intents, history
<1> DEFINE q == conn[ch].flush
           m == Head(q)
<1>2. q \in Seq(MessageRec) /\ q # <<>> /\ conn \in [Channels -> ConnRec]
  BY DEF WireTypes, ConnRec, Flush
<1>3. m \in MessageRec /\ Tail(q) \in Seq(MessageRec) /\ Elems(q) = Elems(Tail(q)) \cup {m}
  BY <1>2, ElemsOfTail
<1>4. Written(m) /\ Connected(ch)
  BY DEF Flush
<1>5. conn' = [conn EXCEPT ![ch] = [conn[ch] EXCEPT !.flush = Tail(q)]]
  BY <1>2 DEF Flush
<1> HIDE DEF q
<1>6. ASSUME NEW r \in ConnRec
      PROVE  LET n == [r EXCEPT !.flush = Tail(q)] IN
             n \in ConnRec /\ n.state = r.state /\ n.queue = r.queue /\ n.flush = Tail(q)
  BY <1>3 DEF ConnRec
<1>7. /\ conn' \in [Channels -> ConnRec] /\ conn'[ch].queue = conn[ch].queue
      /\ conn'[ch].flush = Tail(q) /\ conn'[ch].state = conn[ch].state
      /\ \A k \in Channels \ {ch} : conn'[k] = conn[k]
  BY <1>2, <1>5, <1>6
<1>8. server' \in [Slots -> Values] /\ StampTypes'
  BY <1>3, <1>4, WrittenIs
<1>9. SubscriptionTypes'
  BY <1>1, <1>7, <1>8 DEF IntentTypes, CallerTypes, WireTypes
<1> QED BY <1>3, <1>4, <1>7, <1>9 DEF q

LEMMA ResendIs ==
    ASSUME SubscriptionTypes, NEW ch \in Channels, NEW t \in Tasks, Resend(ch, t)
    PROVE  LET m == Head(resend[ch][t]) IN
           /\ SubscriptionTypes'
           /\ m \in MessageRec /\ Deliver(m)
           /\ Elems(resend[ch][t]) = Elems(resend'[ch][t]) \cup {m}
           /\ \A k \in Channels, u \in Tasks : (k # ch \/ u # t) => resend'[k][u] = resend[k][u]
<1> USE DEF SubscriptionTypes
<1>1. UNCHANGED <<load, subs, held, chart, counts, receivers, leaked, caller, recorded>>
  BY DEF Resend, intents
<1> DEFINE q == resend[ch][t]
           m == Head(q)
<1>2. q \in Seq(MessageRec) /\ q # <<>>
  BY DEF WireTypes, Resend
<1>3. m \in MessageRec /\ Tail(q) \in Seq(MessageRec) /\ Elems(q) = Elems(Tail(q)) \cup {m}
  BY <1>2, ElemsOfTail
<1>4. Deliver(m) /\ resend' = [resend EXCEPT ![ch][t] = Tail(q)]
  BY DEF Resend, WireTypes
<1> HIDE DEF q
<1>5. /\ resend' \in [Channels -> [Tasks -> Seq(MessageRec)]] /\ resend'[ch][t] = Tail(q)
      /\ \A k \in Channels, u \in Tasks : (k # ch \/ u # t) => resend'[k][u] = resend[k][u]
  BY <1>3, <1>4 DEF WireTypes
<1>6. conn' \in [Channels -> ConnRec] /\ server' \in [Slots -> Values] /\ StampTypes'
  BY <1>3, <1>4, DeliverTypes
<1>7. SubscriptionTypes'
  BY <1>1, <1>5, <1>6 DEF IntentTypes, CallerTypes, WireTypes
<1> QED BY <1>3, <1>4, <1>5, <1>7 DEF q

(* What a call is on fits what it does, after every step of it. *)
LEMMA ShapesStep ==
    ASSUME SubscriptionTypes, Shapes, NEW c \in Callers, CallStart(c) \/ CallStep(c)
    PROVE  Shapes'
<1> SUFFICES ASSUME NEW d \in Callers PROVE Shape(d)'
  BY DEF Shapes
<1> USE DEF SubscriptionTypes
<1>1. Shape(d) /\ Shape(c)
  BY DEF Shapes
<1>2. ASSUME NEW op, NEW on, NEW pc, Start(c, op, on, pc),
             \/ op \in ListOps /\ on \in Subs
             \/ op \in ChartOps /\ on = "chart" /\ pc \in {"idle", "record"}
      PROVE  Shape(d)'
  <2>1. caller' = [caller EXCEPT ![c] = Started(c, op, on, pc)]
    BY <1>2 DEF Start
  <2>2. CASE d = c
    <3>1. caller'[d].op = op /\ caller'[d].on = on /\ caller'[d].pc = pc
      BY <2>1, <2>2 DEF Started, CallerTypes
    <3> QED BY <1>2, <3>1 DEF Shape, ListOps, ChartOps, StatusOps
  <2>3. CASE d # c
    BY <1>1, <2>1, <2>3 DEF Shape, CallerTypes
  <2> QED BY <2>2, <2>3
<1>3. CASE Activate(c) \/ AddSymbol(c) \/ RemoveSymbol(c) \/ CloseSub(c)
  BY <1>2, <1>3 DEF Activate, AddSymbol, RemoveSymbol, CloseSub, ListOps
<1>4. CASE ChartOn(c) \/ Refresh(c) \/ ChartOff(c)
  BY <1>2, <1>4 DEF ChartOn, Refresh, ChartOff, ChartCall, ChartOps
<1>5. CASE AcquireStatus(c) \/ ReleaseStatus(c)
  <2>1. PICK op \in StatusOps, x \in Symbols : \E m : CountAndList(c, op, x, m)
    BY <1>5 DEF AcquireStatus, ReleaseStatus, StatusOps
  <2> PICK n : CountAndList(c, op, x, n)
    BY <2>1
  <2> DEFINE r == [Started(c, op, x, "record") EXCEPT !.val = Listed(n), !.age = stamps.intent["status"] + 1]
  <2>2. caller' = [caller EXCEPT ![c] = r] /\ r.op = op /\ r.on = x /\ r.pc = "record"
    BY DEF CountAndList, Started
  <2> HIDE DEF r
  <2>3. CASE d = c
    BY <2>2, <2>3 DEF Shape, StatusOps, ListOps, ChartOps, CallerTypes
  <2>4. CASE d # c
    BY <1>1, <2>2, <2>4 DEF Shape, CallerTypes
  <2> QED BY <2>3, <2>4
(* The other steps keep what a call is on. *)
<1>6. ASSUME caller'[c].on = caller[c].on, caller[c].pc # "idle",
             \A e \in Callers \ {c} : caller'[e] = caller[e],
             \/ caller[c].op \in ListOps /\ caller'[c].op \in ListOps
             \/ /\ caller[c].op \in ChartOps /\ caller'[c].op \in ChartOps
                /\ caller'[c].pc \in {"idle", "record", "send"}
             \/ /\ caller[c].op \in StatusOps /\ caller'[c].op = caller[c].op
                /\ caller'[c].pc \in {"idle", "record", "send"}
      PROVE  Shape(d)'
  BY <1>1, <1>6 DEF Shape, ListOps, ChartOps, StatusOps
<1>7. CASE CheckRunning(c) \/ ReadSymbols(c) \/ Hold(c) \/ Forget(c) \/ Gather(c)
  <2>1. caller[c].op \in ListOps /\ caller[c].pc # "idle"
    BY <1>1, <1>7 DEF Shape, CheckRunning, ReadSymbols, Hold, Forget, Gather
  <2>2. /\ caller'[c].op = caller[c].op /\ caller'[c].on = caller[c].on
        /\ \A e \in Callers \ {c} : caller'[e] = caller[e]
    BY <1>7 DEF CheckRunning, ReadSymbols, Hold, Forget, Gather, Goto, SetHeld, CallerTypes, CallerRec
  <2> QED BY <1>6, <2>1, <2>2
<1>8. ASSUME End(c), caller[c].pc # "idle" PROVE Shape(d)'
  <2>1. PICK pc \in {"idle", "forget"}, op \in {caller[c].op, "drop"} :
            /\ caller' = [caller EXCEPT ![c].pc = pc, ![c].op = op]
            /\ \/ caller[c].op = "undo"
               \/ op = caller[c].op /\ pc = "idle"
    BY <1>8 DEF End, CallerTypes
  <2>2. /\ caller'[c].pc = pc /\ caller'[c].op = op /\ caller'[c].on = caller[c].on
        /\ \A e \in Callers \ {c} : caller'[e] = caller[e]
    BY <2>1 DEF CallerTypes, CallerRec
  <2> QED BY <1>1, <1>6, <1>8, <2>1, <2>2 DEF Shape, ListOps
<1>9. CASE Record(c)
  <2>1. CASE End(c)
    BY <1>8, <1>9, <2>1 DEF Record
  <2>2. CASE caller' = [caller EXCEPT ![c].pc = "send", ![c].age = stamps.version[SlotOf(c)] + 1]
    <3>1. /\ caller'[c].pc = "send" /\ caller'[c].op = caller[c].op /\ caller'[c].on = caller[c].on
          /\ \A e \in Callers \ {c} : caller'[e] = caller[e]
      BY <2>2 DEF CallerTypes, CallerRec
    <3>2. caller[c].pc # "idle"
      BY <1>9 DEF Record
    <3> QED BY <1>1, <1>6, <3>1, <3>2 DEF Shape
  <2> QED BY <1>9, <2>1, <2>2 DEF Record
<1>10. CASE Send(c)
  BY <1>8, <1>10 DEF Send
<1>11. CASE SendFails(c)
  <2>1. PICK pc \in {"forget", "record", "idle"}, op \in {caller[c].op, "undo", "drop", "unchart"} :
            /\ caller' = [caller EXCEPT ![c].pc = pc, ![c].op = op]
            /\ \/ caller[c].op \in {"activate", "undo"} /\ op \in {"undo", "drop"}
               \/ caller[c].op = "chart" /\ op = "unchart" /\ pc = "record"
               \/ op = caller[c].op /\ pc = "idle"
    BY <1>11 DEF SendFails
  <2>2. /\ caller'[c].pc = pc /\ caller'[c].op = op /\ caller'[c].on = caller[c].on
        /\ \A e \in Callers \ {c} : caller'[e] = caller[e]
    BY <2>1 DEF CallerTypes, CallerRec
  <2>3. caller[c].pc # "idle"
    BY <1>11 DEF SendFails
  <2> QED BY <1>1, <1>6, <2>1, <2>2, <2>3 DEF Shape, ListOps, ChartOps
<1> QED
  BY <1>3, <1>4, <1>5, <1>7, <1>9, <1>10, <1>11 DEF CallStart, CallStep

LEMMA ShapesInit == Init => Shapes
  BY DEF Init, Idle, Shapes, Shape, ListOps, ChartOps, StatusOps

(* The steps of Subscriptions and those of Resync: nothing else changes any  *)
(* state of Subscriptions but the answers still to be handled.              *)
AllButInbox == <<load, intents, recorded, caller, conn, resend, server, losses, stamps, history>>
Step == Next \/ UNCHANGED AllButInbox

LEMMA SubscriptionSteps == [Next]_vars => Step
  BY DEF Step, AllButInbox, vars, wires

LEMMA ResyncSteps == [ResyncNext]_<<vars, resyncVars>> => Step
<1>1. CASE UNCHANGED vars
  BY <1>1, SubscriptionSteps
<1>2. CASE HandlerStep
  <2>1. CASE TakeFrame
    BY <2>1 DEF TakeFrame, Step, AllButInbox
  <2>2. CASE StartBuffering
    BY <2>2 DEF StartBuffering, Step, Next, Channels
  <2>3. CASE AppendDiffs \/ LookPending \/ Complete
    BY <1>1, <2>3 DEF AppendDiffs, LookPending, Complete
  <2> QED BY <1>2, <2>1, <2>2, <2>3 DEF HandlerStep
<1>3. CASE OtherStep
  BY <1>3 DEF OtherStep, Step, Next, Channels
<1> QED BY <1>1, <1>2, <1>3 DEF ResyncNext

(* The type invariant is kept, and with it what a call is on. *)
LEMMA TypesStep ==
    ASSUME SubscriptionTypes, Shapes, Step
    PROVE  SubscriptionTypes' /\ Shapes'
<1>1. CASE UNCHANGED AllButInbox
  BY <1>1 DEF AllButInbox, intents, history, SubscriptionTypes, IntentTypes, CallerTypes, WireTypes,
              StampTypes, Shapes, Shape
<1>2. ASSUME NEW c \in Callers, CallStart(c) \/ CallStep(c)
      PROVE  SubscriptionTypes' /\ Shapes'
  BY <1>2, ShapesStep, CallStartTypes, QuietCallTypes, RecordTypes, SendTypes, SendFailsTypes DEF CallStep
<1>3. ASSUME NEW ch \in Channels, ConnStep(ch) \/ Notice(ch)
      PROVE  SubscriptionTypes' /\ Shapes'
  <2>1. SubscriptionTypes'
    BY <1>3, LoseTypes, OpenIs, InstallIs, NoticeIs, FlushIs, ResendIs DEF ConnStep
  <2>2. caller' = caller
    BY <1>3 DEF ConnStep, Lose, Open, Install, Notice, Flush, Resend
  <2> QED BY <2>1, <2>2 DEF Shapes, Shape
<1> QED BY <1>1, <1>2, <1>3 DEF Next, Step

-----------------------------------------------------------------------------
(***************************************************************************)
(* ServerFollows.  A message on its way belongs to its connection; it is    *)
(* the request recorded, or an older one.                                  *)
(***************************************************************************)
Box(ch) ==
    Elems(conn[ch].queue) \cup Elems(conn[ch].flush)
      \cup Elems(resend[ch]["open"]) \cup Elems(resend[ch]["notify"])
Sent == {MessageOf(c) : c \in {d \in Callers : caller[d].pc = "send"}}
Pool == (UNION {Box(ch) : ch \in Channels}) \cup Sent

Right(m) ==
    /\ m \in MessageRec
    /\ m.age <= stamps.version[m.slot]
    /\ m.age = stamps.version[m.slot] => m.val = recorded[m.slot]

PoolRight == \A m \in Pool : Right(m)
BoxesRight == \A ch \in Channels : \A m \in Box(ch) : ChannelOf(m.slot) = ch

(* What was written is not newer than what is recorded, and the server knows *)
(* what was written.                                                       *)
ServerRight ==
    \A s \in Slots :
        /\ stamps.write[s] <= stamps.writeMost[s] /\ stamps.writeMost[s] <= stamps.version[s]
        /\ stamps.write[s] = stamps.version[s] => server[s] = recorded[s]
        /\ stamps.version[s] = 0 => recorded[s] = None

(* The queue is for a connection that is not up, the flush for one that is.  *)
QueuesUsed ==
    \A ch \in Channels :
        Elems(IF Connected(ch) THEN conn[ch].queue ELSE conn[ch].flush) = {}

(* The request recorded last is never lost: it was written on this           *)
(* connection, is on its way, was dropped, or a new connection brings it.   *)
Awaits(ch) == conn[ch].state \in {"down", "left"}
InPool(s) == \E m \in Pool : m.slot = s /\ m.age = stamps.version[s]
NeverLost ==
    \A s \in Slots :
        \/ Awaits(ChannelOf(s)) \/ s \in dropped \/ stamps.writeMost[s] = stamps.version[s]
        \/ InPool(s)

WireInv == PoolRight /\ BoxesRight /\ ServerRight /\ QueuesUsed /\ NeverLost

LEMMA WireInit == Init => WireInv
<1> SUFFICES ASSUME Init PROVE WireInv
  OBVIOUS
<1>1. \A ch \in Channels : /\ conn[ch].queue = <<>> /\ conn[ch].flush = <<>>
                           /\ resend[ch]["open"] = <<>> /\ resend[ch]["notify"] = <<>>
  BY DEF Init, Tasks
<1>2. \A ch \in Channels : Box(ch) = {}
  BY <1>1, ElemsOfEmpty DEF Box
<1>3. Sent = {}
  BY DEF Sent, Init, Idle
<1>4. Pool = {}
  BY <1>2, <1>3 DEF Pool
<1>5. PoolRight /\ BoxesRight /\ QueuesUsed
  BY <1>1, <1>2, <1>4, ElemsOfEmpty DEF PoolRight, BoxesRight, QueuesUsed
<1>6. ServerRight /\ NeverLost
  BY DEF Init, ServerRight, NeverLost
<1> QED BY <1>5, <1>6 DEF WireInv

(* A step that records nothing keeps the requests known as long as what     *)
(* leaves the pool was written, dropped, or waits for a new connection.     *)
LEMMA PoolKept ==
    ASSUME SubscriptionTypes, SubscriptionTypes', PoolRight, NeverLost, ServerRight',
           UNCHANGED recorded, stamps'.version = stamps.version, dropped \subseteq dropped',
           \A ch \in Channels : Awaits(ch) => Awaits(ch)',
           \A s \in Slots : stamps.writeMost[s] <= stamps'.writeMost[s],
           \A m \in Pool' : m \in Pool \/ Right(m)',
           \A m \in Pool \ Pool' : \/ Awaits(ChannelOf(m.slot))' \/ m.slot \in dropped'
                                   \/ m.age <= stamps'.writeMost[m.slot]
    PROVE  PoolRight' /\ NeverLost'
<1>1. PoolRight'
  BY DEF PoolRight, Right
<1>2. ASSUME NEW s \in Slots
      PROVE  \/ Awaits(ChannelOf(s))' \/ s \in dropped' \/ stamps'.writeMost[s] = stamps'.version[s]
             \/ InPool(s)'
  <2>1. /\ stamps'.writeMost[s] <= stamps.version[s] /\ stamps'.writeMost[s] \in Nat
        /\ stamps.writeMost[s] \in Nat /\ stamps.version[s] \in Nat
    BY DEF ServerRight, SubscriptionTypes, StampTypes, Ages
  <2>2. CASE Awaits(ChannelOf(s)) \/ s \in dropped
    BY <2>2 DEF ChannelOf, Channels
  <2>3. CASE stamps.writeMost[s] = stamps.version[s]
    BY <2>1, <2>3
  <2>4. CASE InPool(s)
    <3>1. PICK m \in Pool : m.slot = s /\ m.age = stamps.version[s]
      BY <2>4 DEF InPool
    <3>2. CASE m \in Pool'
      BY <3>1, <3>2 DEF InPool
    <3>3. CASE m \notin Pool'
      BY <2>1, <3>1, <3>3
    <3> QED BY <3>2, <3>3
  <2> QED BY <2>2, <2>3, <2>4 DEF NeverLost
<1> QED BY <1>1, <1>2 DEF NeverLost

(* The calls and the first steps of a call leave the wire alone. *)
LEMMA QuietWire ==
    ASSUME SubscriptionTypes, SubscriptionTypes', WireInv, NEW c \in Callers,
           UNCHANGED <<recorded, conn, resend, server, dropped>>,
           stamps'.version = stamps.version, stamps'.write = stamps.write,
           stamps'.writeMost = stamps.writeMost,
           caller[c].pc # "send", caller'[c].pc # "send",
           \A d \in Callers \ {c} : caller'[d] = caller[d]
    PROVE  WireInv'
<1>1. Sent' = Sent
  BY DEF Sent, MessageOf, SlotOf, Request
<1>2. \A ch \in Channels : Box(ch)' = Box(ch)
  BY DEF Box
<1>3. Pool' = Pool
  BY <1>1, <1>2 DEF Pool
<1>4. ServerRight'
  BY DEF WireInv, ServerRight
<1>5. BoxesRight' /\ QueuesUsed'
  BY <1>2 DEF WireInv, BoxesRight, QueuesUsed, Connected
<1>6. \A ch \in Channels : Awaits(ch) => Awaits(ch)'
  BY DEF Awaits
<1>7. \A s \in Slots : stamps.writeMost[s] <= stamps'.writeMost[s]
  BY StampFields DEF SubscriptionTypes
<1> QED BY <1>3, <1>4, <1>5, <1>6, <1>7, PoolKept DEF WireInv

LEMMA WrittenServer ==
    ASSUME SubscriptionTypes, ServerRight, NEW m, Right(m), Written(m), UNCHANGED recorded
    PROVE  /\ ServerRight'
           /\ \A s \in Slots : stamps.writeMost[s] <= stamps'.writeMost[s]
           /\ m.age <= stamps'.writeMost[m.slot] /\ stamps'.version = stamps.version
<1>1. m \in MessageRec /\ m.slot \in Slots /\ m.age \in Nat
  BY DEF Right, MessageRec
<1>2. /\ server' = [server EXCEPT ![m.slot] = m.val]
      /\ stamps'.write = [stamps.write EXCEPT ![m.slot] = m.age]
      /\ stamps'.writeMost = [stamps.writeMost EXCEPT ![m.slot] = stamps'.writeMost[m.slot]]
      /\ stamps'.writeMost[m.slot] \in {stamps.writeMost[m.slot], m.age}
      /\ stamps'.writeMost[m.slot] >= stamps.writeMost[m.slot]
      /\ stamps'.writeMost[m.slot] >= m.age
      /\ stamps'.version = stamps.version
  BY <1>1, WrittenIs
<1>3. \A s \in Slots : /\ stamps.write[s] \in Nat /\ stamps.writeMost[s] \in Nat
                       /\ stamps.version[s] \in Nat
  BY StampFields DEF SubscriptionTypes
<1>4. ASSUME NEW s \in Slots, s # m.slot
      PROVE  /\ stamps'.write[s] = stamps.write[s] /\ stamps'.writeMost[s] = stamps.writeMost[s]
             /\ server'[s] = server[s]
  BY <1>2, <1>4 DEF SubscriptionTypes, StampTypes, Ages, WireTypes
<1>5. stamps'.write[m.slot] = m.age /\ server'[m.slot] = m.val
  BY <1>1, <1>2 DEF SubscriptionTypes, StampTypes, Ages, WireTypes
<1>6. ServerRight'
  <2> SUFFICES ASSUME NEW s \in Slots
               PROVE  /\ stamps'.write[s] <= stamps'.writeMost[s]
                      /\ stamps'.writeMost[s] <= stamps.version[s]
                      /\ stamps'.write[s] = stamps.version[s] => server'[s] = recorded[s]
                      /\ stamps.version[s] = 0 => recorded[s] = None
    BY <1>2 DEF ServerRight
  <2>1. CASE s = m.slot
    BY <1>1, <1>2, <1>3, <1>5, <2>1 DEF ServerRight, Right
  <2>2. CASE s # m.slot
    BY <1>4, <2>2 DEF ServerRight
  <2> QED BY <2>1, <2>2
<1>7. \A s \in Slots : stamps.writeMost[s] <= stamps'.writeMost[s]
  BY <1>2, <1>3, <1>4
<1> QED BY <1>2, <1>6, <1>7

(* What is delivered is written, or goes to the queue of its connection. *)
LEMMA DeliverWire ==
    ASSUME SubscriptionTypes, ServerRight, NEW m, Right(m), Deliver(m), UNCHANGED recorded
    PROVE  /\ ServerRight' /\ stamps'.version = stamps.version /\ dropped \subseteq dropped'
           /\ \A s \in Slots : stamps.writeMost[s] <= stamps'.writeMost[s]
           /\ \A k \in Channels :
                 /\ conn'[k].state = conn[k].state /\ conn'[k].flush = conn[k].flush
                 /\ \A x \in Elems(conn'[k].queue) :
                       x \in Elems(conn[k].queue) \/ (x = m /\ k = ChannelOf(m.slot) /\ ~Connected(k))
                 /\ \A x \in Elems(conn[k].queue) : x \in Elems(conn'[k].queue) \/ x.slot \in dropped'
           /\ m \in Elems(conn'[ChannelOf(m.slot)].queue) \/ m.age <= stamps'.writeMost[m.slot]
<1>1. m \in MessageRec
  BY DEF Right
<1>2. CASE Connected(ChannelOf(m.slot))
  <2>1. Written(m) /\ conn' = conn /\ dropped' = dropped
    BY <1>2 DEF Deliver
  <2> QED BY <2>1, WrittenServer
<1>3. CASE ~Connected(ChannelOf(m.slot))
  <2> DEFINE ch == ChannelOf(m.slot)
  <2>1. /\ server' = server /\ stamps' = stamps /\ conn' \in [Channels -> ConnRec]
        /\ conn' = [conn EXCEPT ![ch].queue = conn'[ch].queue]
        /\ m \in Elems(conn'[ch].queue)
        /\ Elems(conn'[ch].queue) \subseteq Elems(conn[ch].queue) \cup {m}
        /\ dropped \subseteq dropped'
        /\ \A k \in Elems(conn[ch].queue) \ Elems(conn'[ch].queue) : k.slot \in dropped'
    BY <1>1, <1>3, QueuedIs
  <2>2. ServerRight'
    BY <2>1 DEF ServerRight
  <2>3. \A s \in Slots : stamps.writeMost[s] <= stamps'.writeMost[s]
    BY <2>1, StampFields DEF SubscriptionTypes
  <2> HIDE DEF ch
  <2>4. \A k \in Channels :
            /\ conn'[k].state = conn[k].state /\ conn'[k].flush = conn[k].flush
            /\ k # ch => conn'[k].queue = conn[k].queue
    <3> DEFINE q == conn'[ch].queue
    <3>1. conn' = [conn EXCEPT ![ch].queue = q]
      BY <2>1
    <3>2. conn \in [Channels -> ConnRec]
      BY DEF SubscriptionTypes, WireTypes
    <3> HIDE DEF q
    <3>3. ASSUME NEW r \in ConnRec
          PROVE  [r EXCEPT !.queue = q].state = r.state /\ [r EXCEPT !.queue = q].flush = r.flush
      BY DEF ConnRec
    <3>4. \A k \in Channels : conn'[k] = IF k = ch THEN [conn[k] EXCEPT !.queue = q] ELSE conn[k]
      BY <3>1, <3>2
    <3> QED BY <3>2, <3>3, <3>4
  <2> QED BY <1>3, <2>1, <2>2, <2>3, <2>4 DEF ch
<1> QED BY <1>2, <1>3

LEMMA RecordWire ==
    ASSUME SubscriptionTypes, SubscriptionTypes', Shapes, WireInv, NEW c \in Callers, Record(c)
    PROVE  WireInv'
<1> DEFINE slot == SlotOf(c)
<1>1. slot \in Slots
  BY RequestTypes DEF SubscriptionTypes
<1>2. /\ UNCHANGED <<conn, resend, server, dropped>>
      /\ stamps'.write = stamps.write /\ stamps'.writeMost = stamps.writeMost
      /\ stamps'.version = [stamps.version EXCEPT ![slot] = IF Skips(c) THEN @ ELSE @ + 1]
      /\ recorded' = [recorded EXCEPT ![slot] = IF Skips(c) THEN @ ELSE Request(c)]
      /\ caller[c].pc = "record"
  BY RecordIs DEF Record, wires
<1>3. CASE Skips(c)
  <2>1. stamps'.version = stamps.version /\ recorded' = recorded
    BY <1>2, <1>3 DEF SubscriptionTypes, StampTypes, Ages, WireTypes
  <2>2. End(c)
    BY <1>3 DEF Record
  <2>3. caller'[c].pc # "send" /\ \A d \in Callers \ {c} : caller'[d] = caller[d]
    BY <1>2, <2>2, EndTypes DEF Shapes, Shape
  <2> QED BY <1>2, <2>1, <2>3, QuietWire
<1>4. CASE ~Skips(c)
  <2>1. /\ stamps'.version[slot] = stamps.version[slot] + 1 /\ recorded'[slot] = Request(c)
        /\ \A s \in Slots \ {slot} : stamps'.version[s] = stamps.version[s] /\ recorded'[s] = recorded[s]
    BY <1>1, <1>2, <1>4 DEF SubscriptionTypes, StampTypes, Ages, WireTypes
  <2>2. /\ \A s \in Slots : stamps.version[s] \in Nat /\ stamps.writeMost[s] \in Nat
                            /\ stamps.write[s] \in Nat
    BY StampFields DEF SubscriptionTypes
  <2> DEFINE age == stamps.version[slot] + 1
             m == MessageOf(c)'
  <2>3. caller' = [caller EXCEPT ![c].pc = "send", ![c].age = age]
    BY <1>4 DEF Record
  <2> HIDE DEF age
  <2>4. /\ caller'[c].pc = "send" /\ caller'[c].age = age /\ caller'[c].op = caller[c].op
        /\ caller'[c].val = caller[c].val
        /\ \A d \in Callers \ {c} : caller'[d] = caller[d]
    BY <2>3 DEF SubscriptionTypes, CallerTypes, CallerRec
  <2>5. m = Message(slot, Request(c), age)
    BY <2>4 DEF MessageOf, SlotOf, Request
  <2>6. \A d \in Callers \ {c} : MessageOf(d)' = MessageOf(d)
    BY <2>4 DEF MessageOf, SlotOf, Request
  <2>7. m \in Sent' /\ \A x : x \in Sent' <=> x \in Sent \/ x = m
    <3>1. m \in Sent'
      BY <2>4 DEF Sent
    <3>2. ASSUME NEW x \in Sent' PROVE x \in Sent \/ x = m
      <4>1. PICK d \in Callers : caller'[d].pc = "send" /\ x = MessageOf(d)'
        BY DEF Sent
      <4> QED BY <2>4, <2>6, <4>1 DEF Sent
    <3>3. ASSUME NEW x \in Sent PROVE x \in Sent'
      <4>1. PICK d \in Callers : caller[d].pc = "send" /\ x = MessageOf(d)
        BY DEF Sent
      <4>2. d # c
        BY <1>2, <4>1
      <4> QED BY <2>4, <2>6, <4>1, <4>2 DEF Sent
    <3> QED BY <3>1, <3>2, <3>3
  <2>8. \A ch \in Channels : Box(ch)' = Box(ch)
    BY <1>2 DEF Box
  <2>9. m \in Pool' /\ \A x : x \in Pool' <=> x \in Pool \/ x = m
    BY <2>7, <2>8 DEF Pool
  <2>10. m \in MessageRec /\ m.slot = slot /\ m.age = age /\ m.val = Request(c)
    BY <1>1, <2>2, <2>5, RequestTypes DEF Message, MessageRec, SubscriptionTypes, age
  <2> HIDE DEF m, slot
  <2>11. PoolRight'
    <3> SUFFICES ASSUME NEW x \in Pool' PROVE Right(x)'
      BY DEF PoolRight
    <3>1. CASE x = m
      BY <2>1, <2>2, <2>10, <3>1, <1>1 DEF Right, age
    <3>2. CASE x \in Pool
      <4>1. Right(x) /\ x.slot \in Slots /\ x.age \in Nat
        BY <3>2 DEF WireInv, PoolRight, Right, MessageRec
      <4> QED BY <1>1, <2>1, <2>2, <4>1 DEF Right
    <3> QED BY <2>9, <3>1, <3>2
  <2>12. NeverLost'
    <3> SUFFICES ASSUME NEW s \in Slots
                 PROVE  \/ Awaits(ChannelOf(s))' \/ s \in dropped'
                        \/ stamps'.writeMost[s] = stamps'.version[s] \/ InPool(s)'
      BY DEF NeverLost
    <3>1. CASE s = slot
      BY <2>1, <2>9, <2>10, <3>1 DEF InPool, age
    <3>2. CASE s # slot
      <4>1. stamps'.version[s] = stamps.version[s]
        BY <2>1, <3>2
      <4>2. InPool(s) => InPool(s)'
        BY <2>9, <4>1 DEF InPool
      <4>3. Awaits(ChannelOf(s)) => Awaits(ChannelOf(s))'
        BY <1>2 DEF Awaits
      <4> QED BY <1>2, <4>1, <4>2, <4>3 DEF WireInv, NeverLost
    <3> QED BY <3>1, <3>2
  <2>13. ServerRight'
    <3> SUFFICES ASSUME NEW s \in Slots
                 PROVE  /\ stamps'.write[s] <= stamps'.writeMost[s]
                        /\ stamps'.writeMost[s] <= stamps'.version[s]
                        /\ stamps'.write[s] = stamps'.version[s] => server'[s] = recorded'[s]
                        /\ stamps'.version[s] = 0 => recorded'[s] = None
      BY DEF ServerRight
    <3>1. /\ stamps.write[s] <= stamps.writeMost[s] /\ stamps.writeMost[s] <= stamps.version[s]
          /\ stamps.write[s] = stamps.version[s] => server[s] = recorded[s]
          /\ stamps.version[s] = 0 => recorded[s] = None
      BY DEF WireInv, ServerRight
    <3>2. CASE s = slot
      BY <1>2, <2>1, <2>2, <3>1, <3>2
    <3>3. CASE s # slot
      BY <1>2, <2>1, <3>1, <3>3
    <3> QED BY <3>2, <3>3
  <2>14. BoxesRight' /\ QueuesUsed'
    BY <1>2, <2>8 DEF WireInv, BoxesRight, QueuesUsed, Connected
  <2> QED BY <2>11, <2>12, <2>13, <2>14 DEF WireInv
<1> QED BY <1>3, <1>4

(* A caller that is done with its message is out of the pool with it only.   *)
LEMMA SentBy ==
    ASSUME NEW c \in Callers, caller[c].pc = "send", caller'[c].pc # "send",
           \A d \in Callers \ {c} : caller'[d] = caller[d]
    PROVE  /\ MessageOf(c) \in Sent /\ Sent' \subseteq Sent
           /\ \A m \in Sent : m = MessageOf(c) \/ m \in Sent'
<1>1. \A d \in Callers \ {c} : MessageOf(d)' = MessageOf(d)
  BY DEF MessageOf, SlotOf, Request
<1>2. MessageOf(c) \in Sent
  BY DEF Sent
<1>3. ASSUME NEW x \in Sent' PROVE x \in Sent
  <2>1. PICK d \in Callers : caller'[d].pc = "send" /\ x = MessageOf(d)'
    BY DEF Sent
  <2> QED BY <1>1, <2>1 DEF Sent
<1>4. ASSUME NEW x \in Sent, x # MessageOf(c) PROVE x \in Sent'
  <2>1. PICK d \in Callers : caller[d].pc = "send" /\ x = MessageOf(d)
    BY DEF Sent
  <2>2. d # c
    BY <1>4, <2>1
  <2> QED BY <1>1, <2>1, <2>2 DEF Sent
<1> QED BY <1>2, <1>3, <1>4

LEMMA SendWire ==
    ASSUME SubscriptionTypes, SubscriptionTypes', Shapes, WireInv, NEW c \in Callers, Send(c)
    PROVE  WireInv'
<1> DEFINE m == MessageOf(c)
<1>1. Deliver(m) /\ UNCHANGED <<recorded, resend>> /\ caller[c].pc = "send" /\ End(c)
  BY DEF Send
<1>2. caller'[c].pc # "send" /\ \A d \in Callers \ {c} : caller'[d] = caller[d]
  BY <1>1, EndTypes DEF Shapes, Shape
<1>3. m \in Sent /\ Sent' \subseteq Sent /\ \A x \in Sent : x = m \/ x \in Sent'
  BY <1>1, <1>2, SentBy
<1>4. m \in Pool /\ Right(m) /\ ServerRight
  BY <1>3 DEF Pool, WireInv, PoolRight
<1> HIDE DEF m
<1>5. /\ ServerRight' /\ stamps'.version = stamps.version /\ dropped \subseteq dropped'
      /\ \A s \in Slots : stamps.writeMost[s] <= stamps'.writeMost[s]
      /\ \A k \in Channels :
            /\ conn'[k].state = conn[k].state /\ conn'[k].flush = conn[k].flush
            /\ \A x \in Elems(conn'[k].queue) :
                  x \in Elems(conn[k].queue) \/ (x = m /\ k = ChannelOf(m.slot) /\ ~Connected(k))
            /\ \A x \in Elems(conn[k].queue) : x \in Elems(conn'[k].queue) \/ x.slot \in dropped'
      /\ m \in Elems(conn'[ChannelOf(m.slot)].queue) \/ m.age <= stamps'.writeMost[m.slot]
  BY <1>1, <1>4, DeliverWire
<1>6. resend' = resend /\ ChannelOf(m.slot) \in Channels
  BY <1>1 DEF ChannelOf, Channels
<1>7. ASSUME NEW ch \in Channels, NEW x \in Box(ch)'
      PROVE  x \in Box(ch) \/ (x = m /\ ch = ChannelOf(m.slot))
  BY <1>5, <1>6 DEF Box
<1>8. ASSUME NEW ch \in Channels, NEW x \in Box(ch) PROVE x \in Box(ch)' \/ x.slot \in dropped'
  BY <1>5, <1>6 DEF Box
<1>9. m \in Pool' \/ m.age <= stamps'.writeMost[m.slot]
  BY <1>5, <1>6 DEF Pool, Box
<1>10. PoolRight' /\ NeverLost'
  <2>1. \A x \in Pool' : x \in Pool
    BY <1>3, <1>4, <1>7 DEF Pool
  <2>2. \A x \in Pool \ Pool' : x.slot \in dropped' \/ x.age <= stamps'.writeMost[x.slot]
    BY <1>3, <1>8, <1>9 DEF Pool
  <2>3. \A ch \in Channels : Awaits(ch) => Awaits(ch)'
    BY <1>5 DEF Awaits
  <2> QED BY <1>1, <1>5, <2>1, <2>2, <2>3, PoolKept DEF WireInv
<1>11. BoxesRight'
  BY <1>7 DEF BoxesRight, WireInv
<1>12. QueuesUsed'
  BY <1>5 DEF QueuesUsed, WireInv, Connected
<1> QED BY <1>5, <1>10, <1>11, <1>12 DEF WireInv

(* A connection that breaks keeps its messages; what was being sent to it    *)
(* waits for the next one.                                                 *)
LEMMA BrokenWire ==
    ASSUME SubscriptionTypes, SubscriptionTypes', WireInv, NEW ch \in Channels, conn' = Broken(ch),
           UNCHANGED <<recorded, resend, server, dropped, stamps>>,
           Sent' \subseteq Sent, \A m \in Sent \ Sent' : ChannelOf(m.slot) = ch
    PROVE  WireInv'
<1>1. /\ \A k \in Channels \ {ch} : conn'[k] = conn[k]
      /\ conn'[ch].state \in {"down", "left"}
      /\ Elems(conn'[ch].queue) = Elems(conn[ch].queue) \cup Elems(conn[ch].flush)
      /\ Elems(conn'[ch].flush) = {}
  BY BrokenIs DEF SubscriptionTypes
<1>2. \A k \in Channels : Box(k)' = Box(k)
  BY <1>1 DEF Box
<1>3. ServerRight'
  BY DEF WireInv, ServerRight
<1>4. PoolRight' /\ NeverLost'
  <2>1. \A x \in Pool' : x \in Pool
    BY <1>2 DEF Pool
  <2>2. \A x \in Pool \ Pool' : Awaits(ChannelOf(x.slot))'
    BY <1>1, <1>2 DEF Pool, Awaits
  <2>3. \A k \in Channels : Awaits(k) => Awaits(k)'
    BY <1>1 DEF Awaits
  <2>4. \A s \in Slots : stamps.writeMost[s] <= stamps'.writeMost[s]
    BY StampFields DEF SubscriptionTypes
  <2> QED BY <1>3, <2>1, <2>2, <2>3, <2>4, PoolKept DEF WireInv
<1>5. BoxesRight'
  BY <1>2 DEF BoxesRight, WireInv
<1>6. QueuesUsed'
  BY <1>1 DEF QueuesUsed, WireInv, Connected
<1> QED BY <1>3, <1>4, <1>5, <1>6 DEF WireInv

LEMMA LoseWire ==
    ASSUME SubscriptionTypes, SubscriptionTypes', WireInv, NEW ch \in Channels, Lose(ch)
    PROVE  WireInv'
<1>1. /\ UNCHANGED <<recorded, resend, server, dropped, stamps, caller>>
      /\ conn' = Broken(ch)
  BY DEF Lose, history
<1>2. Sent' = Sent
  BY <1>1 DEF Sent, MessageOf, SlotOf, Request
<1> QED BY <1>1, <1>2, BrokenWire

LEMMA SendFailsWire ==
    ASSUME SubscriptionTypes, SubscriptionTypes', Shapes, WireInv, NEW c \in Callers, SendFails(c)
    PROVE  WireInv'
<1> DEFINE ch == ChannelOf(SlotOf(c))
<1>1. /\ UNCHANGED <<recorded, resend, server, dropped, stamps>>
      /\ conn' = Broken(ch) /\ caller[c].pc = "send"
  BY DEF SendFails
<1>2. PICK pc \in {"forget", "record", "idle"}, op \in {caller[c].op, "undo", "drop", "unchart"} :
          caller' = [caller EXCEPT ![c].pc = pc, ![c].op = op]
  BY DEF SendFails
<1>3. caller'[c].pc # "send" /\ \A d \in Callers \ {c} : caller'[d] = caller[d]
  BY <1>2 DEF SubscriptionTypes, CallerTypes, CallerRec
<1>4. Sent' \subseteq Sent /\ \A m \in Sent : m = MessageOf(c) \/ m \in Sent'
  BY <1>1, <1>3, SentBy
<1>5. ch \in Channels /\ ChannelOf(MessageOf(c).slot) = ch
  BY DEF ChannelOf, Channels, MessageOf, Message
<1> HIDE DEF ch
<1> QED BY <1>1, <1>4, <1>5, BrokenWire

(* What is resent is what is recorded. *)
LEMMA ResentIsRight ==
    ASSUME SubscriptionTypes, NEW ch \in Channels
    PROVE  /\ \A m \in Elems(Recorded(ch)) : Right(m) /\ ChannelOf(m.slot) = ch
           /\ \A s \in Slots : (ChannelOf(s) = ch /\ recorded[s] # None) =>
                 \E m \in Elems(Recorded(ch)) : m.slot = s /\ m.age = stamps.version[s]
<1>1. \A s \in Slots : /\ stamps.version[s] \in Nat /\ recorded[s] \in Values
  BY StampFields DEF SubscriptionTypes, WireTypes
<1>2. ASSUME NEW m \in Elems(Recorded(ch))
      PROVE  Right(m) /\ ChannelOf(m.slot) = ch
  <2>1. PICK s \in Slots : ChannelOf(s) = ch /\ m = Message(s, recorded[s], stamps.version[s])
    BY RecordedIs
  <2> QED BY <1>1, <2>1 DEF Right, Message, MessageRec
<1>3. ASSUME NEW s \in Slots, ChannelOf(s) = ch, recorded[s] # None
      PROVE  \E m \in Elems(Recorded(ch)) : m.slot = s /\ m.age = stamps.version[s]
  <2>1. Message(s, recorded[s], stamps.version[s]) \in Elems(Recorded(ch))
    BY <1>3, RecordedIs
  <2> QED BY <2>1 DEF Message
<1> QED BY <1>2, <1>3

LEMMA NoticeWire ==
    ASSUME SubscriptionTypes, SubscriptionTypes', WireInv, NEW ch \in Channels, Notice(ch)
    PROVE  WireInv'
<1>1. /\ \A k \in Channels : /\ conn'[k].state = conn[k].state /\ conn'[k].queue = conn[k].queue
                              /\ conn'[k].flush = conn[k].flush
      /\ \A k \in Channels \ {ch} : resend'[k] = resend[k]
      /\ resend[ch]["notify"] = <<>> /\ resend'[ch]["notify"] = Recorded(ch)
      /\ resend'[ch]["open"] = resend[ch]["open"]
  BY NoticeIs
<1>2. UNCHANGED <<recorded, caller, server, stamps, dropped>>
  BY DEF Notice, history
<1>3. \A k \in Channels : Box(k)' = Box(k) \cup (IF k = ch THEN Elems(Recorded(ch)) ELSE {})
  BY <1>1, ElemsOfEmpty DEF Box
<1>4. Sent' = Sent
  BY <1>2 DEF Sent, MessageOf, SlotOf, Request
<1>5. ServerRight'
  BY <1>2 DEF WireInv, ServerRight
<1>6. PoolRight' /\ NeverLost'
  <2>1. \A x \in Pool' : x \in Pool \/ Right(x)'
    <3>1. \A x \in Pool' : x \in Pool \/ Right(x)
      BY <1>3, <1>4, ResentIsRight DEF Pool
    <3> QED BY <1>2, <3>1 DEF Right
  <2>2. \A x \in Pool : x \in Pool'
    BY <1>3, <1>4 DEF Pool
  <2>3. \A k \in Channels : Awaits(k) => Awaits(k)'
    BY <1>1 DEF Awaits
  <2>4. \A s \in Slots : stamps.writeMost[s] <= stamps'.writeMost[s]
    BY <1>2, StampFields DEF SubscriptionTypes
  <2> QED BY <1>2, <1>5, <2>1, <2>2, <2>3, <2>4, PoolKept DEF WireInv
<1>7. BoxesRight'
  BY <1>3, ResentIsRight DEF BoxesRight, WireInv
<1>8. QueuesUsed'
  BY <1>1 DEF QueuesUsed, WireInv, Connected
<1> QED BY <1>5, <1>6, <1>7, <1>8 DEF WireInv

LEMMA OpenWire ==
    ASSUME SubscriptionTypes, SubscriptionTypes', WireInv, NEW ch \in Channels, Open(ch)
    PROVE  WireInv'
<1>1. /\ conn[ch].state = "down" /\ conn'[ch].state = "open"
      /\ conn'[ch].queue = conn[ch].queue /\ conn'[ch].flush = conn[ch].flush
      /\ \A k \in Channels \ {ch} : conn'[k] = conn[k] /\ resend'[k] = resend[k]
      /\ resend[ch]["open"] = <<>> /\ resend'[ch]["open"] = Recorded(ch)
      /\ resend'[ch]["notify"] = resend[ch]["notify"]
  BY OpenIs
<1>2. /\ server' = [s \in Slots |-> IF ChannelOf(s) = ch THEN None ELSE server[s]]
      /\ stamps'.version = stamps.version
      /\ \A s \in Slots :
            LET told == IF recorded[s] = None THEN stamps.version[s] ELSE 0 IN
            /\ stamps'.write[s] = IF ChannelOf(s) = ch THEN told ELSE stamps.write[s]
            /\ stamps'.writeMost[s] = IF ChannelOf(s) = ch THEN told ELSE stamps.writeMost[s]
  BY OpenIs
<1>3. UNCHANGED <<recorded, caller, dropped>>
  BY DEF Open, history
<1>4. \A k \in Channels : Box(k)' = Box(k) \cup (IF k = ch THEN Elems(Recorded(ch)) ELSE {})
  BY <1>1, ElemsOfEmpty DEF Box
<1>5. Sent' = Sent
  BY <1>3 DEF Sent, MessageOf, SlotOf, Request
<1>6. ServerRight'
  <2> SUFFICES ASSUME NEW s \in Slots
               PROVE  /\ stamps'.write[s] <= stamps'.writeMost[s]
                      /\ stamps'.writeMost[s] <= stamps.version[s]
                      /\ stamps'.write[s] = stamps.version[s] => server'[s] = recorded[s]
                      /\ stamps.version[s] = 0 => recorded[s] = None
    BY <1>2, <1>3 DEF ServerRight
  <2>1. stamps.version[s] \in Nat
    BY StampFields DEF SubscriptionTypes
  <2> QED BY <1>2, <2>1 DEF WireInv, ServerRight
<1>7. PoolRight'
  <2>1. \A x \in Pool' : Right(x)
    BY <1>4, <1>5, ResentIsRight DEF Pool, WireInv, PoolRight
  <2> QED BY <1>2, <1>3, <2>1 DEF PoolRight, Right
<1>8. NeverLost'
  <2> SUFFICES ASSUME NEW s \in Slots
               PROVE  \/ Awaits(ChannelOf(s))' \/ s \in dropped'
                      \/ stamps'.writeMost[s] = stamps'.version[s] \/ InPool(s)'
    BY DEF NeverLost
  <2>1. \A x \in Pool : x \in Pool'
    BY <1>4, <1>5 DEF Pool
  <2>2. CASE ChannelOf(s) = ch
    <3>1. CASE recorded[s] = None
      BY <1>2, <2>2, <3>1
    <3>2. CASE recorded[s] # None
      <4>1. PICK m \in Elems(Recorded(ch)) : m.slot = s /\ m.age = stamps.version[s]
        BY <2>2, <3>2, ResentIsRight
      <4>2. m \in Pool'
        BY <1>4 DEF Pool
      <4> QED BY <1>2, <4>1, <4>2 DEF InPool
    <3> QED BY <3>1, <3>2
  <2>3. CASE ChannelOf(s) # ch
    <3>1. Awaits(ChannelOf(s)) => Awaits(ChannelOf(s))'
      BY <1>1, <2>3 DEF Awaits, ChannelOf, Channels
    <3>2. InPool(s) => InPool(s)'
      BY <1>2, <2>1 DEF InPool
    <3> QED BY <1>2, <1>3, <2>3, <3>1, <3>2 DEF WireInv, NeverLost
  <2> QED BY <2>2, <2>3
<1>9. BoxesRight'
  BY <1>4, ResentIsRight DEF BoxesRight, WireInv
<1>10. QueuesUsed'
  BY <1>1 DEF QueuesUsed, WireInv, Connected
<1> QED BY <1>6, <1>7, <1>8, <1>9, <1>10 DEF WireInv

LEMMA InstallWire ==
    ASSUME SubscriptionTypes, SubscriptionTypes', WireInv, NEW ch \in Channels, Install(ch)
    PROVE  WireInv'
<1>1. /\ conn[ch].state = "open" /\ conn'[ch].state = "up"
      /\ conn'[ch].queue = <<>> /\ conn'[ch].flush = conn[ch].queue
      /\ \A k \in Channels \ {ch} : conn'[k] = conn[k]
  BY InstallIs
<1>2. UNCHANGED <<recorded, caller, resend, server, stamps, dropped>>
  BY DEF Install, history
<1>3. Elems(conn[ch].flush) = {}
  BY <1>1 DEF WireInv, QueuesUsed, Connected
<1>4. \A k \in Channels : Box(k)' = Box(k)
  BY <1>1, <1>2, <1>3, ElemsOfEmpty DEF Box
<1>5. Pool' = Pool
  BY <1>2, <1>4 DEF Pool, Sent, MessageOf, SlotOf, Request
<1>6. ServerRight'
  BY <1>2 DEF WireInv, ServerRight
<1>7. PoolRight' /\ NeverLost'
  <2>1. \A k \in Channels : Awaits(k) => Awaits(k)'
    BY <1>1 DEF Awaits
  <2>2. \A s \in Slots : stamps.writeMost[s] <= stamps'.writeMost[s]
    BY <1>2, StampFields DEF SubscriptionTypes
  <2> QED BY <1>2, <1>5, <1>6, <2>1, <2>2, PoolKept DEF WireInv
<1>8. BoxesRight' /\ QueuesUsed'
  BY <1>1, <1>4, ElemsOfEmpty DEF BoxesRight, QueuesUsed, WireInv, Connected
<1> QED BY <1>6, <1>7, <1>8 DEF WireInv

LEMMA FlushWire ==
    ASSUME SubscriptionTypes, SubscriptionTypes', WireInv, NEW ch \in Channels, Flush(ch)
    PROVE  WireInv'
<1> DEFINE m == Head(conn[ch].flush)
<1>1. /\ Written(m) /\ Connected(ch)
      /\ Elems(conn[ch].flush) = Elems(conn'[ch].flush) \cup {m}
      /\ conn'[ch].queue = conn[ch].queue
      /\ \A k \in Channels : conn'[k].state = conn[k].state
      /\ \A k \in Channels \ {ch} : conn'[k] = conn[k]
  BY FlushIs
<1> HIDE DEF m
<1>2. UNCHANGED <<recorded, caller, resend, dropped>>
  BY DEF Flush, history
<1>3. /\ \A k \in Channels : Box(k)' \subseteq Box(k)
      /\ \A k \in Channels : \A x \in Box(k) : x \in Box(k)' \/ x = m
      /\ m \in Box(ch)
  BY <1>1, <1>2 DEF Box
<1>4. Sent' = Sent
  BY <1>2 DEF Sent, MessageOf, SlotOf, Request
<1>5. Right(m)
  BY <1>3 DEF Pool, WireInv, PoolRight
<1>6. /\ ServerRight' /\ \A s \in Slots : stamps.writeMost[s] <= stamps'.writeMost[s]
      /\ m.age <= stamps'.writeMost[m.slot] /\ stamps'.version = stamps.version
  BY <1>1, <1>2, <1>5, WrittenServer DEF WireInv
<1>7. PoolRight' /\ NeverLost'
  <2>1. \A x \in Pool' : x \in Pool
    BY <1>3, <1>4 DEF Pool
  <2>2. \A x \in Pool \ Pool' : x = m
    BY <1>3, <1>4 DEF Pool
  <2>3. \A k \in Channels : Awaits(k) => Awaits(k)'
    BY <1>1 DEF Awaits
  <2> QED BY <1>2, <1>6, <2>1, <2>2, <2>3, PoolKept DEF WireInv
<1>8. BoxesRight'
  BY <1>3 DEF BoxesRight, WireInv
<1>9. QueuesUsed'
  BY <1>1 DEF QueuesUsed, WireInv, Connected
<1> QED BY <1>6, <1>7, <1>8, <1>9 DEF WireInv

LEMMA ResendWire ==
    ASSUME SubscriptionTypes, SubscriptionTypes', WireInv, NEW ch \in Channels, NEW t \in Tasks,
           Resend(ch, t)
    PROVE  WireInv'
<1> DEFINE m == Head(resend[ch][t])
<1>1. /\ Deliver(m) /\ Elems(resend[ch][t]) = Elems(resend'[ch][t]) \cup {m}
      /\ \A k \in Channels, u \in Tasks : (k # ch \/ u # t) => resend'[k][u] = resend[k][u]
  BY ResendIs
<1> HIDE DEF m
<1>2. UNCHANGED <<recorded, caller>>
  BY DEF Resend
<1>3. /\ m \in Box(ch)
      /\ \A k \in Channels, u \in Tasks : \A x \in Elems(resend'[k][u]) : x \in Elems(resend[k][u])
      /\ \A k \in Channels, u \in Tasks : \A x \in Elems(resend[k][u]) :
            x \in Elems(resend'[k][u]) \/ x = m
  BY <1>1 DEF Box, Tasks
<1>4. m \in Pool /\ Right(m) /\ ServerRight /\ ChannelOf(m.slot) = ch
  BY <1>3 DEF Pool, WireInv, PoolRight, BoxesRight
<1>5. /\ ServerRight' /\ stamps'.version = stamps.version /\ dropped \subseteq dropped'
      /\ \A s \in Slots : stamps.writeMost[s] <= stamps'.writeMost[s]
      /\ \A k \in Channels :
            /\ conn'[k].state = conn[k].state /\ conn'[k].flush = conn[k].flush
            /\ \A x \in Elems(conn'[k].queue) :
                  x \in Elems(conn[k].queue) \/ (x = m /\ k = ChannelOf(m.slot) /\ ~Connected(k))
            /\ \A x \in Elems(conn[k].queue) : x \in Elems(conn'[k].queue) \/ x.slot \in dropped'
      /\ m \in Elems(conn'[ChannelOf(m.slot)].queue) \/ m.age <= stamps'.writeMost[m.slot]
  BY <1>1, <1>2, <1>4, DeliverWire
<1>6. ASSUME NEW k \in Channels, NEW x \in Box(k)'
      PROVE  x \in Box(k) \/ (x = m /\ k = ch)
  BY <1>3, <1>4, <1>5 DEF Box, Tasks
<1>7. ASSUME NEW k \in Channels, NEW x \in Box(k)
      PROVE  x \in Box(k)' \/ x.slot \in dropped' \/ x = m
  BY <1>3, <1>5 DEF Box, Tasks
<1>8. m \in Pool' \/ m.age <= stamps'.writeMost[m.slot]
  BY <1>4, <1>5 DEF Pool, Box
<1>9. Sent' = Sent
  BY <1>2 DEF Sent, MessageOf, SlotOf, Request
<1>10. PoolRight' /\ NeverLost'
  <2>1. \A x \in Pool' : x \in Pool
    BY <1>4, <1>6, <1>9 DEF Pool
  <2>2. \A x \in Pool \ Pool' : x.slot \in dropped' \/ x.age <= stamps'.writeMost[x.slot]
    BY <1>7, <1>8, <1>9 DEF Pool
  <2>3. \A k \in Channels : Awaits(k) => Awaits(k)'
    BY <1>5 DEF Awaits
  <2> QED BY <1>2, <1>5, <2>1, <2>2, <2>3, PoolKept DEF WireInv
<1>11. BoxesRight'
  BY <1>4, <1>6 DEF BoxesRight, WireInv
<1>12. QueuesUsed'
  BY <1>5, <1>4 DEF QueuesUsed, WireInv, Connected
<1> QED BY <1>5, <1>10, <1>11, <1>12 DEF WireInv

LEMMA WireStep ==
    ASSUME SubscriptionTypes, SubscriptionTypes', Shapes, WireInv, Step
    PROVE  WireInv'
<1>1. CASE UNCHANGED AllButInbox
  <2>1. UNCHANGED <<recorded, caller, conn, resend, server, stamps, dropped>>
    BY <1>1 DEF AllButInbox, history
  <2>2. /\ Pool' = Pool /\ \A ch \in Channels : Box(ch)' = Box(ch)
    BY <2>1 DEF Pool, Box, Sent, MessageOf, SlotOf, Request
  <2> QED BY <2>1, <2>2 DEF WireInv, PoolRight, Right, BoxesRight, ServerRight, QueuesUsed, Connected,
                            NeverLost, Awaits, InPool
<1>2. ASSUME NEW c \in Callers, CallStart(c) PROVE WireInv'
  <2>1. UNCHANGED <<recorded, conn, resend, server, dropped>>
    BY <1>2 DEF CallStart, Activate, AddSymbol, RemoveSymbol, CloseSub, ChartOn, Refresh, ChartOff,
                ChartCall, AcquireStatus, ReleaseStatus, wires, history
  <2>2. /\ stamps'.version = stamps.version /\ stamps'.write = stamps.write
        /\ stamps'.writeMost = stamps.writeMost
    <3>1. CASE UNCHANGED stamps
      BY <3>1
    <3>2. CASE stamps' = [stamps EXCEPT !.intent["status"] = @ + 1]
      BY <3>2 DEF SubscriptionTypes, StampTypes
    <3> QED
      BY <1>2, <3>1, <3>2 DEF CallStart, Activate, AddSymbol, RemoveSymbol, CloseSub, ChartOn, Refresh,
         ChartOff, ChartCall, AcquireStatus, ReleaseStatus, CountAndList
  <2>3. caller[c].pc # "send"
    BY <1>2 DEF CallStart, Activate, AddSymbol, RemoveSymbol, CloseSub, ChartOn, Refresh,
         ChartOff, ChartCall, AcquireStatus, ReleaseStatus, MayStart
  <2>4. /\ caller'[c].pc # "send" /\ \A d \in Callers \ {c} : caller'[d] = caller[d]
    <3>1. ASSUME NEW r, caller' = [caller EXCEPT ![c] = r], r.pc # "send"
          PROVE  caller'[c].pc # "send" /\ \A d \in Callers \ {c} : caller'[d] = caller[d]
      BY <3>1 DEF SubscriptionTypes, CallerTypes
    <3>2. ASSUME NEW op, NEW on, NEW pc, Start(c, op, on, pc), pc # "send"
          PROVE  caller'[c].pc # "send" /\ \A d \in Callers \ {c} : caller'[d] = caller[d]
      <4>1. caller' = [caller EXCEPT ![c] = Started(c, op, on, pc)] /\ Started(c, op, on, pc).pc = pc
        BY <3>2 DEF Start, Started
      <4> QED BY <3>1, <3>2, <4>1
    <3>3. ASSUME NEW op, NEW x, NEW n, CountAndList(c, op, x, n)
          PROVE  caller'[c].pc # "send" /\ \A d \in Callers \ {c} : caller'[d] = caller[d]
      <4> DEFINE r == [Started(c, op, x, "record") EXCEPT !.val = Listed(n),
                                                         !.age = stamps.intent["status"] + 1]
      <4>1. caller' = [caller EXCEPT ![c] = r] /\ r.pc = "record"
        BY <3>3 DEF CountAndList, Started
      <4> QED BY <3>1, <4>1
    <3> QED BY <1>2, <3>2, <3>3 DEF CallStart, Activate, AddSymbol, RemoveSymbol, CloseSub, ChartOn,
                   Refresh, ChartOff, ChartCall, AcquireStatus, ReleaseStatus
  <2> QED BY <2>1, <2>2, <2>3, <2>4, QuietWire
<1>3. ASSUME NEW c \in Callers,
             CheckRunning(c) \/ ReadSymbols(c) \/ Hold(c) \/ Forget(c) \/ Gather(c)
      PROVE  WireInv'
  <2>1. UNCHANGED <<recorded, conn, resend, server, dropped>>
    BY <1>3 DEF CheckRunning, ReadSymbols, Hold, Forget, Gather, SetHeld, wires, history
  <2>2. /\ stamps'.version = stamps.version /\ stamps'.write = stamps.write
        /\ stamps'.writeMost = stamps.writeMost
    <3>1. CASE UNCHANGED stamps
      BY <3>1
    <3>2. CASE stamps' = [stamps EXCEPT !.intent["list"] = @ + 1]
      BY <3>2 DEF SubscriptionTypes, StampTypes
    <3> QED BY <1>3, <3>1, <3>2 DEF CheckRunning, ReadSymbols, Hold, Forget, Gather, SetHeld
  <2>3. caller[c].pc # "send"
    BY <1>3 DEF CheckRunning, ReadSymbols, Hold, Forget, Gather
  <2>4. /\ caller'[c].pc # "send" /\ \A d \in Callers \ {c} : caller'[d] = caller[d]
    BY <1>3 DEF CheckRunning, ReadSymbols, Hold, Forget, Gather, SetHeld, Goto, SubscriptionTypes,
                CallerTypes, CallerRec
  <2> QED BY <2>1, <2>2, <2>3, <2>4, QuietWire
<1>4. ASSUME NEW c \in Callers, CallStart(c) \/ CallStep(c) PROVE WireInv'
  BY <1>2, <1>3, <1>4, RecordWire, SendWire, SendFailsWire DEF CallStep
<1>5. ASSUME NEW ch \in Channels, ConnStep(ch) \/ Notice(ch) PROVE WireInv'
  BY <1>5, LoseWire, OpenWire, InstallWire, NoticeWire, FlushWire, ResendWire DEF ConnStep
<1> QED BY <1>1, <1>4, <1>5 DEF Next, Step

(* With nothing under way on a connection that is up, what was written last  *)
(* is what was recorded last, unless an older request overtook it.          *)
LEMMA WrittenLast ==
    ASSUME SubscriptionTypes, WireInv, NEW s \in Slots, Connected(ChannelOf(s)),
           AtRest(ChannelOf(s)), s \notin dropped, ~Overtaken(s)
    PROVE  stamps.write[s] = stamps.version[s] /\ server[s] = recorded[s]
<1> DEFINE ch == ChannelOf(s)
<1>1. ch \in Channels
  BY DEF ChannelOf, Channels
<1>2. Box(ch) = {}
  BY <1>1, ElemsOfEmpty DEF Box, AtRest, WireInv, QueuesUsed, Tasks
<1>3. Sent = {}
  BY DEF Sent, AtRest
<1>4. ~InPool(s)
  BY <1>2, <1>3 DEF InPool, Pool, WireInv, BoxesRight
<1>5. ~Awaits(ch)
  BY DEF Awaits, Connected
<1>6. stamps.writeMost[s] = stamps.version[s]
  BY <1>4, <1>5 DEF WireInv, NeverLost
<1>7. stamps.write[s] \in Nat /\ stamps.writeMost[s] \in Nat
  BY StampFields DEF SubscriptionTypes
<1> QED BY <1>6, <1>7 DEF Overtaken, WireInv, ServerRight

LEMMA WireInvFollows ==
    ASSUME SubscriptionTypes, WireInv
    PROVE  ServerFollows
  BY WrittenLast DEF ServerFollows

(* Whatever the losses of the connection, whatever was queued and however    *)
(* many tasks resend, the server is told the last request recorded of every *)
(* slot (websocket/quote.rs, websocket/trading_status.rs).                  *)
THEOREM ServerFollowsHolds == Spec => []ServerFollows
<1>1. Init => SubscriptionTypes /\ Shapes /\ WireInv
  BY TypesInit, WireInit, ShapesInit
<1>2. SubscriptionTypes /\ Shapes /\ WireInv /\ [Next]_vars => (SubscriptionTypes /\ Shapes /\ WireInv)'
  BY SubscriptionSteps, TypesStep, WireStep
<1>3. SubscriptionTypes /\ WireInv => ServerFollows
  BY WireInvFollows
<1> QED BY <1>1, <1>2, <1>3, PTL DEF Spec

(* So it is beside the handler that puts the answers together again         *)
(* (websocket/reconnect.rs).                                                *)
THEOREM ServerFollowsResync == ResyncSpec => []ServerFollows
<1>1. ResyncInit => SubscriptionTypes /\ Shapes /\ WireInv
  BY TypesInit, WireInit, ShapesInit DEF ResyncInit
<1>2. SubscriptionTypes /\ Shapes /\ WireInv /\ [ResyncNext]_<<vars, resyncVars>>
        => (SubscriptionTypes /\ Shapes /\ WireInv)'
  BY ResyncSteps, TypesStep, WireStep
<1>3. SubscriptionTypes /\ WireInv => ServerFollows
  BY WireInvFollows
<1> QED BY <1>1, <1>2, <1>3, PTL DEF ResyncSpec

-----------------------------------------------------------------------------
(***************************************************************************)
(* IntentRecorded, in three parts: what a call under way on a subscription, *)
(* on the chart or on a symbol still has to do.                            *)
(***************************************************************************)
Busy(c, s) == caller[c].pc # "idle" /\ caller[c].on = s
CallsOn(s) == {c \in Callers : Busy(c, s) /\ caller[c].op \in ListOps}
ChartCalls == {c \in Callers : caller[c].pc # "idle" /\ caller[c].op \in ChartOps}

HeldRight(s) == held[s] = IF subs[s].running THEN subs[s].symbols ELSE None

(* What a call on a subscription still does makes the symbols held right.   *)
CallRight(c) ==
    LET s == caller[c].on IN
    /\ caller[c].pc = "running" => (~subs[s].running => held[s] = None)
    /\ caller[c].pc \in {"symbols", "hold"} => subs[s].running
    /\ caller[c].pc = "hold" => caller[c].val = subs[s].symbols
    /\ caller[c].pc = "forget" => ~subs[s].running
    /\ caller[c].op \in {"close", "undo", "drop"} => ~subs[s].running
    /\ caller[c].pc \in {"gather", "record", "send"} => HeldRight(s)

SubInv(s) ==
    /\ \A c, d \in CallsOn(s) : c = d
    /\ \A c \in CallsOn(s) : CallRight(c)
    /\ CallsOn(s) = {} => HeldRight(s)

SubsInv == \A s \in Subs \ crossed : SubInv(s)

ChartRight == recorded["chart"] = "on" <=> chart.running

ChartInv ==
    /\ chart.unsubscribed => ~chart.running
    /\ "chart" \notin crossed =>
          /\ \A c, d \in ChartCalls : c = d
          /\ \A c \in ChartCalls :
                /\ caller[c].pc = "record" => (chart.running <=> caller[c].op # "unchart")
                /\ caller[c].pc = "send" => ChartRight
          /\ ChartCalls = {} => ChartRight

(* The calls that took a count for a receiver still to be made. *)
Acquiring(x) ==
    {c \in Callers : caller[c].op = "acquire" /\ caller[c].on = x /\ caller[c].pc \in {"record", "send"}}

CountsInv == \A x \in Symbols : counts[x] = receivers[x] + leaked[x] + Cardinality(Acquiring(x))

(* A list that is as old as the intent is the list wanted now; when none of  *)
(* that age was recorded yet, a call is about to.                          *)
WantedOf(slot) == IF slot = "list" THEN Wanted ELSE Listed(counts)

Recording(slot, c) ==
    SlotOf(c) = slot /\ \/ caller[c].pc = "gather"
                        \/ caller[c].pc = "record" /\ caller[c].age = stamps.intent[slot]

ListInv(slot) ==
    /\ stamps.record[slot] <= stamps.recordMost[slot]
    /\ stamps.recordMost[slot] <= stamps.intent[slot]
    /\ \A c \in Callers : (caller[c].pc = "record" /\ SlotOf(c) = slot) =>
          /\ caller[c].age <= stamps.intent[slot]
          /\ caller[c].val \in SUBSET Symbols
          /\ caller[c].age = stamps.intent[slot] => caller[c].val = WantedOf(slot)
    /\ stamps.record[slot] = stamps.intent[slot] => Told(slot, WantedOf(slot))
    /\ stamps.recordMost[slot] = stamps.intent[slot] \/ \E c \in Callers : Recording(slot, c)

ListsInv == ListInv("list") /\ ListInv("status")

(* What the steps of a call change of the callers. *)
OthersKept(c) == \A d \in Callers \ {c} : caller'[d] = caller[d]

LEMMA StartIs ==
    ASSUME SubscriptionTypes, NEW c \in Callers, NEW op, NEW on, NEW pc, Start(c, op, on, pc)
    PROVE  /\ caller'[c].op = op /\ caller'[c].on = on /\ caller'[c].pc = pc /\ OthersKept(c)
           /\ crossed \subseteq crossed'
           /\ \A d \in Callers : Busy(d, on) => on \in crossed'
<1>1. caller' = [caller EXCEPT ![c] = Started(c, op, on, pc)]
  BY DEF Start
<1>2. Started(c, op, on, pc).op = op /\ Started(c, op, on, pc).on = on /\ Started(c, op, on, pc).pc = pc
  BY DEF Started
<1>3. caller'[c] = Started(c, op, on, pc) /\ OthersKept(c)
  BY <1>1 DEF SubscriptionTypes, CallerTypes, OthersKept
<1>4. crossed \subseteq crossed' /\ \A d \in Callers : Busy(d, on) => on \in crossed'
  BY DEF Start, Busy
<1> QED BY <1>2, <1>3, <1>4

LEMMA CountIs ==
    ASSUME SubscriptionTypes, NEW c \in Callers, NEW op, NEW x, NEW n, CountAndList(c, op, x, n)
    PROVE  /\ caller'[c].op = op /\ caller'[c].on = x /\ caller'[c].pc = "record"
           /\ caller'[c].val = Listed(n) /\ caller'[c].age = stamps.intent["status"] + 1
           /\ OthersKept(c) /\ counts' = n
           /\ stamps'.intent["status"] = stamps.intent["status"] + 1
           /\ stamps'.intent["list"] = stamps.intent["list"]
           /\ stamps'.record = stamps.record /\ stamps'.recordMost = stamps.recordMost
<1> DEFINE age == stamps.intent["status"] + 1
           r == [Started(c, op, x, "record") EXCEPT !.val = Listed(n), !.age = age]
<1>1. caller' = [caller EXCEPT ![c] = r] /\ counts' = n
      /\ stamps' = [stamps EXCEPT !.intent["status"] = age]
  BY DEF CountAndList
<1>2. r.op = op /\ r.on = x /\ r.pc = "record" /\ r.val = Listed(n) /\ r.age = age
  BY DEF Started
<1> HIDE DEF r, age
<1>3. caller'[c] = r /\ OthersKept(c)
  BY <1>1 DEF SubscriptionTypes, CallerTypes, OthersKept
<1>4. /\ stamps'.intent["status"] = age /\ stamps'.intent["list"] = stamps.intent["list"]
      /\ stamps'.record = stamps.record /\ stamps'.recordMost = stamps.recordMost
  BY <1>1 DEF SubscriptionTypes, StampTypes, Ages, Slots
<1> QED BY <1>1, <1>2, <1>3, <1>4 DEF age

LEMMA EndIs ==
    ASSUME SubscriptionTypes, NEW c \in Callers, End(c)
    PROVE  /\ caller'[c].pc = (IF caller[c].op = "undo" THEN "forget" ELSE "idle")
           /\ caller'[c].op = (IF caller[c].op = "undo" THEN "drop" ELSE caller[c].op)
           /\ caller'[c].on = caller[c].on /\ OthersKept(c)
<1> DEFINE pc == IF caller[c].op = "undo" THEN "forget" ELSE "idle"
           op == IF caller[c].op = "undo" THEN "drop" ELSE caller[c].op
<1>1. caller' = [caller EXCEPT ![c].pc = pc, ![c].op = op]
  BY DEF End, SubscriptionTypes, CallerTypes, CallerRec
<1> HIDE DEF pc, op
<1>2. /\ caller'[c].pc = pc /\ caller'[c].op = op /\ caller'[c].on = caller[c].on
      /\ \A d \in Callers \ {c} : caller'[d] = caller[d]
  BY <1>1 DEF SubscriptionTypes, CallerTypes, CallerRec
<1> QED BY <1>2 DEF pc, op, OthersKept

LEMMA RecordMoves ==
    ASSUME SubscriptionTypes, NEW c \in Callers, Record(c)
    PROVE  /\ caller[c].pc = "record" /\ OthersKept(c) /\ caller'[c].on = caller[c].on
           /\ \/ Skips(c) /\ End(c)
              \/ /\ ~Skips(c) /\ caller'[c].pc = "send" /\ caller'[c].op = caller[c].op
                 /\ UNCHANGED receivers
<1>1. CASE Skips(c) /\ End(c)
  BY <1>1, EndIs DEF Record
<1>2. CASE ~Skips(c) /\ UNCHANGED receivers /\ caller' = [caller EXCEPT ![c].pc = "send",
                                                ![c].age = stamps.version[SlotOf(c)] + 1]
  <2> DEFINE age == stamps.version[SlotOf(c)] + 1
  <2>1. caller' = [caller EXCEPT ![c].pc = "send", ![c].age = age]
    BY <1>2
  <2> HIDE DEF age
  <2>2. /\ caller'[c].pc = "send" /\ caller'[c].op = caller[c].op /\ caller'[c].on = caller[c].on
        /\ OthersKept(c)
    BY <2>1 DEF SubscriptionTypes, CallerTypes, CallerRec, OthersKept
  <2> QED BY <1>2, <2>2 DEF Record
<1> QED BY <1>1, <1>2 DEF Record

LEMMA SendFailsMoves ==
    ASSUME SubscriptionTypes, NEW c \in Callers, SendFails(c)
    PROVE  /\ caller[c].pc = "send" /\ OthersKept(c) /\ caller'[c].on = caller[c].on
           /\ CASE caller[c].op = "activate" -> caller'[c].pc = "forget" /\ caller'[c].op = "undo"
                [] caller[c].op = "undo" -> caller'[c].pc = "forget" /\ caller'[c].op = "drop"
                [] caller[c].op = "chart" -> caller'[c].pc = "record" /\ caller'[c].op = "unchart"
                [] OTHER -> caller'[c].pc = "idle" /\ caller'[c].op = caller[c].op
<1>1. ASSUME NEW pc, NEW op, caller' = [caller EXCEPT ![c].pc = pc, ![c].op = op]
      PROVE  /\ OthersKept(c) /\ caller'[c].on = caller[c].on
             /\ caller'[c].pc = pc /\ caller'[c].op = op
  BY <1>1 DEF SubscriptionTypes, CallerTypes, CallerRec, OthersKept
<1>2. CASE caller[c].op = "activate"
  <2>1. caller' = [caller EXCEPT ![c].pc = "forget", ![c].op = "undo"] /\ caller[c].pc = "send"
    BY <1>2 DEF SendFails
  <2> QED BY <1>1, <1>2, <2>1
<1>3. CASE caller[c].op = "undo"
  <2>1. caller' = [caller EXCEPT ![c].pc = "forget", ![c].op = "drop"] /\ caller[c].pc = "send"
    BY <1>3 DEF SendFails
  <2> QED BY <1>1, <1>3, <2>1
<1>4. CASE caller[c].op = "chart"
  <2>1. caller' = [caller EXCEPT ![c].pc = "record", ![c].op = "unchart"] /\ caller[c].pc = "send"
    BY <1>4 DEF SendFails
  <2> QED BY <1>1, <1>4, <2>1
<1>5. CASE caller[c].op \notin {"activate", "undo", "chart"}
  <2>1. caller' = [caller EXCEPT ![c].pc = "idle", ![c].op = caller[c].op] /\ caller[c].pc = "send"
    BY <1>5 DEF SendFails
  <2> QED BY <1>1, <1>5, <2>1
<1> QED BY <1>2, <1>3, <1>4, <1>5

LEMMA SetHeldIs ==
    ASSUME SubscriptionTypes, NEW c \in Callers, NEW val, SetHeld(c, val), caller[c].on \in Subs
    PROVE  /\ caller'[c].pc = "gather" /\ caller'[c].op = caller[c].op /\ caller'[c].on = caller[c].on
           /\ OthersKept(c) /\ held'[caller[c].on] = val
           /\ \A s \in Subs \ {caller[c].on} : held'[s] = held[s]
           /\ stamps'.intent["list"] = stamps.intent["list"] + 1
           /\ stamps'.intent["status"] = stamps.intent["status"]
           /\ stamps'.record = stamps.record /\ stamps'.recordMost = stamps.recordMost
  BY DEF SetHeld, Goto, SubscriptionTypes, CallerTypes, CallerRec, OthersKept, IntentTypes, StampTypes,
         Ages, Slots

-----------------------------------------------------------------------------
(***************************************************************************)
(* Calls on one subscription, one after the other.                         *)
(***************************************************************************)
LEMMA SubKept ==
    ASSUME NEW s, NEW c \in Callers, SubInv(s), OthersKept(c),
           subs'[s] = subs[s], held'[s] = held[s], c \notin CallsOn(s), c \notin CallsOn(s)'
    PROVE  SubInv(s)'
<1>1. CallsOn(s)' = CallsOn(s) /\ \A d \in CallsOn(s) : d # c /\ caller'[d] = caller[d] /\ caller[d].on = s
  BY DEF CallsOn, Busy, OthersKept
<1> QED BY <1>1 DEF SubInv, CallRight, HeldRight

LEMMA SubMoved ==
    ASSUME NEW s, NEW c \in Callers, \A d \in CallsOn(s) : d = c, OthersKept(c),
           c \in CallsOn(s)' => CallRight(c)', c \notin CallsOn(s)' => HeldRight(s)'
    PROVE  SubInv(s)'
<1>1. \A d \in CallsOn(s)' : d = c
  BY DEF CallsOn, Busy, OthersKept
<1> QED BY <1>1 DEF SubInv

(* A step of a call on another subscription, or of another kind. *)
LEMMA SubElsewhere ==
    ASSUME NEW s, NEW c \in Callers, SubInv(s), OthersKept(c),
           subs'[s] = subs[s], held'[s] = held[s],
           \/ caller[c].pc = "idle"
           \/ caller[c].on = caller'[c].on /\ caller[c].op \in ListOps /\ caller[c].on # s
           \/ caller[c].op \notin ListOps,
           caller'[c].on # s \/ caller'[c].op \notin ListOps
    PROVE  SubInv(s)'
<1>1. c \notin CallsOn(s) /\ c \notin CallsOn(s)'
  BY DEF CallsOn, Busy
<1> QED BY <1>1, SubKept

LEMMA SubsCallStart ==
    ASSUME SubscriptionTypes, SubsInv, NEW c \in Callers, CallStart(c)
    PROVE  SubsInv'
<1> USE DEF SubscriptionTypes
<1> SUFFICES ASSUME NEW s \in Subs, s \notin crossed' PROVE SubInv(s)'
  BY DEF SubsInv
<1>1. caller[c].pc = "idle"
  BY DEF CallStart, Activate, AddSymbol, RemoveSymbol, CloseSub, ChartOn, Refresh,
         ChartOff, ChartCall, AcquireStatus, ReleaseStatus, MayStart
<1>2. ASSUME NEW z \in Subs, NEW op \in ListOps, NEW pc, Start(c, op, z, pc),
             held' = held, \A y \in Subs \ {z} : subs'[y] = subs[y],
             op \in {"activate", "add", "remove", "close"},
             \/ op = "activate" /\ pc = "symbols" /\ subs'[z].running
             \/ op \in {"add", "remove"} /\ pc = "running" /\ subs'[z].running = subs[z].running
             \/ op = "close" /\ pc = "forget" /\ ~subs'[z].running
      PROVE  SubInv(s)'
  <2>1. /\ caller'[c].op = op /\ caller'[c].on = z /\ caller'[c].pc = pc /\ OthersKept(c)
        /\ crossed \subseteq crossed' /\ \A d \in Callers : Busy(d, z) => z \in crossed'
    BY <1>2, StartIs
  <2>2. SubInv(s)
    BY <2>1 DEF SubsInv
  <2>3. CASE s # z
    BY <1>1, <1>2, <2>1, <2>2, <2>3, SubElsewhere
  <2>4. CASE s = z
    <3>1. CallsOn(s) = {}
      BY <2>1, <2>4 DEF CallsOn
    <3>2. HeldRight(s)
      BY <2>2, <3>1 DEF SubInv
    <3>3. CallRight(c)'
      BY <1>2, <2>1, <2>4, <3>2 DEF CallRight, HeldRight
    <3>4. c \in CallsOn(s)'
      BY <1>2, <2>1, <2>4 DEF CallsOn, Busy
    <3> QED BY <2>1, <3>1, <3>3, <3>4, SubMoved
  <2> QED BY <2>3, <2>4
<1>3. CASE Activate(c)
  <2>1. PICK z \in Subs : /\ Start(c, "activate", z, "symbols") /\ UNCHANGED held
                          /\ subs' = [subs EXCEPT ![z].made = TRUE, ![z].running = TRUE]
    BY <1>3 DEF Activate
  <2>2. subs'[z].running /\ \A y \in Subs \ {z} : subs'[y] = subs[y]
    BY <2>1 DEF IntentTypes, SubRec
  <2> QED BY <1>2, <2>1, <2>2 DEF ListOps
<1>4. CASE AddSymbol(c)
  <2>1. PICK z \in Subs, x \in Symbols :
                          /\ Start(c, "add", z, "running") /\ UNCHANGED held
                          /\ subs' = [subs EXCEPT ![z].symbols = @ \cup {x}]
    BY <1>4 DEF AddSymbol
  <2>2. subs'[z].running = subs[z].running /\ \A y \in Subs \ {z} : subs'[y] = subs[y]
    BY <2>1 DEF IntentTypes, SubRec
  <2> QED BY <1>2, <2>1, <2>2 DEF ListOps
<1>5. CASE RemoveSymbol(c)
  <2>1. PICK z \in Subs, x \in Symbols :
                          /\ Start(c, "remove", z, "running") /\ UNCHANGED held
                          /\ subs' = [subs EXCEPT ![z].symbols = @ \ {x}]
    BY <1>5 DEF RemoveSymbol
  <2>2. subs'[z].running = subs[z].running /\ \A y \in Subs \ {z} : subs'[y] = subs[y]
    BY <2>1 DEF IntentTypes, SubRec
  <2> QED BY <1>2, <2>1, <2>2 DEF ListOps
<1>6. CASE CloseSub(c)
  <2>1. PICK z \in Subs : /\ Start(c, "close", z, "forget") /\ UNCHANGED held
                          /\ subs' = [subs EXCEPT ![z].running = FALSE]
    BY <1>6 DEF CloseSub
  <2>2. ~subs'[z].running /\ \A y \in Subs \ {z} : subs'[y] = subs[y]
    BY <2>1 DEF IntentTypes, SubRec
  <2> QED BY <1>2, <2>1, <2>2 DEF ListOps
<1>7. CASE ChartOn(c) \/ Refresh(c) \/ ChartOff(c)
  <2>1. PICK op \in ChartOps, pc \in {"idle", "record"} : Start(c, op, "chart", pc)
    BY <1>7 DEF ChartOn, Refresh, ChartOff, ChartCall, ChartOps
  <2>2. UNCHANGED <<subs, held>>
    BY <1>7 DEF ChartOn, Refresh, ChartOff, ChartCall
  <2>3. caller'[c].op = op /\ OthersKept(c) /\ crossed \subseteq crossed'
    BY <2>1, StartIs
  <2>4. op \notin ListOps
    BY DEF ListOps, ChartOps
  <2> QED BY <1>1, <2>2, <2>3, <2>4, SubElsewhere DEF SubsInv
<1>8. CASE AcquireStatus(c) \/ ReleaseStatus(c)
  <2>1. PICK op \in StatusOps, x \in Symbols : \E n : CountAndList(c, op, x, n)
    BY <1>8 DEF AcquireStatus, ReleaseStatus, StatusOps
  <2>2. UNCHANGED <<subs, held, crossed>>
    BY <1>8 DEF AcquireStatus, ReleaseStatus, history
  <2>3. caller'[c].op = op /\ OthersKept(c)
    BY <2>1, CountIs
  <2>4. op \notin ListOps
    BY DEF ListOps, StatusOps
  <2> QED BY <1>1, <2>2, <2>3, <2>4, SubElsewhere DEF SubsInv
<1> QED BY <1>3, <1>4, <1>5, <1>6, <1>7, <1>8 DEF CallStart

LEMMA SubsCallStep ==
    ASSUME SubscriptionTypes, Shapes, SubsInv, NEW c \in Callers, CallStep(c)
    PROVE  SubsInv'
<1> USE DEF SubscriptionTypes
<1> SUFFICES ASSUME NEW s \in Subs, s \notin crossed' PROVE SubInv(s)'
  BY DEF SubsInv
<1>1. caller[c].pc # "idle"
  BY DEF CallStep, CheckRunning, ReadSymbols, Hold, Forget, Gather, Record, Send, SendFails
<1>2. s \notin crossed
  BY DEF CallStep, CheckRunning, ReadSymbols, Hold, Forget, Gather, SetHeld, Record, Send, SendFails, history
<1>3. SubInv(s)
  BY <1>2 DEF SubsInv
<1>4. OthersKept(c) /\ caller'[c].on = caller[c].on /\ (caller'[c].op \in ListOps => caller[c].op \in ListOps)
  <2>1. CASE CheckRunning(c) \/ ReadSymbols(c) \/ Gather(c)
    BY <2>1 DEF CheckRunning, ReadSymbols, Gather, Goto, CallerTypes, CallerRec, OthersKept
  <2>2. CASE Hold(c) \/ Forget(c)
    BY <2>2, SetHeldIs DEF Hold, Forget, Shapes, Shape, ListOps, ChartOps, StatusOps
  <2>3. CASE Record(c) \/ Send(c)
    BY <2>3, RecordMoves, EndIs DEF Send, ListOps
  <2>4. CASE SendFails(c)
    BY <2>4, SendFailsMoves DEF ListOps
  <2> QED BY <2>1, <2>2, <2>3, <2>4 DEF CallStep
<1>5. ASSUME ~(caller[c].op \in ListOps /\ caller[c].on = s) PROVE SubInv(s)'
  <2>1. subs'[s] = subs[s]
    <3>1. CASE SendFails(c) /\ caller[c].op = "activate"
      <4>1. subs' = [subs EXCEPT ![caller[c].on].running = FALSE] /\ caller[c].on # s
        BY <1>5, <3>1 DEF SendFails, ListOps
      <4> QED BY <4>1 DEF IntentTypes
    <3>2. CASE ~(SendFails(c) /\ caller[c].op = "activate")
      BY <3>2 DEF CallStep, CheckRunning, ReadSymbols, Hold, Forget, Gather, SetHeld, Record, Send,
                  SendFails, intents
    <3> QED BY <3>1, <3>2
  <2>2. held'[s] = held[s]
    <3>1. CASE Hold(c) \/ Forget(c)
      BY <1>5, <3>1, SetHeldIs DEF Hold, Forget, Shapes, Shape, ListOps, ChartOps, StatusOps
    <3>2. CASE ~(Hold(c) \/ Forget(c))
      BY <3>2 DEF CallStep, CheckRunning, ReadSymbols, Gather, Record, Send, SendFails, intents
    <3> QED BY <3>1, <3>2
  <2> QED BY <1>3, <1>4, <1>5, <2>1, <2>2, SubElsewhere
<1>6. ASSUME caller[c].op \in ListOps, caller[c].on = s PROVE SubInv(s)'
  <2>1. c \in CallsOn(s)
    BY <1>1, <1>6 DEF CallsOn, Busy
  <2>2. CallRight(c) /\ \A d \in CallsOn(s) : d = c
    BY <1>3, <2>1 DEF SubInv
  <2>3. /\ c \in CallsOn(s)' => CallRight(c)'
        /\ c \notin CallsOn(s)' => HeldRight(s)'
    <3>1. c \notin CallsOn(s)' => caller'[c].pc = "idle" \/ caller'[c].op \notin ListOps
      BY <1>4, <1>6 DEF CallsOn, Busy
    <3>2. CASE CheckRunning(c)
      <4>1. /\ caller'[c].pc = (IF subs[s].running THEN "symbols" ELSE "idle")
            /\ caller'[c].op = caller[c].op /\ UNCHANGED <<subs, held>> /\ caller[c].pc = "running"
        BY <1>6, <3>2 DEF CheckRunning, Goto, CallerTypes, CallerRec, intents
      <4> QED BY <1>4, <1>6, <2>2, <3>1, <4>1 DEF CallRight, HeldRight, CallsOn, Busy
    <3>3. CASE ReadSymbols(c)
      <4>1. /\ caller'[c].pc = "hold" /\ caller'[c].val = subs[s].symbols
            /\ caller'[c].op = caller[c].op /\ UNCHANGED <<subs, held>> /\ caller[c].pc = "symbols"
        BY <1>6, <3>3 DEF ReadSymbols, CallerTypes, CallerRec, intents
      <4> QED BY <1>4, <1>6, <2>2, <3>1, <4>1 DEF CallRight, HeldRight
    <3>4. CASE Hold(c)
      <4>0. SetHeld(c, caller[c].val) /\ caller[c].pc = "hold"
        BY <3>4 DEF Hold
      <4>1. /\ caller'[c].pc = "gather" /\ caller'[c].op = caller[c].op /\ held'[s] = caller[c].val
            /\ subs' = subs /\ caller[c].pc = "hold"
        <5>1. subs' = subs
          BY <3>4 DEF Hold, SetHeld
        <5> QED BY <1>6, <4>0, <5>1, SetHeldIs
      <4> QED BY <1>4, <1>6, <2>2, <3>1, <4>1 DEF CallRight, HeldRight
    <3>5. CASE Forget(c)
      <4>0. SetHeld(c, None) /\ caller[c].pc = "forget"
        BY <3>5 DEF Forget
      <4>1. /\ caller'[c].pc = "gather" /\ caller'[c].op = caller[c].op /\ held'[s] = None
            /\ subs' = subs /\ caller[c].pc = "forget"
        <5>1. subs' = subs
          BY <3>5 DEF Forget, SetHeld
        <5> QED BY <1>6, <4>0, <5>1, SetHeldIs
      <4> QED BY <1>4, <1>6, <2>2, <3>1, <4>1 DEF CallRight, HeldRight
    <3>6. CASE Gather(c)
      <4>1. /\ caller'[c].pc = "record" /\ caller'[c].op = caller[c].op
            /\ UNCHANGED <<subs, held>> /\ caller[c].pc = "gather"
        BY <3>6 DEF Gather, CallerTypes, CallerRec, intents
      <4> QED BY <1>4, <1>6, <2>2, <3>1, <4>1 DEF CallRight, HeldRight
    <3>7. CASE Record(c) \/ Send(c)
      <4>1. /\ UNCHANGED <<subs, held>> /\ caller[c].pc \in {"record", "send"}
        BY <3>7 DEF Record, Send, intents
      <4>2. \/ caller'[c].pc = "send" /\ caller'[c].op = caller[c].op
            \/ /\ caller'[c].pc = (IF caller[c].op = "undo" THEN "forget" ELSE "idle")
               /\ caller'[c].op = (IF caller[c].op = "undo" THEN "drop" ELSE caller[c].op)
        BY <3>7, RecordMoves, EndIs DEF Send
      <4> QED BY <1>4, <1>6, <2>2, <3>1, <4>1, <4>2 DEF CallRight, HeldRight, CallsOn, Busy, ListOps
    <3>8. CASE SendFails(c)
      <4>1. /\ held' = held /\ caller[c].pc = "send"
        BY <3>8 DEF SendFails
      <4>2. CASE caller[c].op = "activate"
        <5>1. caller'[c].pc = "forget" /\ caller'[c].op = "undo"
          BY <3>8, <4>2, SendFailsMoves
        <5>2. ~subs'[s].running
          <6>1. subs' = [subs EXCEPT ![s].running = FALSE]
            BY <1>6, <3>8, <4>2 DEF SendFails
          <6> QED BY <6>1 DEF IntentTypes, SubRec
        <5> QED BY <1>4, <1>6, <3>1, <5>1, <5>2 DEF CallRight, ListOps
      <4>3. CASE caller[c].op # "activate"
        <5>1. subs' = subs
          BY <3>8, <4>3 DEF SendFails
        <5>2. \/ caller'[c].pc = "forget" /\ caller'[c].op = "drop" /\ caller[c].op = "undo"
              \/ caller'[c].pc = "idle" /\ caller'[c].op = caller[c].op
          BY <1>6, <3>8, <4>3, SendFailsMoves DEF ListOps
        <5> QED BY <1>4, <1>6, <2>2, <3>1, <4>1, <5>1, <5>2 DEF CallRight, HeldRight, CallsOn, Busy, ListOps
      <4> QED BY <4>2, <4>3
    <3> QED BY <3>2, <3>3, <3>4, <3>5, <3>6, <3>7, <3>8 DEF CallStep
  <2> QED BY <1>4, <2>2, <2>3, SubMoved
<1> QED BY <1>5, <1>6

LEMMA SubsStep ==
    ASSUME SubscriptionTypes, Shapes, SubsInv, Step
    PROVE  SubsInv'
<1>1. CASE UNCHANGED <<caller, subs, held, crossed>>
  BY <1>1 DEF SubsInv, SubInv, CallsOn, Busy, CallRight, HeldRight
<1>2. ASSUME NEW ch \in Channels, ConnStep(ch) \/ Notice(ch)
      PROVE  UNCHANGED <<caller, subs, held, crossed>>
  BY <1>2 DEF ConnStep, Lose, Open, Install, Notice, Flush, Resend, intents, history
<1>3. CASE UNCHANGED AllButInbox
  BY <1>1, <1>3 DEF AllButInbox, intents, history
<1> QED BY <1>1, <1>2, <1>3, SubsCallStart, SubsCallStep DEF Step, Next

-----------------------------------------------------------------------------
(***************************************************************************)
(* Calls on the chart, one after the other.                                *)
(***************************************************************************)
CallOfChart(c) ==
    /\ caller[c].pc = "record" => (chart.running <=> caller[c].op # "unchart")
    /\ caller[c].pc = "send" => ChartRight

LEMMA ChartKept ==
    ASSUME ChartInv, NEW c \in Callers, OthersKept(c), UNCHANGED chart,
           crossed \subseteq crossed', recorded'["chart"] = recorded["chart"], c \notin ChartCalls, c \notin ChartCalls'
    PROVE  ChartInv'
<1>1. ChartCalls' = ChartCalls /\ \A d \in ChartCalls : d # c /\ caller'[d] = caller[d]
  BY DEF ChartCalls, OthersKept
<1> QED BY <1>1 DEF ChartInv, ChartRight

LEMMA ChartMoved ==
    ASSUME NEW c \in Callers, OthersKept(c),
           chart'.unsubscribed => ~chart'.running,
           "chart" \notin crossed' => \A d \in ChartCalls : d = c,
           ("chart" \notin crossed' /\ c \in ChartCalls') => CallOfChart(c)',
           ("chart" \notin crossed' /\ c \notin ChartCalls') => ChartRight'
    PROVE  ChartInv'
<1>1. ASSUME NEW d \in ChartCalls', d # c PROVE d \in ChartCalls
  BY <1>1 DEF ChartCalls, OthersKept
<1>2. "chart" \notin crossed' => \A d \in ChartCalls' : d = c
  BY <1>1
<1> QED BY <1>2 DEF ChartInv, CallOfChart

LEMMA ChartStep ==
    ASSUME SubscriptionTypes, Shapes, ChartInv, Step
    PROVE  ChartInv'
<1> USE DEF SubscriptionTypes
<1>1. ASSUME UNCHANGED <<caller, chart, recorded, crossed>> PROVE ChartInv'
  BY <1>1 DEF ChartInv, ChartCalls, ChartRight
<1>2. ASSUME NEW c \in Callers, ChartOn(c) \/ Refresh(c) \/ ChartOff(c) PROVE ChartInv'
  <2>1. ASSUME NEW op \in ChartOps, NEW pc, Start(c, op, "chart", pc), UNCHANGED recorded,
               caller[c].pc = "idle", chart'.unsubscribed => ~chart'.running,
               \/ pc = "record" /\ (chart'.running <=> op # "unchart")
               \/ pc = "idle" /\ ~chart'.running /\ ~chart.running
        PROVE  ChartInv'
    <3>1. /\ caller'[c].op = op /\ caller'[c].on = "chart" /\ caller'[c].pc = pc /\ OthersKept(c)
          /\ crossed \subseteq crossed' /\ \A d \in Callers : Busy(d, "chart") => "chart" \in crossed'
      BY <2>1, StartIs
    <3>2. "chart" \notin crossed' => ChartCalls = {}
      BY <3>1 DEF ChartCalls, Busy, Shapes, Shape, ListOps, ChartOps
    <3>3. "chart" \notin crossed' => ChartRight
      BY <3>1, <3>2 DEF ChartInv
    <3>4. c \in ChartCalls' => CallOfChart(c)'
      BY <2>1, <3>1 DEF ChartCalls, CallOfChart
    <3>5. c \notin ChartCalls' => pc = "idle"
      BY <2>1, <3>1 DEF ChartCalls
    <3>6. ("chart" \notin crossed' /\ pc = "idle") => ChartRight'
      BY <2>1, <3>3 DEF ChartRight
    <3> QED BY <2>1, <3>1, <3>2, <3>4, <3>5, <3>6, ChartMoved
  <2>2. CASE ChartOn(c)
    BY <2>1, <2>2 DEF ChartOn, ChartCall, MayStart, Shown, ChartOps
  <2>3. CASE Refresh(c)
    BY <2>1, <2>3 DEF Refresh, ChartCall, MayStart, Shown, ChartOps
  <2>4. CASE ChartOff(c)
    <3>1. /\ Start(c, "unchart", "chart", IF chart.unsubscribed THEN "idle" ELSE "record")
          /\ chart' = [made |-> TRUE, running |-> FALSE, unsubscribed |-> TRUE]
          /\ caller[c].pc = "idle" /\ UNCHANGED recorded
      BY <2>4 DEF ChartOff, ChartCall, MayStart
    <3>2. ~chart'.running
      BY <3>1
    <3>3. CASE chart.unsubscribed
      <4>1. ~chart.running
        BY <3>3 DEF ChartInv
      <4>2. Start(c, "unchart", "chart", "idle")
        BY <3>1, <3>3
      <4> QED BY <2>1, <3>1, <3>2, <4>1, <4>2 DEF ChartOps
    <3>4. CASE ~chart.unsubscribed
      <4>1. Start(c, "unchart", "chart", "record")
        BY <3>1, <3>4
      <4> QED BY <2>1, <3>1, <3>2, <4>1 DEF ChartOps
    <3> QED BY <3>3, <3>4
  <2> QED BY <1>2, <2>2, <2>3, <2>4
<1>3. ASSUME NEW c \in Callers,
             Activate(c) \/ AddSymbol(c) \/ RemoveSymbol(c) \/ CloseSub(c)
      PROVE  ChartInv'
  <2>1. ASSUME NEW op \in ListOps, NEW z, NEW pc, Start(c, op, z, pc), caller[c].pc = "idle",
               UNCHANGED <<chart, recorded>>
        PROVE  ChartInv'
    <3>1. caller'[c].op = op /\ OthersKept(c) /\ crossed \subseteq crossed'
      BY <2>1, StartIs
    <3>2. c \notin ChartCalls /\ c \notin ChartCalls'
      BY <2>1, <3>1 DEF ChartCalls, ListOps, ChartOps
    <3> QED BY <2>1, <3>1, <3>2, ChartKept
  <2> QED BY <1>3, <2>1 DEF Activate, AddSymbol, RemoveSymbol, CloseSub, MayStart, ListOps
<1>4. ASSUME NEW c \in Callers, AcquireStatus(c) \/ ReleaseStatus(c) PROVE ChartInv'
  <2>1. PICK op \in StatusOps, x \in Symbols : \E n : CountAndList(c, op, x, n)
    BY <1>4 DEF AcquireStatus, ReleaseStatus, StatusOps
  <2>2. UNCHANGED <<chart, recorded, crossed>> /\ caller[c].pc = "idle"
    BY <1>4 DEF AcquireStatus, ReleaseStatus, history, MayStart
  <2>3. caller'[c].op = op /\ OthersKept(c)
    BY <2>1, CountIs
  <2>4. c \notin ChartCalls /\ c \notin ChartCalls'
    BY <2>2, <2>3 DEF ChartCalls, StatusOps, ChartOps
  <2> QED BY <2>2, <2>3, <2>4, ChartKept
<1>5. ASSUME NEW c \in Callers,
             CheckRunning(c) \/ ReadSymbols(c) \/ Hold(c) \/ Forget(c) \/ Gather(c)
      PROVE  ChartInv'
  <2>1. UNCHANGED <<chart, recorded, crossed>>
    BY <1>5 DEF CheckRunning, ReadSymbols, Hold, Forget, Gather, SetHeld, intents, history
  <2>2. caller[c].op \in ListOps
    BY <1>5 DEF CheckRunning, ReadSymbols, Hold, Forget, Gather, Shapes, Shape, ListOps, ChartOps, StatusOps
  <2>3. caller'[c].op = caller[c].op /\ OthersKept(c)
    BY <1>5 DEF CheckRunning, ReadSymbols, Hold, Forget, Gather, SetHeld, Goto, CallerTypes, CallerRec,
                OthersKept
  <2>4. c \notin ChartCalls /\ c \notin ChartCalls'
    BY <2>2, <2>3 DEF ChartCalls, ListOps, ChartOps
  <2> QED BY <2>1, <2>3, <2>4, ChartKept
<1>6. ASSUME NEW c \in Callers, Record(c) \/ Send(c) \/ SendFails(c), caller[c].op \notin ChartOps
      PROVE  ChartInv'
  <2>1. chart' = chart /\ crossed \subseteq crossed'
    BY <1>6 DEF Record, Send, SendFails, intents, ChartOps
  <2>2. OthersKept(c) /\ caller'[c].op \notin ChartOps
    BY <1>6, RecordMoves, EndIs, SendFailsMoves DEF Send, ChartOps
  <2>3. c \notin ChartCalls /\ c \notin ChartCalls'
    BY <1>6, <2>2 DEF ChartCalls
  <2>4. recorded'["chart"] = recorded["chart"]
    <3>1. CASE Record(c)
      BY <1>6, <3>1, RecordIs, ZenonT(60) DEF SlotOf, ChartOps, WireTypes, Slots
    <3>2. CASE ~Record(c)
      BY <1>6, <3>2 DEF Send, SendFails
    <3> QED BY <3>1, <3>2
  <2> QED BY <2>1, <2>2, <2>3, <2>4, ChartKept
<1>7. ASSUME NEW c \in Callers, Record(c) \/ Send(c) \/ SendFails(c), caller[c].op \in ChartOps
      PROVE  ChartInv'
  <2>1. SlotOf(c) = "chart" /\ ~Skips(c) /\ caller[c].op # "undo" /\ caller[c].op \notin ListOps
    BY <1>7 DEF SlotOf, Skips, ChartOps, ListOps
  <2>2. caller[c].pc \in {"record", "send"}
    BY <1>7 DEF Record, Send, SendFails
  <2>3. c \in ChartCalls
    BY <1>7, <2>2 DEF ChartCalls
  <2>4. "chart" \notin crossed => (\A d \in ChartCalls : d = c) /\ CallOfChart(c)
    BY <2>3 DEF ChartInv, CallOfChart
  <2>5. chart.unsubscribed => ~chart.running
    BY DEF ChartInv
  <2>6. CASE Record(c)
    <3>1. caller'[c].pc = "send" /\ OthersKept(c) /\ UNCHANGED <<chart, crossed>> /\ caller[c].pc = "record"
      BY <2>1, <2>6, RecordMoves DEF Record, intents
    <3>2. recorded'["chart"] = Request(c)
      BY <2>1, <2>6, RecordIs DEF WireTypes, Slots
    <3>3. Request(c) = "on" <=> caller[c].op # "unchart"
      BY <1>7, SubscriptionsAssumption DEF Request, ChartOps
    <3>4. "chart" \notin crossed => ChartRight'
      BY <2>4, <3>1, <3>2, <3>3 DEF CallOfChart, ChartRight
    <3> QED BY <2>4, <2>5, <3>1, <3>4, ChartMoved DEF CallOfChart
  <2>7. CASE Send(c)
    <3>1. /\ caller'[c].pc = "idle" /\ OthersKept(c) /\ UNCHANGED <<chart, crossed, recorded>>
          /\ caller[c].pc = "send"
      BY <2>1, <2>7, EndIs DEF Send, intents
    <3>2. "chart" \notin crossed => ChartRight'
      BY <2>4, <3>1 DEF CallOfChart, ChartRight
    <3>3. c \notin ChartCalls'
      BY <3>1 DEF ChartCalls
    <3> QED BY <2>4, <2>5, <3>1, <3>2, <3>3, ChartMoved
  <2>8. CASE SendFails(c)
    <3>1. OthersKept(c) /\ caller[c].pc = "send" /\ recorded' = recorded /\ crossed \subseteq crossed'
      BY <2>8, SendFailsMoves DEF SendFails
    <3>2. CASE caller[c].op = "chart"
      <4>1. caller'[c].pc = "record" /\ caller'[c].op = "unchart"
        BY <2>8, <3>2, SendFailsMoves
      <4>2. chart' = [made |-> FALSE, running |-> FALSE, unsubscribed |-> TRUE]
        BY <2>8, <3>2 DEF SendFails
      <4>3. ~chart'.running
        BY <4>2
      <4>4. CallOfChart(c)' /\ c \in ChartCalls'
        BY <4>1, <4>3 DEF CallOfChart, ChartCalls, ChartOps
      <4> QED BY <2>4, <3>1, <4>3, <4>4, ChartMoved
    <3>3. CASE caller[c].op = "refresh"
      <4>1. "chart" \in crossed' /\ chart' = [chart EXCEPT !.running = FALSE]
        BY <2>8, <3>3 DEF SendFails
      <4>2. ~chart'.running
        BY <4>1 DEF IntentTypes, ChartRec
      <4> QED BY <3>1, <4>1, <4>2, ChartMoved
    <3>4. CASE caller[c].op = "unchart"
      <4>1. caller'[c].pc = "idle" /\ chart' = chart
        BY <2>8, <3>4, SendFailsMoves DEF SendFails
      <4>2. c \notin ChartCalls'
        BY <4>1 DEF ChartCalls
      <4>3. "chart" \notin crossed => ChartRight'
        BY <2>4, <3>1, <4>1 DEF CallOfChart, ChartRight
      <4> QED BY <2>4, <2>5, <3>1, <4>1, <4>2, <4>3, ChartMoved
    <3> QED BY <1>7, <3>2, <3>3, <3>4 DEF ChartOps
  <2> QED BY <1>7, <2>6, <2>7, <2>8
<1>8. ASSUME NEW ch \in Channels, ConnStep(ch) \/ Notice(ch)
      PROVE  UNCHANGED <<caller, chart, recorded, crossed>>
  BY <1>8 DEF ConnStep, Lose, Open, Install, Notice, Flush, Resend, intents, history
<1>9. CASE UNCHANGED AllButInbox
  BY <1>1, <1>9 DEF AllButInbox, intents, history
<1> QED BY <1>1, <1>2, <1>3, <1>4, <1>5, <1>6, <1>7, <1>8, <1>9 DEF Step, Next, CallStart, CallStep

-----------------------------------------------------------------------------
(***************************************************************************)
(* The counts of trading status.                                           *)
(***************************************************************************)
LEMMA AcquiringFinite == \A x : IsFiniteSet(Acquiring(x)) /\ Cardinality(Acquiring(x)) \in Nat
<1> SUFFICES ASSUME NEW x PROVE IsFiniteSet(Acquiring(x)) /\ Cardinality(Acquiring(x)) \in Nat
  OBVIOUS
<1>1. Acquiring(x) \subseteq Callers
  BY DEF Acquiring
<1> QED BY <1>1, SubscriptionsAssumption, FS_Subset, FS_CardinalityType

(* A caller comes to those that are acquiring, or leaves them. *)
LEMMA AcquiringMoves ==
    ASSUME NEW c \in Callers, OthersKept(c), NEW x
    PROVE  /\ c \in Acquiring(x)' /\ c \notin Acquiring(x) =>
                 Cardinality(Acquiring(x)') = Cardinality(Acquiring(x)) + 1
           /\ c \notin Acquiring(x)' /\ c \in Acquiring(x) =>
                 Cardinality(Acquiring(x)') = Cardinality(Acquiring(x)) - 1
           /\ (c \in Acquiring(x)' <=> c \in Acquiring(x)) => Acquiring(x)' = Acquiring(x)
<1>1. \A d \in Callers \ {c} : d \in Acquiring(x)' <=> d \in Acquiring(x)
  BY DEF Acquiring, OthersKept
<1>2. Acquiring(x) \subseteq Callers /\ Acquiring(x)' \subseteq Callers
  BY DEF Acquiring
<1>3. IsFiniteSet(Acquiring(x))
  BY AcquiringFinite
<1>4. ASSUME c \in Acquiring(x)', c \notin Acquiring(x)
      PROVE  Cardinality(Acquiring(x)') = Cardinality(Acquiring(x)) + 1
  <2>1. Acquiring(x)' = Acquiring(x) \cup {c}
    BY <1>1, <1>2, <1>4
  <2> QED BY <1>3, <1>4, <2>1, FS_AddElement
<1>5. ASSUME c \notin Acquiring(x)', c \in Acquiring(x)
      PROVE  Cardinality(Acquiring(x)') = Cardinality(Acquiring(x)) - 1
  <2>1. Acquiring(x)' = Acquiring(x) \ {c}
    BY <1>1, <1>2, <1>5
  <2> QED BY <1>3, <1>5, <2>1, FS_RemoveElement
<1>6. ASSUME c \in Acquiring(x)' <=> c \in Acquiring(x)
      PROVE  Acquiring(x)' = Acquiring(x)
  BY <1>1, <1>2, <1>6
<1> QED BY <1>4, <1>5, <1>6

LEMMA CountsStep ==
    ASSUME SubscriptionTypes, Shapes, CountsInv, Step
    PROVE  CountsInv'
<1> USE DEF SubscriptionTypes
<1>1. ASSUME UNCHANGED <<caller, counts, receivers, leaked>> PROVE CountsInv'
  BY <1>1 DEF CountsInv, Acquiring
<1>2. \A x \in Symbols : counts[x] \in Nat /\ receivers[x] \in Nat /\ leaked[x] \in Nat
  BY DEF IntentTypes
(* Steps of calls that take no count and give none back. *)
<1>3. ASSUME NEW c \in Callers, UNCHANGED <<counts, receivers, leaked>>, OthersKept(c),
             \A x \in Symbols : c \in Acquiring(x)' <=> c \in Acquiring(x)
      PROVE  CountsInv'
  <2>1. \A x \in Symbols : Acquiring(x)' = Acquiring(x)
    BY <1>3, AcquiringMoves
  <2> QED BY <1>3, <2>1 DEF CountsInv
<1>4. ASSUME NEW c \in Callers,
             Activate(c) \/ AddSymbol(c) \/ RemoveSymbol(c) \/ CloseSub(c) \/ ChartOn(c) \/ Refresh(c)
               \/ ChartOff(c)
      PROVE  CountsInv'
  <2>1. PICK op \in ListOps \cup ChartOps : \E on, pc : Start(c, op, on, pc)
    BY <1>4 DEF Activate, AddSymbol, RemoveSymbol, CloseSub, ChartOn, Refresh, ChartOff, ChartCall,
                ListOps, ChartOps
  <2>2. UNCHANGED <<counts, receivers, leaked>> /\ caller[c].pc = "idle"
    BY <1>4 DEF Activate, AddSymbol, RemoveSymbol, CloseSub, ChartOn, Refresh, ChartOff, ChartCall, MayStart
  <2>3. caller'[c].op = op /\ OthersKept(c)
    BY <2>1, StartIs
  <2>4. \A x \in Symbols : c \notin Acquiring(x)' /\ c \notin Acquiring(x)
    BY <2>2, <2>3 DEF Acquiring, ListOps, ChartOps
  <2> QED BY <1>3, <2>2, <2>3, <2>4
<1>5. ASSUME NEW c \in Callers, AcquireStatus(c) PROVE CountsInv'
  <2>1. PICK y \in Symbols : CountAndList(c, "acquire", y, Counted(y))
    BY <1>5 DEF AcquireStatus
  <2>2. UNCHANGED <<receivers, leaked>> /\ caller[c].pc = "idle"
    BY <1>5 DEF AcquireStatus, history, MayStart
  <2>3. /\ caller'[c].op = "acquire" /\ caller'[c].on = y /\ caller'[c].pc = "record" /\ OthersKept(c)
        /\ counts' = Counted(y)
    BY <2>1, CountIs
  <2> SUFFICES ASSUME NEW x \in Symbols
               PROVE  counts'[x] = receivers[x] + leaked[x] + Cardinality(Acquiring(x)')
    BY <2>2 DEF CountsInv
  <2>4. c \notin Acquiring(x)
    BY <2>2 DEF Acquiring
  <2>5. counts[x] = receivers[x] + leaked[x] + Cardinality(Acquiring(x)) /\ Cardinality(Acquiring(x)) \in Nat
    BY AcquiringFinite DEF CountsInv
  <2>6. CASE x = y
    <3>1. c \in Acquiring(x)' /\ counts'[x] = counts[x] + 1
      BY <2>3, <2>6 DEF Acquiring, Counted, IntentTypes
    <3>2. Cardinality(Acquiring(x)') = Cardinality(Acquiring(x)) + 1
      BY <2>3, <2>4, <3>1, AcquiringMoves
    <3> QED BY <1>2, <2>5, <3>1, <3>2
  <2>7. CASE x # y
    <3>1. c \notin Acquiring(x)' /\ counts'[x] = counts[x]
      BY <2>3, <2>7 DEF Acquiring, Counted, IntentTypes
    <3>2. Acquiring(x)' = Acquiring(x)
      BY <2>3, <2>4, <3>1, AcquiringMoves
    <3> QED BY <2>5, <3>1, <3>2
  <2> QED BY <2>6, <2>7
<1>6. ASSUME NEW c \in Callers, ReleaseStatus(c) PROVE CountsInv'
  <2>1. PICK y \in Symbols : /\ CountAndList(c, "release", y, Uncounted(y)) /\ receivers[y] > 0
                             /\ receivers' = [receivers EXCEPT ![y] = @ - 1]
    BY <1>6 DEF ReleaseStatus
  <2>2. UNCHANGED leaked /\ caller[c].pc = "idle"
    BY <1>6 DEF ReleaseStatus, MayStart
  <2>3. caller'[c].op = "release" /\ OthersKept(c) /\ counts' = Uncounted(y)
    BY <2>1, CountIs
  <2> SUFFICES ASSUME NEW x \in Symbols
               PROVE  counts'[x] = receivers'[x] + leaked[x] + Cardinality(Acquiring(x)')
    BY <2>2 DEF CountsInv
  <2>4. Acquiring(x)' = Acquiring(x)
    <3>1. c \notin Acquiring(x) /\ c \notin Acquiring(x)'
      BY <2>2, <2>3 DEF Acquiring
    <3> QED BY <2>3, <3>1, AcquiringMoves
  <2>5. counts[x] = receivers[x] + leaked[x] + Cardinality(Acquiring(x)) /\ Cardinality(Acquiring(x)) \in Nat
    BY AcquiringFinite DEF CountsInv
  <2>6. CASE x = y
    <3>1. counts[x] > 0
      BY <1>2, <2>1, <2>5, <2>6
    <3>2. counts'[x] = counts[x] - 1 /\ receivers'[x] = receivers[x] - 1
      BY <2>1, <2>3, <2>6, <3>1 DEF Uncounted, IntentTypes
    <3> QED BY <1>2, <2>4, <2>5, <3>2
  <2>7. CASE x # y
    <3>1. counts'[x] = counts[x] /\ receivers'[x] = receivers[x]
      BY <2>1, <2>3, <2>7 DEF Uncounted, IntentTypes
    <3> QED BY <2>4, <2>5, <3>1
  <2> QED BY <2>6, <2>7
<1>7. ASSUME NEW c \in Callers,
             CheckRunning(c) \/ ReadSymbols(c) \/ Hold(c) \/ Forget(c) \/ Gather(c)
      PROVE  CountsInv'
  <2>1. UNCHANGED <<counts, receivers, leaked>>
    BY <1>7 DEF CheckRunning, ReadSymbols, Hold, Forget, Gather, SetHeld, intents, history
  <2>2. caller[c].op \in ListOps
    BY <1>7 DEF CheckRunning, ReadSymbols, Hold, Forget, Gather, Shapes, Shape, ListOps, ChartOps, StatusOps
  <2>3. caller'[c].op = caller[c].op /\ OthersKept(c)
    BY <1>7 DEF CheckRunning, ReadSymbols, Hold, Forget, Gather, SetHeld, Goto, CallerTypes, CallerRec,
                OthersKept
  <2>4. \A x \in Symbols : c \notin Acquiring(x) /\ c \notin Acquiring(x)'
    BY <2>2, <2>3 DEF Acquiring, ListOps
  <2> QED BY <1>3, <2>1, <2>3, <2>4
(* A call ends: the count it took is its receiver's, or leaks. *)
<1>8. ASSUME NEW c \in Callers, OthersKept(c), caller[c].pc \in {"record", "send"},
             caller[c].op = "acquire", caller'[c].pc = "idle", counts' = counts,
             \/ leaked' = leaked /\ receivers' = [receivers EXCEPT ![caller[c].on] = @ + 1]
             \/ receivers' = receivers /\ leaked' = [leaked EXCEPT ![caller[c].on] = @ + 1]
      PROVE  CountsInv'
  <2> SUFFICES ASSUME NEW x \in Symbols
               PROVE  counts[x] = receivers'[x] + leaked'[x] + Cardinality(Acquiring(x)')
    BY <1>8 DEF CountsInv
  <2>1. counts[x] = receivers[x] + leaked[x] + Cardinality(Acquiring(x)) /\ Cardinality(Acquiring(x)) \in Nat
    BY AcquiringFinite DEF CountsInv
  <2>2. c \notin Acquiring(x)'
    BY <1>8 DEF Acquiring
  <2>3. CASE x = caller[c].on
    <3>1. c \in Acquiring(x)
      BY <1>8, <2>3 DEF Acquiring
    <3>2. Cardinality(Acquiring(x)') = Cardinality(Acquiring(x)) - 1
      BY <1>8, <2>2, <3>1, AcquiringMoves
    <3>3. \/ receivers'[x] = receivers[x] + 1 /\ leaked'[x] = leaked[x]
          \/ receivers'[x] = receivers[x] /\ leaked'[x] = leaked[x] + 1
      BY <1>8, <2>3 DEF IntentTypes
    <3> QED BY <1>2, <2>1, <3>2, <3>3
  <2>4. CASE x # caller[c].on
    <3>1. c \notin Acquiring(x)
      BY <2>4 DEF Acquiring
    <3>2. Acquiring(x)' = Acquiring(x)
      BY <1>8, <2>2, <3>1, AcquiringMoves
    <3>3. receivers'[x] = receivers[x] /\ leaked'[x] = leaked[x]
      BY <1>8, <2>4 DEF IntentTypes
    <3> QED BY <2>1, <3>2, <3>3
  <2> QED BY <2>3, <2>4
<1>9. ASSUME NEW c \in Callers, Record(c) \/ Send(c) \/ SendFails(c)
      PROVE  CountsInv'
  <2>1. caller[c].pc \in {"record", "send"} /\ counts' = counts /\ OthersKept(c)
    BY <1>9, RecordMoves, EndIs, SendFailsMoves DEF Record, Send, SendFails, intents
  <2>2. CASE caller[c].op = "acquire" /\ End(c)
    <3>1. caller'[c].pc = "idle" /\ receivers' = [receivers EXCEPT ![caller[c].on] = @ + 1]
      BY <2>2, EndIs DEF End
    <3>2. leaked' = leaked
      <4>1. ~SendFails(c)
        <5>1. SendFails(c) => UNCHANGED receivers
          BY DEF SendFails
        <5>2. caller[c].on \in Symbols
          BY <2>1, <2>2 DEF Shapes, Shape, StatusOps
        <5>3. receivers'[caller[c].on] = receivers[caller[c].on] + 1
          BY <3>1, <5>2 DEF IntentTypes
        <5> QED BY <1>2, <5>1, <5>2, <5>3
      <4> QED BY <1>9, <4>1 DEF Record, Send
    <3> QED BY <1>8, <2>1, <2>2, <3>1, <3>2
  <2>3. CASE caller[c].op = "acquire" /\ SendFails(c)
    <3>1. /\ caller'[c].pc = "idle" /\ receivers' = receivers
          /\ leaked' = [leaked EXCEPT ![caller[c].on] = @ + 1]
      BY <2>3, SendFailsMoves DEF SendFails
    <3> QED BY <1>8, <2>1, <2>3, <3>1
  <2>4. CASE caller[c].op # "acquire"
    <3>1. UNCHANGED <<receivers, leaked>>
      BY <1>9, <2>4 DEF Record, Send, SendFails, End
    <3>2. caller'[c].op # "acquire"
      BY <1>9, <2>4, RecordMoves, EndIs, SendFailsMoves DEF Send
    <3> QED BY <1>3, <2>1, <2>4, <3>1, <3>2 DEF Acquiring
  <2>5. CASE Record(c) /\ ~Skips(c)
    <3>1. UNCHANGED <<receivers, leaked>> /\ caller'[c].pc = "send" /\ caller'[c].op = caller[c].op
          /\ caller'[c].on = caller[c].on
      BY <2>5, RecordMoves DEF Record
    <3> QED BY <1>3, <2>1, <3>1 DEF Acquiring
  <2>6. \/ End(c) \/ SendFails(c) \/ (Record(c) /\ ~Skips(c))
    BY <1>9, RecordMoves DEF Send
  <2> QED BY <2>2, <2>3, <2>4, <2>5, <2>6
<1>10. ASSUME NEW ch \in Channels, ConnStep(ch) \/ Notice(ch)
      PROVE  UNCHANGED <<caller, counts, receivers, leaked>>
  BY <1>10 DEF ConnStep, Lose, Open, Install, Notice, Flush, Resend, intents, history
<1>11. CASE UNCHANGED AllButInbox
  BY <1>1, <1>11 DEF AllButInbox, intents, history
<1> QED BY <1>1, <1>4, <1>5, <1>6, <1>7, <1>9, <1>10, <1>11 DEF Step, Next, CallStart, CallStep

-----------------------------------------------------------------------------
(***************************************************************************)
(* Lists made and recorded.                                                *)
(***************************************************************************)
Listing(slot, c) == SlotOf(c) = slot /\ caller[c].pc \in {"gather", "record"}

LEMMA ListKept ==
    ASSUME NEW slot \in {"list", "status"}, ListInv(slot), NEW c \in Callers, OthersKept(c),
           stamps'.intent[slot] = stamps.intent[slot], stamps'.record[slot] = stamps.record[slot],
           stamps'.recordMost[slot] = stamps.recordMost[slot], recorded'[slot] = recorded[slot],
           WantedOf(slot)' = WantedOf(slot), ~Listing(slot, c), ~Listing(slot, c)'
    PROVE  ListInv(slot)'
<1>1. \A d \in Callers \ {c} : SlotOf(d)' = SlotOf(d) /\ caller'[d] = caller[d]
  BY DEF SlotOf, OthersKept
<1>2. Told(slot, WantedOf(slot)) => Told(slot, WantedOf(slot))'
  BY DEF Told
<1>3. ASSUME NEW d \in Callers, caller'[d].pc = "record", SlotOf(d)' = slot
      PROVE  d # c
  BY <1>3 DEF Listing
<1>4. ASSUME NEW d \in Callers, Recording(slot, d) PROVE Recording(slot, d)'
  <2>1. d # c
    BY <1>4 DEF Recording, Listing
  <2> QED BY <1>1, <1>4, <2>1 DEF Recording
<1> QED BY <1>1, <1>2, <1>3, <1>4 DEF ListInv

(* The intent moves on, by a call that lists it next. *)
LEMMA ListNewer ==
    ASSUME SubscriptionTypes, NEW slot \in {"list", "status"}, ListInv(slot), NEW c \in Callers,
           OthersKept(c), stamps'.intent[slot] = stamps.intent[slot] + 1,
           stamps'.record = stamps.record, stamps'.recordMost = stamps.recordMost,
           SlotOf(c)' = slot,
           \/ caller'[c].pc = "gather"
           \/ /\ caller'[c].pc = "record" /\ caller'[c].age = stamps.intent[slot] + 1
              /\ caller'[c].val = WantedOf(slot)' /\ caller'[c].val \in SUBSET Symbols
    PROVE  ListInv(slot)'
<1>1. /\ stamps.intent[slot] \in Nat /\ stamps.record[slot] \in Nat /\ stamps.recordMost[slot] \in Nat
      /\ \A d \in Callers : caller[d].age \in Nat
  BY StampFields DEF SubscriptionTypes, CallerTypes, CallerRec, Slots
<1>2. \A d \in Callers \ {c} : SlotOf(d)' = SlotOf(d) /\ caller'[d] = caller[d]
  BY DEF SlotOf, OthersKept
<1>3. stamps.record[slot] <= stamps.recordMost[slot] /\ stamps.recordMost[slot] <= stamps.intent[slot]
  BY DEF ListInv
<1>4. stamps'.record[slot] # stamps'.intent[slot]
  BY <1>1, <1>3
<1>5. Recording(slot, c)'
  BY DEF Recording
<1>6. ASSUME NEW d \in Callers, caller'[d].pc = "record", SlotOf(d)' = slot
      PROVE  /\ caller'[d].age <= stamps'.intent[slot]
             /\ caller'[d].val \in SUBSET Symbols
             /\ caller'[d].age = stamps'.intent[slot] => caller'[d].val = WantedOf(slot)'
  <2>1. CASE d = c
    BY <1>1, <1>6, <2>1
  <2>2. CASE d # c
    <3>1. caller[d].age <= stamps.intent[slot] /\ caller[d].val \in SUBSET Symbols
      BY <1>2, <1>6, <2>2 DEF ListInv
    <3> QED BY <1>1, <1>2, <2>2, <3>1
  <2> QED BY <2>1, <2>2
<1> QED BY <1>1, <1>3, <1>4, <1>5, <1>6 DEF ListInv

LEMMA ListCallStart ==
    ASSUME SubscriptionTypes, ListsInv, NEW c \in Callers, CallStart(c)
    PROVE  ListsInv'
<1> USE DEF SubscriptionTypes
<1>1. caller[c].pc = "idle" /\ recorded' = recorded /\ held' = held
  BY DEF CallStart, Activate, AddSymbol, RemoveSymbol, CloseSub, ChartOn, Refresh,
         ChartOff, ChartCall, AcquireStatus, ReleaseStatus, MayStart
<1>2. ~Listing("list", c) /\ ~Listing("status", c)
  BY <1>1 DEF Listing
<1>3. WantedOf("list")' = WantedOf("list")
  BY <1>1 DEF WantedOf, Wanted
<1>4. CASE AcquireStatus(c) \/ ReleaseStatus(c)
  <2>1. PICK op \in StatusOps, x \in Symbols : \E m : CountAndList(c, op, x, m)
    BY <1>4 DEF AcquireStatus, ReleaseStatus, StatusOps
  <2> PICK n : CountAndList(c, op, x, n)
    BY <2>1
  <2>2. /\ caller'[c].op = op /\ caller'[c].pc = "record"
        /\ caller'[c].val = Listed(n) /\ caller'[c].age = stamps.intent["status"] + 1
        /\ OthersKept(c) /\ counts' = n
        /\ stamps'.intent["status"] = stamps.intent["status"] + 1
        /\ stamps'.intent["list"] = stamps.intent["list"]
        /\ stamps'.record = stamps.record /\ stamps'.recordMost = stamps.recordMost
    BY CountIs
  <2>3. SlotOf(c)' = "status"
    BY <2>2 DEF SlotOf, StatusOps
  <2>4. WantedOf("status")' = Listed(n) /\ Listed(n) \in SUBSET Symbols
    BY <2>2 DEF WantedOf, Listed
  <2>5. ListInv("status")'
    BY <2>2, <2>3, <2>4, ListNewer DEF ListsInv
  <2>6. ~Listing("list", c)'
    BY <2>3 DEF Listing
  <2>7. ListInv("list")'
    BY <1>1, <1>2, <1>3, <2>2, <2>6, ListKept DEF ListsInv
  <2> QED BY <2>5, <2>7 DEF ListsInv
<1>5. CASE ~(AcquireStatus(c) \/ ReleaseStatus(c))
  <2>1. UNCHANGED <<stamps, counts>>
    BY <1>5 DEF CallStart, Activate, AddSymbol, RemoveSymbol, CloseSub, ChartOn, Refresh,
         ChartOff, ChartCall
  <2>2. WantedOf("status")' = WantedOf("status")
    BY <2>1 DEF WantedOf, Listed
  <2>3. OthersKept(c) /\ ~Listing("list", c)' /\ ~Listing("status", c)'
    <3>1. ASSUME NEW op \in ListOps, NEW on, NEW pc \in {"symbols", "running", "forget"}, Start(c, op, on, pc)
          PROVE  OthersKept(c) /\ ~Listing("list", c)' /\ ~Listing("status", c)'
      BY <3>1, StartIs DEF Listing
    <3>2. ASSUME NEW op \in ChartOps, NEW on, NEW pc, Start(c, op, on, pc)
          PROVE  OthersKept(c) /\ ~Listing("list", c)' /\ ~Listing("status", c)'
      <4>1. caller'[c].op = op /\ OthersKept(c)
        BY <3>2, StartIs
      <4>2. SlotOf(c)' = "chart"
        BY <4>1 DEF SlotOf, ChartOps
      <4> QED BY <4>1, <4>2 DEF Listing
    <3> QED BY <1>5, <3>1, <3>2 DEF CallStart, Activate, AddSymbol, RemoveSymbol, CloseSub, ChartOn,
              Refresh, ChartOff, ChartCall, ListOps, ChartOps
  <2> QED BY <1>1, <1>2, <1>3, <2>1, <2>2, <2>3, ListKept DEF ListsInv
<1> QED BY <1>4, <1>5

LEMMA ListCallStep ==
    ASSUME SubscriptionTypes, Shapes, ListsInv, NEW c \in Callers, CallStep(c)
    PROVE  ListsInv'
<1> USE DEF SubscriptionTypes
<1>1. ASSUME NEW d \in Callers, caller[d].op \in ListOps PROVE SlotOf(d) = "list"
  BY <1>1 DEF SlotOf, ListOps
<1>2. ASSUME NEW d \in Callers, caller'[d].op \in ListOps PROVE SlotOf(d)' = "list"
  BY <1>2 DEF SlotOf, ListOps
<1>3. counts' = counts
  BY DEF CallStep, CheckRunning, ReadSymbols, Hold, Forget, Gather, SetHeld, Record, Send, SendFails, intents
<1>4. WantedOf("status")' = WantedOf("status")
  BY <1>3 DEF WantedOf, Listed
<1>5. \A slot \in {"list", "status"} : stamps.intent[slot] \in Nat /\ stamps.record[slot] \in Nat
                                      /\ stamps.recordMost[slot] \in Nat
  BY StampFields DEF Slots
<1>6. CASE CheckRunning(c) \/ ReadSymbols(c)
  <2>1. /\ UNCHANGED <<held, stamps, recorded>> /\ OthersKept(c)
        /\ caller[c].pc \in {"running", "symbols"} /\ caller'[c].pc \in {"symbols", "hold", "idle"}
    BY <1>6 DEF CheckRunning, ReadSymbols, Goto, CallerTypes, CallerRec, OthersKept, intents
  <2>2. WantedOf("list")' = WantedOf("list")
    BY <2>1 DEF WantedOf, Wanted
  <2>3. \A slot \in {"list", "status"} : ~Listing(slot, c) /\ ~Listing(slot, c)'
    BY <2>1 DEF Listing
  <2> QED BY <1>4, <2>1, <2>2, <2>3, ListKept DEF ListsInv
<1>7. CASE Hold(c) \/ Forget(c)
  <2>1. caller[c].op \in ListOps /\ caller[c].on \in Subs
    BY <1>7 DEF Hold, Forget, Shapes, Shape, ListOps, ChartOps, StatusOps
  <2>2. PICK val : SetHeld(c, val)
    BY <1>7 DEF Hold, Forget
  <2>3. /\ caller'[c].pc = "gather" /\ caller'[c].op = caller[c].op /\ OthersKept(c)
        /\ stamps'.intent["list"] = stamps.intent["list"] + 1
        /\ stamps'.intent["status"] = stamps.intent["status"]
        /\ stamps'.record = stamps.record /\ stamps'.recordMost = stamps.recordMost
        /\ recorded' = recorded
    BY <2>1, <2>2, SetHeldIs DEF SetHeld
  <2>4. SlotOf(c) = "list" /\ SlotOf(c)' = "list"
    BY <1>1, <1>2, <2>1, <2>3
  <2>5. ListInv("list")'
    BY <2>3, <2>4, ListNewer DEF ListsInv
  <2>6. ~Listing("status", c) /\ ~Listing("status", c)'
    BY <2>4 DEF Listing
  <2>7. ListInv("status")'
    BY <1>4, <2>3, <2>6, ListKept DEF ListsInv
  <2> QED BY <2>5, <2>7 DEF ListsInv
<1>8. CASE Gather(c)
  <2>1. caller[c].op \in ListOps
    BY <1>8 DEF Gather, Shapes, Shape, ListOps, ChartOps, StatusOps
  <2> DEFINE age == stamps.intent["list"]
             val == Wanted
  <2>2. /\ caller' = [caller EXCEPT ![c].pc = "record", ![c].val = val, ![c].age = age]
        /\ UNCHANGED <<held, stamps, recorded>> /\ caller[c].pc = "gather"
    BY <1>8 DEF Gather, intents
  <2>3. val \in SUBSET Symbols
    BY DEF Wanted, IntentTypes
  <2>4. WantedOf("list") = val /\ WantedOf("list")' = val
    BY <2>2 DEF WantedOf, Wanted
  <2> HIDE DEF age, val
  <2>5. /\ caller'[c].pc = "record" /\ caller'[c].val = val /\ caller'[c].age = age
        /\ caller'[c].op = caller[c].op /\ OthersKept(c)
    BY <2>2 DEF CallerTypes, CallerRec, OthersKept
  <2>6. SlotOf(c) = "list" /\ SlotOf(c)' = "list"
    BY <1>1, <1>2, <2>1, <2>5
  <2>7. ~Listing("status", c) /\ ~Listing("status", c)'
    BY <2>6 DEF Listing
  <2>8. ListInv("status")'
    BY <1>4, <2>2, <2>5, <2>7, ListKept DEF ListsInv
  <2>9. ListInv("list")'
    <3>1. \A d \in Callers \ {c} : SlotOf(d)' = SlotOf(d) /\ caller'[d] = caller[d]
      BY <2>5 DEF SlotOf, OthersKept
    <3>2. ASSUME NEW d \in Callers, caller'[d].pc = "record", SlotOf(d)' = "list"
          PROVE  /\ caller'[d].age <= stamps'.intent["list"]
                 /\ caller'[d].val \in SUBSET Symbols
                 /\ caller'[d].age = stamps'.intent["list"] => caller'[d].val = WantedOf("list")'
      <4>1. CASE d = c
        <5>1. age \in Nat /\ stamps'.intent["list"] = age
          BY <1>5, <2>2 DEF age
        <5> QED BY <2>3, <2>4, <2>5, <4>1, <5>1
      <4>2. CASE d # c
        BY <2>2, <2>4, <3>1, <3>2, <4>2 DEF ListsInv, ListInv
      <4> QED BY <4>1, <4>2
    <3>3. Recording("list", c)'
      BY <2>2, <2>5, <2>6 DEF Recording, age
    <3>4. Told("list", WantedOf("list")) => Told("list", WantedOf("list"))'
      BY <2>2, <2>4 DEF Told
    <3> QED BY <2>2, <3>2, <3>3, <3>4 DEF ListsInv, ListInv
  <2> QED BY <2>8, <2>9 DEF ListsInv
<1>9. CASE Send(c) \/ SendFails(c)
  <2>1. caller[c].pc = "send" /\ OthersKept(c) /\ UNCHANGED <<held, recorded>>
    BY <1>9, EndIs, SendFailsMoves DEF Send, SendFails, intents
  <2>2. /\ stamps'.intent = stamps.intent /\ stamps'.record = stamps.record
        /\ stamps'.recordMost = stamps.recordMost
    <3>1. CASE Send(c)
      <4>1. MessageOf(c) \in MessageRec /\ Deliver(MessageOf(c))
        BY <3>1, RequestTypes DEF Send
      <4> QED BY <4>1, WrittenIs DEF Deliver
    <3>2. CASE SendFails(c)
      BY <3>2 DEF SendFails
    <3> QED BY <1>9, <3>1, <3>2
  <2>3. WantedOf("list")' = WantedOf("list")
    BY <2>1 DEF WantedOf, Wanted
  <2>4. \A slot \in {"list", "status"} : ~Listing(slot, c)
    BY <2>1 DEF Listing
  <2>5. caller'[c].pc \in {"idle", "forget"} \/ caller'[c].op = "unchart"
    BY <1>9, EndIs, SendFailsMoves DEF Send
  <2>6. \A slot \in {"list", "status"} : ~Listing(slot, c)'
    BY <2>5 DEF Listing, SlotOf
  <2> QED BY <1>4, <2>1, <2>2, <2>3, <2>4, <2>6, ListKept DEF ListsInv
<1>10. CASE Record(c)
  <2>1. /\ caller[c].pc = "record" /\ OthersKept(c) /\ caller'[c].pc \in {"send", "idle", "forget"}
        /\ UNCHANGED held
    BY <1>10, RecordMoves, EndIs DEF Record, intents
  <2>2. \A slot \in {"list", "status"} : WantedOf(slot)' = WantedOf(slot)
    BY <1>4, <2>1 DEF WantedOf, Wanted
  <2>3. \A slot : ~Listing(slot, c)'
    BY <2>1 DEF Listing
  <2> DEFINE z == SlotOf(c)
             age == IF z = "chart" THEN stamps.record[z] + 1 ELSE caller[c].age
             most == stamps'.recordMost[z]
             request == IF Skips(c) THEN recorded[z] ELSE Request(c)
  <2>4. /\ stamps'.intent = stamps.intent /\ stamps'.record = [stamps.record EXCEPT ![z] = age]
        /\ stamps'.recordMost = [stamps.recordMost EXCEPT ![z] = most]
        /\ recorded' = [recorded EXCEPT ![z] = request]
        /\ most \in {stamps.recordMost[z], age} /\ most >= stamps.recordMost[z] /\ most >= age
    BY <1>10, RecordIs
  <2>5. z \in Slots
    BY RequestTypes
  <2> HIDE DEF z, age, most, request
  <2>6. /\ \A s \in Slots \ {z} : /\ stamps'.record[s] = stamps.record[s] /\ recorded'[s] = recorded[s]
                                 /\ stamps'.recordMost[s] = stamps.recordMost[s]
        /\ stamps'.record[z] = age /\ recorded'[z] = request /\ stamps'.recordMost[z] = most
    BY <2>4, <2>5 DEF StampTypes, Ages, WireTypes
  <2>7. ASSUME NEW slot \in {"list", "status"}, ListInv(slot) PROVE ListInv(slot)'
    <3>1. CASE SlotOf(c) # slot
      <4>1. /\ stamps'.intent[slot] = stamps.intent[slot] /\ stamps'.record[slot] = stamps.record[slot]
            /\ stamps'.recordMost[slot] = stamps.recordMost[slot] /\ recorded'[slot] = recorded[slot]
        BY <2>4, <2>6, <3>1 DEF Slots, z
      <4>2. ~Listing(slot, c)
        BY <3>1 DEF Listing
      <4> QED BY <2>1, <2>2, <2>3, <2>7, <4>1, <4>2, ListKept
    <3>2. CASE SlotOf(c) = slot
      <4>1. slot # "chart" /\ slot \in Slots
        BY DEF Slots
      <4>2. /\ stamps'.intent[slot] = stamps.intent[slot] /\ stamps'.record[slot] = caller[c].age
            /\ stamps'.recordMost[slot] \in {stamps.recordMost[slot], caller[c].age}
            /\ stamps'.recordMost[slot] >= stamps.recordMost[slot]
            /\ stamps'.recordMost[slot] >= caller[c].age
            /\ recorded'[slot] = (IF Skips(c) THEN recorded[slot] ELSE Request(c))
        BY <2>4, <2>6, <3>2, <4>1 DEF z, age, request
      <4>3. Request(c) = caller[c].val /\ recorded'[slot] = caller[c].val
        <5>1. Request(c) = caller[c].val
          BY <3>2, <4>1 DEF Request, SlotOf
        <5> QED BY <3>2, <4>2, <5>1 DEF Skips
      <4>4. /\ caller[c].age <= stamps.intent[slot] /\ caller[c].val \in SUBSET Symbols
            /\ caller[c].age = stamps.intent[slot] => caller[c].val = WantedOf(slot)
            /\ caller[c].age \in Nat
        BY <2>1, <2>7, <3>2 DEF ListInv, CallerTypes, CallerRec
      <4>5. \A d \in Callers \ {c} : SlotOf(d)' = SlotOf(d) /\ caller'[d] = caller[d]
        BY <2>1 DEF SlotOf, OthersKept
      <4>6. stamps.recordMost[slot] <= stamps.intent[slot]
        BY <2>7 DEF ListInv
      <4>7. ASSUME NEW d \in Callers, caller'[d].pc = "record", SlotOf(d)' = slot
            PROVE  /\ caller'[d].age <= stamps'.intent[slot]
                   /\ caller'[d].val \in SUBSET Symbols
                   /\ caller'[d].age = stamps'.intent[slot] => caller'[d].val = WantedOf(slot)'
        BY <2>1, <2>2, <2>7, <4>2, <4>5, <4>7 DEF ListInv
      <4>8. stamps'.record[slot] = stamps'.intent[slot] => Told(slot, WantedOf(slot))'
        <5>1. ASSUME stamps'.record[slot] = stamps'.intent[slot]
              PROVE  recorded'[slot] = WantedOf(slot)' /\ WantedOf(slot)' \in SUBSET Symbols
          BY <2>2, <4>2, <4>3, <4>4, <5>1
        <5> QED BY <5>1, SubscriptionsAssumption DEF Told
      <4>9. \/ stamps'.recordMost[slot] = stamps'.intent[slot]
            \/ \E d \in Callers : Recording(slot, d)'
        <5>1. CASE caller[c].age = stamps.intent[slot] \/ stamps.recordMost[slot] = stamps.intent[slot]
          BY <1>5, <4>2, <4>4, <4>6, <5>1
        <5>2. CASE ~(caller[c].age = stamps.intent[slot] \/ stamps.recordMost[slot] = stamps.intent[slot])
          <6>1. PICK d \in Callers : Recording(slot, d)
            BY <2>7, <5>2 DEF ListInv
          <6>2. d # c
            BY <2>1, <5>2, <6>1 DEF Recording
          <6> QED BY <4>2, <4>5, <6>1, <6>2 DEF Recording
        <5> QED BY <5>1, <5>2
      <4>10. /\ stamps'.record[slot] <= stamps'.recordMost[slot]
             /\ stamps'.recordMost[slot] <= stamps'.intent[slot]
        BY <1>5, <4>2, <4>4, <4>6
      <4> QED BY <4>7, <4>8, <4>9, <4>10 DEF ListInv
    <3> QED BY <3>1, <3>2
  <2> QED BY <2>7 DEF ListsInv
<1> QED BY <1>6, <1>7, <1>8, <1>9, <1>10 DEF CallStep

LEMMA ListsStep ==
    ASSUME SubscriptionTypes, Shapes, ListsInv, Step
    PROVE  ListsInv'
<1> USE DEF SubscriptionTypes
<1>1. ASSUME UNCHANGED <<caller, held, counts, recorded>>, stamps'.intent = stamps.intent,
             stamps'.record = stamps.record, stamps'.recordMost = stamps.recordMost
      PROVE  ListsInv'
  <2>1. \A slot : WantedOf(slot)' = WantedOf(slot)
    BY <1>1 DEF WantedOf, Wanted, Listed
  <2> QED BY <1>1, <2>1 DEF ListsInv, ListInv, Recording, SlotOf, Told
<1>2. ASSUME NEW ch \in Channels, ConnStep(ch) \/ Notice(ch)
      PROVE  /\ UNCHANGED <<caller, held, counts, recorded>> /\ stamps'.intent = stamps.intent
             /\ stamps'.record = stamps.record /\ stamps'.recordMost = stamps.recordMost
  <2>1. UNCHANGED <<caller, held, counts, recorded>>
    BY <1>2 DEF ConnStep, Lose, Open, Install, Notice, Flush, Resend, intents
  <2>2. CASE Lose(ch) \/ Install(ch) \/ Notice(ch)
    BY <2>1, <2>2 DEF Lose, Install, Notice
  <2>3. CASE Open(ch)
    BY <2>1, <2>3 DEF Open, StampTypes
  <2>4. CASE Flush(ch)
    BY <2>1, <2>4, FlushIs, WrittenIs
  <2>5. ASSUME NEW t \in Tasks, Resend(ch, t)
        PROVE  /\ stamps'.intent = stamps.intent
               /\ stamps'.record = stamps.record /\ stamps'.recordMost = stamps.recordMost
    <3>1. Head(resend[ch][t]) \in MessageRec /\ Deliver(Head(resend[ch][t]))
      BY <2>5, ResendIs
    <3> QED BY <3>1, WrittenIs DEF Deliver
  <2> QED BY <1>2, <2>1, <2>2, <2>3, <2>4, <2>5 DEF ConnStep
<1>3. CASE UNCHANGED AllButInbox
  BY <1>1, <1>3 DEF AllButInbox, intents
<1> QED BY <1>1, <1>2, <1>3, ListCallStart, ListCallStep DEF Step, Next

-----------------------------------------------------------------------------
IntentInv == SubsInv /\ ChartInv /\ CountsInv /\ ListsInv

LEMMA IntentInit == Init => IntentInv
<1> SUFFICES ASSUME Init PROVE IntentInv
  OBVIOUS
<1>1. \A c \in Callers : caller[c].pc = "idle"
  BY DEF Init, Idle
<1>2. SubsInv
  <2> SUFFICES ASSUME NEW s \in Subs PROVE SubInv(s)
    BY DEF SubsInv
  <2>1. CallsOn(s) = {}
    BY <1>1 DEF CallsOn, Busy
  <2>2. HeldRight(s)
    BY DEF Init, HeldRight
  <2> QED BY <2>1, <2>2 DEF SubInv
<1>3. ChartInv
  <2>1. ChartCalls = {}
    BY <1>1 DEF ChartCalls
  <2>2. ChartRight /\ ~chart.running
    BY SubscriptionsAssumption DEF Init, ChartRight, Slots
  <2> QED BY <2>1, <2>2 DEF ChartInv
<1>4. CountsInv
  <2> SUFFICES ASSUME NEW x \in Symbols
               PROVE  counts[x] = receivers[x] + leaked[x] + Cardinality(Acquiring(x))
    BY DEF CountsInv
  <2>1. Acquiring(x) = {}
    BY <1>1 DEF Acquiring
  <2> QED BY <2>1, FS_EmptySet DEF Init
<1>5. ListsInv
  <2>1. Wanted = {} /\ Listed(counts) = {}
    BY DEF Init, Wanted, Listed
  <2>2. \A slot \in {"list", "status"} : Told(slot, WantedOf(slot))
    BY <2>1 DEF Init, Told, WantedOf, Slots
  <2> QED BY <1>1, <2>2 DEF ListsInv, ListInv, Init, Slots
<1> QED BY <1>2, <1>3, <1>4, <1>5 DEF IntentInv

(* With no call under way, nothing is left to be done. *)
LEMMA IntentInvRecorded ==
    ASSUME SubscriptionTypes, IntentInv
    PROVE  IntentRecorded
<1> SUFFICES ASSUME \A c \in Callers : caller[c].pc = "idle"
             PROVE  /\ \A s \in Subs \ crossed :
                          held[s] = IF subs[s].running THEN subs[s].symbols ELSE None
                    /\ Late("list") \/ Told("list", Wanted)
                    /\ "chart" \in crossed \/ (recorded["chart"] = "on") = chart.running
                    /\ \A x \in Symbols : counts[x] = receivers[x] + leaked[x]
                    /\ Late("status") \/ Told("status", Listed(counts))
  BY DEF IntentRecorded
<1>1. ASSUME NEW s \in Subs \ crossed
      PROVE  held[s] = IF subs[s].running THEN subs[s].symbols ELSE None
  <2>1. CallsOn(s) = {}
    BY DEF CallsOn, Busy
  <2> QED BY <2>1 DEF IntentInv, SubsInv, SubInv, HeldRight
<1>2. ASSUME NEW slot \in {"list", "status"} PROVE Late(slot) \/ Told(slot, WantedOf(slot))
  <2>1. stamps.record[slot] \in Nat /\ stamps.recordMost[slot] \in Nat /\ stamps.intent[slot] \in Nat
    BY StampFields DEF SubscriptionTypes, Slots
  <2>2. stamps.recordMost[slot] = stamps.intent[slot] /\ stamps.record[slot] <= stamps.recordMost[slot]
    BY DEF IntentInv, ListsInv, ListInv, Recording
  <2>3. stamps.record[slot] = stamps.intent[slot] => Told(slot, WantedOf(slot))
    BY DEF IntentInv, ListsInv, ListInv
  <2> QED BY <2>1, <2>2, <2>3 DEF Late
<1>3. Late("list") \/ Told("list", Wanted)
  BY <1>2 DEF WantedOf
<1>4. Late("status") \/ Told("status", Listed(counts))
  BY <1>2 DEF WantedOf
<1>5. ASSUME "chart" \notin crossed PROVE (recorded["chart"] = "on") = chart.running
  <2>1. ChartCalls = {}
    BY DEF ChartCalls
  <2>2. recorded["chart"] = "on" <=> chart.running
    BY <1>5, <2>1 DEF IntentInv, ChartInv, ChartRight
  <2>3. chart.running \in BOOLEAN
    BY DEF SubscriptionTypes, IntentTypes, ChartRec
  <2>4. CASE chart.running = TRUE
    <3>1. (recorded["chart"] = "on") = TRUE
      BY <2>2, <2>4
    <3> QED BY <2>4, <3>1, Zenon
  <2>5. CASE chart.running = FALSE
    <3>1. (recorded["chart"] = "on") = FALSE
      BY <2>2, <2>5
    <3> QED BY <2>5, <3>1, Zenon
  <2> QED BY <2>3, <2>4, <2>5
<1>6. ASSUME NEW x \in Symbols PROVE counts[x] = receivers[x] + leaked[x]
  <2>1. Acquiring(x) = {}
    BY DEF Acquiring
  <2>2. receivers[x] \in Nat /\ leaked[x] \in Nat
    BY DEF SubscriptionTypes, IntentTypes
  <2>3. Cardinality(Acquiring(x)) = 0
    BY <2>1, FS_EmptySet
  <2>4. counts[x] = receivers[x] + leaked[x] + Cardinality(Acquiring(x))
    BY DEF IntentInv, CountsInv
  <2> QED BY <2>2, <2>3, <2>4
<1> QED BY <1>1, <1>3, <1>4, <1>5, <1>6

LEMMA IntentStep ==
    ASSUME SubscriptionTypes, Shapes, IntentInv, Step
    PROVE  IntentInv'
  BY SubsStep, ChartStep, CountsStep, ListsStep DEF IntentInv

(* Once no call is under way, what was requested last is what the holders   *)
(* want, whatever calls of other tasks came in between                      *)
(* (quote/lifecycle.rs, series/subscription.rs, ins/trading_status.rs).     *)
THEOREM IntentRecordedHolds == Spec => []IntentRecorded
<1>1. Init => SubscriptionTypes /\ Shapes /\ IntentInv
  BY TypesInit, ShapesInit, IntentInit
<1>2. SubscriptionTypes /\ Shapes /\ IntentInv /\ [Next]_vars
        => (SubscriptionTypes /\ Shapes /\ IntentInv)'
  BY SubscriptionSteps, TypesStep, IntentStep
<1>3. SubscriptionTypes /\ IntentInv => IntentRecorded
  BY IntentInvRecorded
<1> QED BY <1>1, <1>2, <1>3, PTL DEF Spec

(* So it is while the answers are put together again. *)
THEOREM IntentRecordedResync == ResyncSpec => []IntentRecorded
<1>1. ResyncInit => SubscriptionTypes /\ Shapes /\ IntentInv
  BY TypesInit, ShapesInit, IntentInit DEF ResyncInit
<1>2. SubscriptionTypes /\ Shapes /\ IntentInv /\ [ResyncNext]_<<vars, resyncVars>>
        => (SubscriptionTypes /\ Shapes /\ IntentInv)'
  BY ResyncSteps, TypesStep, IntentStep
<1>3. SubscriptionTypes /\ IntentInv => IntentRecorded
  BY IntentInvRecorded
<1> QED BY <1>1, <1>2, <1>3, PTL DEF ResyncSpec

-----------------------------------------------------------------------------
LEMMA LeastElement ==
    ASSUME NEW S \in SUBSET Nat, S # {}
    PROVE  \E x \in S : \A y \in S : x <= y
<1>1. PICK x \in S : \A y \in S : ~ (<<y, x>> \in OpToRel(<, Nat))
  BY NatLessThanWellFounded, WFMin
<1>2. \A y \in S : ~ (y < x)
  BY <1>1 DEF OpToRel
<1> QED BY <1>2

-----------------------------------------------------------------------------
(***************************************************************************)
(* What frames amount to.                                                  *)
(***************************************************************************)
FrameRec == [slot : {"list", "chart", "notice"}, val : Contents, age : Nat]
DataRec == [list : Contents, chart : Contents]

MergeStep(p, ds, g, s) == IF s = {} THEN p ELSE Merged(g[s \ {Max(s)}], ds[Max(s)])
MergeOf(p, ds) == CHOOSE g : g = [s \in SUBSET DOMAIN ds |-> MergeStep(p, ds, g, s)]

LEMMA MergedAllIs ==
    ASSUME NEW p, NEW ds
    PROVE  MergedAll(p, ds) = MergeOf(p, ds)[DOMAIN ds]
  BY DEF MergedAll, FoldLeft, MapThenFoldSet, MergeOf, MergeStep

LEMMA MaxOfUpTo ==
    ASSUME NEW n \in Nat, NEW s \in SUBSET (1 .. n), n \in s
    PROVE  Max(s) = n
<1>1. \A y \in s : n >= y
  OBVIOUS
<1>2. \A x \in s : (\A y \in s : x >= y) => x = n
  OBVIOUS
<1> QED BY <1>1, <1>2 DEF Max

(* The fold over the frames is a function: over one frame more it takes one *)
(* more step.                                                              *)
LEMMA MergeExists ==
    ASSUME NEW p, NEW ds, NEW n \in Nat, DOMAIN ds = 1 .. n
    PROVE  MergeOf(p, ds) = [s \in SUBSET (1 .. n) |-> MergeStep(p, ds, MergeOf(p, ds), s)]
<1> DEFINE Fits(g, k) == g = [s \in SUBSET (1 .. k) |-> MergeStep(p, ds, g, s)]
           Bad == {k \in Nat : ~ \E g : Fits(g, k)}
<1>1. Bad = {}
  <2> SUFFICES ASSUME Bad # {} PROVE FALSE
    OBVIOUS
  <2>1. PICK k \in Bad : \A y \in Bad : k <= y
    BY LeastElement, Bad \in SUBSET Nat
  <2>2. k # 0
    <3> SUFFICES ASSUME k = 0 PROVE FALSE
      OBVIOUS
    <3> DEFINE g == [s \in SUBSET (1 .. 0) |-> p]
    <3>1. 1 .. 0 = {}
      OBVIOUS
    <3>2. Fits(g, 0)
      BY <3>1 DEF MergeStep
    <3> QED BY <3>2, <2>1
  <2>3. k - 1 \in Nat /\ k - 1 \notin Bad /\ k \in Nat
    <3>1. k \in Nat
      BY <2>1
    <3> HIDE DEF Bad
    <3> QED BY <2>1, <2>2, <3>1
  <2>4. PICK g : Fits(g, k - 1)
    BY <2>3
  <2> DEFINE h == [s \in SUBSET (1 .. k) |->
                      IF k \in s THEN Merged(g[s \ {k}], ds[k]) ELSE g[s]]
  <2>5. ASSUME NEW s \in SUBSET (1 .. k), k \in s PROVE h[s] = MergeStep(p, ds, h, s)
    <3>1. Max(s) = k /\ s # {}
      BY <2>3, <2>5, MaxOfUpTo
    <3>2. s \ {k} \in SUBSET (1 .. k) /\ k \notin s \ {k}
      OBVIOUS
    <3>3. h[s \ {k}] = g[s \ {k}] /\ h[s] = Merged(g[s \ {k}], ds[k])
      BY <2>5, <3>2
    <3> HIDE DEF h
    <3> QED BY <3>1, <3>3 DEF MergeStep
  <2>6. ASSUME NEW s \in SUBSET (1 .. k), k \notin s PROVE h[s] = MergeStep(p, ds, h, s)
    <3>1. 1 .. (k - 1) = (1 .. k) \ {k}
      BY <2>3
    <3>2. s \in SUBSET (1 .. (k - 1))
      BY <2>6, <3>1
    <3>3. h[s] = g[s] /\ g[s] = MergeStep(p, ds, g, s)
      BY <2>4, <2>6, <3>2
    <3>4. s \ {Max(s)} \in SUBSET (1 .. k) /\ k \notin s \ {Max(s)}
      BY <2>6
    <3>5. h[s \ {Max(s)}] = g[s \ {Max(s)}]
      BY <3>4
    <3> HIDE DEF h
    <3> QED BY <3>3, <3>5 DEF MergeStep
  <2>7. Fits(h, k)
    <3>1. \A s \in SUBSET (1 .. k) : h[s] = MergeStep(p, ds, h, s)
      BY <2>5, <2>6
    <3>2. h = [s \in SUBSET (1 .. k) |-> h[s]]
      OBVIOUS
    <3> HIDE DEF h
    <3> QED BY <3>1, <3>2
  <2> HIDE DEF h
  <2> QED BY <2>1, <2>7
<1>2. \E g : Fits(g, n)
  BY <1>1
<1> QED BY <1>2 DEF MergeOf

LEMMA MergeSteps ==
    ASSUME NEW p, NEW ds, NEW n \in Nat, DOMAIN ds = 1 .. n
    PROVE  /\ MergeOf(p, ds)[{}] = p
           /\ \A k \in 1 .. n : MergeOf(p, ds)[1 .. k] = Merged(MergeOf(p, ds)[1 .. (k - 1)], ds[k])
<1> DEFINE g == MergeOf(p, ds)
<1>1. g = [s \in SUBSET (1 .. n) |-> MergeStep(p, ds, g, s)]
  BY MergeExists
<1> HIDE DEF g
<1>2. \A s \in SUBSET (1 .. n) : g[s] = MergeStep(p, ds, g, s)
  BY <1>1
<1>3. g[{}] = p
  BY <1>2 DEF MergeStep
<1>4. ASSUME NEW k \in 1 .. n PROVE g[1 .. k] = Merged(g[1 .. (k - 1)], ds[k])
  <2>1. 1 .. k \in SUBSET (1 .. n) /\ 1 .. k # {} /\ k \in 1 .. k /\ k \in Nat
    OBVIOUS
  <2>2. Max(1 .. k) = k
    BY <2>1, MaxOfUpTo
  <2>3. (1 .. k) \ {k} = 1 .. (k - 1)
    OBVIOUS
  <2>4. g[1 .. k] = MergeStep(p, ds, g, 1 .. k)
    BY <1>2, <2>1
  <2> QED BY <2>1, <2>2, <2>3, <2>4 DEF MergeStep
<1> QED BY <1>3, <1>4 DEF g

(* The newest of a run of frames that is of a slot has a value. *)
NewestIs(frames, slot, val, barred) ==
    \E k \in 1 .. Len(frames) :
        /\ frames[k].slot = slot /\ frames[k].val = val
        /\ \A j \in 1 .. Len(frames) : j > k => frames[j].slot \notin barred

LEMMA MergedType ==
    ASSUME NEW data \in DataRec, NEW frame \in FrameRec
    PROVE  /\ Merged(data, frame) \in DataRec
           /\ \A slot \in {"list", "chart"} :
                 Merged(data, frame)[slot] = IF frame.slot = slot THEN frame.val ELSE data[slot]
  BY DEF Merged, DataRec, FrameRec

(* So what frames amount to is, of each slot, the newest of them. *)
LEMMA MergedAllNewest ==
    ASSUME NEW p \in DataRec, NEW ds \in Seq(FrameRec)
    PROVE  /\ MergedAll(p, ds) \in DataRec
           /\ \A slot \in {"list", "chart"} : \A val :
                 NewestIs(ds, slot, val, {slot}) => MergedAll(p, ds)[slot] = val
<1> DEFINE n == Len(ds)
           m == [k \in 0 .. n |-> MergeOf(p, ds)[1 .. k]]
<1>1. n \in Nat /\ DOMAIN ds = 1 .. n /\ \A k \in 1 .. n : ds[k] \in FrameRec
  OBVIOUS
<1>2. m[0] = p /\ \A k \in 1 .. n : m[k] = Merged(m[k - 1], ds[k])
  <2>1. 1 .. 0 = {} /\ 0 \in 0 .. n /\ \A k \in 1 .. n : k \in 0 .. n /\ k - 1 \in 0 .. n
    BY <1>1
  <2> HIDE DEF n
  <2> QED BY <1>1, <2>1, MergeSteps
<1>3. MergedAll(p, ds) = m[n]
  BY <1>1, MergedAllIs
<1> HIDE DEF m, n
<1>4. ASSUME NEW k \in 0 .. n PROVE m[k] \in DataRec
  <2> DEFINE Bad == {j \in 0 .. n : m[j] \notin DataRec}
  <2> SUFFICES ASSUME Bad # {} PROVE FALSE
    OBVIOUS
  <2>1. Bad \in SUBSET Nat
    BY <1>1
  <2>2. PICK j \in Bad : \A y \in Bad : j <= y
    BY <2>1, LeastElement
  <2>3. j # 0 /\ j \in 1 .. n
    BY <1>1, <1>2, <2>2
  <2>4. j - 1 \in 0 .. n /\ j - 1 \notin Bad
    BY <1>1, <2>2, <2>3
  <2>5. m[j - 1] \in DataRec
    BY <2>4
  <2>6. m[j] \in DataRec
    BY <1>1, <1>2, <2>3, <2>5, MergedType
  <2> QED BY <2>2, <2>6
<1>5. ASSUME NEW slot \in {"list", "chart"}, NEW val, NewestIs(ds, slot, val, {slot})
      PROVE  m[n][slot] = val
  <2>1. PICK k \in 1 .. n : /\ ds[k].slot = slot /\ ds[k].val = val
                           /\ \A j \in 1 .. n : j > k => ds[j].slot # slot
    BY <1>5 DEF NewestIs, n
  <2>2. \A j \in 1 .. n : m[j][slot] = IF ds[j].slot = slot THEN ds[j].val ELSE m[j - 1][slot]
    <3> TAKE j \in 1 .. n
    <3>1. j - 1 \in 0 .. n /\ m[j - 1] \in DataRec
      BY <1>1, <1>4
    <3> QED BY <1>1, <1>2, <3>1, MergedType
  <2> DEFINE Bad == {j \in k .. n : m[j][slot] # val}
  <2> SUFFICES ASSUME Bad # {} PROVE FALSE
    BY <1>1, <2>1
  <2>3. Bad \in SUBSET Nat
    BY <1>1, <2>1
  <2>4. PICK j \in Bad : \A y \in Bad : j <= y
    BY <2>3, LeastElement
  <2>5. j \in 1 .. n /\ j >= k /\ m[j][slot] # val
    BY <1>1, <2>1, <2>4
  <2>6. j # k
    BY <2>1, <2>2, <2>5
  <2>7. j - 1 \in k .. n /\ j - 1 \notin Bad
    BY <1>1, <2>1, <2>4, <2>5, <2>6
  <2>8. m[j - 1][slot] = val /\ ds[j].slot # slot
    BY <1>1, <2>1, <2>5, <2>6, <2>7
  <2> QED BY <2>2, <2>5, <2>8
<1> QED BY <1>1, <1>3, <1>4, <1>5

-----------------------------------------------------------------------------
(***************************************************************************)
(* Resynced.  Follow what the server was told: its answer is in the inbox   *)
(* behind everything that could bring another one, or it is the newest that *)
(* the handler has taken of its slot.                                      *)
(***************************************************************************)
Data == {"list", "chart"}

ResyncTypes ==
    /\ inbox \in Seq(FrameRec)
    /\ pending \in BOOLEAN
    /\ diffs \in Seq(FrameRec)
    /\ apart \in {None} \cup DataRec
    /\ published \in DataRec
    /\ handler \in [pc : {"idle", "start", "append", "look", "complete"},
                    frame : {None} \cup FrameRec]
    /\ ~At("idle") => handler.frame \in FrameRec

(* The connection is up, or about to be, and the notice of it was taken.     *)
Alive == conn["quote"].state \in {"up", "open"}
NoFrameOf(slots) == \A i \in 1 .. Len(inbox) : inbox[i].slot \notin slots
Live == Alive /\ NoFrameOf({"notice"})

LEMMA AnswersAre ==
    ASSUME NEW m \in MessageRec, m.slot \in Data
    PROVE  /\ Answers(m) \in Seq(FrameRec)
           /\ \A i \in 1 .. Len(Answers(m)) : Answers(m)[i].slot = m.slot
           /\ load.answers => /\ Len(Answers(m)) > 0
                              /\ Answers(m)[Len(Answers(m))].val = m.val
<1>1. m.slot # "status" /\ m.val \in Values
  BY DEF Data, MessageRec
<1>2. CASE ~load.answers
  <2>1. Answers(m) = <<>>
    BY <1>2 DEF Answers
  <2> QED BY <1>2, <2>1
<1>3. CASE load.answers
  <2> DEFINE f == Message("chart", "more", 0)
             g == Message(m.slot, m.val, 0)
             q == IF m.slot = "chart" /\ m.val = "on" THEN <<f>> ELSE <<>>
  <2>1. Answers(m) = q \o <<g>>
    BY <1>1, <1>3 DEF Answers
  <2>2. f \in FrameRec /\ f.slot = "chart" /\ g \in FrameRec /\ g.slot = m.slot /\ g.val = m.val
    BY <1>1 DEF Message, FrameRec, Contents, Values, Data
  <2> HIDE DEF f, g
  <2>3. q \in Seq(FrameRec) /\ Len(q) \in Nat /\ \A i \in 1 .. Len(q) : q[i].slot = m.slot
    <3>1. CASE q = <<f>> /\ m.slot = "chart"
      BY <2>2, <3>1
    <3>2. CASE q = <<>>
      BY <3>2
    <3> QED BY <3>1, <3>2
  <2> HIDE DEF q
  <2>4. /\ q \o <<g>> \in Seq(FrameRec) /\ Len(q \o <<g>>) = Len(q) + 1
        /\ (q \o <<g>>)[Len(q) + 1] = g
        /\ \A i \in 1 .. Len(q) : (q \o <<g>>)[i] = q[i]
    BY <2>2, <2>3
  <2>5. \A i \in 1 .. Len(q) + 1 : i \in 1 .. Len(q) \/ i = Len(q) + 1
    BY <2>3
  <2> QED BY <2>1, <2>2, <2>3, <2>4, <2>5
<1> QED BY <1>2, <1>3

(* What the steps beside the handler do to all that the handler depends on. *)
LeavesAlone(s) ==
    /\ recorded'[s] = recorded[s] /\ server'[s] = server[s]
    /\ stamps'.write[s] = stamps.write[s] /\ stamps'.version[s] = stamps.version[s]

Stays == load' = load /\ ~Breaks /\ (Alive' <=> Alive)
Quiet == Stays /\ inbox' = inbox /\ \A s \in Data : LeavesAlone(s)
Asks == Stays /\ inbox' = inbox /\ server' = server
        /\ \E s \in Data : stamps'.write[s] # stamps'.version[s]
Tells(m) ==
    /\ Stays /\ Alive /\ m \in MessageRec /\ m.slot \in Data
    /\ inbox' = inbox \o Answers(m)
    /\ server' = [server EXCEPT ![m.slot] = m.val]
Opens ==
    /\ load' = load /\ ~Breaks
    /\ inbox' = IF load.answers THEN Append(inbox, Message("notice", None, 0)) ELSE inbox
    /\ \A s \in Data : server'[s] = None
Ends == load' = load /\ Breaks /\ inbox' \in Seq(FrameRec)

Effects == Quiet \/ Asks \/ (\E m : Tells(m)) \/ Opens \/ Ends

LEMMA WrittenEffects ==
    ASSUME SubscriptionTypes, inbox \in Seq(FrameRec), NEW m \in MessageRec, load' = load, recorded' = recorded,
           \A ch \in Channels : conn'[ch].state = conn[ch].state,
           \/ Written(m) /\ Connected(ChannelOf(m.slot))
           \/ UNCHANGED <<server, inbox, stamps>>
    PROVE  Effects
<1>1. Stays
  BY DEF Stays, Alive, Breaks, Connected, Channels
<1>2. CASE UNCHANGED <<server, inbox, stamps>>
  BY <1>1, <1>2 DEF Effects, Quiet, LeavesAlone
<1>3. CASE Written(m) /\ Connected(ChannelOf(m.slot)) /\ m.slot \in Data
  <2>1. Alive
    BY <1>3 DEF Connected, ChannelOf, Data, Alive
  <2>2. inbox' = inbox \o Answers(m) /\ server' = [server EXCEPT ![m.slot] = m.val]
    BY <1>3 DEF Written
  <2> QED BY <1>1, <1>3, <2>1, <2>2 DEF Effects, Tells
<1>4. CASE Written(m) /\ m.slot \notin Data
  <2>1. m.slot = "status"
    BY <1>4 DEF Data, MessageRec, Slots
  <2>2. Answers(m) = <<>>
    BY <2>1 DEF Answers
  <2>3. /\ server' = [server EXCEPT !["status"] = m.val] /\ stamps'.version = stamps.version
        /\ stamps'.write = [stamps.write EXCEPT !["status"] = m.age]
    BY <1>4, <2>1, WrittenIs
  <2>4. inbox' = inbox \o <<>>
    BY <1>4, <2>2 DEF Written
  <2>5. inbox' = inbox
    BY <2>4
  <2>6. \A s \in Data : LeavesAlone(s)
    BY <2>3 DEF Data, LeavesAlone, SubscriptionTypes, WireTypes, StampTypes, Ages, Slots
  <2> QED BY <1>1, <2>5, <2>6 DEF Effects, Quiet
<1> QED BY <1>2, <1>3, <1>4

LEMMA SentEffects ==
    ASSUME SubscriptionTypes, inbox \in Seq(FrameRec), NEW m \in MessageRec, load' = load,
           recorded' = recorded, Deliver(m)
    PROVE  Effects
<1>1. CASE Connected(ChannelOf(m.slot))
  BY <1>1, WrittenEffects DEF Deliver
<1>2. CASE ~Connected(ChannelOf(m.slot))
  <2>1. UNCHANGED <<server, inbox, stamps>> /\ conn' = Queued(ChannelOf(m.slot), m)
    BY <1>2 DEF Deliver
  <2>2. \A ch \in Channels : conn'[ch].state = conn[ch].state
    BY <2>1 DEF Queued, SubscriptionTypes, WireTypes, ConnRec
  <2> QED BY <2>1, <2>2, WrittenEffects
<1> QED BY <1>1, <1>2

LEMMA ReceivedIs ==
    ASSUME inbox \in Seq(FrameRec), NEW ch \in Channels, inbox' \in Received(ch)
    PROVE  inbox' \in Seq(FrameRec) /\ (ch = "status" => inbox' = inbox)
<1>1. CASE ch = "status"
  BY <1>1 DEF Received
<1>2. CASE ch # "status"
  <2> DEFINE notices == {n \in DOMAIN inbox : inbox[n].slot = "notice"}
             least == Max({0} \cup notices)
  <2>1. PICK n \in least .. Len(inbox) : inbox' = SubSeq(inbox, 1, n)
    BY <1>2 DEF Received
  <2> HIDE DEF least
  <2>2. n <= Len(inbox)
    BY <2>1
  <2> QED BY <1>2, <2>1
<1> QED BY <1>1, <1>2

LEMMA BreakEffects ==
    ASSUME SubscriptionTypes, inbox \in Seq(FrameRec), NEW ch \in Channels, Connected(ch),
           inbox' \in Received(ch), conn' = Broken(ch), UNCHANGED <<load, recorded, server, stamps>>
    PROVE  Effects
<1>1. /\ conn'[ch].state \in {"down", "left"}
      /\ \A k \in Channels \ {ch} : conn'[k] = conn[k]
  BY BrokenIs DEF SubscriptionTypes
<1>2. inbox' \in Seq(FrameRec) /\ (ch = "status" => inbox' = inbox)
  BY ReceivedIs
<1>3. CASE ch = "quote"
  BY <1>1, <1>2, <1>3 DEF Effects, Ends, Breaks
<1>4. CASE ch = "status"
  <2>1. conn'["quote"] = conn["quote"]
    BY <1>1, <1>4 DEF Channels
  <2> QED BY <1>2, <1>4, <2>1 DEF Effects, Quiet, Stays, Breaks, Alive, Connected, LeavesAlone
<1> QED BY <1>3, <1>4 DEF Channels

LEMMA CallEffects ==
    ASSUME SubscriptionTypes, SubscriptionTypes', Shapes, WireInv, inbox \in Seq(FrameRec),
           NEW c \in Callers, CallStart(c) \/ CallStep(c)
    PROVE  Effects
<1>1. ASSUME UNCHANGED <<load, recorded, conn, server, inbox>>,
             \/ UNCHANGED stamps
             \/ \E slot \in Slots : stamps' = [stamps EXCEPT !.intent[slot] = @ + 1]
      PROVE  Effects
  <2>1. stamps'.write = stamps.write /\ stamps'.version = stamps.version
    BY <1>1 DEF SubscriptionTypes, StampTypes
  <2> QED BY <1>1, <2>1 DEF Effects, Quiet, Stays, Breaks, Alive, Connected, LeavesAlone
<1>2. CASE CallStart(c)
  <2>1. UNCHANGED <<load, recorded, conn, server, inbox>>
    BY <1>2 DEF CallStart, Activate, AddSymbol, RemoveSymbol, CloseSub, ChartOn, Refresh, ChartOff,
                ChartCall, AcquireStatus, ReleaseStatus, wires
  <2>2. \/ UNCHANGED stamps
        \/ stamps' = [stamps EXCEPT !.intent["status"] = @ + 1]
    BY <1>2 DEF CallStart, Activate, AddSymbol, RemoveSymbol, CloseSub, ChartOn, Refresh,
         ChartOff, ChartCall, AcquireStatus, ReleaseStatus, CountAndList
  <2> QED BY <1>1, <2>1, <2>2 DEF Slots
<1>3. CASE CheckRunning(c) \/ ReadSymbols(c) \/ Hold(c) \/ Forget(c) \/ Gather(c)
  <2>1. UNCHANGED <<load, recorded, conn, server, inbox>>
    BY <1>3 DEF CheckRunning, ReadSymbols, Hold, Forget, Gather, SetHeld, wires
  <2>2. \/ UNCHANGED stamps
        \/ stamps' = [stamps EXCEPT !.intent["list"] = @ + 1]
    BY <1>3 DEF CheckRunning, ReadSymbols, Hold, Forget, Gather, SetHeld
  <2> QED BY <1>1, <2>1, <2>2 DEF Slots
<1>4. CASE Record(c)
  <2> DEFINE slot == SlotOf(c)
             old == stamps.version[slot]
             version == IF Skips(c) THEN old ELSE old + 1
             request == IF Skips(c) THEN recorded[slot] ELSE Request(c)
  <2>1. UNCHANGED <<load, conn, server, inbox>> /\ slot \in Slots
    BY <1>4, RequestTypes DEF Record, wires, SubscriptionTypes
  <2>2. /\ stamps'.write = stamps.write
        /\ stamps'.version = [stamps.version EXCEPT ![slot] = version]
        /\ recorded' = [recorded EXCEPT ![slot] = request]
    BY <1>4, RecordIs
  <2>3. Stays
    BY <2>1 DEF Stays, Breaks, Alive, Connected
  <2>4. old \in Nat /\ stamps.write[slot] \in Nat /\ stamps.write[slot] <= old
    <3>1. /\ stamps.write[slot] \in Nat /\ stamps.writeMost[slot] \in Nat /\ old \in Nat
          /\ stamps.write[slot] <= stamps.writeMost[slot] /\ stamps.writeMost[slot] <= old
      BY <2>1, StampFields DEF SubscriptionTypes, WireInv, ServerRight
    <3> QED BY <3>1
  <2> HIDE DEF slot, old
  <2>5. CASE Skips(c) \/ slot = "status"
    <3>1. \A s \in Data : LeavesAlone(s)
      <4>1. CASE Skips(c)
        <5>1. stamps'.version = stamps.version /\ recorded' = recorded
          BY <2>1, <2>2, <4>1 DEF old, SubscriptionTypes, StampTypes, WireTypes, Ages
        <5> QED BY <2>1, <2>2, <5>1 DEF LeavesAlone
      <4>2. CASE slot = "status"
        <5> HIDE DEF version, request
        <5> QED BY <2>1, <2>2, <4>2 DEF Data, LeavesAlone, Slots, SubscriptionTypes, StampTypes, WireTypes, Ages
      <4> QED BY <2>5, <4>1, <4>2
    <3> QED BY <2>1, <2>3, <3>1 DEF Effects, Quiet
  <2>6. CASE ~Skips(c) /\ slot # "status"
    <3>1. stamps'.version[slot] = old + 1 /\ stamps'.write[slot] = stamps.write[slot]
      BY <2>1, <2>2, <2>6 DEF SubscriptionTypes, StampTypes, Ages
    <3>2. stamps'.write[slot] # stamps'.version[slot] /\ slot \in Data
      BY <2>1, <2>4, <2>6, <3>1 DEF Slots, Data
    <3> QED BY <2>1, <2>3, <3>2 DEF Effects, Asks
  <2> QED BY <2>5, <2>6
<1>5. CASE Send(c)
  <2> DEFINE m == MessageOf(c)
  <2>1. m \in MessageRec /\ Deliver(m) /\ load' = load /\ recorded' = recorded
    BY <1>5, RequestTypes DEF Send, SubscriptionTypes
  <2> HIDE DEF m
  <2> QED BY <2>1, SentEffects
<1>6. CASE SendFails(c)
  <2>1. ChannelOf(SlotOf(c)) \in Channels
    BY DEF ChannelOf, Channels
  <2> QED BY <1>6, <2>1, BreakEffects DEF SendFails
<1> QED BY <1>2, <1>3, <1>4, <1>5, <1>6 DEF CallStep

LEMMA ConnEffects ==
    ASSUME SubscriptionTypes, WireInv, inbox \in Seq(FrameRec), NEW ch \in Channels,
           ConnStep(ch) \/ Notice("status") \/ (~load.answers /\ Notice("quote"))
    PROVE  Effects
<1>1. CASE Lose(ch)
  BY <1>1, BreakEffects DEF Lose
<1>2. CASE Open(ch)
  <2>1. /\ load' = load /\ recorded' = recorded
        /\ inbox' = IF ch = "quote" /\ load.answers THEN Append(inbox, Message("notice", None, 0)) ELSE inbox
    BY <1>2 DEF Open
  <2>2. /\ conn[ch].state = "down" /\ conn'[ch].state = "open"
        /\ \A k \in Channels \ {ch} : conn'[k] = conn[k]
        /\ server' = [s \in Slots |-> IF ChannelOf(s) = ch THEN None ELSE server[s]]
        /\ stamps'.version = stamps.version
        /\ \A s \in Slots : ChannelOf(s) # ch => stamps'.write[s] = stamps.write[s]
    BY <1>2, OpenIs
  <2>3. \A s \in Data : ChannelOf(s) = "quote" /\ s \in Slots
    BY DEF Data, ChannelOf, Slots
  <2>4. CASE ch = "quote"
    BY <2>1, <2>2, <2>3, <2>4 DEF Effects, Opens, Breaks, Connected
  <2>5. CASE ch = "status"
    <3>1. conn'["quote"] = conn["quote"]
      BY <2>2, <2>5 DEF Channels
    <3>2. \A s \in Data : LeavesAlone(s)
      BY <2>1, <2>2, <2>3, <2>5 DEF LeavesAlone
    <3> QED BY <2>1, <2>5, <3>1, <3>2 DEF Effects, Quiet, Stays, Breaks, Alive, Connected
  <2> QED BY <2>4, <2>5 DEF Channels
<1>3. CASE Install(ch) \/ Notice("status") \/ Notice("quote")
  <2>1. UNCHANGED <<load, recorded, server, inbox, stamps>>
    BY <1>3 DEF Install, Notice
  <2>2. Stays
    <3>1. CASE Install(ch)
      <4>1. /\ conn[ch].state = "open" /\ conn'[ch].state = "up"
            /\ \A k \in Channels \ {ch} : conn'[k] = conn[k]
        BY <3>1, InstallIs
      <4>2. CASE ch = "quote"
        BY <2>1, <4>1, <4>2 DEF Stays, Breaks, Alive, Connected
      <4>3. CASE ch # "quote"
        <5>1. conn'["quote"] = conn["quote"]
          BY <4>1, <4>3 DEF Channels
        <5> QED BY <2>1, <5>1 DEF Stays, Breaks, Alive, Connected
      <4> QED BY <4>2, <4>3
    <3>2. CASE Notice("status") \/ Notice("quote")
      <4>1. \A k \in Channels : conn'[k].state = conn[k].state
        BY <3>2, NoticeIs DEF Channels
      <4> QED BY <2>1, <4>1 DEF Stays, Breaks, Alive, Connected, Channels
    <3> QED BY <1>3, <3>1, <3>2
  <2> QED BY <2>1, <2>2 DEF Effects, Quiet, LeavesAlone
<1>4. CASE Flush(ch)
  <2> DEFINE m == Head(conn[ch].flush)
  <2>1. /\ m \in MessageRec /\ Written(m) /\ load' = load /\ recorded' = recorded
        /\ \A k \in Channels : conn'[k].state = conn[k].state
    BY <1>4, FlushIs DEF Flush
  <2>2. Connected(ch) /\ conn[ch].flush # <<>> /\ conn[ch].flush \in Seq(MessageRec)
    BY <1>4 DEF Flush, SubscriptionTypes, WireTypes, ConnRec
  <2>3. m \in Box(ch)
    BY <2>2, ElemsOfTail DEF Box
  <2>4. ChannelOf(m.slot) = ch
    BY <2>3 DEF WireInv, BoxesRight
  <2> HIDE DEF m
  <2> QED BY <2>1, <2>2, <2>4, WrittenEffects
<1>5. ASSUME NEW t \in Tasks, Resend(ch, t) PROVE Effects
  <2> DEFINE m == Head(resend[ch][t])
  <2>1. m \in MessageRec /\ Deliver(m) /\ load' = load /\ recorded' = recorded
    BY <1>5, ResendIs DEF Resend
  <2> HIDE DEF m
  <2> QED BY <2>1, SentEffects
<1> QED BY <1>1, <1>2, <1>3, <1>4, <1>5 DEF ConnStep

LEMMA OtherEffects ==
    ASSUME SubscriptionTypes, SubscriptionTypes', Shapes, WireInv, inbox \in Seq(FrameRec), OtherStep
    PROVE  Effects
  BY CallEffects, ConnEffects DEF OtherStep, Channels

(* What the handler makes of the frames it has taken. *)
InFrame(slot, pcs) == handler.pc \in pcs /\ handler.frame.slot = slot
Shows(slot, val) ==
    IF pending
    THEN ~At("start") /\ val = (IF InFrame(slot, {"append"}) THEN handler.frame.val ELSE apart[slot])
    ELSE val = (IF InFrame(slot, {"append", "look"}) THEN handler.frame.val ELSE published[slot])

BuffersInv ==
    /\ At("start") => handler.frame.slot = "notice"
    /\ At("append") => handler.frame.slot \in Data
    /\ pending /\ ~At("start") =>
          /\ apart # None
          /\ \A slot \in Data : apart[slot] # None => NewestIs(diffs, slot, apart[slot], {slot})
    /\ load.answers /\ Live /\ handler.pc \in {"start", "append", "complete"} => pending

(* What the server was told on this connection is on its way to readers. *)
OnItsWay(slot, val) ==
    \/ NewestIs(inbox, slot, val, {slot, "notice"})
    \/ NoFrameOf({slot, "notice"}) /\ Shows(slot, val)

AnswersInv ==
    load.answers /\ Alive => \A slot \in Data : server[slot] # None => OnItsWay(slot, server[slot])

(* Whoever waits for the answers to be complete has some to come. *)
WaitsInv ==
    load.answers /\ Live /\ pending /\ At("idle") =>
        \/ ~IsComplete(apart)
        \/ \E slot \in Data : stamps.write[slot] # stamps.version[slot] \/ ~NoFrameOf({slot})

ResyncInv == BuffersInv /\ AnswersInv /\ WaitsInv

(* A frame more at the end. *)
LEMMA NewestOfAppend ==
    ASSUME NEW q \in Seq(FrameRec), NEW f \in FrameRec, NEW slot, NEW barred
    PROVE  /\ f.slot = slot => NewestIs(Append(q, f), slot, f.val, barred)
           /\ \A val : f.slot \notin barred /\ NewestIs(q, slot, val, barred)
                          => NewestIs(Append(q, f), slot, val, barred)
<1>1. /\ Len(q) \in Nat /\ Len(Append(q, f)) = Len(q) + 1 /\ Append(q, f)[Len(q) + 1] = f
      /\ \A i \in 1 .. Len(q) : Append(q, f)[i] = q[i]
  OBVIOUS
<1> DEFINE r == Append(q, f)
           n == Len(q)
<1> HIDE DEF r, n
<1>2. /\ n \in Nat /\ Len(r) = n + 1 /\ Len(q) = n /\ r[n + 1] = f /\ \A i \in 1 .. n : r[i] = q[i]
  BY <1>1 DEF r, n
<1>3. f.slot = slot => NewestIs(r, slot, f.val, barred)
  <2>1. n + 1 \in 1 .. Len(r) /\ \A j \in 1 .. Len(r) : ~(j > n + 1)
    BY <1>2
  <2> QED BY <1>2, <2>1 DEF NewestIs
<1>4. ASSUME NEW val, f.slot \notin barred, NewestIs(q, slot, val, barred)
      PROVE  NewestIs(r, slot, val, barred)
  <2>1. PICK k \in 1 .. n : /\ q[k].slot = slot /\ q[k].val = val
                           /\ \A j \in 1 .. n : j > k => q[j].slot \notin barred
    BY <1>2, <1>4 DEF NewestIs
  <2>2. k \in 1 .. Len(r) /\ r[k] = q[k]
    BY <1>2
  <2>3. ASSUME NEW j \in 1 .. Len(r), j > k PROVE r[j].slot \notin barred
    <3>1. j \in 1 .. n \/ j = n + 1
      BY <1>2
    <3> QED BY <1>2, <1>4, <2>1, <2>3, <3>1
  <2> QED BY <2>1, <2>2, <2>3 DEF NewestIs
<1> QED BY <1>3, <1>4 DEF r

(* Some frames more at the end, all of one slot. *)
Longer(r, q, u, own) ==
    /\ r \in Seq(FrameRec)
    /\ Len(u) > 0 => \A barred : NewestIs(r, own, u[Len(u)].val, barred)
    /\ \A slot, val, barred : own \notin barred /\ NewestIs(q, slot, val, barred)
                                 => NewestIs(r, slot, val, barred)
    /\ \A i \in 1 .. Len(q) : i \in 1 .. Len(r) /\ r[i] = q[i]
    /\ \A i \in 1 .. Len(r) : r[i].slot # own => i \in 1 .. Len(q) /\ r[i] = q[i]
    /\ Len(u) > 0 => \E i \in 1 .. Len(r) : r[i].slot = own

LEMMA NewestOfBoth ==
    ASSUME NEW q \in Seq(FrameRec), NEW u \in Seq(FrameRec), NEW own,
           NEW r, r = q \o u, \A i \in 1 .. Len(u) : u[i].slot = own
    PROVE  Longer(r, q, u, own)
<1> DEFINE n == Len(q)
           l == Len(u)
<1>1. /\ n \in Nat /\ l \in Nat /\ Len(r) = n + l /\ r \in Seq(FrameRec)
      /\ \A i \in 1 .. (n + l) : r[i] = IF i <= n THEN q[i] ELSE u[i - n]
  OBVIOUS
<1>2. \A i \in 1 .. l : u[i].slot = own
  OBVIOUS
<1>3. \A i \in 1 .. Len(q) : i \in 1 .. n
  OBVIOUS
<1>4. \A i \in 1 .. n : i \in 1 .. (n + l) /\ r[i] = q[i]
  <2> HIDE DEF n, l
  <2> QED BY <1>1
<1>5. \A i \in 1 .. (n + l) : i \notin 1 .. n => r[i].slot = own
  <2> HIDE DEF n, l
  <2> TAKE i \in 1 .. (n + l)
  <2> HAVE i \notin 1 .. n
  <2>1. ~(i <= n) /\ i - n \in 1 .. l
    BY <1>1
  <2> QED BY <1>1, <1>2, <2>1
<1>6. ASSUME l > 0 PROVE n + l \in 1 .. (n + l) /\ r[n + l] = u[l] /\ u[l].slot = own
  <2> HIDE DEF n, l
  <2>1. n + l \in 1 .. (n + l) /\ ~(n + l <= n) /\ (n + l) - n = l /\ l \in 1 .. l
    BY <1>1, <1>6
  <2> QED BY <1>1, <1>2, <2>1
<1>7. ASSUME l > 0, NEW barred PROVE NewestIs(r, own, u[l].val, barred)
  <2>1. \A j \in 1 .. (n + l) : ~(j > n + l)
    BY <1>1
  <2> HIDE DEF n, l
  <2> QED BY <1>1, <1>6, <1>7, <2>1 DEF NewestIs
<1>8. ASSUME NEW slot, NEW val, NEW barred, own \notin barred, NewestIs(q, slot, val, barred)
      PROVE  NewestIs(r, slot, val, barred)
  <2>1. PICK k \in 1 .. n : /\ q[k].slot = slot /\ q[k].val = val
                           /\ \A j \in 1 .. n : j > k => q[j].slot \notin barred
    BY <1>8 DEF NewestIs
  <2>2. ASSUME NEW j \in 1 .. (n + l), j > k PROVE r[j].slot \notin barred
    <3>1. CASE j \in 1 .. n
      BY <1>4, <2>1, <2>2, <3>1
    <3>2. CASE j \notin 1 .. n
      BY <1>5, <1>8, <3>2
    <3> QED BY <3>1, <3>2
  <2> HIDE DEF n, l
  <2> QED BY <1>1, <1>4, <2>1, <2>2 DEF NewestIs
<1> QED BY <1>1, <1>4, <1>5, <1>6, <1>7, <1>8 DEF Longer

-----------------------------------------------------------------------------
ResyncContext == SubscriptionTypes /\ SubscriptionTypes' /\ ResyncTypes /\ ResyncInv

LEMMA BooleansOfResync ==
    ASSUME ResyncTypes
    PROVE  pending \in BOOLEAN /\ handler.pc \in {"idle", "start", "append", "look", "complete"}
  BY DEF ResyncTypes

(* The steps beside the handler keep what the handler relies on. *)
LEMMA OtherResync ==
    ASSUME ResyncContext, Effects, IF Breaks THEN Cleared ELSE UNCHANGED buffers,
           UNCHANGED <<published, handler>>
    PROVE  ResyncTypes' /\ ResyncInv'
<1> USE DEF ResyncContext
<1>1. ASSUME ~Breaks PROVE pending' = pending /\ diffs' = diffs /\ apart' = apart
  BY <1>1 DEF buffers
<1>2. ASSUME ~Breaks
      PROVE  /\ \A slot, val : Shows(slot, val)' <=> Shows(slot, val)
             /\ pending' /\ ~At("start")' =>
                   /\ apart' # None
                   /\ \A slot \in Data : apart'[slot] # None => NewestIs(diffs', slot, apart'[slot], {slot})
  BY <1>1, <1>2 DEF Shows, InFrame, At, ResyncInv, BuffersInv
<1>3. (At("start") => handler.frame.slot = "notice")' /\ (At("append") => handler.frame.slot \in Data)'
  BY DEF At, ResyncInv, BuffersInv
<1>4. ASSUME inbox' \in Seq(FrameRec) PROVE ResyncTypes'
  <2>1. pending' \in BOOLEAN /\ diffs' \in Seq(FrameRec) /\ apart' \in {None} \cup DataRec
    <3>1. CASE Breaks
      <4>1. << >> \in Seq(FrameRec)
        OBVIOUS
      <4> QED BY <3>1, <4>1 DEF Cleared
    <3>2. CASE ~Breaks
      BY <1>1, <3>2 DEF ResyncTypes
    <3> QED BY <3>1, <3>2
  <2> QED BY <1>4, <2>1 DEF ResyncTypes, At
<1>5. CASE Quiet
  <2>1. /\ inbox' = inbox /\ load' = load /\ ~Breaks /\ (Alive' <=> Alive)
        /\ \A s \in Data : LeavesAlone(s)
    BY <1>5 DEF Quiet, Stays
  <2>2. ResyncTypes'
    BY <1>4, <2>1 DEF ResyncTypes
  <2>3. \A slots : NoFrameOf(slots)' <=> NoFrameOf(slots)
    BY <2>1 DEF NoFrameOf
  <2>4. Live' <=> Live
    BY <2>1, <2>3 DEF Live
  <2>5. BuffersInv'
    BY <1>1, <1>2, <1>3, <2>1, <2>4 DEF ResyncInv, BuffersInv, At
  <2>6. AnswersInv'
    BY <1>2, <2>1, <2>3 DEF ResyncInv, AnswersInv, OnItsWay, LeavesAlone
  <2>7. WaitsInv'
    <3>1. IsComplete(apart)' <=> IsComplete(apart)
      BY <1>1, <2>1 DEF IsComplete, LeavesAlone, Data
    <3> QED BY <1>1, <2>1, <2>3, <2>4, <3>1 DEF ResyncInv, WaitsInv, LeavesAlone, At
  <2> QED BY <2>2, <2>5, <2>6, <2>7 DEF ResyncInv
<1>6. CASE Asks
  <2>1. /\ inbox' = inbox /\ server' = server /\ load' = load /\ ~Breaks /\ (Alive' <=> Alive)
        /\ \E s \in Data : stamps'.write[s] # stamps'.version[s]
    BY <1>6 DEF Asks, Stays
  <2>2. ResyncTypes'
    BY <1>4, <2>1 DEF ResyncTypes
  <2>3. \A slots : NoFrameOf(slots)' <=> NoFrameOf(slots)
    BY <2>1 DEF NoFrameOf
  <2>4. Live' <=> Live
    BY <2>1, <2>3 DEF Live
  <2>5. BuffersInv'
    BY <1>1, <1>2, <1>3, <2>1, <2>4 DEF ResyncInv, BuffersInv, At
  <2>6. AnswersInv'
    BY <1>2, <2>1, <2>3 DEF ResyncInv, AnswersInv, OnItsWay
  <2>7. WaitsInv'
    BY <2>1 DEF WaitsInv
  <2> QED BY <2>2, <2>5, <2>6, <2>7 DEF ResyncInv
<1>7. ASSUME NEW m, Tells(m) PROVE ResyncTypes' /\ ResyncInv'
  <2>1. /\ load' = load /\ ~Breaks /\ (Alive' <=> Alive) /\ Alive /\ m \in MessageRec /\ m.slot \in Data
        /\ inbox' = inbox \o Answers(m) /\ server' = [server EXCEPT ![m.slot] = m.val]
    BY <1>7 DEF Tells, Stays
  <2> DEFINE u == Answers(m)
             own == m.slot
             r == inbox \o u
  <2>2. /\ u \in Seq(FrameRec) /\ \A i \in 1 .. Len(u) : u[i].slot = own
        /\ load.answers => Len(u) > 0 /\ u[Len(u)].val = m.val
    BY <2>1, AnswersAre
  <2>3. inbox' = r /\ inbox \in Seq(FrameRec)
    BY <2>1 DEF ResyncTypes
  <2>4. own \in Data
    BY <2>1
  <2>5. r = inbox \o u
    OBVIOUS
  <2> HIDE DEF u, own, r
  <2>6. Longer(r, inbox, u, own)
    <3>1. u \in Seq(FrameRec) /\ inbox \in Seq(FrameRec) /\ \A i \in 1 .. Len(u) : u[i].slot = own
      BY <2>2, <2>3
    <3> QED BY <2>5, <3>1, NewestOfBoth
  <2>7. /\ r \in Seq(FrameRec)
        /\ Len(u) > 0 => \A barred : NewestIs(r, own, u[Len(u)].val, barred)
        /\ \A slot, val, barred : own \notin barred /\ NewestIs(inbox, slot, val, barred)
                                     => NewestIs(r, slot, val, barred)
        /\ \A i \in 1 .. Len(inbox) : i \in 1 .. Len(r) /\ r[i] = inbox[i]
        /\ \A i \in 1 .. Len(r) : r[i].slot # own => i \in 1 .. Len(inbox) /\ r[i] = inbox[i]
        /\ Len(u) > 0 => \E i \in 1 .. Len(r) : r[i].slot = own
    BY <2>6 DEF Longer
  <2>8. ResyncTypes'
    BY <1>4, <2>3, <2>7
  <2>9. \A slots : NoFrameOf(slots)' => NoFrameOf(slots)
    BY <2>3, <2>7 DEF NoFrameOf
  <2>10. \A slots : own \notin slots /\ NoFrameOf(slots) => NoFrameOf(slots)'
    BY <2>3, <2>7 DEF NoFrameOf
  <2>11. Live' => Live
    BY <2>1, <2>9 DEF Live
  <2>12. BuffersInv'
    BY <1>1, <1>2, <1>3, <2>1, <2>11 DEF ResyncInv, BuffersInv, At
  <2>13. AnswersInv'
    <3> SUFFICES ASSUME load.answers, NEW slot \in Data, server'[slot] # None
                 PROVE  OnItsWay(slot, server[slot])'
      BY <2>1 DEF AnswersInv
    <3>1. CASE slot = own
      <4>1. server'[slot] = m.val
        BY <2>1, <3>1 DEF SubscriptionTypes, WireTypes, MessageRec, own
      <4>2. NewestIs(inbox', slot, server'[slot], {slot, "notice"})
        BY <2>2, <2>3, <2>7, <3>1, <4>1
      <4> QED BY <4>2 DEF OnItsWay
    <3>2. CASE slot # own
      <4>1. server'[slot] = server[slot] /\ slot \in Slots
        BY <2>1, <3>2 DEF SubscriptionTypes, WireTypes, Data, Slots, own
      <4>2. OnItsWay(slot, server[slot])
        BY <2>1, <4>1 DEF ResyncInv, AnswersInv
      <4>3. own \notin {slot, "notice"}
        BY <2>4, <3>2 DEF Data
      <4>4. CASE NewestIs(inbox, slot, server[slot], {slot, "notice"})
        BY <2>3, <2>7, <4>1, <4>3, <4>4 DEF OnItsWay
      <4>5. CASE NoFrameOf({slot, "notice"}) /\ Shows(slot, server[slot])
        <5>1. NoFrameOf({slot, "notice"})'
          BY <2>10, <4>3, <4>5
        <5>2. Shows(slot, server[slot])'
          BY <1>1, <2>1, <4>1, <4>5 DEF Shows, InFrame, At
        <5> QED BY <5>1, <5>2 DEF OnItsWay
      <4> QED BY <4>2, <4>4, <4>5 DEF OnItsWay
    <3> QED BY <3>1, <3>2
  <2>14. WaitsInv'
    <3>1. load.answers => ~NoFrameOf({own})'
      BY <2>2, <2>3, <2>7 DEF NoFrameOf
    <3> QED BY <2>1, <2>4, <3>1 DEF WaitsInv
  <2> QED BY <2>8, <2>12, <2>13, <2>14 DEF ResyncInv
<1>8. CASE Opens
  <2>1. /\ load' = load /\ ~Breaks /\ \A s \in Data : server'[s] = None
        /\ inbox' = IF load.answers THEN Append(inbox, Message("notice", None, 0)) ELSE inbox
    BY <1>8 DEF Opens
  <2> DEFINE f == Message("notice", None, 0)
  <2>2. f \in FrameRec /\ f.slot = "notice" /\ inbox \in Seq(FrameRec)
    BY DEF Message, FrameRec, Contents, ResyncTypes
  <2>3. load.answers => inbox' = Append(inbox, f)
    BY <2>1
  <2> HIDE DEF f
  <2>4. inbox' \in Seq(FrameRec) /\ (load.answers => ~NoFrameOf({"notice"})')
    <3>1. CASE load.answers
      <4>1. inbox' \in Seq(FrameRec) /\ Len(inbox) + 1 \in 1 .. Len(inbox') /\ inbox'[Len(inbox) + 1] = f
        BY <2>2, <2>3, <3>1
      <4> QED BY <2>2, <4>1 DEF NoFrameOf
    <3>2. CASE ~load.answers
      BY <2>1, <2>2, <3>2
    <3> QED BY <3>1, <3>2
  <2>5. ResyncTypes'
    BY <1>4, <2>4
  <2>6. BuffersInv'
    BY <1>2, <1>3, <2>1, <2>4 DEF BuffersInv, Live, At
  <2>7. AnswersInv' /\ WaitsInv'
    BY <2>1, <2>4 DEF AnswersInv, WaitsInv, Live
  <2> QED BY <2>5, <2>6, <2>7 DEF ResyncInv
<1>9. CASE Ends
  <2>1. Breaks /\ inbox' \in Seq(FrameRec) /\ ~Alive' /\ ~pending'
    BY <1>9 DEF Ends, Breaks, Alive, Cleared
  <2>2. ResyncTypes'
    BY <1>4, <2>1
  <2>3. BuffersInv'
    BY <1>3, <2>1 DEF BuffersInv, Live
  <2>4. AnswersInv' /\ WaitsInv'
    BY <2>1 DEF AnswersInv, WaitsInv, Live
  <2> QED BY <2>2, <2>3, <2>4 DEF ResyncInv
<1> QED BY <1>5, <1>6, <1>7, <1>8, <1>9 DEF Effects

(* The handler takes a frame: what it has to show of a slot is the frame, or  *)
(* what it had to show before.                                             *)
LEMMA TakeResync ==
    ASSUME ResyncContext, TakeFrame
    PROVE  ResyncTypes' /\ ResyncInv'
<1> USE DEF ResyncContext
<1> DEFINE f == Head(inbox)
           q == Tail(inbox)
           pc == handler'.pc
<1>1. /\ At("idle") /\ inbox # <<>> /\ inbox' = q /\ inbox \in Seq(FrameRec)
      /\ UNCHANGED <<load, recorded, conn, server, stamps, diffs, apart, published>>
      /\ pending' = (pending \/ f.slot = "notice")
  BY DEF TakeFrame, ResyncTypes
<1>2. handler'.frame = f /\ pc = (IF f.slot = "notice" THEN "start" ELSE IF pending THEN "append" ELSE "look")
      /\ handler' = [pc |-> pc, frame |-> f]
  BY DEF TakeFrame
<1>3. /\ f \in FrameRec /\ q \in Seq(FrameRec) /\ Len(inbox) \in Nat /\ Len(q) = Len(inbox) - 1
      /\ Len(inbox) > 0 /\ f = inbox[1]
      /\ \A i \in 1 .. Len(q) : q[i] = inbox[i + 1]
  BY <1>1
<1> HIDE DEF f, q, pc
<1>4. pending \in BOOLEAN /\ pending' \in BOOLEAN
  BY <1>1, BooleansOfResync
<1>5. ResyncTypes'
  <2>1. handler' \in [pc : {"idle", "start", "append", "look", "complete"}, frame : {None} \cup FrameRec]
    BY <1>2, <1>3
  <2> QED BY <1>1, <1>2, <1>3, <1>4, <2>1 DEF ResyncTypes, At
<1>6. ASSUME NEW i \in 2 .. Len(inbox) PROVE i - 1 \in 1 .. Len(inbox') /\ inbox'[i - 1] = inbox[i]
  <2>1. i - 1 \in 1 .. Len(q) /\ (i - 1) + 1 = i
    BY <1>3
  <2> QED BY <1>1, <1>3, <2>1
<1>7. ASSUME NEW i \in 1 .. Len(inbox') PROVE i + 1 \in 1 .. Len(inbox) /\ inbox'[i] = inbox[i + 1]
  BY <1>1, <1>3
<1>8. \A slots : NoFrameOf(slots) => NoFrameOf(slots)' /\ f.slot \notin slots
  <2> TAKE slots
  <2> HAVE NoFrameOf(slots)
  <2>1. 1 \in 1 .. Len(inbox)
    BY <1>3
  <2>2. f.slot \notin slots
    BY <1>3, <2>1 DEF NoFrameOf
  <2>3. NoFrameOf(slots)'
    BY <1>7 DEF NoFrameOf
  <2> QED BY <2>2, <2>3
<1>9. BuffersInv'
  <2>1. (At("start") => handler.frame.slot = "notice")'
    BY <1>2 DEF At
  <2>2. (At("append") => handler.frame.slot \in Data)'
    BY <1>2, <1>3 DEF At, FrameRec, Data
  <2>3. ASSUME pending', ~At("start")'
        PROVE  /\ apart' # None
               /\ \A slot \in Data : apart'[slot] # None => NewestIs(diffs', slot, apart'[slot], {slot})
    <3>1. f.slot # "notice"
      BY <1>2, <2>3 DEF At, pc
    <3>2. pending /\ ~At("start")
      BY <1>1, <1>4, <2>3, <3>1 DEF At
    <3> QED BY <1>1, <3>2 DEF ResyncInv, BuffersInv
  <2>4. handler'.pc \in {"start", "append", "complete"} => pending'
    BY <1>1, <1>2 DEF pc
  <2> QED BY <2>1, <2>2, <2>3, <2>4 DEF BuffersInv
<1>10. AnswersInv'
  <2> SUFFICES ASSUME load.answers, Alive, NEW slot \in Data, server[slot] # None
               PROVE  OnItsWay(slot, server[slot])'
    BY <1>1 DEF AnswersInv, Alive
  <2> DEFINE val == server[slot]
  <2>1. OnItsWay(slot, val) /\ server' = server
    BY <1>1 DEF ResyncInv, AnswersInv
  <2>2. CASE NewestIs(inbox, slot, val, {slot, "notice"})
    <3>1. PICK k \in 1 .. Len(inbox) :
              /\ inbox[k].slot = slot /\ inbox[k].val = val
              /\ \A j \in 1 .. Len(inbox) : j > k => inbox[j].slot \notin {slot, "notice"}
      BY <2>2 DEF NewestIs
    <3>2. CASE k = 1
      <4>1. f.slot = slot /\ f.val = val
        BY <1>3, <3>1, <3>2
      <4>2. NoFrameOf({slot, "notice"})'
        <5> SUFFICES ASSUME NEW i \in 1 .. Len(inbox') PROVE inbox'[i].slot \notin {slot, "notice"}
          BY DEF NoFrameOf
        <5>1. i + 1 \in 1 .. Len(inbox) /\ inbox'[i] = inbox[i + 1] /\ i + 1 > 1
          BY <1>7
        <5> QED BY <3>1, <3>2, <5>1
      <4>3. f.slot # "notice"
        BY <4>1 DEF Data
      <4>4. pending' = pending /\ pc = (IF pending THEN "append" ELSE "look")
        BY <1>1, <1>2, <1>4, <4>3
      <4>5. Shows(slot, server[slot])'
        BY <1>2, <2>1, <4>1, <4>4 DEF Shows, InFrame, At, pc
      <4> QED BY <4>2, <4>5 DEF OnItsWay
    <3>3. CASE k # 1
      <4>1. k - 1 \in 1 .. Len(inbox') /\ inbox'[k - 1] = inbox[k]
        BY <1>3, <1>6, <3>3
      <4>2. ASSUME NEW j \in 1 .. Len(inbox'), j > k - 1 PROVE inbox'[j].slot \notin {slot, "notice"}
        <5>1. j + 1 \in 1 .. Len(inbox) /\ inbox'[j] = inbox[j + 1] /\ j + 1 > k
          BY <1>7, <4>2
        <5> QED BY <3>1, <5>1
      <4>3. NewestIs(inbox', slot, val, {slot, "notice"})
        BY <3>1, <4>1, <4>2 DEF NewestIs
      <4> QED BY <2>1, <4>3 DEF OnItsWay
    <3> QED BY <3>2, <3>3
  <2>3. CASE NoFrameOf({slot, "notice"}) /\ Shows(slot, val)
    <3>1. NoFrameOf({slot, "notice"})' /\ f.slot # slot /\ f.slot # "notice"
      BY <1>8, <2>3
    <3>2. pending' = pending /\ pc = (IF pending THEN "append" ELSE "look")
      BY <1>1, <1>2, <1>4, <3>1
    <3>3. Shows(slot, server[slot])'
      BY <1>1, <1>2, <2>3, <3>1, <3>2 DEF Shows, InFrame, At, pc
    <3> QED BY <3>1, <3>3 DEF OnItsWay
  <2> QED BY <2>1, <2>2, <2>3 DEF OnItsWay
<1>11. WaitsInv'
  BY <1>2 DEF WaitsInv, At
<1> QED BY <1>5, <1>9, <1>10, <1>11 DEF ResyncInv

(* Where the inbox, the connection and the server stay as they are, so does   *)
(* what is on its way, as far as it is not taken yet.                      *)
LEMMA StillOnItsWay ==
    ASSUME ResyncContext, UNCHANGED <<load, inbox, server>>, Alive' <=> Alive,
           \A slot \in Data :
               load.answers /\ Live /\ server[slot] # None /\ Shows(slot, server[slot])
                   => Shows(slot, server[slot])'
    PROVE  AnswersInv' /\ (Live' <=> Live) /\ \A slots : NoFrameOf(slots)' <=> NoFrameOf(slots)
<1>1. \A slots : NoFrameOf(slots)' <=> NoFrameOf(slots)
  BY DEF NoFrameOf
<1>2. Live' <=> Live
  BY <1>1 DEF Live
<1>3. ASSUME load.answers, Alive, NEW slot \in Data, server[slot] # None
      PROVE  OnItsWay(slot, server[slot])'
  <2>1. OnItsWay(slot, server[slot])
    BY <1>3 DEF ResyncContext, ResyncInv, AnswersInv
  <2>2. CASE NewestIs(inbox, slot, server[slot], {slot, "notice"})
    BY <2>2 DEF OnItsWay
  <2>3. CASE NoFrameOf({slot, "notice"}) /\ Shows(slot, server[slot])
    <3>1. Live
      BY <1>3, <2>3 DEF Live, NoFrameOf
    <3> QED BY <1>1, <1>3, <2>3, <3>1 DEF OnItsWay
  <2> QED BY <2>1, <2>2, <2>3 DEF OnItsWay
<1>4. AnswersInv'
  BY <1>3 DEF AnswersInv
<1> QED BY <1>1, <1>2, <1>4

LEMMA StartResync ==
    ASSUME ResyncContext, StartBuffering
    PROVE  ResyncTypes' /\ ResyncInv'
<1> USE DEF ResyncContext
<1>1. /\ At("start") /\ handler' = [handler EXCEPT !.pc = "look"]
      /\ diffs' = <<handler.frame>> /\ apart' = Empty
      /\ UNCHANGED <<load, recorded, inbox, server, stamps, pending, published>>
      /\ conn' = [conn EXCEPT !["quote"].notice = FALSE]
  BY DEF StartBuffering, Notice, HandlerTo
<1>2. handler'.pc = "look" /\ handler'.frame = handler.frame /\ handler.frame \in FrameRec
  BY <1>1 DEF ResyncTypes, At
<1>3. Empty \in DataRec /\ Empty # None /\ \A slot \in Data : Empty[slot] = None
  BY ResyncAssumption DEF Empty, DataRec, Contents, Data
<1>4. ResyncTypes'
  <2>1. diffs' \in Seq(FrameRec)
    BY <1>1, <1>2
  <2> QED BY <1>1, <1>2, <1>3, <2>1 DEF ResyncTypes, At
<1>5. Alive' <=> Alive
  BY <1>1 DEF Alive, SubscriptionTypes, WireTypes, ConnRec
<1>6. AnswersInv'
  <2>1. ASSUME load.answers, Live, NEW slot \in Data, Shows(slot, server[slot]) PROVE FALSE
    <3>1. pending
      BY <1>1, <2>1 DEF ResyncInv, BuffersInv, At
    <3> QED BY <1>1, <2>1, <3>1 DEF Shows
  <2> QED BY <1>1, <1>5, <2>1, StillOnItsWay
<1>7. BuffersInv'
  BY <1>1, <1>2, <1>3 DEF BuffersInv, At
<1>8. WaitsInv'
  BY <1>2 DEF WaitsInv, At
<1> QED BY <1>4, <1>6, <1>7, <1>8 DEF ResyncInv

LEMMA AppendResync ==
    ASSUME ResyncContext, AppendDiffs
    PROVE  ResyncTypes' /\ ResyncInv'
<1> USE DEF ResyncContext
<1> DEFINE f == handler.frame
<1>1. /\ At("append") /\ handler' = [handler EXCEPT !.pc = "look"]
      /\ diffs' = Append(diffs, f) /\ apart' = (IF apart = None THEN None ELSE Merged(apart, f))
      /\ UNCHANGED <<load, recorded, conn, inbox, server, stamps, pending, published>>
  BY DEF AppendDiffs, HandlerTo, Kept, vars, wires
<1>2. handler'.pc = "look" /\ handler'.frame = f /\ f \in FrameRec /\ f.slot \in Data
  BY <1>1 DEF ResyncTypes, At, ResyncInv, BuffersInv
<1>3. ASSUME apart # None
      PROVE  /\ apart' \in DataRec /\ apart' # None
             /\ \A slot \in Data : apart'[slot] = IF f.slot = slot THEN f.val ELSE apart[slot]
  <2>1. apart \in DataRec /\ apart' = Merged(apart, f)
    BY <1>1, <1>3 DEF ResyncTypes
  <2>2. /\ Merged(apart, f) \in DataRec
        /\ \A slot \in {"list", "chart"} :
              Merged(apart, f)[slot] = IF f.slot = slot THEN f.val ELSE apart[slot]
    BY <1>2, <2>1, MergedType
  <2>3. None \notin DataRec
    BY ResyncAssumption DEF DataRec
  <2> QED BY <2>1, <2>2, <2>3 DEF Data
<1> HIDE DEF f
<1>4. ResyncTypes'
  <2>1. diffs' \in Seq(FrameRec)
    BY <1>1, <1>2 DEF ResyncTypes
  <2>2. apart' \in {None} \cup DataRec
    BY <1>1, <1>3
  <2> QED BY <1>1, <1>2, <2>1, <2>2 DEF ResyncTypes, At
<1>5. pending => apart # None
  BY <1>1 DEF ResyncInv, BuffersInv, At
<1>6. AnswersInv'
  <2>1. ASSUME NEW slot \in Data, Shows(slot, server[slot]) PROVE Shows(slot, server[slot])'
    <3>1. CASE pending
      <4>1. server[slot] = IF f.slot = slot THEN f.val ELSE apart[slot]
        BY <1>1, <2>1, <3>1 DEF Shows, InFrame, At, f
      <4>2. server'[slot] = apart'[slot] /\ pending'
        BY <1>1, <1>3, <1>5, <3>1, <4>1
      <4> QED BY <1>2, <4>2 DEF Shows, InFrame, At
    <3>2. CASE ~pending
      <4>1. server[slot] = IF f.slot = slot THEN f.val ELSE published[slot]
        BY <1>1, <2>1, <3>2 DEF Shows, InFrame, At, f
      <4> QED BY <1>1, <1>2, <3>2, <4>1 DEF Shows, InFrame
    <3> QED BY <3>1, <3>2
  <2>2. Alive' <=> Alive
    BY <1>1 DEF Alive
  <2> QED BY <1>1, <2>1, <2>2, StillOnItsWay
<1>7. BuffersInv'
  <2>1. ASSUME pending, NEW slot \in Data, apart'[slot] # None
        PROVE  NewestIs(diffs', slot, apart'[slot], {slot})
    <3>1. diffs \in Seq(FrameRec)
      BY DEF ResyncTypes
    <3>2. CASE f.slot = slot
      BY <1>1, <1>2, <1>3, <1>5, <2>1, <3>1, <3>2, NewestOfAppend
    <3>3. CASE f.slot # slot
      <4>1. apart'[slot] = apart[slot]
        BY <1>3, <1>5, <2>1, <3>3
      <4>2. NewestIs(diffs, slot, apart[slot], {slot})
        BY <1>1, <2>1, <4>1 DEF ResyncInv, BuffersInv, At
      <4>3. f.slot \notin {slot}
        BY <3>3
      <4>4. NewestIs(Append(diffs, f), slot, apart[slot], {slot})
        BY <1>2, <3>1, <4>2, <4>3, NewestOfAppend
      <4> QED BY <1>1, <4>1, <4>4
    <3> QED BY <3>2, <3>3
  <2> QED BY <1>1, <1>2, <1>3, <1>5, <2>1 DEF BuffersInv, At
<1>8. WaitsInv'
  BY <1>2 DEF WaitsInv, At
<1> QED BY <1>4, <1>6, <1>7, <1>8 DEF ResyncInv

LEMMA LookResync ==
    ASSUME ResyncContext, LookPending
    PROVE  ResyncTypes' /\ ResyncInv'
<1> USE DEF ResyncContext
<1> DEFINE f == handler.frame
<1>1. /\ At("look")
      /\ UNCHANGED <<load, recorded, conn, inbox, server, stamps, pending, diffs, apart>>
  BY DEF LookPending, vars, wires, buffers
<1>2. f \in FrameRec
  BY <1>1 DEF ResyncTypes, At
<1>3. Alive' <=> Alive
  BY <1>1 DEF Alive
<1>4. CASE pending
  <2>1. /\ handler' = [handler EXCEPT !.pc = IF apart # None /\ IsComplete(apart) THEN "complete" ELSE "idle"]
        /\ UNCHANGED published
    BY <1>4 DEF LookPending, HandlerTo
  <2>2. /\ handler'.pc = (IF apart # None /\ IsComplete(apart) THEN "complete" ELSE "idle")
        /\ handler'.frame = f
    BY <2>1 DEF ResyncTypes
  <2>3. ResyncTypes'
    <3>1. handler' \in [pc : {"idle", "start", "append", "look", "complete"}, frame : {None} \cup FrameRec]
      BY <2>1 DEF ResyncTypes
    <3> QED BY <1>1, <1>2, <2>1, <2>2, <3>1 DEF ResyncTypes, At
  <2>4. \A slot : Shows(slot, server[slot]) => Shows(slot, server[slot])'
    BY <1>1, <1>4, <2>1, <2>2 DEF Shows, InFrame, At
  <2>5. AnswersInv' /\ (Live' <=> Live) /\ \A slots : NoFrameOf(slots)' <=> NoFrameOf(slots)
    BY <1>1, <1>3, <2>4, StillOnItsWay
  <2>6. apart # None
    BY <1>1, <1>4 DEF ResyncInv, BuffersInv, At
  <2>7. BuffersInv'
    BY <1>1, <1>4, <2>2 DEF ResyncInv, BuffersInv, At
  <2>8. WaitsInv'
    <3>1. At("idle")' => ~IsComplete(apart)
      BY <2>2, <2>6 DEF At
    <3>2. IsComplete(apart)' <=> IsComplete(apart)
      BY <1>1 DEF IsComplete
    <3> QED BY <3>1, <3>2 DEF WaitsInv
  <2> QED BY <2>3, <2>5, <2>7, <2>8 DEF ResyncInv
<1>5. CASE ~pending
  <2>1. handler' = [handler EXCEPT !.pc = "idle"] /\ published' = Merged(published, f)
    BY <1>5 DEF LookPending, HandlerTo
  <2>2. handler'.pc = "idle" /\ handler'.frame = f
    BY <2>1 DEF ResyncTypes
  <2>3. published' \in DataRec
        /\ \A slot \in Data : published'[slot] = IF f.slot = slot THEN f.val ELSE published[slot]
    BY <1>2, <2>1, MergedType DEF ResyncTypes, Data
  <2>4. ResyncTypes'
    <3>1. handler' \in [pc : {"idle", "start", "append", "look", "complete"}, frame : {None} \cup FrameRec]
      BY <2>1 DEF ResyncTypes
    <3> QED BY <1>1, <2>2, <2>3, <3>1 DEF ResyncTypes, At
  <2>5. ASSUME NEW slot \in Data, Shows(slot, server[slot]) PROVE Shows(slot, server[slot])'
    <3>1. server[slot] = IF f.slot = slot THEN f.val ELSE published[slot]
      BY <1>1, <1>5, <2>5 DEF Shows, InFrame, At
    <3> HIDE DEF f
    <3>2. server'[slot] = published'[slot]
      BY <1>1, <2>3, <3>1
    <3> QED BY <1>1, <1>5, <2>2, <3>2 DEF Shows, InFrame, At
  <2>6. AnswersInv'
    BY <1>1, <1>3, <2>5, StillOnItsWay
  <2>7. BuffersInv' /\ WaitsInv'
    BY <1>1, <1>5, <2>2 DEF BuffersInv, WaitsInv, At
  <2> QED BY <2>4, <2>6, <2>7 DEF ResyncInv
<1> QED BY <1>4, <1>5

(* What was kept apart is published: of each slot the newest frame kept.     *)
LEMMA CompleteResync ==
    ASSUME ResyncContext, Complete
    PROVE  ResyncTypes' /\ ResyncInv'
<1> USE DEF ResyncContext
<1>1. /\ At("complete") /\ handler' = [handler EXCEPT !.pc = "idle"]
      /\ published' = MergedAll(published, diffs)
      /\ diffs' = <<>> /\ pending' = FALSE /\ apart' = None
      /\ UNCHANGED <<load, recorded, conn, inbox, server, stamps>>
  BY DEF Complete, HandlerTo, vars, wires
<1>2. handler'.pc = "idle" /\ handler'.frame = handler.frame
  BY <1>1 DEF ResyncTypes
<1>3. published \in DataRec /\ diffs \in Seq(FrameRec)
  BY DEF ResyncTypes
<1>4. /\ published' \in DataRec
      /\ \A slot \in Data : \A val : NewestIs(diffs, slot, val, {slot}) => published'[slot] = val
  BY <1>1, <1>3, MergedAllNewest DEF Data
<1>5. ResyncTypes'
  <2>1. handler' \in [pc : {"idle", "start", "append", "look", "complete"}, frame : {None} \cup FrameRec]
    BY <1>1 DEF ResyncTypes
  <2>2. << >> \in Seq(FrameRec)
    OBVIOUS
  <2> QED BY <1>1, <1>2, <1>4, <2>1, <2>2 DEF ResyncTypes, At
<1>6. Alive' <=> Alive
  BY <1>1 DEF Alive
<1>7. ASSUME load.answers, Live, NEW slot \in Data, server[slot] # None, Shows(slot, server[slot])
      PROVE  Shows(slot, server[slot])'
  <2>1. pending
    BY <1>1, <1>7 DEF ResyncInv, BuffersInv, At
  <2>2. server[slot] = apart[slot]
    BY <1>1, <1>7, <2>1 DEF Shows, InFrame, At
  <2>3. NewestIs(diffs, slot, server[slot], {slot})
    BY <1>1, <1>7, <2>1, <2>2 DEF ResyncInv, BuffersInv, At
  <2>4. published'[slot] = server'[slot]
    BY <1>1, <1>4, <2>3
  <2> QED BY <1>1, <1>2, <2>4 DEF Shows, InFrame
<1>8. AnswersInv'
  BY <1>1, <1>6, <1>7, StillOnItsWay
<1>9. BuffersInv' /\ WaitsInv'
  BY <1>1, <1>2 DEF BuffersInv, WaitsInv, At
<1> QED BY <1>5, <1>8, <1>9 DEF ResyncInv

-----------------------------------------------------------------------------
LEMMA ResyncedInit == ResyncInit => ResyncTypes /\ ResyncInv
<1> SUFFICES ASSUME ResyncInit PROVE ResyncTypes /\ ResyncInv
  OBVIOUS
<1>1. /\ inbox = <<>> /\ pending = FALSE /\ diffs = <<>> /\ apart = None /\ published = Empty
      /\ handler = [pc |-> "idle", frame |-> None] /\ server = [s \in Slots |-> None]
  BY DEF ResyncInit, Init
<1>2. << >> \in Seq(FrameRec) /\ Empty \in DataRec
  BY DEF Empty, DataRec, Contents
<1>3. ResyncTypes
  BY <1>1, <1>2 DEF ResyncTypes, At
<1>4. \A slot \in Data : server[slot] = None
  BY <1>1 DEF Data, Slots
<1>5. ResyncInv
  BY <1>1, <1>4 DEF ResyncInv, BuffersInv, AnswersInv, WaitsInv, At
<1> QED BY <1>3, <1>5

LEMMA ResyncStep ==
    ASSUME SubscriptionTypes, SubscriptionTypes', Shapes, WireInv, ResyncTypes, ResyncInv,
           [ResyncNext]_<<vars, resyncVars>>
    PROVE  ResyncTypes' /\ ResyncInv'
<1>1. ResyncContext
  BY DEF ResyncContext
<1>2. CASE UNCHANGED <<vars, resyncVars>>
  <2>1. UNCHANGED <<load, recorded, conn, inbox, server, stamps, pending, diffs, apart, published, handler>>
    BY <1>2 DEF vars, wires, resyncVars, buffers
  <2> QED BY <2>1 DEF ResyncTypes, ResyncInv, BuffersInv, AnswersInv, WaitsInv, OnItsWay, Shows, InFrame,
                     At, Live, Alive, NoFrameOf, IsComplete
<1>3. CASE HandlerStep
  BY <1>1, <1>3, TakeResync, StartResync, AppendResync, LookResync, CompleteResync DEF HandlerStep
<1>4. CASE /\ OtherStep
           /\ IF Breaks THEN Cleared ELSE UNCHANGED buffers
           /\ UNCHANGED <<published, handler>>
  <2>1. Effects
    BY <1>4, OtherEffects DEF ResyncTypes
  <2> QED BY <1>1, <1>4, <2>1, OtherResync
<1> QED BY <1>2, <1>3, <1>4 DEF ResyncNext

LEMMA ResyncInvFollows ==
    ASSUME SubscriptionTypes, WireInv, ResyncTypes, ResyncInv
    PROVE  Resynced
<1> SUFFICES ASSUME load.answers, Connected("quote"), AtRest("quote"), inbox = <<>>, At("idle"),
                    \A slot \in Data : ~Overtaken(slot) /\ slot \notin dropped
             PROVE  ~pending /\ IsComplete(published)
  BY DEF Resynced, Data
<1>1. \A slot \in Data : stamps.write[slot] = stamps.version[slot] /\ server[slot] = recorded[slot]
  BY WrittenLast DEF Data, Slots, ChannelOf
<1>2. Alive /\ Live /\ \A slots : NoFrameOf(slots)
  BY DEF Alive, Live, NoFrameOf, Connected
<1>3. \A slot \in Data : server[slot] # None => Shows(slot, server[slot])
  <2>1. 1 .. Len(inbox) = {}
    OBVIOUS
  <2>2. \A slot, val, barred : ~NewestIs(inbox, slot, val, barred)
    BY <2>1 DEF NewestIs
  <2> QED BY <1>2, <2>2 DEF ResyncInv, AnswersInv, OnItsWay
<1>4. \A slot \in Data : recorded[slot] # None =>
         recorded[slot] = IF pending THEN apart[slot] ELSE published[slot]
  BY <1>1, <1>3 DEF Shows, InFrame, At
<1>5. IsComplete(IF pending THEN apart ELSE published)
  <2>1. recorded["chart"] = "on" => recorded["chart"] # None
    BY SubscriptionsAssumption
  <2> QED BY <1>4, <2>1 DEF IsComplete, Data
<1>6. ~pending
  BY <1>1, <1>2, <1>5 DEF ResyncInv, WaitsInv
<1> QED BY <1>5, <1>6

(* However often the connection breaks while answers come in, the buffering  *)
(* of a reconnect ends: once things settle what is published has the list and *)
(* the chart recorded, unless a write was overtaken or dropped               *)
(* (websocket/reconnect.rs, websocket/quote.rs).                            *)
THEOREM ResyncedHolds == ResyncSpec => []Resynced
<1>1. ResyncInit => SubscriptionTypes /\ Shapes /\ WireInv /\ ResyncTypes /\ ResyncInv
  BY TypesInit, ShapesInit, WireInit, ResyncedInit DEF ResyncInit
<1>2. SubscriptionTypes /\ Shapes /\ WireInv /\ ResyncTypes /\ ResyncInv /\ [ResyncNext]_<<vars, resyncVars>>
        => (SubscriptionTypes /\ Shapes /\ WireInv /\ ResyncTypes /\ ResyncInv)'
  BY ResyncSteps, TypesStep, WireStep, ResyncStep
<1>3. SubscriptionTypes /\ WireInv /\ ResyncTypes /\ ResyncInv => Resynced
  BY ResyncInvFollows
<1> QED BY <1>1, <1>2, <1>3, PTL DEF ResyncSpec
=============================================================================
