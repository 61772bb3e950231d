---------------------------- MODULE MarketProofs ----------------------------
(***************************************************************************)
(* Proofs about Market: a series subscription, a path watcher and those    *)
(* who wait for updates are not left behind, for any number of tasks that  *)
(* merge at a time, of watchers and of users.                              *)
(***************************************************************************)
EXTENDS Market, WellFoundedInduction, TLAPS

(***************************************************************************)
(* Max and Min of sets of naturals.                                        *)
(***************************************************************************)

(* A set of naturals that is not empty has a least element. *)
LEMMA LeastElement ==
    ASSUME NEW S \in SUBSET Nat, S # {}
    PROVE  \E x \in S : \A y \in S : x <= y
<1>1. IsWellFoundedOn(OpToRel(<, Nat), Nat)
  BY NatLessThanWellFounded
<1>2. PICK x \in S : \A y \in S : ~(<<y, x>> \in OpToRel(<, Nat))
  BY <1>1, WFMin
<1>3. \A y \in S : ~(y < x)
  BY <1>2 DEF OpToRel
<1>4. \A y \in S : x <= y
  <2> SUFFICES ASSUME NEW y \in S PROVE x <= y
    OBVIOUS
  <2>1. x \in Nat /\ y \in Nat /\ ~(y < x)
    BY <1>3
  <2> QED BY <2>1
<1> QED BY <1>4

LEMMA MinOf ==
    ASSUME NEW S \in SUBSET Nat, S # {}
    PROVE  Min(S) \in S /\ \A y \in S : Min(S) <= y
  BY LeastElement DEF Min

(* Max(S) is the largest number of S when there is a bound. *)
LEMMA MaxOf ==
    ASSUME NEW S \in SUBSET Nat, S # {}, NEW bound \in Nat, \A y \in S : y <= bound
    PROVE  Max(S) \in S /\ \A y \in S : Max(S) >= y
<1> DEFINE T == {bound - y : y \in S}
<1>1. T \in SUBSET Nat /\ T # {}
  <2>1. \A y \in S : bound - y \in Nat
    OBVIOUS
  <2> QED BY <2>1
<1>2. PICK t \in T : \A u \in T : t <= u
  BY <1>1, LeastElement
<1>3. PICK x \in S : t = bound - x
  BY <1>2
<1>4. \A y \in S : x >= y
  <2> SUFFICES ASSUME NEW y \in S PROVE x >= y
    OBVIOUS
  <2>1. t <= bound - y
    BY <1>2
  <2> QED BY <1>3, <2>1
<1> QED BY <1>3, <1>4 DEF Max

LEMMA MaxOfTwo ==
    ASSUME NEW a \in Nat, NEW b \in Nat
    PROVE  Max({a, b}) \in Nat /\ Max({a, b}) >= a /\ Max({a, b}) >= b /\ Max({a, b}) \in {a, b}
<1>1. CASE a <= b
  BY <1>1, MaxOf, {a, b} \in SUBSET Nat, \A y \in {a, b} : y <= b
<1>2. CASE b <= a
  BY <1>2, MaxOf, {a, b} \in SUBSET Nat, \A y \in {a, b} : y <= a
<1> QED BY <1>1, <1>2

-----------------------------------------------------------------------------
(***************************************************************************)
(* Types.                                                                  *)
(***************************************************************************)
MergeRec ==
    [pc : {"idle", "write", "load", "publish", "look", "notify", "sync", "event", "global"},
     at : Nat, paths : SUBSET Paths, got : Nat]
WatchRec ==
    [state : {"none", "on", "cancelled", "dropped"}, since : Nat, told : Nat, box : Seq(Nat),
     fulls : Nat]
Stamp == [val : Nat, epoch : Nat]

DataTypes ==
    /\ load \in Loads
    /\ epoch \in Nat
    /\ published \in [epoch : Nat, sent : Nat, most : Nat]
    /\ data \in [Paths -> Stamp]
    /\ chartReady \in BOOLEAN
    /\ merge \in [Mergers -> MergeRec]

ReaderTypes ==
    /\ watch \in [Watchers -> WatchRec]
    /\ series \in [pc : {"look", "sleep", "chart", "data", "decide", "show"}, cur : Nat,
                   seen : Nat, last : Nat, changed : BOOLEAN, shown : Nat]

StateTypes ==
    /\ entries \in [Keys -> Stamp]
    /\ feed \in Seq(Keys)
    /\ globalTx \in Nat

UserTypes ==
    /\ api \in [seen : [Slots -> Nat], pos : Nat, pending : Nat, drained : Nat, lagged : BOOLEAN]
    /\ user \in [Users -> [pc : {"idle", "look", "sleep", "store", "drain"}, cur : Nat,
                           ver : Nat, calls : Nat]]
    /\ seenMost \in [Slots -> Nat]
    /\ reported \in [Keys -> Nat]

MarketTypes == DataTypes /\ ReaderTypes /\ StateTypes /\ UserTypes

LEMMA TypesInit == Init => MarketTypes
<1> SUFFICES ASSUME Init PROVE MarketTypes OBVIOUS
<1> USE DEF Init
<1>1. DataTypes
  BY DEF DataTypes, NoMerge, MergeRec, Stamp
<1>2. ReaderTypes
  BY DEF ReaderTypes, WatchRec
<1>3. StateTypes
  BY DEF StateTypes, Stamp
<1>4. UserTypes
  BY DEF UserTypes
<1> QED BY <1>1, <1>2, <1>3, <1>4 DEF MarketTypes

(* A merging task moves one step on. *)
MergeMove == {"load", "publish", "look", "notify", "sync", "event", "global"}

LEMMA MergeMoves ==
    ASSUME merge \in [Mergers -> MergeRec], NEW m \in Mergers
    PROVE  /\ \A pc \in MergeMove : [merge EXCEPT ![m].pc = pc] \in [Mergers -> MergeRec]
           /\ \A pc \in MergeMove, got \in Nat :
                 [merge EXCEPT ![m].pc = pc, ![m].got = got] \in [Mergers -> MergeRec]
           /\ \A pc \in MergeMove, paths \in SUBSET merge[m].paths :
                 [merge EXCEPT ![m].pc = pc, ![m].paths = paths] \in [Mergers -> MergeRec]
           /\ [merge EXCEPT ![m] = NoMerge] \in [Mergers -> MergeRec]
  BY ZenonT(60) DEF MergeRec, NoMerge, MergeMove

LEMMA DataTypesStep ==
    ASSUME DataTypes, NEW m \in Mergers, MergeStep(m)
    PROVE  DataTypes'
<1>1. CASE TakeEpoch(m)
  <2>1. PICK paths \in FramesOf(m) :
            merge' = [merge EXCEPT ![m] = [pc |-> "write", at |-> epoch + 1,
                                           paths |-> paths, got |-> 0]]
    BY <1>1 DEF TakeEpoch
  <2>2. paths \subseteq Paths
    BY MarketAssumption DEF DataTypes, FramesOf, Mergers, Paths
  <2>3. merge' \in [Mergers -> MergeRec]
    BY <2>1, <2>2 DEF DataTypes, MergeRec
  <2> QED BY <1>1, <2>3 DEF TakeEpoch, DataTypes
<1>2. CASE RefuseSource(m)
  BY <1>2 DEF RefuseSource, DataTypes
<1>3. CASE Write(m)
  <2>1. chartReady' \in BOOLEAN
    BY <1>3 DEF Write, DataTypes
  <2>2. data' \in [Paths -> Stamp]
    BY <1>3 DEF Write, Stamped, DataTypes, MergeRec, Stamp
  <2>3. merge' \in [Mergers -> MergeRec]
    BY <1>3, MergeMoves DEF MergeMove, Write, Goto, DataTypes
  <2> QED BY <1>3, <2>1, <2>2, <2>3 DEF Write, DataTypes
<1>4. CASE LoadEpoch(m) \/ LookAtEpoch(m)
  <2>1. PICK pc \in {"publish", "notify"} : merge' = [merge EXCEPT ![m].pc = pc, ![m].got = epoch]
    BY <1>4 DEF LoadEpoch, LookAtEpoch, Completed
  <2>2. merge' \in [Mergers -> MergeRec]
    BY <2>1, ZenonT(60) DEF MergeRec, DataTypes
  <2> QED BY <1>4, <2>2 DEF LoadEpoch, LookAtEpoch, dmVars, DataTypes
<1>5. CASE Publish(m)
  <2>1. published' = [epoch |-> merge[m].got, sent |-> published.sent + 1,
                      most |-> Max({published.most, merge[m].got})]
    BY <1>5 DEF Publish
  <2>2. merge[m].got \in Nat
    BY DEF DataTypes, MergeRec
  <2>3. Max({published.most, merge[m].got}) \in Nat
    BY <2>2, MaxOfTwo DEF DataTypes
  <2>4. merge' \in [Mergers -> MergeRec]
    BY <1>5, MergeMoves DEF MergeMove, Publish, Goto, DataTypes
  <2> QED BY <1>5, <2>1, <2>2, <2>3, <2>4 DEF Publish, DataTypes
<1>6. CASE Notify(m)
  <2>1. merge' = [merge EXCEPT ![m].pc = "sync"] \/ merge' = [merge EXCEPT ![m] = NoMerge]
    BY <1>6 DEF Notify, DataTypes
  <2>2. merge' \in [Mergers -> MergeRec]
    <3>1. CASE merge' = [merge EXCEPT ![m].pc = "sync"]
      BY <3>1 DEF DataTypes, MergeRec
    <3>2. CASE merge' = [merge EXCEPT ![m] = NoMerge]
      BY <3>2, MergeMoves DEF DataTypes
    <3> QED BY <2>1, <3>1, <3>2
  <2> QED BY <1>6, <2>2 DEF Notify, dmVars, DataTypes
<1> QED BY <1>1, <1>2, <1>3, <1>4, <1>5, <1>6 DEF MergeStep

LEMMA SentType ==
    ASSUME NEW e \in WatchRec, NEW payload \in Nat
    PROVE  Sent(e, payload) \in WatchRec
<1>1. CASE Len(e.box) < BoxSize
  <2>1. Append(e.box, payload) \in Seq(Nat)
    BY DEF WatchRec
  <2>2. [e EXCEPT !.box = Append(e.box, payload), !.told = payload, !.fulls = 0] \in WatchRec
    BY <2>1 DEF WatchRec
  <2> QED BY <1>1, <2>2 DEF Sent
<1>2. CASE ~(Len(e.box) < BoxSize)
  <2>1. PICK st \in {e.state, "dropped"} :
            Sent(e, payload) = [e EXCEPT !.fulls = e.fulls + 1, !.state = st]
    BY <1>2 DEF Sent
  <2>2. st \in {"none", "on", "cancelled", "dropped"}
    BY <2>1 DEF WatchRec
  <2>3. \A n \in Nat : [e EXCEPT !.fulls = n, !.state = st] \in WatchRec
    BY <2>2 DEF WatchRec
  <2>4. e.fulls + 1 \in Nat
    BY DEF WatchRec
  <2> QED BY <2>1, <2>3, <2>4
<1> QED BY <1>1, <1>2

LEMMA WatchTypesStep ==
    ASSUME MarketTypes
    PROVE  /\ \A m \in Mergers : Notify(m) => ReaderTypes'
           /\ \A w \in Watchers : WatchStep(w) => ReaderTypes'
<1>1. \A w \in Watchers : data[WatchOf[w]].val \in Nat
  BY MarketAssumption DEF MarketTypes, DataTypes, Stamp
<1>2. ASSUME NEW m \in Mergers, Notify(m)
      PROVE  ReaderTypes'
  <2>1. \A w \in Watchers : watch[w] \in WatchRec
    BY DEF MarketTypes, ReaderTypes
  <2>2. \A w \in Watchers : Sent(watch[w], data[WatchOf[w]].val) \in WatchRec
    BY <1>1, <2>1, SentType
  <2>3. watch' \in [Watchers -> WatchRec]
    BY <1>2, <2>1, <2>2 DEF Notify
  <2> QED BY <1>2, <2>3 DEF Notify, MarketTypes, ReaderTypes
<1>3. ASSUME NEW w \in Watchers, WatchStep(w) PROVE ReaderTypes'
  <2>1. watch' \in [Watchers -> WatchRec]
    <3>1. CASE Receive(w)
      <4>1. watch[w].box \in Seq(Nat) /\ watch[w].box # <<>>
        BY <3>1 DEF Receive, MarketTypes, ReaderTypes, WatchRec
      <4>2. Tail(watch[w].box) \in Seq(Nat)
        BY <4>1
      <4> QED BY <3>1, <4>2 DEF Receive, MarketTypes, ReaderTypes, WatchRec
    <3>2. CASE Register(w)
      BY <1>1, <3>2, ZenonT(60) DEF Register, MarketTypes, ReaderTypes, WatchRec
    <3>3. CASE Cancel(w)
      <4>1. << >> \in Seq(Nat)
        OBVIOUS
      <4> QED BY <3>3, <4>1, ZenonT(60) DEF Cancel, MarketTypes, ReaderTypes, WatchRec
    <3> QED BY <1>3, <3>1, <3>2, <3>3 DEF WatchStep
  <2> QED BY <1>3, <2>1 DEF WatchStep, Register, Receive, Cancel, MarketTypes, ReaderTypes
<1> QED BY <1>2, <1>3

LEMMA SeriesTypesStep ==
    ASSUME MarketTypes, SeriesStep
    PROVE  ReaderTypes'
<1>1. data["kline"].val \in Nat /\ published.epoch \in Nat /\ published.sent \in Nat
  BY DEF MarketTypes, DataTypes, Paths, Keys, Stamp
<1>2. \A p \in {"chart", "kline"} : Newer(p) \in BOOLEAN
  BY DEF Newer
<1> USE DEF MarketTypes, ReaderTypes
<1>3. CASE SeriesLook
  BY <1>1, <1>3 DEF SeriesLook
<1>4. CASE SeriesWake
  BY <1>1, <1>4 DEF SeriesWake
<1>5. CASE SeriesChartEpoch
  BY <1>2, <1>5 DEF SeriesChartEpoch
<1>6. CASE SeriesDataEpoch
  BY <1>2, <1>6 DEF SeriesDataEpoch
<1>7. CASE SeriesDecide
  BY <1>7 DEF SeriesDecide, Processed
<1>8. CASE SeriesShow
  BY <1>1, <1>8 DEF SeriesShow, Window, Processed
<1> QED BY <1>3, <1>4, <1>5, <1>6, <1>7, <1>8 DEF SeriesStep

(* The update event that is sent is that of a key. *)
LEMMA NewestIsKey ==
    ASSUME StateTypes
    PROVE  Newest \in Keys /\ \A j \in Keys : entries[j].epoch <= entries[Newest].epoch
<1>1. entries["quote"].epoch \in Nat /\ entries["kline"].epoch \in Nat
  BY DEF StateTypes, Keys, Stamp
<1>2. \E k \in Keys : \A j \in Keys : entries[j].epoch <= entries[k].epoch
  BY <1>1 DEF Keys
<1> QED BY <1>2 DEF Newest

LEMMA SyncTypesStep ==
    ASSUME MarketTypes, SyncStep
    PROVE  StateTypes' /\ DataTypes'
<1>1. Handler \in Mergers /\ Keys \subseteq Paths
  BY DEF Mergers, Paths
<1>2. merge \in [Mergers -> MergeRec] /\ entries \in [Keys -> Stamp] /\ feed \in Seq(Keys)
  BY DEF MarketTypes, DataTypes, StateTypes
<1>3. CASE \E k \in Keys : UpdateEntry(k)
  <2>1. PICK k \in Keys : UpdateEntry(k)
    BY <1>3
  <2>2. entries' \in [Keys -> Stamp]
    BY <1>1, <1>2, <2>1 DEF UpdateEntry, Stamp, MarketTypes, DataTypes
  <2>3. merge' = [merge EXCEPT ![Handler].pc = "event",
                               ![Handler].paths = merge[Handler].paths \ {k}]
    BY <1>1, <1>2, <2>1 DEF UpdateEntry
  <2>4. merge' \in [Mergers -> MergeRec]
    BY <1>1, <1>2, <2>3, MergeMoves DEF MergeMove
  <2> QED BY <2>1, <2>2, <2>4 DEF UpdateEntry, MarketTypes, DataTypes, StateTypes, dmVars
<1>4. CASE SendEvent
  <2>1. merge' \in [Mergers -> MergeRec]
    BY <1>1, <1>2, <1>4, MergeMoves DEF MergeMove, SendEvent, Goto
  <2>2. feed' \in Seq(Keys)
    BY <1>2, <1>4, NewestIsKey DEF SendEvent, MarketTypes
  <2> QED BY <1>4, <2>1, <2>2 DEF SendEvent, MarketTypes, DataTypes, StateTypes, dmVars
<1>5. CASE SendGlobal
  <2>1. merge' = [merge EXCEPT ![Handler].pc = "sync"] \/ merge' = [merge EXCEPT ![Handler] = NoMerge]
    BY <1>1, <1>2, <1>5 DEF SendGlobal
  <2>2. merge' \in [Mergers -> MergeRec]
    <3>1. CASE merge' = [merge EXCEPT ![Handler].pc = "sync"]
      BY <1>1, <1>2, <3>1 DEF MergeRec
    <3>2. CASE merge' = [merge EXCEPT ![Handler] = NoMerge]
      BY <1>1, <1>2, <3>2, MergeMoves
    <3> QED BY <2>1, <3>1, <3>2
  <2>3. globalTx' \in Nat
    BY <1>2, <1>5, NewestIsKey DEF SendGlobal, MarketTypes, Stamp
  <2> QED BY <1>5, <2>2, <2>3 DEF SendGlobal, MarketTypes, DataTypes, StateTypes, dmVars
<1> QED BY <1>3, <1>4, <1>5 DEF SyncStep

UserRec == [pc : {"idle", "look", "sleep", "store", "drain"}, cur : Nat, ver : Nat, calls : Nat]

(* What a drain keeps is held. *)
LEMMA KeptIsHeld ==
    ASSUME StateTypes, NEW boundary \in Nat
    PROVE  /\ Kept(boundary) \in Nat
           /\ Kept(boundary) # 0 => /\ Kept(boundary) \in Held /\ Kept(boundary) > boundary
                                    /\ \A n \in Held : n > boundary => Kept(boundary) <= n
           /\ Kept(boundary) = 0 => \A n \in Held : n <= boundary
<1> DEFINE past == {n \in Held : n > boundary}
<1>1. past \in SUBSET Nat /\ Held \in SUBSET (Nat \ {0})
  BY DEF Held, StateTypes
<1>2. CASE past = {}
  BY <1>1, <1>2 DEF Kept
<1>3. CASE past # {}
  <2>1. Kept(boundary) = Min(past)
    BY <1>3 DEF Kept
  <2>2. Min(past) \in past /\ \A n \in past : Min(past) <= n
    BY <1>1, <1>3, MinOf
  <2> QED BY <1>1, <2>1, <2>2
<1> QED BY <1>2, <1>3

(* What a drain reports of a key is the newest event of it that it takes. *)
LEMMA ReportedIs ==
    ASSUME StateTypes, reported \in [Keys -> Nat], NEW boundary \in Nat, NEW k \in Keys
    PROVE  LET taken == {n \in {n \in Held : n <= boundary} : feed[n] = k}
               most == Max({reported[k]} \cup taken)
           IN  /\ most \in Nat
               /\ most \in {reported[k]} \cup taken
               /\ most >= reported[k] /\ \A n \in taken : most >= n
<1> DEFINE taken == {n \in {n \in Held : n <= boundary} : feed[n] = k}
           all == {reported[k]} \cup taken
<1>1. all \in SUBSET Nat /\ all # {} /\ \A n \in all : n <= reported[k] + Len(feed)
  <2>1. Len(feed) \in Nat /\ reported[k] \in Nat
    BY DEF StateTypes
  <2>2. \A n \in taken : n \in Nat /\ n <= Len(feed)
    BY <2>1 DEF Held
  <2> QED BY <2>1, <2>2
<1>2. reported[k] + Len(feed) \in Nat
  BY DEF StateTypes
<1>3. Max(all) \in all /\ \A n \in all : Max(all) >= n
  BY <1>1, <1>2, MaxOf
<1> QED BY <1>1, <1>3

(* A drain either lags or collects up to the epoch that was stored. *)
LEMMA DrainCases ==
    ASSUME NEW u \in Users, Drain(u)
    PROVE  \/ Len(feed) - api.pos > Retained /\ Lag
           \/ Collect(api.seen["all"])
  BY DEF Drain

LEMMA UserTypesStep ==
    ASSUME MarketTypes, NEW u \in Users, UserStep(u)
    PROVE  UserTypes'
<1>1. Source(u) \in Nat /\ On[u] \in Slots
  BY MarketAssumption DEF Source, MarketTypes, StateTypes, Stamp, Slots
<1> USE DEF MarketTypes
<1>2. CASE Begin(u) \/ Look(u) \/ Wake(u)
  <2>1. user' \in [Users -> UserRec]
    <3>1. CASE Begin(u)
      BY <1>1, <3>1 DEF Begin, UserTypes, UserRec
    <3>2. CASE Look(u)
      BY <1>1, <3>2, ZenonT(60) DEF Look, UserTypes, UserRec
    <3>3. CASE Wake(u)
      BY <1>1, <3>3, ZenonT(60) DEF Wake, UserTypes, UserRec
    <3> QED BY <1>2, <3>1, <3>2, <3>3
  <2> QED BY <1>2, <2>1 DEF Begin, Look, Wake, UserTypes, UserRec
<1>3. CASE Store(u)
  <2>1. user' \in [Users -> UserRec]
    BY <1>3 DEF Store, Turn, UserTypes, UserRec
  <2>2. seenMost' \in [Slots -> Nat]
    BY <1>1, <1>3 DEF Store, UserTypes
  <2>3. api'.seen = [api.seen EXCEPT ![On[u]] = user[u].cur]
        /\ api' = [api EXCEPT !.seen = api'.seen]
    BY <1>3 DEF Store, UserTypes
  <2>4. api'.seen \in [Slots -> Nat]
    BY <1>1, <2>3 DEF UserTypes
  <2> QED BY <1>3, <2>1, <2>2, <2>3, <2>4 DEF Store, UserTypes, UserRec
<1>4. CASE Drain(u)
  <2>1. user' \in [Users -> UserRec]
    BY <1>4 DEF Drain, Turn, UserTypes, UserRec
  <2>2. Len(feed) \in Nat /\ Retained \in Nat
    BY MarketAssumption DEF StateTypes
  <2>3. CASE Len(feed) - api.pos > Retained /\ Lag
    <3>1. Len(feed) - Retained \in Nat
      BY <2>2, <2>3 DEF UserTypes
    <3> QED BY <1>4, <2>1, <2>3, <3>1 DEF Lag, Drain, UserTypes, UserRec
  <2>4. CASE Collect(api.seen["all"])
    <3> DEFINE boundary == api.seen["all"]
    <3>1. boundary \in Nat /\ api.pos \in Nat /\ api.drained \in Nat /\ Kept(boundary) \in Nat
      BY KeptIsHeld DEF UserTypes, Slots
    <3>2. /\ Max({api.drained, boundary}) \in Nat
          /\ Max({api.pos, Kept(boundary)}) \in Nat
      BY <3>1, MaxOfTwo
    <3>3. reported' \in [Keys -> Nat]
      BY <2>4, <3>1, ReportedIs DEF Collect, UserTypes
    <3>4. api' = [api EXCEPT !.pending = Kept(boundary), !.drained = Max({api.drained, boundary}),
                             !.pos = api'.pos]
          /\ api'.pos \in {Len(feed), Max({api.pos, Kept(boundary)})}
      BY <2>4 DEF Collect, UserTypes
    <3> QED BY <1>4, <2>1, <2>2, <3>1, <3>2, <3>3, <3>4 DEF Drain, UserTypes, UserRec
  <2> QED BY <1>4, <2>3, <2>4, DrainCases
<1> QED BY <1>2, <1>3, <1>4 DEF UserStep

LEMMA TypesStep == MarketTypes /\ [Next]_vars => MarketTypes'
<1> SUFFICES ASSUME MarketTypes, [Next]_vars PROVE MarketTypes'
  OBVIOUS
<1> USE DEF MarketTypes
<1>1. ASSUME NEW m \in Mergers, MergeStep(m) PROVE MarketTypes'
  <2>1. ReaderTypes'
    <3>1. CASE Notify(m)
      BY <3>1, WatchTypesStep
    <3>2. CASE ~Notify(m)
      <4>1. watch' = watch /\ series' = series
        BY <1>1, <3>2 DEF MergeStep, TakeEpoch, RefuseSource, Write, LoadEpoch, Publish, LookAtEpoch
      <4> QED BY <4>1 DEF ReaderTypes
    <3> QED BY <3>1, <3>2
  <2>2. UNCHANGED <<stateVars, apiVars>>
    BY <1>1 DEF MergeStep, TakeEpoch, RefuseSource, Write, LoadEpoch, Publish, LookAtEpoch, Notify
  <2>3. StateTypes' /\ UserTypes'
    BY <2>2 DEF StateTypes, UserTypes, stateVars, apiVars
  <2> QED BY <1>1, <2>1, <2>3, DataTypesStep
<1>2. ASSUME SeriesStep PROVE MarketTypes'
  <2>1. UNCHANGED <<dmVars, merge, stateVars, apiVars>>
    BY <1>2 DEF SeriesStep, SeriesLook, SeriesWake, SeriesChartEpoch, SeriesDataEpoch, SeriesDecide,
                SeriesShow
  <2>2. DataTypes' /\ StateTypes' /\ UserTypes'
    BY <2>1 DEF DataTypes, StateTypes, UserTypes, dmVars, stateVars, apiVars
  <2> QED BY <1>2, <2>2, SeriesTypesStep
<1>3. ASSUME SyncStep PROVE MarketTypes'
  <2>1. UNCHANGED <<watch, series, apiVars>>
    BY <1>3 DEF SyncStep, UpdateEntry, SendEvent, SendGlobal
  <2>2. ReaderTypes' /\ UserTypes'
    BY <2>1 DEF ReaderTypes, UserTypes, apiVars
  <2> QED BY <1>3, <2>2, SyncTypesStep
<1>4. ASSUME NEW u \in Users, UserStep(u) PROVE MarketTypes'
  <2>1. UNCHANGED <<dmVars, merge, watch, series, stateVars>>
    BY <1>4 DEF UserStep, Begin, Look, Wake, Store, Drain
  <2>2. DataTypes' /\ ReaderTypes' /\ StateTypes'
    BY <2>1 DEF DataTypes, ReaderTypes, StateTypes, dmVars, stateVars
  <2> QED BY <1>4, <2>2, UserTypesStep
<1>5. ASSUME NEW w \in Watchers, WatchStep(w) PROVE MarketTypes'
  <2>1. UNCHANGED <<dmVars, merge, stateVars, apiVars>>
    BY <1>5 DEF WatchStep, Register, Receive, Cancel
  <2>2. DataTypes' /\ StateTypes' /\ UserTypes'
    BY <2>1 DEF DataTypes, StateTypes, UserTypes, dmVars, stateVars, apiVars
  <2> QED BY <1>5, <2>2, WatchTypesStep
<1>6. ASSUME Deactivate \/ Close \/ UNCHANGED vars PROVE MarketTypes'
  BY <1>6 DEF Deactivate, Close, vars, DataTypes, ReaderTypes, StateTypes, UserTypes, dmVars,
              stateVars, apiVars
<1> QED BY <1>1, <1>2, <1>3, <1>4, <1>5, <1>6 DEF Next

-----------------------------------------------------------------------------
(***************************************************************************)
(* Path watchers.  A value that its watcher was not told of is carried: a   *)
(* merge that wrote it is on its way to notify, and no newer epoch was      *)
(* taken before it compared its own with the newest.                       *)
(***************************************************************************)
Carries(m, p) ==
    /\ p \in merge[m].paths
    /\ merge[m].pc \in {"load", "publish", "look", "notify"}
    /\ merge[m].at = data[p].epoch
    /\ merge[m].pc # "notify" => epoch = merge[m].at
    /\ merge[m].pc = "notify" => merge[m].got = merge[m].at

Carried(p) == \E m \in Mergers : Carries(m, p)

ToldOrCarried(w) ==
    LET p == WatchOf[w] IN
    watch[w].state = "on" =>
        \/ watch[w].told = data[p].val
        \/ watch[w].since = data[p].val
        \/ watch[w].fulls > 0
        \/ p \in crowded
        \/ Carried(p)

DroppedWhenFull(w) == watch[w].state = "dropped" => watch[w].fulls >= MaxFulls

WatchInv == \A w \in Watchers : ToldOrCarried(w) /\ DroppedWhenFull(w)

LEMMA WatchInvInit == Init => WatchInv
  BY DEF Init, WatchInv, ToldOrCarried, DroppedWhenFull

(* A new epoch finds the paths still carried crowded. *)
LEMMA EpochCrowds ==
    ASSUME MarketTypes, NEW m \in Mergers, TakeEpoch(m) \/ RefuseSource(m),
           NEW p \in Paths, Carried(p)
    PROVE  p \in crowded' \/ Carried(p)'
<1>1. PICK n \in Mergers : Carries(n, p)
  BY DEF Carried
<1>2. n # m
  BY <1>1 DEF Carries, TakeEpoch, RefuseSource, AtStep
<1>3. merge'[n] = merge[n] /\ data' = data /\ crowded' = crowded \cup Overlapped(m)
  BY <1>2 DEF TakeEpoch, RefuseSource, MarketTypes, DataTypes
<1>4. CASE merge[n].pc = "notify"
  BY <1>1, <1>3, <1>4 DEF Carries, Carried
<1>5. CASE merge[n].pc # "notify"
  <2>1. n \in {o \in Mergers \ {m} : merge[o].pc \in {"write", "load", "publish", "look"}}
    BY <1>1, <1>2, <1>5 DEF Carries
  <2> QED BY <1>1, <1>3, <2>1 DEF Carries, Overlapped
<1> QED BY <1>4, <1>5

(* What a merge has written is crowded or carried by it. *)
LEMMA WriteCarries ==
    ASSUME MarketTypes, NEW m \in Mergers, Write(m), NEW p \in Paths
    PROVE  /\ p \in merge[m].paths => p \in crowded' \/ Carried(p)'
           /\ p \notin merge[m].paths => /\ data'[p] = data[p]
                                         /\ p \in crowded => p \in crowded'
                                         /\ Carried(p) => Carried(p)'
<1>1. /\ epoch' = epoch /\ data' = Stamped(m)
      /\ merge' = [merge EXCEPT ![m].pc = "load"] /\ merge[m].pc = "write"
      /\ crowded' = (crowded \ merge[m].paths)
                       \cup (IF epoch # merge[m].at THEN merge[m].paths ELSE {})
  BY DEF Write, Goto, AtStep
<1>2. ASSUME p \in merge[m].paths, p \notin crowded' PROVE Carried(p)'
  <2>1. epoch = merge[m].at
    BY <1>1, <1>2
  <2>2. data'[p].epoch = merge[m].at
    BY <1>1, <1>2 DEF Stamped
  <2>3. merge'[m].pc = "load" /\ merge'[m].at = merge[m].at /\ merge'[m].paths = merge[m].paths
    BY <1>1 DEF MarketTypes, DataTypes, MergeRec
  <2>4. Carries(m, p)'
    BY <1>1, <1>2, <2>1, <2>2, <2>3 DEF Carries
  <2> QED BY <2>4 DEF Carried
<1>3. ASSUME p \notin merge[m].paths
      PROVE  /\ data'[p] = data[p]
             /\ p \in crowded => p \in crowded'
             /\ Carried(p) => Carried(p)'
  <2>1. data'[p] = data[p]
    BY <1>1, <1>3 DEF Stamped
  <2>2. ASSUME NEW n \in Mergers, Carries(n, p) PROVE Carries(n, p)'
    <3>1. n # m
      BY <1>3, <2>2 DEF Carries
    <3>2. merge'[n] = merge[n]
      BY <1>1, <3>1 DEF MarketTypes, DataTypes
    <3> QED BY <1>1, <2>1, <2>2, <3>2 DEF Carries
  <2> QED BY <1>1, <1>3, <2>1, <2>2 DEF Carried
<1> QED BY <1>2, <1>3

(* Until it notifies, a merge goes on carrying. *)
LEMMA CarriesOn ==
    ASSUME MarketTypes, NEW m \in Mergers, LoadEpoch(m) \/ Publish(m) \/ LookAtEpoch(m),
           NEW p \in Paths, Carried(p)
    PROVE  Carried(p)'
<1>1. PICK n \in Mergers : Carries(n, p)
  BY DEF Carried
<1>2. data' = data /\ epoch' = epoch
  BY DEF LoadEpoch, Publish, LookAtEpoch, dmVars
<1>3. CASE n # m
  <2>1. merge'[n] = merge[n]
    BY <1>3 DEF LoadEpoch, Publish, LookAtEpoch, Goto, MarketTypes, DataTypes
  <2> QED BY <1>1, <1>2, <2>1 DEF Carries, Carried
<1>4. CASE n = m
  <2>1. CASE LoadEpoch(m) \/ Publish(m)
    <3>1. /\ merge'[m].pc \in {"publish", "look"} /\ merge[m].pc \in {"load", "publish"}
          /\ merge'[m].at = merge[m].at /\ merge'[m].paths = merge[m].paths
      BY <2>1 DEF LoadEpoch, Publish, Goto, AtStep, MarketTypes, DataTypes, MergeRec
    <3>2. Carries(m, p)'
      BY <1>1, <1>2, <1>4, <3>1 DEF Carries
    <3> QED BY <3>2 DEF Carried
  <2>2. CASE LookAtEpoch(m)
    <3>1. /\ merge'[m].pc = "notify" /\ merge[m].pc = "look" /\ merge'[m].got = epoch
          /\ merge'[m].at = merge[m].at /\ merge'[m].paths = merge[m].paths
      BY <2>2 DEF LookAtEpoch, AtStep, MarketTypes, DataTypes, MergeRec
    <3>2. Carries(m, p)'
      BY <1>1, <1>2, <1>4, <3>1 DEF Carries
    <3> QED BY <3>2 DEF Carried
  <2> QED BY <2>1, <2>2
<1> QED BY <1>3, <1>4

(* A payload reaches the channel or counts as failed. *)
LEMMA SentIs ==
    ASSUME NEW e \in WatchRec, NEW payload \in Nat
    PROVE  /\ Sent(e, payload).told = payload \/ Sent(e, payload).fulls > 0
           /\ Sent(e, payload).since = e.since
           /\ (Sent(e, payload).state = "dropped" /\ e.state = "on")
                 => Sent(e, payload).fulls >= MaxFulls
<1>1. e.fulls \in Nat
  BY DEF WatchRec
<1> QED BY <1>1 DEF Sent, WatchRec

LEMMA NotifyTells ==
    ASSUME MarketTypes, WatchInv, NEW m \in Mergers, Notify(m)
    PROVE  WatchInv'
<1> SUFFICES ASSUME NEW w \in Watchers
             PROVE  ToldOrCarried(w)' /\ DroppedWhenFull(w)'
  BY DEF WatchInv
<1> DEFINE p == WatchOf[w]
<1>1. p \in Paths /\ data[p].val \in Nat /\ watch[w] \in WatchRec
  BY MarketAssumption DEF MarketTypes, DataTypes, ReaderTypes, Stamp
<1>2. /\ data' = data /\ epoch' = epoch /\ crowded' = crowded
      /\ merge[m].pc = "notify"
      /\ watch'[w] = IF watch[w].state = "on" /\ data[p].epoch = merge[m].got
                       THEN Sent(watch[w], data[p].val) ELSE watch[w]
      /\ \A n \in Mergers \ {m} : merge'[n] = merge[n]
  BY DEF Notify, AtStep, dmVars, MarketTypes, DataTypes
<1>3. CASE watch[w].state = "on" /\ data[p].epoch = merge[m].got
  BY <1>1, <1>2, <1>3, SentIs DEF ToldOrCarried, DroppedWhenFull
<1>4. CASE ~(watch[w].state = "on" /\ data[p].epoch = merge[m].got)
  <2>1. watch'[w] = watch[w]
    BY <1>2, <1>4
  <2>2. ASSUME watch[w].state = "on", Carried(p) PROVE Carried(p)'
    <3>1. PICK n \in Mergers : Carries(n, p)
      BY <2>2 DEF Carried
    <3>2. n # m
      BY <1>2, <1>4, <2>2, <3>1 DEF Carries
    <3>3. Carries(n, p)'
      BY <1>2, <3>1, <3>2 DEF Carries
    <3> QED BY <3>3 DEF Carried
  <2> QED BY <1>2, <2>1, <2>2 DEF WatchInv, ToldOrCarried, DroppedWhenFull
<1> QED BY <1>3, <1>4

(* The steps that leave the watchers and what they watch as they are. *)
LEMMA WatchFrame ==
    ASSUME WatchInv, UNCHANGED <<watch, data, epoch, crowded>>,
           \A p \in Paths : Carried(p) => Carried(p)'
    PROVE  WatchInv'
<1>1. \A w \in Watchers : WatchOf[w] \in Paths
  BY MarketAssumption
<1> QED BY <1>1 DEF WatchInv, ToldOrCarried, DroppedWhenFull

LEMMA WatchInvStep == MarketTypes /\ WatchInv /\ [Next]_vars => WatchInv'
<1> SUFFICES ASSUME MarketTypes, WatchInv, [Next]_vars PROVE WatchInv'
  OBVIOUS
<1>1. \A w \in Watchers : WatchOf[w] \in Paths
  BY MarketAssumption
<1>2. ASSUME NEW m \in Mergers, MergeStep(m) PROVE WatchInv'
  <2>1. CASE TakeEpoch(m) \/ RefuseSource(m)
    <3>1. UNCHANGED <<watch, data>> /\ crowded \subseteq crowded'
      BY <2>1 DEF TakeEpoch, RefuseSource
    <3> QED BY <1>1, <2>1, <3>1, EpochCrowds DEF WatchInv, ToldOrCarried, DroppedWhenFull
  <2>2. CASE Write(m)
    <3>1. watch' = watch
      BY <2>2 DEF Write
    <3>2. \A p \in Paths : \/ p \in crowded' \/ Carried(p)'
                           \/ data'[p] = data[p] /\ p \notin crowded /\ ~Carried(p)
      BY <2>2, WriteCarries
    <3> QED BY <1>1, <3>1, <3>2 DEF WatchInv, ToldOrCarried, DroppedWhenFull
  <2>3. CASE LoadEpoch(m) \/ Publish(m) \/ LookAtEpoch(m)
    <3>1. UNCHANGED <<watch, data, epoch, crowded>>
      BY <2>3 DEF LoadEpoch, Publish, LookAtEpoch, dmVars
    <3> QED BY <2>3, <3>1, CarriesOn, WatchFrame
  <2>4. CASE Notify(m)
    BY <2>4, NotifyTells
  <2> QED BY <1>2, <2>1, <2>2, <2>3, <2>4 DEF MergeStep
<1>3. ASSUME NEW w \in Watchers, WatchStep(w) PROVE WatchInv'
  <2>1. UNCHANGED <<data, epoch, crowded, merge>>
    BY <1>3 DEF WatchStep, Register, Receive, Cancel, dmVars
  <2>2. \A p : Carried(p)' = Carried(p)
    BY <2>1 DEF Carried, Carries
  <2>3. \A v \in Watchers : v # w => watch'[v] = watch[v]
    BY <1>3 DEF WatchStep, Register, Receive, Cancel, MarketTypes, ReaderTypes
  <2>4. \/ watch'[w].state = "on" /\ watch'[w].since = data[WatchOf[w]].val
        \/ watch'[w].state = "cancelled"
        \/ /\ watch'[w].state = watch[w].state /\ watch'[w].told = watch[w].told
           /\ watch'[w].since = watch[w].since /\ watch'[w].fulls = watch[w].fulls
    BY <1>3, SMTT(30) DEF WatchStep, Register, Receive, Cancel, MarketTypes, ReaderTypes, WatchRec
  <2>5. ToldOrCarried(w)' /\ DroppedWhenFull(w)'
    BY <2>1, <2>2, <2>4 DEF WatchInv, ToldOrCarried, DroppedWhenFull
  <2>6. \A v \in Watchers : v # w => ToldOrCarried(v)' /\ DroppedWhenFull(v)'
    BY <2>1, <2>2, <2>3 DEF WatchInv, ToldOrCarried, DroppedWhenFull
  <2> QED BY <2>5, <2>6 DEF WatchInv
<1>4. ASSUME SyncStep PROVE WatchInv'
  <2>1. UNCHANGED <<watch, data, epoch, crowded>>
    BY <1>4 DEF SyncStep, UpdateEntry, SendEvent, SendGlobal, dmVars
  <2>2. /\ merge[Handler].pc \in {"sync", "event", "global"}
        /\ \A m \in Mergers \ {Handler} : merge'[m] = merge[m]
    BY <1>4 DEF SyncStep, UpdateEntry, SendEvent, SendGlobal, AtStep, Goto, MarketTypes, DataTypes
  <2>3. \A m \in Mergers, p \in Paths : Carries(m, p) => Carries(m, p)'
    BY <2>1, <2>2 DEF Carries
  <2> QED BY <2>1, <2>3, WatchFrame DEF Carried
<1>5. ASSUME SeriesStep \/ (\E u \in Users : UserStep(u)) \/ Deactivate \/ Close \/ UNCHANGED vars
      PROVE  WatchInv'
  <2>1. UNCHANGED <<dmVars, merge, watch>>
    BY <1>5 DEF SeriesStep, SeriesLook, SeriesWake, SeriesChartEpoch, SeriesDataEpoch, SeriesDecide,
                SeriesShow, UserStep, Begin, Look, Wake, Store, Drain, Deactivate, Close, vars
  <2> QED BY <2>1 DEF dmVars, WatchInv, ToldOrCarried, DroppedWhenFull, Carried, Carries
<1> QED BY <1>2, <1>3, <1>4, <1>5 DEF Next

(* Spec => []MarketTypes: every variable of Market has its type, whatever   *)
(* the loads, the merging tasks, the watchers and the users are.           *)
THEOREM MarketTypesHold == Spec => []MarketTypes
<1>1. Init => MarketTypes
  BY TypesInit
<1>2. MarketTypes /\ [Next]_vars => MarketTypes'
  BY TypesStep
<1> QED BY <1>1, <1>2, PTL DEF Spec

(* A path watcher knows the newest value of its path once the merges are    *)
(* over, unless its channel was full or merges overlapped; and no watcher   *)
(* is dropped that was not full often enough (datamanager/watch.rs).       *)
THEOREM WatchersToldHolds == Spec => []WatchersTold
<1>1. Init => WatchInv
  BY WatchInvInit
<1>2. MarketTypes /\ WatchInv /\ [Next]_vars => WatchInv'
  BY WatchInvStep
<1>3. WatchInv => WatchersTold
  BY DEF WatchInv, WatchersTold, ToldOrCarried, DroppedWhenFull, Carried, Carries, Merging
<1> QED BY <1>1, <1>2, <1>3, MarketTypesHold, PTL DEF Spec

-----------------------------------------------------------------------------
(***************************************************************************)
(* The series subscription.  What was written in time carries an epoch     *)
(* that is newer than all that were published, so it is newer than the     *)
(* last one the task has processed.                                        *)
(***************************************************************************)
Bars == {"chart", "kline"}

(* The epochs the task holds were published. *)
SeriesEpochs ==
    /\ series.cur <= published.most /\ series.last <= published.most
    /\ published.epoch <= published.most

(* A path that was written in time and changed up to the epoch being looked *)
(* at was noticed.                                                         *)
Noticed(p) ==
    series.changed \/ p \in early \/ data[p].epoch <= series.last \/ data[p].epoch > series.cur

ChangesNoticed ==
    /\ series.pc = "data" => Noticed("chart")
    /\ series.pc = "decide" => Noticed("chart") /\ Noticed("kline")

(* Bars that were written in time and processed are shown. *)
ProcessedIsShown ==
    (chartReady /\ \A p \in Bars : p \notin early /\ data[p].epoch <= series.last)
        => series.shown = data["kline"].val

(* The task only sleeps on an epoch that it has processed. *)
SleepsProcessed ==
    series.pc = "sleep" => /\ series.seen <= published.sent
                           /\ series.seen = published.sent => published.epoch <= series.last

SeriesInv == SeriesEpochs /\ ChangesNoticed /\ ProcessedIsShown /\ SleepsProcessed

LEMMA BarsArePaths == Bars \subseteq Paths /\ "kline" \in Bars
  BY DEF Bars, Paths, Keys

LEMMA SeriesInvInit == Init => SeriesInv
  BY BarsArePaths DEF Init, SeriesInv, SeriesEpochs, ChangesNoticed, Noticed, ProcessedIsShown,
     SleepsProcessed

LEMMA WriteKeepsSeries ==
    ASSUME MarketTypes, SeriesInv, NEW m \in Mergers, Write(m)
    PROVE  SeriesInv'
<1>1. /\ series' = series /\ published' = published /\ data' = Stamped(m)
      /\ "chart" \notin merge[m].paths => chartReady' = chartReady
      /\ early' = (early \ merge[m].paths)
                     \cup (IF published.most >= merge[m].at THEN merge[m].paths ELSE {})
  BY DEF Write
<1>2. /\ published.most \in Nat /\ merge[m].at \in Nat
      /\ series.cur \in Nat /\ series.last \in Nat
      /\ \A p \in Bars : data[p].epoch \in Nat
  BY BarsArePaths DEF MarketTypes, DataTypes, ReaderTypes, MergeRec, Stamp
<1>3. ASSUME NEW p \in Bars, p \in merge[m].paths, p \notin early'
      PROVE  data'[p].epoch > series.last /\ data'[p].epoch > series.cur
  <2>1. merge[m].at > published.most
    BY <1>1, <1>2, <1>3
  <2>2. data'[p].epoch = merge[m].at
    BY <1>1, <1>3, BarsArePaths DEF Stamped
  <2> QED BY <1>2, <2>1, <2>2 DEF SeriesInv, SeriesEpochs
<1>4. ASSUME NEW p \in Bars, p \notin merge[m].paths
      PROVE  data'[p] = data[p] /\ (p \in early' <=> p \in early)
  BY <1>1, <1>4, BarsArePaths DEF Stamped
<1>5. SeriesEpochs' /\ SleepsProcessed'
  BY <1>1 DEF SeriesInv, SeriesEpochs, SleepsProcessed
<1>6. \A p \in Bars : Noticed(p) => Noticed(p)'
  BY <1>1, <1>2, <1>3, <1>4 DEF Noticed
<1>7. ChangesNoticed'
  BY <1>1, <1>6 DEF SeriesInv, ChangesNoticed, Bars
<1>8. ProcessedIsShown'
  <2> SUFFICES ASSUME chartReady', \A p \in Bars : p \notin early' /\ data'[p].epoch <= series.last
               PROVE  series.shown = data'["kline"].val
    BY <1>1 DEF ProcessedIsShown
  <2>1. \A p \in Bars : p \notin merge[m].paths
    <3> SUFFICES ASSUME NEW p \in Bars, p \in merge[m].paths PROVE FALSE
      OBVIOUS
    <3>1. data'[p].epoch > series.last /\ data'[p].epoch <= series.last
      BY <1>3
    <3>2. data'[p].epoch = merge[m].at
      BY <1>1, BarsArePaths DEF Stamped
    <3> QED BY <1>2, <3>1, <3>2
  <2>2. chartReady
    BY <1>1, <2>1 DEF Bars
  <2>3. \A p \in Bars : p \notin early /\ data[p].epoch <= series.last
    BY <1>4, <2>1
  <2>4. data'["kline"] = data["kline"]
    BY <1>4, <2>1 DEF Bars
  <2> QED BY <2>2, <2>3, <2>4 DEF SeriesInv, ProcessedIsShown
<1> QED BY <1>5, <1>7, <1>8 DEF SeriesInv

LEMMA PublishKeepsSeries ==
    ASSUME MarketTypes, SeriesInv, NEW m \in Mergers, Publish(m)
    PROVE  SeriesInv'
<1>1. /\ published' = [epoch |-> merge[m].got, sent |-> published.sent + 1,
                       most |-> Max({published.most, merge[m].got})]
      /\ UNCHANGED <<data, chartReady, early, series>>
  BY DEF Publish
<1>2. published.most \in Nat /\ merge[m].got \in Nat /\ published.sent \in Nat
      /\ series.seen \in Nat /\ series.cur \in Nat /\ series.last \in Nat
  BY DEF MarketTypes, DataTypes, ReaderTypes, MergeRec
<1>3. published'.most \in Nat /\ published'.most >= published.most /\ published'.most >= merge[m].got
  BY <1>1, <1>2, MaxOfTwo
<1>4. SeriesEpochs'
  BY <1>1, <1>2, <1>3 DEF SeriesInv, SeriesEpochs
<1>5. SleepsProcessed'
  BY <1>1, <1>2 DEF SeriesInv, SleepsProcessed
<1>6. ChangesNoticed' /\ ProcessedIsShown'
  BY <1>1 DEF SeriesInv, ChangesNoticed, Noticed, ProcessedIsShown
<1> QED BY <1>4, <1>5, <1>6 DEF SeriesInv

LEMMA SeriesStepKeeps ==
    ASSUME MarketTypes, SeriesInv, SeriesStep
    PROVE  SeriesInv'
<1>1. UNCHANGED <<data, chartReady, early, published>>
  BY DEF SeriesStep, SeriesLook, SeriesWake, SeriesChartEpoch, SeriesDataEpoch, SeriesDecide,
         SeriesShow, dmVars
<1>2. /\ published.most \in Nat /\ published.sent \in Nat /\ published.epoch \in Nat
      /\ series.cur \in Nat /\ series.last \in Nat /\ series.seen \in Nat
      /\ data["chart"].epoch \in Nat /\ data["kline"].epoch \in Nat
  BY BarsArePaths DEF MarketTypes, DataTypes, ReaderTypes, Stamp, Bars
<1>3. series \in [pc : {"look", "sleep", "chart", "data", "decide", "show"}, cur : Nat,
                  seen : Nat, last : Nat, changed : BOOLEAN, shown : Nat]
  BY DEF MarketTypes, ReaderTypes
<1> USE DEF SeriesInv, SeriesEpochs, SleepsProcessed, ChangesNoticed, ProcessedIsShown
<1>4. CASE SeriesLook
  BY <1>1, <1>2, <1>3, <1>4 DEF SeriesLook
<1>5. CASE SeriesWake
  BY <1>1, <1>2, <1>3, <1>5 DEF SeriesWake
<1>6. CASE SeriesChartEpoch
  <2>1. /\ series'.changed = Newer("chart")
        /\ series'.last = series.last /\ series'.cur = series.cur
    BY <1>3, <1>6 DEF SeriesChartEpoch
  <2>2. Newer("chart") => series'.changed
    BY <2>1
  <2>3. Noticed("chart")'
    BY <1>1, <1>2, <2>1, <2>2 DEF Newer, Noticed
  <2> QED BY <1>1, <1>3, <1>6, <2>3 DEF SeriesChartEpoch
<1>7. CASE SeriesDataEpoch
  <2>1. /\ series'.changed = (series.changed \/ Newer("kline"))
        /\ series'.last = series.last /\ series'.cur = series.cur
    BY <1>3, <1>7 DEF SeriesDataEpoch
  <2>2. Newer("kline") \/ series.changed => series'.changed
    BY <2>1
  <2>3. Noticed("chart")' /\ Noticed("kline")'
    BY <1>1, <1>2, <1>7, <2>1, <2>2 DEF SeriesDataEpoch, Newer, Noticed
  <2> QED BY <1>1, <1>3, <1>7, <2>3 DEF SeriesDataEpoch
<1>8. CASE SeriesDecide
  <2>1. CASE series.changed /\ chartReady
    BY <1>1, <1>3, <1>8, <2>1 DEF SeriesDecide
  <2>2. CASE ~(series.changed /\ chartReady)
    <3>1. /\ series'.pc = "look" /\ series'.last = series.cur /\ series'.cur = series.cur
          /\ series'.shown = series.shown
      BY <1>3, <1>8, <2>2 DEF SeriesDecide, Processed
    <3>2. ProcessedIsShown'
      BY <1>1, <1>2, <1>8, <2>2, <3>1 DEF SeriesDecide, Noticed, Bars
    <3> QED BY <1>1, <3>1, <3>2
  <2> QED BY <2>1, <2>2
<1>9. CASE SeriesShow
  <2>1. /\ series'.pc = "look" /\ series'.last = series.cur /\ series'.cur = series.cur
        /\ series'.shown = data["kline"].val
    BY <1>3, <1>9 DEF SeriesShow, Processed, Window
  <2> QED BY <1>1, <2>1
<1> QED BY <1>4, <1>5, <1>6, <1>7, <1>8, <1>9 DEF SeriesStep

LEMMA SeriesInvStep == MarketTypes /\ SeriesInv /\ [Next]_vars => SeriesInv'
<1> SUFFICES ASSUME MarketTypes, SeriesInv, [Next]_vars PROVE SeriesInv'
  OBVIOUS
<1>1. ASSUME UNCHANGED <<data, chartReady, early, published, series>>
      PROVE  SeriesInv'
  BY <1>1 DEF SeriesInv, SeriesEpochs, SleepsProcessed, ChangesNoticed, Noticed, ProcessedIsShown
<1>2. ASSUME NEW m \in Mergers, MergeStep(m) PROVE SeriesInv'
  <2>1. CASE Write(m)
    BY <2>1, WriteKeepsSeries
  <2>2. CASE Publish(m)
    BY <2>2, PublishKeepsSeries
  <2>3. CASE ~Write(m) /\ ~Publish(m)
    <3>1. UNCHANGED <<data, chartReady, early, published, series>>
      BY <1>2, <2>3 DEF MergeStep, TakeEpoch, RefuseSource, LoadEpoch, LookAtEpoch, Notify, dmVars
    <3> QED BY <1>1, <3>1
  <2> QED BY <2>1, <2>2, <2>3
<1>3. CASE SeriesStep
  BY <1>3, SeriesStepKeeps
<1>4. ASSUME SyncStep \/ (\E u \in Users : UserStep(u)) \/ (\E w \in Watchers : WatchStep(w))
             \/ Deactivate \/ Close \/ UNCHANGED vars
      PROVE  SeriesInv'
  <2>1. UNCHANGED <<dmVars, series>>
    BY <1>4 DEF SyncStep, UpdateEntry, SendEvent, SendGlobal, UserStep, Begin, Look, Wake, Store,
                Drain, WatchStep, Register, Receive, Cancel, Deactivate, Close, vars
  <2> QED BY <1>1, <2>1 DEF dmVars
<1> QED BY <1>2, <1>3, <1>4 DEF Next

(* A series subscription that sleeps after the last merge shows the newest  *)
(* bars, whatever number of tasks merged at a time, unless one of the two   *)
(* overtakings that SeriesCurrent names took place                         *)
(* (series/subscription.rs).                                               *)
THEOREM SeriesCurrentHolds == Spec => []SeriesCurrent
<1>1. Init => SeriesInv
  BY SeriesInvInit
<1>2. MarketTypes /\ SeriesInv /\ [Next]_vars => SeriesInv'
  BY SeriesInvStep
<1>3. MarketTypes /\ SeriesInv => SeriesCurrent
  <2> SUFFICES ASSUME MarketTypes, SeriesInv, series.pc = "sleep", series.seen = published.sent,
                      chartReady, early \cap {"kline", "chart"} = {},
                      \A p \in {"kline", "chart"} : ~(data[p].epoch > published.epoch)
               PROVE  series.shown = data["kline"].val
    BY DEF SeriesCurrent
  <2>1. published.epoch <= series.last
    BY DEF SeriesInv, SleepsProcessed
  <2>2. published.epoch \in Nat /\ series.last \in Nat /\ \A p \in Bars : data[p].epoch \in Nat
    BY BarsArePaths DEF MarketTypes, DataTypes, ReaderTypes, Stamp
  <2>3. \A p \in Bars : p \notin early /\ data[p].epoch <= series.last
    BY <2>1, <2>2 DEF Bars
  <2> QED BY <2>3 DEF SeriesInv, ProcessedIsShown
<1> QED BY <1>1, <1>2, <1>3, MarketTypesHold, PTL DEF Spec

-----------------------------------------------------------------------------
(***************************************************************************)
(* The market state: epochs and events go together.                        *)
(***************************************************************************)

(* Each event has the epoch of the update it is about.  Only between an     *)
(* update and its event one entry is ahead of the events.                  *)
FeedInv ==
    /\ merge[Handler].pc # "event" => \A k \in Keys : entries[k].epoch <= Len(feed)
    /\ merge[Handler].pc = "event" =>
          \E k \in Keys : /\ entries[k].epoch = Len(feed) + 1
                          /\ \A j \in Keys \ {k} : entries[j].epoch <= Len(feed)
    /\ merge[Handler].pc = "global" => \E k \in Keys : entries[k].epoch = Len(feed)
    /\ \A k \in Keys : entries[k].epoch \in 1 .. Len(feed) => feed[entries[k].epoch] = k
    /\ \A n \in 1 .. Len(feed) : n <= entries[feed[n]].epoch
    /\ globalTx <= Len(feed)

LEMMA FeedInvInit == Init => FeedInv
  BY DEF Init, FeedInv, Mergers, NoMerge, Keys

LEMMA FeedTypes ==
    ASSUME MarketTypes
    PROVE  /\ Len(feed) \in Nat /\ globalTx \in Nat
           /\ \A k \in Keys : entries[k].epoch \in Nat
           /\ \A n \in 1 .. Len(feed) : feed[n] \in Keys
           /\ Handler \in Mergers
  BY DEF MarketTypes, StateTypes, Stamp, Mergers

LEMMA UpdateKeepsFeed ==
    ASSUME MarketTypes, FeedInv, NEW k \in Keys, UpdateEntry(k)
    PROVE  /\ FeedInv'
           /\ \A j \in Keys : entries'[j].epoch >= entries[j].epoch
<1>1. /\ merge[Handler].pc = "sync" /\ merge'[Handler].pc = "event"
      /\ feed' = feed /\ globalTx' = globalTx
      /\ entries'[k].epoch = Len(feed) + 1
      /\ \A j \in Keys \ {k} : entries'[j] = entries[j]
  BY FeedTypes DEF UpdateEntry, AtStep, MarketTypes, DataTypes, StateTypes, MergeRec
<1>2. \A j \in Keys : entries[j].epoch <= Len(feed)
  BY <1>1 DEF FeedInv
<1>3. \A n \in 1 .. Len(feed) : n <= entries'[feed[n]].epoch
  BY <1>1, FeedTypes DEF FeedInv
<1>4. \A j \in Keys : entries'[j].epoch \in 1 .. Len(feed) => feed[entries'[j].epoch] = j
  BY <1>1, FeedTypes DEF FeedInv
<1> QED BY <1>1, <1>2, <1>3, <1>4, FeedTypes DEF FeedInv

LEMMA EventKeepsFeed ==
    ASSUME MarketTypes, FeedInv, SendEvent
    PROVE  FeedInv' /\ feed' = Append(feed, Newest)
<1>1. /\ merge[Handler].pc = "event" /\ merge'[Handler].pc = "global"
      /\ entries' = entries /\ globalTx' = globalTx /\ feed' = Append(feed, Newest)
  BY FeedTypes DEF SendEvent, AtStep, Goto, MarketTypes, DataTypes, MergeRec
<1>2. PICK k \in Keys : /\ entries[k].epoch = Len(feed) + 1
                        /\ \A j \in Keys \ {k} : entries[j].epoch <= Len(feed)
  BY <1>1 DEF FeedInv
<1>3. Newest = k
  BY <1>2, NewestIsKey, FeedTypes DEF MarketTypes
<1>4. /\ Len(feed') = Len(feed) + 1 /\ feed'[Len(feed) + 1] = k
      /\ \A n \in 1 .. Len(feed) : feed'[n] = feed[n]
  BY <1>1, <1>3 DEF MarketTypes, StateTypes
<1>5. \A j \in Keys : entries[j].epoch \in 1 .. Len(feed') => feed'[entries[j].epoch] = j
  BY <1>2, <1>4, FeedTypes DEF FeedInv
<1>6. \A n \in 1 .. Len(feed') : n <= entries[feed'[n]].epoch
  BY <1>2, <1>4, FeedTypes DEF FeedInv
<1> QED BY <1>1, <1>2, <1>4, <1>5, <1>6, FeedTypes DEF FeedInv

LEMMA GlobalKeepsFeed ==
    ASSUME MarketTypes, FeedInv, SendGlobal
    PROVE  FeedInv' /\ globalTx' >= globalTx
<1>1. /\ merge[Handler].pc = "global" /\ merge'[Handler].pc \in {"sync", "idle"}
      /\ entries' = entries /\ feed' = feed /\ globalTx' = entries[Newest].epoch
  BY FeedTypes DEF SendGlobal, AtStep, NoMerge, MarketTypes, DataTypes, MergeRec
<1>2. PICK k \in Keys : entries[k].epoch = Len(feed)
  BY <1>1 DEF FeedInv
<1>3. entries[Newest].epoch = Len(feed)
  BY <1>1, <1>2, NewestIsKey, FeedTypes DEF FeedInv, MarketTypes
<1> QED BY <1>1, <1>3, FeedTypes DEF FeedInv

(* No merge step is one between an update and the news of it. *)
LEMMA MergeKeepsFeed ==
    ASSUME MarketTypes, FeedInv, NEW m \in Mergers, MergeStep(m)
    PROVE  FeedInv'
<1>1. UNCHANGED stateVars
  BY DEF MergeStep, TakeEpoch, RefuseSource, Write, LoadEpoch, Publish, LookAtEpoch, Notify
<1>2. CASE m # Handler
  <2>1. merge'[Handler] = merge[Handler]
    BY <1>2, FeedTypes DEF MergeStep, TakeEpoch, RefuseSource, Write, LoadEpoch, Publish, LookAtEpoch,
       Notify, Goto, MarketTypes, DataTypes
  <2> QED BY <1>1, <2>1 DEF FeedInv, stateVars
<1>3. CASE m = Handler
  <2>1. merge[Handler].pc \notin {"event", "global"} /\ merge'[Handler].pc \notin {"event", "global"}
    <3>1. CASE TakeEpoch(m) \/ RefuseSource(m) \/ Write(m)
      BY <1>3, <3>1 DEF TakeEpoch, RefuseSource, Write, AtStep, Goto, MarketTypes, DataTypes, MergeRec
    <3>2. CASE LoadEpoch(m) \/ Publish(m) \/ LookAtEpoch(m)
      BY <1>3, <3>2 DEF LoadEpoch, Publish, LookAtEpoch, AtStep, Goto, MarketTypes, DataTypes, MergeRec
    <3>3. CASE Notify(m)
      BY <1>3, <3>3 DEF Notify, NoMerge, AtStep, MarketTypes, DataTypes, MergeRec
    <3> QED BY <3>1, <3>2, <3>3 DEF MergeStep
  <2> QED BY <1>1, <2>1 DEF FeedInv, stateVars
<1> QED BY <1>2, <1>3

LEMMA FeedInvStep == MarketTypes /\ FeedInv /\ [Next]_vars => FeedInv'
<1> SUFFICES ASSUME MarketTypes, FeedInv, [Next]_vars PROVE FeedInv'
  OBVIOUS
<1>1. CASE SyncStep
  BY <1>1, UpdateKeepsFeed, EventKeepsFeed, GlobalKeepsFeed DEF SyncStep
<1>2. CASE \E m \in Mergers : MergeStep(m)
  BY <1>2, MergeKeepsFeed
<1>3. CASE SeriesStep \/ (\E u \in Users : UserStep(u)) \/ (\E w \in Watchers : WatchStep(w))
           \/ Deactivate \/ Close \/ UNCHANGED vars
  <2>1. UNCHANGED <<merge, stateVars>>
    BY <1>3 DEF SeriesStep, SeriesLook, SeriesWake, SeriesChartEpoch, SeriesDataEpoch, SeriesDecide,
                SeriesShow, UserStep, Begin, Look, Wake, Store, Drain, WatchStep, Register, Receive,
                Cancel, Deactivate, Close, vars
  <2> QED BY <2>1 DEF FeedInv, stateVars
<1> QED BY <1>1, <1>2, <1>3 DEF Next

-----------------------------------------------------------------------------
(***************************************************************************)
(* Those who wait: epochs only grow, so a change of the epoch waited for is *)
(* never mistaken for the epoch that was seen.                             *)
(***************************************************************************)
WaitInv ==
    /\ \A u \in Users : user[u].ver <= Source(u)
    /\ \A u \in Users : user[u].pc = "sleep" => \/ Source(u) <= seenMost[On[u]]
                                                \/ Source(u) # user[u].ver
    /\ \A s \in Slots : api.seen[s] <= seenMost[s]

LEMMA WaitTypes ==
    ASSUME MarketTypes
    PROVE  /\ \A u \in Users : Source(u) \in Nat /\ user[u].ver \in Nat /\ user[u].cur \in Nat
                              /\ On[u] \in Slots
           /\ \A s \in Slots : seenMost[s] \in Nat /\ api.seen[s] \in Nat
<1>1. \A u \in Users : On[u] \in Slots
  BY MarketAssumption
<1>2. \A u \in Users : Source(u) \in Nat
  BY <1>1 DEF Source, MarketTypes, StateTypes, Stamp, Slots
<1> QED BY <1>1, <1>2 DEF MarketTypes, UserTypes

LEMMA WaitInvInit == Init => WaitInv
<1> SUFFICES ASSUME Init PROVE WaitInv
  OBVIOUS
<1>1. \A u \in Users : Source(u) \in Nat
  BY TypesInit, WaitTypes
<1> QED BY <1>1 DEF Init, WaitInv

LEMMA SourceGrows ==
    ASSUME MarketTypes, FeedInv, SyncStep, NEW u \in Users
    PROVE  Source(u)' >= Source(u)
<1>1. On[u] \in Slots
  BY MarketAssumption
<1>2. CASE \E k \in Keys : UpdateEntry(k)
  <2>1. \A j \in Keys : entries'[j].epoch >= entries[j].epoch
    BY <1>2, UpdateKeepsFeed
  <2>2. globalTx' = globalTx
    BY <1>2 DEF UpdateEntry
  <2> QED BY <1>1, <2>1, <2>2, FeedTypes DEF Source, Slots
<1>3. CASE SendEvent
  BY <1>3, WaitTypes DEF SendEvent, Source
<1>4. CASE SendGlobal
  <2>1. globalTx' >= globalTx /\ entries' = entries
    BY <1>4, GlobalKeepsFeed DEF SendGlobal
  <2> QED BY <1>1, <2>1, FeedTypes DEF Source, Slots
<1> QED BY <1>2, <1>3, <1>4 DEF SyncStep

LEMMA UserStepWaits ==
    ASSUME MarketTypes, WaitInv, NEW u \in Users, UserStep(u)
    PROVE  WaitInv'
<1>1. UNCHANGED stateVars /\ \A v \in Users : Source(v)' = Source(v)
  BY DEF UserStep, Begin, Look, Wake, Store, Drain, Source, stateVars
<1>2. \A v \in Users \ {u} : user'[v] = user[v]
  BY DEF UserStep, Begin, Look, Wake, Store, Drain, Turn, MarketTypes, UserTypes
<1>3. \A s \in Slots : seenMost'[s] >= seenMost[s] /\ api'.seen[s] <= seenMost'[s]
  <2>1. CASE Store(u)
    <3>1. /\ api'.seen = [api.seen EXCEPT ![On[u]] = user[u].cur]
          /\ seenMost' = [seenMost EXCEPT ![On[u]] = IF user[u].cur > seenMost[On[u]]
                                                      THEN user[u].cur ELSE seenMost[On[u]]]
      BY <2>1 DEF Store, MarketTypes, UserTypes
    <3>2. \A s \in Slots : api.seen[s] <= seenMost[s]
      BY DEF WaitInv
    <3> QED BY <3>1, <3>2, WaitTypes DEF MarketTypes, UserTypes
  <2>2. CASE ~Store(u)
    <3>1. api'.seen = api.seen /\ seenMost' = seenMost
      BY <2>2 DEF UserStep, Begin, Look, Wake, Drain, Collect, Lag, MarketTypes, UserTypes
    <3> QED BY <3>1, WaitTypes DEF WaitInv
  <2> QED BY <2>1, <2>2
<1>4. /\ user'[u].ver <= Source(u)
      /\ user'[u].pc = "sleep" => Source(u) <= seenMost[On[u]]
  <2>1. CASE Begin(u)
    BY <2>1, WaitTypes DEF Begin, MarketTypes, UserTypes
  <2>2. CASE Look(u)
    <3>1. user'[u].ver = user[u].ver
      BY <2>2 DEF Look, MarketTypes, UserTypes
    <3>2. user'[u].pc = "sleep" => ~(Source(u) > api.seen[On[u]])
      BY <2>2 DEF Look, MarketTypes, UserTypes
    <3> QED BY <3>1, <3>2, WaitTypes DEF WaitInv
  <2>3. CASE Wake(u)
    BY <2>3, WaitTypes DEF Wake, MarketTypes, UserTypes
  <2>4. CASE Store(u) \/ Drain(u)
    <3>1. PICK pc \in {"drain", "idle"} : user' = [user EXCEPT ![u].pc = pc]
      BY <2>4 DEF Store, Drain, Turn
    <3>2. user'[u].ver = user[u].ver /\ user'[u].pc # "sleep"
      BY <3>1 DEF MarketTypes, UserTypes
    <3> QED BY <3>2, WaitTypes DEF WaitInv
  <2> QED BY <2>1, <2>2, <2>3, <2>4 DEF UserStep
<1>5. \A v \in Users : /\ user'[v].ver <= Source(v)
                       /\ user'[v].pc = "sleep" => \/ Source(v) <= seenMost'[On[v]]
                                                   \/ Source(v) # user'[v].ver
  <2> SUFFICES ASSUME NEW v \in Users
               PROVE  /\ user'[v].ver <= Source(v)
                      /\ user'[v].pc = "sleep" => \/ Source(v) <= seenMost'[On[v]]
                                                  \/ Source(v) # user'[v].ver
    OBVIOUS
  <2>1. seenMost'[On[v]] >= seenMost[On[v]] /\ seenMost'[On[v]] \in Nat
    <3>1. MarketTypes'
      BY TypesStep DEF Next
    <3>2. seenMost'[On[v]] \in Nat
      BY <3>1, WaitTypes DEF MarketTypes, UserTypes
    <3> QED BY <1>3, <3>2, WaitTypes
  <2>2. CASE v = u
    BY <1>4, <2>1, <2>2, WaitTypes
  <2>3. CASE v # u
    BY <1>2, <2>1, <2>3, WaitTypes DEF WaitInv
  <2> QED BY <2>2, <2>3
<1> QED BY <1>1, <1>3, <1>5 DEF WaitInv

LEMMA WaitInvStep == MarketTypes /\ FeedInv /\ WaitInv /\ [Next]_vars => WaitInv'
<1> SUFFICES ASSUME MarketTypes, FeedInv, WaitInv, [Next]_vars PROVE WaitInv'
  OBVIOUS
<1>1. CASE SyncStep
  <2>1. UNCHANGED apiVars
    BY <1>1 DEF SyncStep, UpdateEntry, SendEvent, SendGlobal
  <2>2. \A u \in Users : Source(u)' >= Source(u) /\ Source(u)' \in Nat
    <3>1. MarketTypes'
      BY TypesStep
    <3>2. \A u \in Users : Source(u)' \in Nat
      BY <3>1, MarketAssumption DEF MarketTypes, StateTypes, Stamp, Source, Slots
    <3> QED BY <1>1, <3>2, SourceGrows
  <2> QED BY <2>1, <2>2, WaitTypes DEF WaitInv, apiVars
<1>2. CASE \E u \in Users : UserStep(u)
  BY <1>2, UserStepWaits
<1>3. CASE SeriesStep \/ (\E m \in Mergers : MergeStep(m)) \/ (\E w \in Watchers : WatchStep(w))
           \/ Deactivate \/ Close \/ UNCHANGED vars
  <2>1. UNCHANGED <<stateVars, user, api, seenMost>>
    BY <1>3 DEF SeriesStep, SeriesLook, SeriesWake, SeriesChartEpoch, SeriesDataEpoch, SeriesDecide,
                SeriesShow, MergeStep, TakeEpoch, RefuseSource, Write, LoadEpoch, Publish, LookAtEpoch,
                Notify, WatchStep, Register, Receive, Cancel, Deactivate, Close, vars, apiVars
  <2>2. \A u \in Users : Source(u)' = Source(u)
    BY <2>1 DEF Source, stateVars
  <2> QED BY <2>1, <2>2 DEF WaitInv
<1> QED BY <1>1, <1>2, <1>3 DEF Next

-----------------------------------------------------------------------------
(***************************************************************************)
(* Drains: an event that the collector no longer holds was reported, or a   *)
(* newer one of its key was; and all that it holds is past every drain.     *)
(***************************************************************************)
Reported ==
    /\ \A n \in 1 .. Len(feed) : n \notin Held => reported[feed[n]] >= n
    /\ \A n \in Held : n > api.drained

DrainInv ==
    /\ \A u \in Users : On[u] = "all" => user[u].cur <= Len(feed)
    /\ api.seen["all"] <= Len(feed) /\ api.drained <= Len(feed)
    /\ api.pos <= Len(feed) /\ api.pending <= Len(feed)
    /\ \A k \in Keys : reported[k] # 0 => reported[k] <= Len(feed) /\ feed[reported[k]] = k
    /\ api.lagged \/ Reported

LEMMA DrainInvInit == Init => DrainInv
<1> SUFFICES ASSUME Init PROVE DrainInv
  OBVIOUS
<1>1. Len(feed) = 0 /\ Held = {}
  BY DEF Init, Held
<1> QED BY <1>1 DEF Init, DrainInv, Reported, Slots

LEMMA DrainTypes ==
    ASSUME MarketTypes
    PROVE  /\ api.pos \in Nat /\ api.pending \in Nat /\ api.drained \in Nat /\ api.seen["all"] \in Nat
           /\ \A k \in Keys : reported[k] \in Nat
           /\ Held \subseteq 1 .. Len(feed)
  BY DEF MarketTypes, UserTypes, Held, Slots

(* A drain reports what it takes and holds on to the rest. *)
LEMMA CollectKeeps ==
    ASSUME MarketTypes, DrainInv, feed' = feed, Collect(api.seen["all"])
    PROVE  /\ api'.seen = api.seen /\ api'.lagged = api.lagged
           /\ api'.drained <= Len(feed) /\ api'.pos <= Len(feed) /\ api'.pending <= Len(feed)
           /\ \A k \in Keys : reported'[k] # 0 => reported'[k] <= Len(feed) /\ feed[reported'[k]] = k
           /\ Reported => Reported'
<1> DEFINE boundary == api.seen["all"]
           kept == Kept(boundary)
           taken(k) == {n \in {n \in Held : n <= boundary} : feed[n] = k}
<1>1. boundary \in Nat /\ boundary <= Len(feed) /\ Len(feed) \in Nat
  BY DrainTypes, FeedTypes DEF DrainInv
<1>2. /\ kept \in Nat
      /\ kept # 0 => /\ kept \in Held /\ kept > boundary
                     /\ \A n \in Held : n > boundary => kept <= n
      /\ kept = 0 => \A n \in Held : n <= boundary
  BY <1>1, KeptIsHeld DEF MarketTypes
<1>3. /\ Max({api.drained, boundary}) \in {api.drained, boundary}
      /\ Max({api.pos, kept}) \in {api.pos, kept}
      /\ Max({api.pos, kept}) >= api.pos /\ Max({api.pos, kept}) >= kept
  BY <1>1, <1>2, MaxOfTwo, DrainTypes
<1>4. /\ api'.seen = api.seen /\ api'.lagged = api.lagged /\ api'.pending = kept
      /\ api'.drained = Max({api.drained, boundary})
      /\ api'.pos = IF kept = 0 THEN Len(feed) ELSE Max({api.pos, kept})
  BY DEF Collect, MarketTypes, UserTypes
<1>5. \A k \in Keys : /\ reported'[k] \in Nat /\ reported'[k] \in {reported[k]} \cup taken(k)
                      /\ reported'[k] >= reported[k] /\ \A n \in taken(k) : reported'[k] >= n
  <2> SUFFICES ASSUME NEW k \in Keys
               PROVE  /\ reported'[k] \in Nat /\ reported'[k] \in {reported[k]} \cup taken(k)
                      /\ reported'[k] >= reported[k] /\ \A n \in taken(k) : reported'[k] >= n
    OBVIOUS
  <2>1. reported'[k] = Max({reported[k]} \cup taken(k))
    BY DEF Collect
  <2>2. StateTypes /\ reported \in [Keys -> Nat]
    BY DEF MarketTypes, UserTypes
  <2> QED BY <1>1, <2>1, <2>2, ReportedIs
<1>6. kept <= Len(feed)
  BY <1>1, <1>2, DrainTypes
<1>7. \A k \in Keys : reported'[k] # 0 => reported'[k] <= Len(feed) /\ feed[reported'[k]] = k
  BY <1>5, DrainTypes, FeedTypes DEF DrainInv
<1>8. ASSUME Reported PROVE Reported'
  <2>1. Held' = {n \in 1 .. Len(feed) : n > api'.pos \/ n = kept}
    BY <1>4 DEF Held
  <2>2. ASSUME NEW n \in 1 .. Len(feed), n \notin Held' PROVE reported'[feed[n]] >= n
    <3>1. feed[n] \in Keys /\ n \in Nat
      BY FeedTypes
    <3>2. CASE n \notin Held
      BY <1>5, <1>8, <3>1, <3>2, DrainTypes DEF Reported
    <3>3. CASE n \in Held /\ n <= boundary
      BY <1>5, <3>1, <3>3
    <3>4. CASE n \in Held /\ n > boundary
      <4>1. kept # 0 /\ kept <= n /\ kept \in Held
        BY <1>1, <1>2, <3>4
      <4>2. n # kept /\ ~(n > Max({api.pos, kept}))
        BY <1>4, <2>1, <2>2, <4>1
      <4>3. n > kept /\ n <= api.pos /\ kept <= api.pos
        BY <1>2, <1>3, <3>1, <4>1, <4>2, DrainTypes
      <4>4. n = api.pending /\ kept = api.pending
        BY <3>1, <3>4, <4>1, <4>3, DrainTypes DEF Held
      <4> QED BY <4>2, <4>4
    <3> QED BY <1>1, <3>1, <3>2, <3>3, <3>4
  <2>3. ASSUME NEW n \in Held' PROVE n > api'.drained
    <3>1. n \in Nat /\ n <= Len(feed) /\ (n > api'.pos \/ n = kept) /\ n \in 1 .. Len(feed)
      BY <1>1, <2>1, <2>3
    <3>2. n \in Held /\ n > boundary
      <4>1. CASE kept = 0
        BY <1>1, <1>4, <3>1, <4>1
      <4>2. CASE kept # 0 /\ n = kept
        BY <1>2, <4>2
      <4>3. CASE kept # 0 /\ n # kept
        <5>1. n > Max({api.pos, kept})
          BY <1>4, <3>1, <4>3
        <5>2. n > api.pos /\ n > kept
          BY <1>2, <1>3, <3>1, <5>1, DrainTypes
        <5> QED BY <1>1, <1>2, <3>1, <4>3, <5>2 DEF Held
      <4> QED BY <4>1, <4>2, <4>3
    <3> QED BY <1>3, <1>4, <1>8, <3>2 DEF Reported
  <2> QED BY <2>2, <2>3 DEF Reported
<1> QED BY <1>1, <1>3, <1>4, <1>6, <1>7, <1>8, DrainTypes DEF DrainInv

LEMMA DrainKeeps ==
    ASSUME MarketTypes, DrainInv, NEW u \in Users, Drain(u)
    PROVE  DrainInv'
<1>1. UNCHANGED stateVars /\ feed' = feed
  BY DEF Drain, stateVars
<1>2. \A v \in Users : user'[v].cur = user[v].cur
  BY DEF Drain, Turn, MarketTypes, UserTypes
<1>3. CASE Len(feed) - api.pos > Retained /\ Lag
  <2>1. /\ api'.seen = api.seen /\ api'.drained = api.drained /\ api'.lagged = TRUE
        /\ api'.pos = Len(feed) - Retained /\ api'.pending = 0 /\ reported' = reported
    BY <1>3 DEF Lag, MarketTypes, UserTypes
  <2>2. Retained \in Nat
    BY MarketAssumption
  <2>3. api'.pos <= Len(feed) /\ api'.pending <= Len(feed)
    BY <2>1, <2>2, FeedTypes
  <2>4. api'.lagged
    BY <2>1
  <2> QED BY <1>1, <1>2, <2>1, <2>3, <2>4 DEF DrainInv
<1>4. CASE Collect(api.seen["all"])
  <2>1. api.lagged => api'.lagged
    BY <1>1, <1>4, CollectKeeps
  <2> QED BY <1>1, <1>2, <1>4, <2>1, CollectKeeps DEF DrainInv
<1> QED BY <1>3, <1>4, DrainCases

LEMMA UserStepDrains ==
    ASSUME MarketTypes, FeedInv, DrainInv, NEW u \in Users, UserStep(u)
    PROVE  DrainInv'
<1>1. CASE Drain(u)
  BY <1>1, DrainKeeps
<1>2. CASE ~Drain(u)
  <2>1. /\ UNCHANGED <<stateVars, reported>>
        /\ api'.pos = api.pos /\ api'.pending = api.pending /\ api'.drained = api.drained
        /\ api'.lagged = api.lagged
    BY <1>2 DEF UserStep, Begin, Look, Wake, Store, MarketTypes, UserTypes
  <2>2. On[u] = "all" => Source(u) = globalTx
    BY DEF Source
  <2>3. On[u] = "all" => user'[u].cur <= Len(feed)
    <3>1. user'[u].cur \in {user[u].cur, Source(u), 0}
      <4>1. CASE Begin(u)
        BY <4>1 DEF Begin, MarketTypes, UserTypes
      <4>2. CASE Look(u)
        BY <4>2 DEF Look, MarketTypes, UserTypes
      <4>3. CASE Wake(u)
        BY <4>3 DEF Wake, MarketTypes, UserTypes
      <4>4. CASE Store(u)
        BY <4>4 DEF Store, Turn, MarketTypes, UserTypes
      <4> QED BY <1>2, <4>1, <4>2, <4>3, <4>4 DEF UserStep
    <3> QED BY <2>2, <3>1, FeedTypes DEF DrainInv, FeedInv
  <2>4. \A v \in Users \ {u} : user'[v] = user[v]
    BY DEF UserStep, Begin, Look, Wake, Store, Drain, Turn, MarketTypes, UserTypes
  <2>5. api'.seen["all"] <= Len(feed)
    <3>1. CASE Store(u)
      <4>1. api'.seen = [api.seen EXCEPT ![On[u]] = user[u].cur]
        BY <3>1 DEF Store, MarketTypes, UserTypes
      <4> QED BY <4>1 DEF DrainInv, MarketTypes, UserTypes, Slots
    <3>2. CASE ~Store(u)
      <4>1. api' = api
        BY <1>2, <3>2 DEF UserStep, Begin, Look, Wake
      <4> QED BY <4>1 DEF DrainInv
    <3> QED BY <3>1, <3>2
  <2>6. Held' = Held
    BY <2>1 DEF Held, stateVars
  <2>7. api.lagged \/ Reported => api'.lagged \/ Reported'
    BY <2>1, <2>6 DEF Reported, stateVars
  <2> QED BY <2>1, <2>3, <2>4, <2>5, <2>7 DEF DrainInv, stateVars
<1> QED BY <1>1, <1>2

LEMMA EventDrains ==
    ASSUME MarketTypes, FeedInv, DrainInv, SendEvent
    PROVE  DrainInv'
<1>1. UNCHANGED apiVars
  BY DEF SendEvent
<1>2. /\ Len(feed') = Len(feed) + 1 /\ \A n \in 1 .. Len(feed) : feed'[n] = feed[n]
  BY EventKeepsFeed, NewestIsKey DEF MarketTypes, StateTypes
<1>3. Len(feed) \in Nat /\ 1 .. Len(feed') = 1 .. Len(feed) \cup {Len(feed) + 1}
  BY <1>2, FeedTypes
<1>4. Held' = Held \cup {Len(feed) + 1}
  BY <1>1, <1>2, <1>3, DrainTypes DEF Held, DrainInv, apiVars
<1>5. Reported => Reported'
  <2> SUFFICES ASSUME Reported PROVE Reported'
    OBVIOUS
  <2>1. \A n \in 1 .. Len(feed') : n \notin Held' => reported[feed'[n]] >= n
    BY <1>2, <1>3, <1>4 DEF Reported
  <2>2. \A n \in Held' : n > api.drained
    BY <1>3, <1>4, DrainTypes DEF Reported, DrainInv
  <2> QED BY <1>1, <2>1, <2>2 DEF Reported, apiVars
<1>6. \A k \in Keys : reported[k] # 0 => reported[k] <= Len(feed') /\ feed'[reported[k]] = k
  BY <1>2, <1>3, DrainTypes DEF DrainInv
<1>7. \A u \in Users : On[u] = "all" => user[u].cur <= Len(feed')
  BY <1>2, <1>3, WaitTypes DEF DrainInv
<1> QED BY <1>1, <1>2, <1>3, <1>5, <1>6, <1>7, DrainTypes DEF DrainInv, apiVars

LEMMA DrainInvStep == MarketTypes /\ FeedInv /\ DrainInv /\ [Next]_vars => DrainInv'
<1> SUFFICES ASSUME MarketTypes, FeedInv, DrainInv, [Next]_vars PROVE DrainInv'
  OBVIOUS
<1>1. ASSUME UNCHANGED <<feed, user, api, reported>> PROVE DrainInv'
  BY <1>1 DEF DrainInv, Reported, Held
<1>2. CASE SyncStep
  <2>1. CASE SendEvent
    BY <2>1, EventDrains
  <2>2. CASE ~SendEvent
    <3>1. UNCHANGED <<feed, user, api, reported>>
      BY <1>2, <2>2 DEF SyncStep, UpdateEntry, SendGlobal, apiVars
    <3> QED BY <1>1, <3>1
  <2> QED BY <2>1, <2>2
<1>3. CASE \E u \in Users : UserStep(u)
  BY <1>3, UserStepDrains
<1>4. CASE SeriesStep \/ (\E m \in Mergers : MergeStep(m)) \/ (\E w \in Watchers : WatchStep(w))
           \/ Deactivate \/ Close \/ UNCHANGED vars
  <2>1. UNCHANGED <<stateVars, user, api, reported>>
    BY <1>4 DEF SeriesStep, SeriesLook, SeriesWake, SeriesChartEpoch, SeriesDataEpoch, SeriesDecide,
                SeriesShow, MergeStep, TakeEpoch, RefuseSource, Write, LoadEpoch, Publish, LookAtEpoch,
                Notify, WatchStep, Register, Receive, Cancel, Deactivate, Close, vars, apiVars
  <2> QED BY <1>1, <2>1 DEF stateVars
<1> QED BY <1>2, <1>3, <1>4 DEF Next

(* News of the market state arrives: nobody sleeps on an epoch that nobody  *)
(* was given, and what a drain has passed it, or one before, has returned,  *)
(* for any number of users and updates (marketdata/mod.rs).                *)
THEOREM NewsArrivesHolds == Spec => []NewsArrives
<1>1. Init => FeedInv /\ WaitInv /\ DrainInv
  BY FeedInvInit, WaitInvInit, DrainInvInit
<1>2. MarketTypes /\ FeedInv /\ WaitInv /\ DrainInv /\ [Next]_vars => (FeedInv /\ WaitInv /\ DrainInv)'
  BY FeedInvStep, WaitInvStep, DrainInvStep
<1>3. MarketTypes /\ FeedInv /\ WaitInv /\ DrainInv => NewsArrives
  <2> SUFFICES ASSUME MarketTypes, FeedInv, WaitInv, DrainInv PROVE NewsArrives
    OBVIOUS
  <2>1. ASSUME NEW u \in Users, user[u].pc = "sleep", Source(u) > seenMost[On[u]]
        PROVE  Source(u) # user[u].ver
    BY <2>1, WaitTypes DEF WaitInv
  <2>2. ASSUME NEW k \in Keys, entries[k].epoch <= api.drained, ~api.lagged
        PROVE  reported[k] = entries[k].epoch
    <3> DEFINE n == entries[k].epoch
    <3>1. n \in Nat /\ reported[k] \in Nat /\ n <= Len(feed) /\ Reported
      BY <2>2, FeedTypes, DrainTypes DEF DrainInv
    <3>2. reported[k] <= n
      <4>1. CASE reported[k] = 0
        BY <3>1, <4>1
      <4>2. CASE reported[k] # 0
        <5>1. reported[k] \in 1 .. Len(feed) /\ feed[reported[k]] = k
          BY <3>1, <4>2, FeedTypes DEF DrainInv
        <5> QED BY <5>1 DEF FeedInv
      <4> QED BY <4>1, <4>2
    <3>3. reported[k] >= n
      <4>1. CASE n = 0
        BY <3>1, <4>1
      <4>2. CASE n # 0
        <5>1. n \in 1 .. Len(feed)
          BY <3>1, <4>2, FeedTypes
        <5>2. feed[n] = k
          BY <5>1 DEF FeedInv
        <5>3. n \notin Held
          BY <2>2, <3>1, DrainTypes DEF Reported
        <5> QED BY <3>1, <5>1, <5>2, <5>3 DEF Reported
      <4> QED BY <4>1, <4>2
    <3> QED BY <3>1, <3>2, <3>3
  <2> QED BY <2>1, <2>2 DEF NewsArrives
<1> QED BY <1>1, <1>2, <1>3, MarketTypesHold, PTL DEF Spec
=============================================================================
