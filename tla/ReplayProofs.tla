---------------------------- MODULE ReplayProofs ----------------------------
(***************************************************************************)
(* Proofs about Replay and SimBroker for any accounts and symbols, any     *)
(* history of bars and ticks, any orders and any number of tasks.          *)
(*                                                                         *)
(* The broker's operations are operators from broker to broker, so most of *)
(* the proof is about them: each leaves the books balanced (Sound) and     *)
(* adds to the trades and settlements of the broker it is given (Follows,  *)
(* Keeps, Settles).  Prices and money play no part in what is proved.      *)
(***************************************************************************)
EXTENDS Replay, FiniteSetTheorems, SequenceTheorems, WellFoundedInduction, TLAPS

-----------------------------------------------------------------------------
(***************************************************************************)
(* Counting up, and the first number of a set.                             *)
(***************************************************************************)
LEMMA LeastElement ==
    ASSUME NEW S \in SUBSET Nat, S # {}
    PROVE  \E x \in S : \A y \in S : x <= y
<1>1. PICK x \in S : \A y \in S : ~ (<<y, x>> \in OpToRel(<, Nat))
  BY NatLessThanWellFounded, WFMin
<1>2. \A y \in S : ~ (y < x)
  BY <1>1 DEF OpToRel
<1> QED BY <1>2

(* What holds at 0 and from each number to the next holds up to n. *)
LEMMA CountUp ==
    ASSUME NEW n \in Nat, NEW G, 0 \in G, \A k \in 1 .. n : k - 1 \in G => k \in G
    PROVE  \A k \in 0 .. n : k \in G
<1> DEFINE Bad == {k \in 0 .. n : k \notin G}
<1> SUFFICES ASSUME Bad # {} PROVE FALSE
  OBVIOUS
<1>1. Bad \in SUBSET Nat
  OBVIOUS
<1>2. PICK k \in Bad : \A y \in Bad : k <= y
  BY <1>1, LeastElement
<1>3. k # 0 /\ k \in 1 .. n /\ k - 1 \in 0 .. n /\ k \notin G
  BY <1>2
<1>4. k - 1 \notin Bad
  BY <1>2, <1>3
<1> QED BY <1>3, <1>4

-----------------------------------------------------------------------------
(***************************************************************************)
(* The folds of the model.  A fold is a recursive function over sets of     *)
(* indices; that there is one, and that it takes one step more for one      *)
(* index more, is proved once for all the steps the model folds.            *)
(***************************************************************************)
StepOf(kind, arg, acc, e) ==
    IF kind = "register" THEN RegisterSymbol(acc, e)
    ELSE IF kind = "finish" THEN FinishUnfilled(acc, e)
    ELSE IF kind = "match" THEN Match(acc, e, arg)
    ELSE IF kind = "quote" THEN ApplyQuote(acc, arg, e)
    ELSE IF kind = "event" THEN ApplyEvent(acc, e)
    ELSE Announced(acc, e)

FoldStep(kind, arg, base, es, g, s) ==
    IF s = {} THEN base ELSE StepOf(kind, arg, g[s \ {Max(s)}], es[Max(s)])
IsFold(kind, arg, base, es, n, g) ==
    g = [s \in SUBSET (1 .. n) |-> FoldStep(kind, arg, base, es, g, s)]

LEMMA MaxOfUpTo ==
    ASSUME NEW n \in Nat, NEW s \in SUBSET (1 .. n), n \in s
    PROVE  Max(s) = n
<1>1. \A y \in s : n >= y
  OBVIOUS
<1>2. \A x \in s : (\A y \in s : x >= y) => x = n
  OBVIOUS
<1> QED BY <1>1, <1>2 DEF Max

LEMMA FoldExists ==
    ASSUME NEW kind, NEW arg, NEW base, NEW es, NEW n \in Nat
    PROVE  \E g : IsFold(kind, arg, base, es, n, g)
<1> DEFINE Fits(g, k) == IsFold(kind, arg, base, es, k, g)
           G == {k \in Nat : \E g : Fits(g, k)}
<1>1. 0 \in G
  <2> DEFINE g == [s \in SUBSET (1 .. 0) |-> base]
  <2>1. 1 .. 0 = {}
    OBVIOUS
  <2>2. Fits(g, 0)
    BY <2>1 DEF IsFold, FoldStep
  <2> QED BY <2>2
<1>2. ASSUME NEW k \in 1 .. n, k - 1 \in G PROVE k \in G
  <2>1. k \in Nat /\ k - 1 \in Nat
    OBVIOUS
  <2>4. PICK g : Fits(g, k - 1)
    BY <1>2
  <2> DEFINE h == [s \in SUBSET (1 .. k) |->
                      IF k \in s THEN StepOf(kind, arg, g[s \ {k}], es[k]) ELSE g[s]]
  <2>5. ASSUME NEW s \in SUBSET (1 .. k), k \in s PROVE h[s] = FoldStep(kind, arg, base, es, h, s)
    <3>1. Max(s) = k /\ s # {}
      BY <2>1, <2>5, MaxOfUpTo
    <3>2. s \ {k} \in SUBSET (1 .. k) /\ k \notin s \ {k}
      OBVIOUS
    <3>3. h[s \ {k}] = g[s \ {k}] /\ h[s] = StepOf(kind, arg, g[s \ {k}], es[k])
      BY <2>5, <3>2
    <3> HIDE DEF h
    <3> QED BY <3>1, <3>3 DEF FoldStep
  <2>6. ASSUME NEW s \in SUBSET (1 .. k), k \notin s PROVE h[s] = FoldStep(kind, arg, base, es, h, s)
    <3>1. 1 .. (k - 1) = (1 .. k) \ {k}
      BY <2>1
    <3>2. s \in SUBSET (1 .. (k - 1))
      BY <2>6, <3>1
    <3>3. h[s] = g[s] /\ g[s] = FoldStep(kind, arg, base, es, g, s)
      BY <2>4, <2>6, <3>2 DEF IsFold
    <3>4. s \ {Max(s)} \in SUBSET (1 .. k) /\ k \notin s \ {Max(s)}
      BY <2>6
    <3>5. h[s \ {Max(s)}] = g[s \ {Max(s)}]
      BY <3>4
    <3> HIDE DEF h
    <3> QED BY <3>3, <3>5 DEF FoldStep
  <2>7. Fits(h, k)
    <3>1. \A s \in SUBSET (1 .. k) : h[s] = FoldStep(kind, arg, base, es, h, s)
      BY <2>5, <2>6
    <3>2. h = [s \in SUBSET (1 .. k) |-> h[s]]
      OBVIOUS
    <3> HIDE DEF h
    <3> QED BY <3>1, <3>2 DEF IsFold
  <2> HIDE DEF h, Fits
  <2> QED BY <2>1, <2>7
<1> HIDE DEF G
<1>3. n \in G
  BY <1>1, <1>2, CountUp
<1> QED BY <1>3 DEF G

(* The values a fold runs through. *)
Runs(kind, arg, base, es, n, r) ==
    \E m : /\ m[0] = base /\ r = m[n]
           /\ \A k \in 1 .. n : m[k] = StepOf(kind, arg, m[k - 1], es[k])

LEMMA FoldRuns ==
    ASSUME NEW kind, NEW arg, NEW base, NEW es, NEW n \in Nat, NEW g, IsFold(kind, arg, base, es, n, g)
    PROVE  Runs(kind, arg, base, es, n, g[1 .. n])
<1>2. \A s \in SUBSET (1 .. n) : g[s] = FoldStep(kind, arg, base, es, g, s)
  BY DEF IsFold
<1>3. g[{}] = base
  BY <1>2 DEF FoldStep
<1>4. ASSUME NEW k \in 1 .. n PROVE g[1 .. k] = StepOf(kind, arg, g[1 .. (k - 1)], es[k])
  <2>1. 1 .. k \in SUBSET (1 .. n) /\ 1 .. k # {} /\ k \in 1 .. k /\ k \in Nat
    OBVIOUS
  <2>2. Max(1 .. k) = k
    BY <2>1, MaxOfUpTo
  <2>3. (1 .. k) \ {k} = 1 .. (k - 1)
    OBVIOUS
  <2>4. g[1 .. k] = FoldStep(kind, arg, base, es, g, 1 .. k)
    BY <1>2, <2>1
  <2> QED BY <2>1, <2>2, <2>3, <2>4 DEF FoldStep
<1> DEFINE m == [k \in 0 .. n |-> g[1 .. k]]
<1>5. 1 .. 0 = {}
  OBVIOUS
<1>6. m[0] = base /\ g[1 .. n] = m[n]
  BY <1>3, <1>5
<1>7. \A k \in 1 .. n : m[k] = StepOf(kind, arg, m[k - 1], es[k])
  BY <1>4
<1> HIDE DEF m
<1> QED BY <1>6, <1>7 DEF Runs

MatchAll(b, q, alive) == FoldLeft(LAMBDA acc, i : Match(acc, i, q), b, alive)
MatchFold(b, q, alive) ==
    CHOOSE g : g = [s \in SUBSET DOMAIN alive |->
                       IF s = {} THEN b ELSE Match(g[s \ {Max(s)}], alive[Max(s)], q)]
LEMMA MatchesRun ==
    ASSUME NEW b, NEW q, NEW alive, NEW n \in Nat, DOMAIN alive = 1 .. n
    PROVE  Runs("match", q, b, alive, n, MatchAll(b, q, alive))
<1>1. MatchAll(b, q, alive) = MatchFold(b, q, alive)[1 .. n]
  BY DEF MatchAll, FoldLeft, MapThenFoldSet, MatchFold
<1>2. \A g : IsFold("match", q, b, alive, n, g) <=>
        g = [s \in SUBSET DOMAIN alive |-> IF s = {} THEN b ELSE Match(g[s \ {Max(s)}], alive[Max(s)], q)]
  BY DEF IsFold, FoldStep, StepOf
<1>3. IsFold("match", q, b, alive, n, MatchFold(b, q, alive))
  BY <1>2, FoldExists DEF MatchFold
<1> QED BY <1>1, <1>3, FoldRuns

RegisterFold(b, ss) ==
    CHOOSE g : g = [s \in SUBSET DOMAIN ss |->
                       IF s = {} THEN b ELSE RegisterSymbol(g[s \ {Max(s)}], ss[Max(s)])]
LEMMA RegistersRun ==
    ASSUME NEW b, NEW ss, NEW n \in Nat, DOMAIN ss = 1 .. n
    PROVE  Runs("register", 0, b, ss, n, FoldLeft(RegisterSymbol, b, ss))
<1>1. FoldLeft(RegisterSymbol, b, ss) = RegisterFold(b, ss)[1 .. n]
  BY DEF FoldLeft, MapThenFoldSet, RegisterFold
<1>2. \A g : IsFold("register", 0, b, ss, n, g) <=>
        g = [s \in SUBSET DOMAIN ss |-> IF s = {} THEN b ELSE RegisterSymbol(g[s \ {Max(s)}], ss[Max(s)])]
  BY DEF IsFold, FoldStep, StepOf
<1>3. IsFold("register", 0, b, ss, n, RegisterFold(b, ss))
  BY <1>2, FoldExists DEF RegisterFold
<1> QED BY <1>1, <1>3, FoldRuns

FinishAll(b, alive) == FoldLeft(LAMBDA acc, i : FinishUnfilled(acc, i), b, alive)
FinishFold(b, alive) ==
    CHOOSE g : g = [s \in SUBSET DOMAIN alive |->
                       IF s = {} THEN b ELSE FinishUnfilled(g[s \ {Max(s)}], alive[Max(s)])]
LEMMA FinishesRun ==
    ASSUME NEW b, NEW alive, NEW n \in Nat, DOMAIN alive = 1 .. n
    PROVE  Runs("finish", 0, b, alive, n, FinishAll(b, alive))
<1>1. FinishAll(b, alive) = FinishFold(b, alive)[1 .. n]
  BY DEF FinishAll, FoldLeft, MapThenFoldSet, FinishFold
<1>2. \A g : IsFold("finish", 0, b, alive, n, g) <=>
        g = [s \in SUBSET DOMAIN alive |-> IF s = {} THEN b ELSE FinishUnfilled(g[s \ {Max(s)}], alive[Max(s)])]
  BY DEF IsFold, FoldStep, StepOf
<1>3. IsFold("finish", 0, b, alive, n, FinishFold(b, alive))
  BY <1>2, FoldExists DEF FinishFold
<1> QED BY <1>1, <1>3, FoldRuns

QuoteFold(b, s, path) ==
    CHOOSE g : g = [x \in SUBSET DOMAIN path |->
                       IF x = {} THEN b ELSE ApplyQuote(g[x \ {Max(x)}], s, path[Max(x)])]
LEMMA QuotesRun ==
    ASSUME NEW b, NEW s, NEW path, NEW n \in Nat, DOMAIN path = 1 .. n
    PROVE  Runs("quote", s, b, path, n, ApplyPath(b, s, path))
<1>1. ApplyPath(b, s, path) = QuoteFold(b, s, path)[1 .. n]
  BY DEF ApplyPath, FoldLeft, MapThenFoldSet, QuoteFold
<1>2. \A g : IsFold("quote", s, b, path, n, g) <=>
        g = [x \in SUBSET DOMAIN path |-> IF x = {} THEN b ELSE ApplyQuote(g[x \ {Max(x)}], s, path[Max(x)])]
  BY DEF IsFold, FoldStep, StepOf
<1>3. IsFold("quote", s, b, path, n, QuoteFold(b, s, path))
  BY <1>2, FoldExists DEF QuoteFold
<1> QED BY <1>1, <1>3, FoldRuns

EventFold(base, events) ==
    CHOOSE g : g = [s \in SUBSET DOMAIN events |->
                       IF s = {} THEN base ELSE ApplyEvent(g[s \ {Max(s)}], events[Max(s)])]
EventBase ==
    [selected |-> selected, visible |-> visible, paths |-> [s \in Symbols |-> <<>>],
     rows |-> rows, updated |-> <<>>]
LEMMA EventsRun ==
    ASSUME NEW events, NEW n \in Nat, DOMAIN events = 1 .. n
    PROVE  Runs("event", 0, EventBase, events, n, AfterEvents(events))
<1>1. AfterEvents(events) = EventFold(EventBase, events)[1 .. n]
  BY DEF AfterEvents, EventBase, FoldLeft, MapThenFoldSet, EventFold
<1>2. \A g : IsFold("event", 0, EventBase, events, n, g) <=>
        g = [s \in SUBSET DOMAIN events |->
                IF s = {} THEN EventBase ELSE ApplyEvent(g[s \ {Max(s)}], events[Max(s)])]
  BY DEF IsFold, FoldStep, StepOf
<1>3. IsFold("event", 0, EventBase, events, n, EventFold(EventBase, events))
  BY <1>2, FoldExists DEF EventFold
<1> QED BY <1>1, <1>3, FoldRuns

AnnounceFold(trades, ts) ==
    CHOOSE g : g = [s \in SUBSET DOMAIN ts |->
                       IF s = {} THEN trades ELSE Announced(g[s \ {Max(s)}], ts[Max(s)])]
LEMMA AnnouncesRun ==
    ASSUME NEW trades, NEW ts, NEW n \in Nat, DOMAIN ts = 1 .. n
    PROVE  Runs("announce", 0, trades, ts, n, FoldLeft(Announced, trades, ts))
<1>1. FoldLeft(Announced, trades, ts) = AnnounceFold(trades, ts)[1 .. n]
  BY DEF FoldLeft, MapThenFoldSet, AnnounceFold
<1>2. \A g : IsFold("announce", 0, trades, ts, n, g) <=>
        g = [s \in SUBSET DOMAIN ts |-> IF s = {} THEN trades ELSE Announced(g[s \ {Max(s)}], ts[Max(s)])]
  BY DEF IsFold, FoldStep, StepOf
<1>3. IsFold("announce", 0, trades, ts, n, AnnounceFold(trades, ts))
  BY <1>2, FoldExists DEF AnnounceFold
<1> QED BY <1>1, <1>3, FoldRuns

-----------------------------------------------------------------------------
(***************************************************************************)
(* Sequences of anything, and sequences made of sets and of sequences.      *)
(***************************************************************************)
IsSeq(s) == \E S : s \in Seq(S)

LEMMA SeqFacts ==
    ASSUME NEW s, IsSeq(s)
    PROVE  Len(s) \in Nat /\ DOMAIN s = 1 .. Len(s)
  BY DEF IsSeq

LEMMA EmptyIsSeq == IsSeq(<<>>) /\ Len(<<>>) = 0 /\ DOMAIN <<>> = {}
<1>1. <<>> \in Seq({}) /\ Len(<<>>) = 0
  OBVIOUS
<1> QED BY <1>1 DEF IsSeq

LEMMA AppendFacts ==
    ASSUME NEW s, IsSeq(s), NEW e
    PROVE  /\ IsSeq(Append(s, e))
           /\ Len(Append(s, e)) = Len(s) + 1
           /\ Append(s, e)[Len(s) + 1] = e
           /\ \A i \in 1 .. Len(s) : Append(s, e)[i] = s[i]
<1>1. PICK S : s \in Seq(S)
  BY DEF IsSeq
<1> DEFINE T == S \cup {e}
<1>2. s \in Seq(T) /\ e \in T
  BY <1>1
<1> HIDE DEF T
<1>3. Append(s, e) \in Seq(T)
  BY <1>2
<1> QED BY <1>2, <1>3 DEF IsSeq

LEMMA ExceptFacts ==
    ASSUME NEW s, IsSeq(s), NEW i \in DOMAIN s, NEW e
    PROVE  /\ IsSeq([s EXCEPT ![i] = e])
           /\ Len([s EXCEPT ![i] = e]) = Len(s)
           /\ [s EXCEPT ![i] = e][i] = e
           /\ \A j \in DOMAIN s : j # i => [s EXCEPT ![i] = e][j] = s[j]
<1>1. PICK S : s \in Seq(S)
  BY DEF IsSeq
<1> DEFINE T == S \cup {e}
<1>2. s \in Seq(T) /\ e \in T
  BY <1>1
<1> HIDE DEF T
<1>3. [s EXCEPT ![i] = e] \in Seq(T) /\ Len([s EXCEPT ![i] = e]) = Len(s)
  BY <1>2
<1> QED BY <1>2, <1>3 DEF IsSeq

(* SetToSeq takes every element of a finite set once. *)
LEMMA SetToSeqFacts ==
    ASSUME NEW S, IsFiniteSet(S)
    PROVE  /\ Cardinality(S) \in Nat
           /\ SetToSeq(S) \in [1 .. Cardinality(S) -> S]
           /\ \A i, j \in 1 .. Cardinality(S) : SetToSeq(S)[i] = SetToSeq(S)[j] => i = j
           /\ \A x \in S : \E i \in 1 .. Cardinality(S) : SetToSeq(S)[i] = x
<1> DEFINE n == Cardinality(S)
           f == SetToSeq(S)
<1>1. n \in Nat /\ \E g : g \in Bijection(1 .. n, S)
  BY FS_CardinalityType DEF ExistsBijection
<1>2. \E g \in [1 .. n -> S] : IsInjective(g)
  BY <1>1 DEF Bijection, Injection
<1>3. f \in [1 .. n -> S] /\ IsInjective(f)
  BY <1>2 DEF SetToSeq
<1> HIDE DEF f
<1>4. f \in Injection(1 .. n, S)
  BY <1>3 DEF Injection
<1>5. IsFiniteSet(1 .. n) /\ Cardinality(1 .. n) = n
  BY <1>1, FS_Interval
<1>6. f \in Surjection(1 .. n, S)
  BY <1>4, <1>5, FS_Injection
<1> QED BY <1>1, <1>3, <1>6 DEF IsInjective, Surjection, f

-----------------------------------------------------------------------------
(***************************************************************************)
(* What a broker is made of.  Money and prices are not typed: no property   *)
(* proved here depends on them.                                            *)
(***************************************************************************)
BrokerFields ==
    {"accounts", "orders", "positions", "meta", "quotes", "trades", "recent", "settlements", "lastSettled"}
OrderFields ==
    {"account", "symbol", "dir", "offset", "price", "volume", "left", "status", "rejected",
     "frozenMargin", "frozenPremium", "inserted"}
PositionFields == {"long", "short", "last", "profit", "margin", "value"}
SideFields == {"today", "his", "frozenToday", "frozenHis", "cost", "price"}
SideNames == {"long", "short"}

SideOK(x) ==
    DOMAIN x = SideFields /\ x.today \in Int /\ x.his \in Int /\ x.frozenToday \in Int /\ x.frozenHis \in Int
PositionOK(p) == DOMAIN p = PositionFields /\ SideOK(p.long) /\ SideOK(p.short)
OrderOK(o) ==
    /\ DOMAIN o = OrderFields
    /\ o.account \in Accounts /\ o.symbol \in Symbols
    /\ o.offset \in {"OPEN", "CLOSE", "CLOSETODAY"}
    /\ o.volume \in Nat \ {0}
    /\ o.status \in {"ALIVE", "FINISHED"}

BrokerShape(b) ==
    /\ DOMAIN b = BrokerFields
    /\ IsSeq(b.orders) /\ IsSeq(b.trades) /\ IsSeq(b.settlements)
    /\ \A i \in DOMAIN b.orders :
          OrderOK(b.orders[i]) /\ <<b.orders[i].account, b.orders[i].symbol>> \in DOMAIN b.positions
    /\ DOMAIN b.positions \subseteq Accounts \X Symbols
    /\ \A k \in DOMAIN b.positions : PositionOK(b.positions[k])

(* An order is filled once, and is over then. *)
FillsOnce(b) ==
    /\ \A i \in DOMAIN b.trades : b.trades[i].order \in DOMAIN b.orders /\ ~Alive(b.orders[b.trades[i].order])
    /\ \A i, k \in DOMAIN b.trades : b.trades[i].order = b.trades[k].order => i = k

(* Volumes of a side and what is frozen of them. *)
SameVolumes(x, y) ==
    x.today = y.today /\ x.his = y.his /\ x.frozenToday = y.frozenToday /\ x.frozenHis = y.frozenHis

(* A broker whose values are recomputed keeps its books. *)
SameBooks(b, c) ==
    /\ DOMAIN c = BrokerFields
    /\ c.orders = b.orders /\ c.trades = b.trades
    /\ c.settlements = b.settlements /\ c.lastSettled = b.lastSettled
    /\ DOMAIN c.positions = DOMAIN b.positions
    /\ \A k \in DOMAIN b.positions :
          /\ PositionOK(c.positions[k])
          /\ \A side \in SideNames : SameVolumes(c.positions[k][side], b.positions[k][side])

LEMMA SameBooksTrans ==
    ASSUME NEW b, NEW c, NEW d, SameBooks(b, c), SameBooks(c, d)
    PROVE  SameBooks(b, d)
  BY DEF SameBooks, SameVolumes

LEMMA SameBooksSelf ==
    ASSUME NEW b, BrokerShape(b)
    PROVE  SameBooks(b, b)
  BY DEF SameBooks, SameVolumes, BrokerShape

LEMMA SameBooksShape ==
    ASSUME NEW b, NEW c, BrokerShape(b), SameBooks(b, c)
    PROVE  BrokerShape(c)
  BY DEF SameBooks, BrokerShape

LEMMA SameBooksFills ==
    ASSUME NEW b, NEW c, FillsOnce(b), SameBooks(b, c)
    PROVE  FillsOnce(c)
  BY DEF SameBooks, FillsOnce

LEMMA RegisterSame ==
    ASSUME NEW b, BrokerShape(b), NEW s
    PROVE  SameBooks(b, RegisterSymbol(b, s))
  BY DEF SameBooks, SameVolumes, BrokerShape, RegisterSymbol, BrokerFields

LEMMA AveragedSame ==
    ASSUME NEW s, NEW x, SideOK(x)
    PROVE  SideOK(AveragedSide(s, x)) /\ SameVolumes(AveragedSide(s, x), x)
  BY DEF SideOK, SameVolumes, AveragedSide, SideFields

LEMMA RecomputePositionSame ==
    ASSUME NEW b, BrokerShape(b), NEW k \in DOMAIN b.positions
    PROVE  /\ PositionOK(RecomputePosition(b, k))
           /\ \A side \in SideNames : SameVolumes(RecomputePosition(b, k)[side], b.positions[k][side])
<1> DEFINE p == b.positions[k]
           r == RecomputePosition(b, k)
<1>1. SideOK(p.long) /\ SideOK(p.short)
  BY DEF BrokerShape, PositionOK
<1>2. r.long = AveragedSide(k[2], p.long) /\ r.short = AveragedSide(k[2], p.short)
  BY DEF RecomputePosition
<1>3. DOMAIN r = PositionFields
  BY DEF RecomputePosition, PositionFields
<1>4. /\ SideOK(r.long) /\ SameVolumes(r.long, p.long)
      /\ SideOK(r.short) /\ SameVolumes(r.short, p.short)
  BY <1>1, <1>2, AveragedSame
<1> HIDE DEF r, p
<1>5. PositionOK(r)
  BY <1>3, <1>4 DEF PositionOK
<1>6. \A side \in SideNames : SameVolumes(r[side], p[side])
  BY <1>4 DEF SideNames
<1> QED BY <1>5, <1>6 DEF r, p

LEMMA RecomputePositionsSame ==
    ASSUME NEW b, BrokerShape(b), NEW keys
    PROVE  SameBooks(b, RecomputePositions(b, keys))
<1> DEFINE c == RecomputePositions(b, keys)
           f == [k \in DOMAIN b.positions |-> IF k \in keys THEN RecomputePosition(b, k) ELSE b.positions[k]]
<1>1. /\ DOMAIN c = BrokerFields /\ c.positions = f
      /\ c.orders = b.orders /\ c.trades = b.trades
      /\ c.settlements = b.settlements /\ c.lastSettled = b.lastSettled
  BY DEF RecomputePositions, BrokerShape, BrokerFields
<1>2. ASSUME NEW k \in DOMAIN b.positions
      PROVE  /\ PositionOK(f[k])
             /\ \A side \in SideNames : SameVolumes(f[k][side], b.positions[k][side])
  <2>1. CASE k \in keys
    BY <2>1, RecomputePositionSame
  <2>2. CASE k \notin keys
    BY <2>2 DEF BrokerShape, SameVolumes
  <2> QED BY <2>1, <2>2
<1>3. DOMAIN f = DOMAIN b.positions
  OBVIOUS
<1> HIDE DEF c, f
<1>4. SameBooks(b, c)
  BY <1>1, <1>2, <1>3 DEF SameBooks
<1> QED BY <1>4 DEF c

LEMMA RecomputeAccountsSame ==
    ASSUME NEW b, BrokerShape(b), NEW as
    PROVE  SameBooks(b, RecomputeAccounts(b, as))
<1> DEFINE c == RecomputeAccounts(b, as)
<1>1. /\ DOMAIN c = BrokerFields /\ c.positions = b.positions
      /\ c.orders = b.orders /\ c.trades = b.trades
      /\ c.settlements = b.settlements /\ c.lastSettled = b.lastSettled
  BY DEF RecomputeAccounts, BrokerShape, BrokerFields
<1> HIDE DEF c
<1>2. SameBooks(b, c)
  BY <1>1 DEF SameBooks, BrokerShape, SameVolumes
<1> QED BY <1>2 DEF c

LEMMA RecomputeSymbolSame ==
    ASSUME NEW b, BrokerShape(b), NEW s
    PROVE  SameBooks(b, RecomputeSymbol(b, s))
<1> DEFINE keys == {k \in DOMAIN b.positions : k[2] = s \/ (Meta[k[2]].underlying = s /\ k[2] \in b.meta)}
           owners == {k[1] : k \in keys} \cup {b.orders[i].account : i \in {j \in DOMAIN b.orders : b.orders[j].symbol = s}}
           c == RecomputePositions(b, keys)
<1>1. SameBooks(b, c)
  BY RecomputePositionsSame
<1>2. RecomputeSymbol(b, s) = RecomputeAccounts(c, owners)
  BY DEF RecomputeSymbol
<1> HIDE DEF c, owners, keys
<1>3. SameBooks(c, RecomputeAccounts(c, owners))
  BY <1>1, SameBooksShape, RecomputeAccountsSame
<1> QED BY <1>1, <1>2, <1>3, SameBooksTrans

LEMMA RecomputeAllSame ==
    ASSUME NEW b, BrokerShape(b)
    PROVE  SameBooks(b, RecomputeAll(b))
<1> DEFINE c == RecomputePositions(b, DOMAIN b.positions)
<1>1. SameBooks(b, c)
  BY RecomputePositionsSame
<1>2. RecomputeAll(b) = RecomputeAccounts(c, Accounts)
  BY DEF RecomputeAll
<1> HIDE DEF c
<1>3. SameBooks(c, RecomputeAccounts(c, Accounts))
  BY <1>1, SameBooksShape, RecomputeAccountsSame
<1> QED BY <1>1, <1>2, <1>3, SameBooksTrans

LEMMA QuotedSame ==
    ASSUME NEW b, BrokerShape(b), NEW s, NEW q
    PROVE  SameBooks(b, [b EXCEPT !.quotes[s] = q])
<1> DEFINE c == [b EXCEPT !.quotes[s] = q]
<1>1. /\ DOMAIN c = BrokerFields /\ c.positions = b.positions
      /\ c.orders = b.orders /\ c.trades = b.trades
      /\ c.settlements = b.settlements /\ c.lastSettled = b.lastSettled
  BY DEF BrokerShape, BrokerFields
<1> HIDE DEF c
<1>2. SameBooks(b, c)
  BY <1>1 DEF SameBooks, BrokerShape, SameVolumes
<1> QED BY <1>2 DEF c

LEMMA SyncSame ==
    ASSUME NEW b, BrokerShape(b), NEW s, NEW q
    PROVE  SameBooks(b, SyncQuote(b, s, q))
<1> DEFINE c == [b EXCEPT !.quotes[s] = q]
<1>1. SameBooks(b, c)
  BY QuotedSame
<1>2. SyncQuote(b, s, q) = RecomputeSymbol(c, s)
  BY DEF SyncQuote
<1> HIDE DEF c
<1>3. SameBooks(c, RecomputeSymbol(c, s))
  BY <1>1, SameBooksShape, RecomputeSymbolSame
<1> QED BY <1>1, <1>2, <1>3, SameBooksTrans

-----------------------------------------------------------------------------
(***************************************************************************)
(* Sums of the volumes of orders.                                          *)
(***************************************************************************)
VolumeStep(os, g, s) ==
    IF s = {} THEN 0 ELSE os[CHOOSE x \in s : TRUE].volume + g[s \ {CHOOSE x \in s : TRUE}]
IsVolumeFold(os, S, g) == g = [s \in SUBSET S |-> VolumeStep(os, g, s)]
VolumeFold(os, S) ==
    CHOOSE g : g = [s \in SUBSET S |->
        IF s = {} THEN 0 ELSE os[CHOOSE x \in s : TRUE].volume + g[s \ {CHOOSE x \in s : TRUE}]]
VolumeSum(os, S) == VolumeFold(os, S)[S]

LEMMA SmallerSet ==
    ASSUME NEW s, IsFiniteSet(s), NEW x \in s
    PROVE  /\ IsFiniteSet(s \ {x}) /\ Cardinality(s) \in Nat /\ Cardinality(s \ {x}) \in Nat
           /\ Cardinality(s \ {x}) = Cardinality(s) - 1
  BY FS_RemoveElement, FS_CardinalityType

LEMMA VolumeFoldExists ==
    ASSUME NEW os, NEW S, IsFiniteSet(S)
    PROVE  IsVolumeFold(os, S, VolumeFold(os, S))
<1> DEFINE Fits(g, k) == \A s \in SUBSET S : Cardinality(s) <= k => g[s] = VolumeStep(os, g, s)
           G == {k \in Nat : \E g : Fits(g, k)}
<1>0. \A s \in SUBSET S : IsFiniteSet(s) /\ Cardinality(s) \in Nat /\ Cardinality(s) <= Cardinality(S)
  BY FS_Subset, FS_CardinalityType
<1>1. 0 \in G
  <2> DEFINE g == [s \in SUBSET S |-> 0]
  <2>1. ASSUME NEW s \in SUBSET S, Cardinality(s) <= 0 PROVE g[s] = VolumeStep(os, g, s)
    <3>1. s = {}
      BY <1>0, <2>1, FS_EmptySet
    <3> QED BY <3>1 DEF VolumeStep
  <2> QED BY <2>1
<1>2. ASSUME NEW k \in 1 .. Cardinality(S), k - 1 \in G PROVE k \in G
  <2>1. k \in Nat /\ k - 1 \in Nat
    BY <1>0
  <2>2. PICK g : Fits(g, k - 1)
    BY <1>2
  <2> DEFINE h == [s \in SUBSET S |-> IF Cardinality(s) <= k - 1 THEN g[s] ELSE VolumeStep(os, g, s)]
  <2>3. ASSUME NEW s \in SUBSET S, Cardinality(s) <= k PROVE h[s] = VolumeStep(os, h, s)
    <3>1. CASE s = {}
      <4>1. Cardinality(s) <= k - 1
        BY <3>1, <2>1, FS_EmptySet
      <4>2. VolumeStep(os, g, s) = 0 /\ VolumeStep(os, h, s) = 0
        BY <3>1 DEF VolumeStep
      <4>3. g[s] = VolumeStep(os, g, s)
        BY <4>1, <2>2
      <4> QED BY <4>1, <4>2, <4>3
    <3>2. CASE s # {}
      <4> DEFINE x == CHOOSE x \in s : TRUE
                 t == s \ {x}
      <4>1. x \in s
        BY <3>2
      <4>2. t \in SUBSET S /\ Cardinality(t) = Cardinality(s) - 1
        BY <1>0, <4>1, SmallerSet
      <4>3. h[t] = g[t]
        BY <1>0, <2>1, <2>3, <4>2
      <4>4. h[s] = VolumeStep(os, g, s)
        BY <2>2
      <4> HIDE DEF h
      <4> QED BY <3>2, <4>3, <4>4 DEF VolumeStep
    <3> QED BY <3>1, <3>2
  <2> HIDE DEF h
  <2> QED BY <2>1, <2>3
<1> HIDE DEF G
<1>3. Cardinality(S) \in G
  BY <1>0, <1>1, <1>2, CountUp
<1>4. PICK g : Fits(g, Cardinality(S))
  BY <1>3 DEF G
<1> DEFINE h == [s \in SUBSET S |-> g[s]]
<1>5. ASSUME NEW s \in SUBSET S PROVE h[s] = VolumeStep(os, h, s)
  <2>1. g[s] = VolumeStep(os, g, s)
    BY <1>0, <1>4
  <2>2. s # {} => s \ {CHOOSE x \in s : TRUE} \in SUBSET S
    OBVIOUS
  <2> QED BY <2>1, <2>2 DEF VolumeStep
<1>6. IsVolumeFold(os, S, h)
  <2>1. h = [s \in SUBSET S |-> h[s]]
    OBVIOUS
  <2> HIDE DEF h
  <2> QED BY <1>5, <2>1 DEF IsVolumeFold
<1> DEFINE P(f) == f = [s \in SUBSET S |->
                           IF s = {} THEN 0
                           ELSE os[CHOOSE x \in s : TRUE].volume + f[s \ {CHOOSE x \in s : TRUE}]]
<1>7. \A f : IsVolumeFold(os, S, f) <=> P(f)
  BY DEF IsVolumeFold, VolumeStep
<1>8. VolumeFold(os, S) = CHOOSE f : P(f)
  BY DEF VolumeFold
<1> HIDE DEF h, P
<1>9. P(CHOOSE f : P(f))
  BY <1>6, <1>7
<1> QED BY <1>7, <1>8, <1>9

(* Sums of equal volumes are equal, whatever they are parts of. *)
LEMMA FoldsAgree ==
    ASSUME NEW os1, NEW S1, NEW g1, IsVolumeFold(os1, S1, g1),
           NEW os2, NEW S2, NEW g2, IsVolumeFold(os2, S2, g2),
           NEW T, IsFiniteSet(T), T \subseteq S1, T \subseteq S2, \A i \in T : os1[i].volume = os2[i].volume
    PROVE  \A s \in SUBSET T : g1[s] = g2[s]
<1> DEFINE G == {k \in Nat : \A s \in SUBSET T : Cardinality(s) = k => g1[s] = g2[s]}
<1>0. \A s \in SUBSET T : IsFiniteSet(s) /\ Cardinality(s) \in 0 .. Cardinality(T) /\ Cardinality(T) \in Nat
  BY FS_Subset, FS_CardinalityType
<1>1. \A s \in SUBSET T : g1[s] = VolumeStep(os1, g1, s) /\ g2[s] = VolumeStep(os2, g2, s)
  BY DEF IsVolumeFold
<1>2. 0 \in G
  <2>1. ASSUME NEW s \in SUBSET T, Cardinality(s) = 0 PROVE g1[s] = g2[s]
    <3>1. s = {}
      BY <1>0, <2>1, FS_EmptySet
    <3>2. VolumeStep(os1, g1, s) = 0 /\ VolumeStep(os2, g2, s) = 0
      BY <3>1 DEF VolumeStep
    <3> QED BY <1>1, <3>2
  <2> QED BY <2>1
<1>3. ASSUME NEW k \in 1 .. Cardinality(T), k - 1 \in G PROVE k \in G
  <2>1. k \in Nat /\ k - 1 \in Nat
    BY <1>0
  <2>2. ASSUME NEW s \in SUBSET T, Cardinality(s) = k PROVE g1[s] = g2[s]
    <3> DEFINE x == CHOOSE x \in s : TRUE
               t == s \ {x}
    <3>1. s # {}
      BY <2>2, <2>1, FS_EmptySet
    <3>2. x \in s
      BY <3>1
    <3>3. t \in SUBSET T /\ Cardinality(t) = k - 1
      BY <1>0, <2>2, <3>2, SmallerSet
    <3>4. g1[t] = g2[t]
      BY <1>3, <3>3
    <3>5. os1[x].volume = os2[x].volume
      BY <3>2
    <3> QED BY <1>1, <3>1, <3>4, <3>5 DEF VolumeStep
  <2> QED BY <2>1, <2>2
<1> HIDE DEF G
<1>4. \A k \in 0 .. Cardinality(T) : k \in G
  BY <1>0, <1>2, <1>3, CountUp
<1> QED BY <1>0, <1>4 DEF G

LEMMA SumAgree ==
    ASSUME NEW os1, NEW os2, NEW S, IsFiniteSet(S), \A i \in S : os1[i].volume = os2[i].volume
    PROVE  VolumeSum(os1, S) = VolumeSum(os2, S)
<1> DEFINE g1 == VolumeFold(os1, S)
           g2 == VolumeFold(os2, S)
<1>1. IsVolumeFold(os1, S, g1) /\ IsVolumeFold(os2, S, g2)
  BY VolumeFoldExists
<1>2. S \subseteq S /\ S \in SUBSET S
  OBVIOUS
<1> HIDE DEF g1, g2
<1>3. \A s \in SUBSET S : g1[s] = g2[s]
  BY <1>1, <1>2, FoldsAgree
<1> QED BY <1>2, <1>3 DEF VolumeSum, g1, g2

(* Any element may be taken out of a sum. *)
Volumed(os, S) == IsFiniteSet(S) /\ \A i \in S : os[i].volume \in Nat

LEMMA FoldNat ==
    ASSUME NEW os, NEW S, Volumed(os, S), NEW g, IsVolumeFold(os, S, g)
    PROVE  \A s \in SUBSET S : g[s] \in Nat
<1> DEFINE G == {k \in Nat : \A s \in SUBSET S : Cardinality(s) = k => g[s] \in Nat}
<1>0. \A s \in SUBSET S : IsFiniteSet(s) /\ Cardinality(s) \in 0 .. Cardinality(S) /\ Cardinality(S) \in Nat
  BY FS_Subset, FS_CardinalityType DEF Volumed
<1>1. \A s \in SUBSET S : g[s] = VolumeStep(os, g, s)
  BY DEF IsVolumeFold
<1>2. 0 \in G
  <2>1. ASSUME NEW s \in SUBSET S, Cardinality(s) = 0 PROVE g[s] \in Nat
    <3>1. s = {}
      BY <1>0, <2>1, FS_EmptySet
    <3>2. VolumeStep(os, g, s) = 0
      BY <3>1 DEF VolumeStep
    <3> QED BY <1>1, <3>2
  <2> QED BY <2>1
<1>3. ASSUME NEW k \in 1 .. Cardinality(S), k - 1 \in G PROVE k \in G
  <2>1. k \in Nat /\ k - 1 \in Nat
    BY <1>0
  <2>2. ASSUME NEW s \in SUBSET S, Cardinality(s) = k PROVE g[s] \in Nat
    <3> DEFINE c == CHOOSE x \in s : TRUE
    <3>1. s # {}
      BY <2>2, <2>1, FS_EmptySet
    <3>2. c \in s
      BY <3>1
    <3>3. s \ {c} \in SUBSET S /\ Cardinality(s \ {c}) = k - 1
      BY <1>0, <2>2, <3>2, SmallerSet
    <3>4. g[s \ {c}] \in Nat
      BY <1>3, <3>3
    <3>5. g[s] = os[c].volume + g[s \ {c}]
      BY <1>1, <3>1 DEF VolumeStep
    <3>6. os[c].volume \in Nat
      BY <3>2 DEF Volumed
    <3> QED BY <3>4, <3>5, <3>6
  <2> QED BY <2>1, <2>2
<1> HIDE DEF G
<1>4. \A k \in 0 .. Cardinality(S) : k \in G
  BY <1>0, <1>2, <1>3, CountUp
<1> QED BY <1>0, <1>4 DEF G

LEMMA FoldTakes ==
    ASSUME NEW os, NEW S, Volumed(os, S), NEW g, IsVolumeFold(os, S, g)
    PROVE  \A s \in SUBSET S : \A x \in s : g[s] = os[x].volume + g[s \ {x}]
<1> DEFINE Takes(s) == \A x \in s : g[s] = os[x].volume + g[s \ {x}]
           G == {k \in Nat : \A s \in SUBSET S : Cardinality(s) = k => Takes(s)}
<1>0. \A s \in SUBSET S : IsFiniteSet(s) /\ Cardinality(s) \in 0 .. Cardinality(S) /\ Cardinality(S) \in Nat
  BY FS_Subset, FS_CardinalityType DEF Volumed
<1>1. \A s \in SUBSET S : g[s] = VolumeStep(os, g, s)
  BY DEF IsVolumeFold
<1>2. 0 \in G
  <2>1. ASSUME NEW s \in SUBSET S, Cardinality(s) = 0 PROVE Takes(s)
    <3>1. s = {}
      BY <1>0, <2>1, FS_EmptySet
    <3> QED BY <3>1
  <2> QED BY <2>1
<1>3. ASSUME NEW k \in 1 .. Cardinality(S), k - 1 \in G PROVE k \in G
  <2>1. k \in Nat /\ k - 1 \in Nat
    BY <1>0
  <2>2. ASSUME NEW s \in SUBSET S, Cardinality(s) = k, NEW x \in s
        PROVE  g[s] = os[x].volume + g[s \ {x}]
    <3> DEFINE c == CHOOSE y \in s : TRUE
    <3>1. s # {}
      OBVIOUS
    <3>2. c \in s
      BY <3>1
    <3>5. g[s] = os[c].volume + g[s \ {c}]
      BY <1>1, <3>1 DEF VolumeStep
    <3> HIDE DEF c
    <3>7. CASE x # c
      <4>1. (s \ {c}) \ {x} = (s \ {x}) \ {c} /\ x \in s \ {c} /\ c \in s \ {x}
        BY <3>2, <3>7
      <4>2. /\ s \ {c} \in SUBSET S /\ Cardinality(s \ {c}) = k - 1
            /\ s \ {x} \in SUBSET S /\ Cardinality(s \ {x}) = k - 1
            /\ (s \ {c}) \ {x} \in SUBSET S
        BY <1>0, <2>2, <3>2, SmallerSet
      <4> DEFINE r == g[(s \ {c}) \ {x}]
      <4>3. Takes(s \ {c}) /\ Takes(s \ {x})
        BY <1>3, <4>2
      <4>4. g[s \ {c}] = os[x].volume + r /\ g[s \ {x}] = os[c].volume + r
        BY <4>1, <4>3
      <4>5. r \in Nat /\ os[x].volume \in Nat /\ os[c].volume \in Nat
        BY <3>2, <4>2, FoldNat DEF Volumed
      <4> HIDE DEF r
      <4> QED BY <3>5, <4>4, <4>5
    <3> QED BY <3>5, <3>7
  <2> QED BY <2>1, <2>2
<1> HIDE DEF G
<1>4. \A k \in 0 .. Cardinality(S) : k \in G
  BY <1>0, <1>2, <1>3, CountUp
<1> QED BY <1>0, <1>4 DEF G

LEMMA SumTakes ==
    ASSUME NEW os, NEW S, Volumed(os, S)
    PROVE  /\ VolumeSum(os, S) \in Nat
           /\ \A x \in S : VolumeSum(os, S) = os[x].volume + VolumeSum(os, S \ {x})
<1> DEFINE g == VolumeFold(os, S)
<1>1. IsVolumeFold(os, S, g)
  BY VolumeFoldExists DEF Volumed
<1>2. S \in SUBSET S
  OBVIOUS
<1>3. g[S] \in Nat /\ \A x \in S : g[S] = os[x].volume + g[S \ {x}]
  BY <1>1, <1>2, FoldNat, FoldTakes
<1>4. ASSUME NEW x \in S PROVE g[S \ {x}] = VolumeSum(os, S \ {x})
  <2> DEFINE T == S \ {x}
  <2>1. IsFiniteSet(T) /\ T \subseteq S /\ T \subseteq T /\ T \in SUBSET T
    BY FS_RemoveElement DEF Volumed
  <2>2. IsVolumeFold(os, T, VolumeFold(os, T))
    BY <2>1, VolumeFoldExists
  <2> HIDE DEF T, g
  <2>3. \A s \in SUBSET T : g[s] = VolumeFold(os, T)[s]
    BY <1>1, <2>1, <2>2, FoldsAgree
  <2> QED BY <2>1, <2>3 DEF VolumeSum, T
<1> QED BY <1>3, <1>4 DEF VolumeSum

LEMMA SumEmpty == ASSUME NEW os PROVE VolumeSum(os, {}) = 0
<1>1. IsFiniteSet({}) /\ {} \in SUBSET {}
  BY FS_EmptySet
<1>2. IsVolumeFold(os, {}, VolumeFold(os, {}))
  BY <1>1, VolumeFoldExists
<1>3. \A g : IsVolumeFold(os, {}, g) => g[{}] = 0
  BY <1>1 DEF IsVolumeFold, VolumeStep
<1> QED BY <1>2, <1>3 DEF VolumeSum

(* A part sums to no more than the whole. *)
LEMMA SumOfPart ==
    ASSUME NEW os, NEW S, Volumed(os, S), NEW T \in SUBSET S
    PROVE  VolumeSum(os, T) <= VolumeSum(os, S)
<1> DEFINE G == {k \in Nat : \A U \in SUBSET S : T \subseteq U /\ Cardinality(U) = k
                                => VolumeSum(os, T) <= VolumeSum(os, U)}
<1>0. \A s \in SUBSET S : /\ IsFiniteSet(s) /\ Cardinality(s) \in 0 .. Cardinality(S) /\ Cardinality(S) \in Nat
                          /\ Volumed(os, s)
  BY FS_Subset, FS_CardinalityType DEF Volumed
<1>1. \A s \in SUBSET S : VolumeSum(os, s) \in Nat
  BY <1>0, SumTakes
<1>2. 0 \in G
  <2>1. ASSUME NEW U \in SUBSET S, T \subseteq U, Cardinality(U) = 0
        PROVE  VolumeSum(os, T) <= VolumeSum(os, U)
    <3>1. T = U
      BY <1>0, <2>1, FS_EmptySet
    <3> QED BY <1>1, <3>1
  <2> QED BY <2>1
<1>3. ASSUME NEW k \in 1 .. Cardinality(S), k - 1 \in G PROVE k \in G
  <2>1. k \in Nat /\ k - 1 \in Nat
    BY <1>0
  <2>2. ASSUME NEW U \in SUBSET S, T \subseteq U, Cardinality(U) = k
        PROVE  VolumeSum(os, T) <= VolumeSum(os, U)
    <3>1. CASE T = U
      BY <1>1, <3>1
    <3>2. CASE T # U
      <4>1. PICK x \in U : x \notin T
        BY <2>2, <3>2
      <4>2. U \ {x} \in SUBSET S /\ T \subseteq U \ {x} /\ Cardinality(U \ {x}) = k - 1
        BY <1>0, <2>2, <4>1, SmallerSet
      <4>3. VolumeSum(os, T) <= VolumeSum(os, U \ {x})
        BY <1>3, <4>2
      <4>4. VolumeSum(os, U) = os[x].volume + VolumeSum(os, U \ {x}) /\ os[x].volume \in Nat
        BY <1>0, <4>1, SumTakes DEF Volumed
      <4>5. VolumeSum(os, T) \in Nat /\ VolumeSum(os, U \ {x}) \in Nat
        BY <1>1, <4>2
      <4> QED BY <4>3, <4>4, <4>5
    <3> QED BY <3>1, <3>2
  <2> QED BY <2>1, <2>2
<1> HIDE DEF G
<1>4. \A k \in 0 .. Cardinality(S) : k \in G
  BY <1>0, <1>2, <1>3, CountUp
<1>5. S \in SUBSET S /\ T \subseteq S
  OBVIOUS
<1> QED BY <1>0, <1>4, <1>5 DEF G

-----------------------------------------------------------------------------
(***************************************************************************)
(* Closing volumes.                                                        *)
(***************************************************************************)
ClosingSet(os, k, side, offsets) ==
    {i \in DOMAIN os : LET o == os[i] IN
        /\ <<o.account, o.symbol>> = k /\ Alive(o)
        /\ o.offset \in offsets /\ SideOf(o) = side}
ClosingOf(os, k, side, offsets) == VolumeSum(os, ClosingSet(os, k, side, offsets))

LEMMA ClosingIs ==
    ASSUME NEW b, NEW k, NEW side, NEW offsets
    PROVE  ClosingVolume(b, k, side, offsets) = ClosingOf(b.orders, k, side, offsets)
  BY DEF ClosingVolume, ClosingOf, ClosingSet, MapThenSumSet, MapThenFoldSet, VolumeSum, VolumeFold

OrdersOK(os) == IsSeq(os) /\ \A i \in DOMAIN os : OrderOK(os[i])

LEMMA SetOfOrders ==
    ASSUME NEW os, OrdersOK(os), NEW T \in SUBSET DOMAIN os
    PROVE  Volumed(os, T)
<1>1. Len(os) \in Nat /\ DOMAIN os = 1 .. Len(os)
  BY SeqFacts DEF OrdersOK
<1>2. IsFiniteSet(1 .. Len(os))
  BY <1>1, FS_Interval
<1>3. IsFiniteSet(T)
  BY <1>1, <1>2, FS_Subset
<1> QED BY <1>3 DEF Volumed, OrdersOK, OrderOK

LEMMA ClosingFacts ==
    ASSUME NEW os, OrdersOK(os), NEW k, NEW side, NEW D, NEW E \in SUBSET D
    PROVE  ClosingOf(os, k, side, D) \in Nat /\ ClosingOf(os, k, side, E) <= ClosingOf(os, k, side, D)
<1>1. ClosingSet(os, k, side, D) \in SUBSET DOMAIN os /\ ClosingSet(os, k, side, E) \in SUBSET ClosingSet(os, k, side, D)
  BY DEF ClosingSet
<1>2. Volumed(os, ClosingSet(os, k, side, D))
  BY <1>1, SetOfOrders
<1> QED BY <1>1, <1>2, SumTakes, SumOfPart DEF ClosingOf

(* What the working order i adds to closing volumes. *)
Part(o, k, side, D) ==
    IF <<o.account, o.symbol>> = k /\ o.offset \in D /\ SideOf(o) = side THEN o.volume ELSE 0

LEMMA ClosingLoses ==
    ASSUME NEW os, OrdersOK(os), NEW i \in DOMAIN os, Alive(os[i]), NEW qs,
           DOMAIN qs = DOMAIN os, \A j \in DOMAIN os : j # i => qs[j] = os[j], ~Alive(qs[i]),
           NEW k, NEW side, NEW D
    PROVE  ClosingOf(os, k, side, D) = Part(os[i], k, side, D) + ClosingOf(qs, k, side, D)
<1> DEFINE S == ClosingSet(os, k, side, D)
           T == ClosingSet(qs, k, side, D)
<1>1. T = S \ {i}
  BY DEF ClosingSet
<1>2. i \in S <=> (<<os[i].account, os[i].symbol>> = k /\ os[i].offset \in D /\ SideOf(os[i]) = side)
  BY DEF ClosingSet
<1>3. S \in SUBSET DOMAIN os
  BY DEF ClosingSet
<1> HIDE DEF S, T
<1>4. Volumed(os, S) /\ Volumed(os, T)
  BY <1>1, <1>3, SetOfOrders
<1>5. \A j \in T : os[j].volume = qs[j].volume
  BY <1>1, <1>3
<1>6. VolumeSum(os, T) = VolumeSum(qs, T)
  BY <1>4, <1>5, SumAgree DEF Volumed
<1>7. VolumeSum(os, T) \in Nat
  BY <1>4, SumTakes
<1>8. CASE i \in S
  <2>1. VolumeSum(os, S) = os[i].volume + VolumeSum(os, T)
    BY <1>1, <1>4, <1>8, SumTakes
  <2> QED BY <1>2, <1>6, <1>8, <2>1 DEF ClosingOf, Part, S, T
<1>9. CASE i \notin S
  <2>1. S = T
    BY <1>1, <1>9
  <2> QED BY <1>2, <1>6, <1>7, <1>9, <2>1 DEF ClosingOf, Part, S, T
<1> QED BY <1>8, <1>9

LEMMA ClosingGains ==
    ASSUME NEW os, OrdersOK(os), NEW o, OrderOK(o), NEW k, NEW side, NEW D
    PROVE  ClosingOf(Append(os, o), k, side, D) =
              ClosingOf(os, k, side, D) + (IF Alive(o) THEN Part(o, k, side, D) ELSE 0)
<1> DEFINE qs == Append(os, o)
           n == Len(os)
           S == ClosingSet(os, k, side, D)
           T == ClosingSet(qs, k, side, D)
<1>1. /\ n \in Nat /\ DOMAIN os = 1 .. n
      /\ IsSeq(qs) /\ DOMAIN qs = 1 .. (n + 1)
      /\ qs[n + 1] = o /\ \A j \in 1 .. n : qs[j] = os[j]
  BY AppendFacts, SeqFacts DEF OrdersOK
<1>2. OrdersOK(qs)
  BY <1>1 DEF OrdersOK
<1> HIDE DEF qs, n
<1>3. S = T \ {n + 1} /\ T \in SUBSET DOMAIN qs /\ S \in SUBSET DOMAIN os
  BY <1>1 DEF ClosingSet
<1>4. n + 1 \in T <=> (Alive(o) /\ <<o.account, o.symbol>> = k /\ o.offset \in D /\ SideOf(o) = side)
  BY <1>1 DEF ClosingSet
<1> HIDE DEF S, T
<1>5. Volumed(os, S) /\ Volumed(qs, T)
  BY <1>2, <1>3, SetOfOrders
<1>6. VolumeSum(qs, S) = VolumeSum(os, S) /\ VolumeSum(os, S) \in Nat
  <2>1. \A j \in S : qs[j].volume = os[j].volume
    BY <1>1, <1>3
  <2>2. VolumeSum(os, S) \in Nat
    BY <1>5, SumTakes
  <2> QED BY <1>5, <2>1, <2>2, SumAgree DEF Volumed
<1>7. CASE n + 1 \in T
  <2>1. VolumeSum(qs, T) = o.volume + VolumeSum(qs, S) /\ o.volume \in Nat
    BY <1>1, <1>3, <1>5, <1>7, SumTakes DEF OrderOK
  <2> QED BY <1>4, <1>6, <1>7, <2>1 DEF ClosingOf, Part, S, T, qs
<1>8. CASE n + 1 \notin T
  <2>1. S = T
    BY <1>3, <1>8
  <2> QED BY <1>4, <1>6, <1>8, <2>1 DEF ClosingOf, Part, S, T, qs
<1> QED BY <1>7, <1>8

LEMMA ClosingNone ==
    ASSUME NEW os, \A i \in DOMAIN os : ~Alive(os[i]), NEW k, NEW side, NEW D
    PROVE  ClosingOf(os, k, side, D) = 0
<1>1. ClosingSet(os, k, side, D) = {}
  BY DEF ClosingSet
<1> QED BY <1>1, SumEmpty DEF ClosingOf

-----------------------------------------------------------------------------
(***************************************************************************)
(* A side of a position and the volume all, and td under CLOSETODAY, that    *)
(* working orders will close of it.                                        *)
(***************************************************************************)
Both == {"CLOSE", "CLOSETODAY"}
Todays == {"CLOSETODAY"}
Balanced(s, x, all, td) ==
    /\ Frozen(x) = all /\ Frozen(x) <= Volume(x)
    /\ x.today >= 0 /\ x.his >= 0
    /\ ShfeRules(s) => x.frozenToday = td /\ x.frozenToday <= x.today /\ x.frozenHis <= x.his

Takes(o, D) == IF o.offset \in D THEN o.volume ELSE 0

LEMMA MinOfTwo ==
    ASSUME NEW a \in Int, NEW b \in Int
    PROVE  Min({a, b}) = IF a <= b THEN a ELSE b
<1> DEFINE m == IF a <= b THEN a ELSE b
<1>1. m \in {a, b} /\ \A y \in {a, b} : m <= y
  OBVIOUS
<1>2. \A x \in {a, b} : (\A y \in {a, b} : x <= y) => x = m
  OBVIOUS
<1> QED BY <1>1, <1>2 DEF Min

LEMMA ReleaseType ==
    ASSUME NEW s, NEW x, SideOK(x), NEW o, OrderOK(o)
    PROVE  SideOK(Release(s, x, o))
<1>1. Min({x.frozenToday, o.volume}) \in Int
  BY MinOfTwo DEF SideOK, OrderOK
<1> DEFINE today == Min({x.frozenToday, o.volume})
<1> HIDE DEF today
<1>2. today \in Int /\ Release(s, x, o) =
        IF ShfeRules(s)
        THEN IF o.offset = "CLOSETODAY" THEN [x EXCEPT !.frozenToday = @ - o.volume]
             ELSE [x EXCEPT !.frozenHis = @ - o.volume]
        ELSE [x EXCEPT !.frozenToday = @ - today, !.frozenHis = @ - (o.volume - today)]
  BY <1>1 DEF Release, today
<1> QED BY <1>2 DEF SideOK, SideFields, OrderOK

LEMMA ReleaseBalanced ==
    ASSUME NEW s, NEW x, SideOK(x), NEW o, OrderOK(o), ~Opens(o), NEW all \in Nat, NEW td \in Nat, td <= all,
           Balanced(s, x, all + Takes(o, Both), td + Takes(o, Todays))
    PROVE  Balanced(s, Release(s, x, o), all, td)
<1> DEFINE today == Min({x.frozenToday, o.volume})
           r == Release(s, x, o)
<1>1. today \in Int
  BY MinOfTwo DEF SideOK, OrderOK
<1> HIDE DEF today
<1>2. CASE ~ShfeRules(s)
  <2>1. r = [x EXCEPT !.frozenToday = @ - today, !.frozenHis = @ - (o.volume - today)]
    BY <1>2 DEF Release, today
  <2>2. /\ r.today = x.today /\ r.his = x.his
        /\ r.frozenToday = x.frozenToday - today /\ r.frozenHis = x.frozenHis - (o.volume - today)
    BY <2>1 DEF SideOK, SideFields
  <2>3. Takes(o, Both) = o.volume
    BY DEF Takes, Both, Opens, OrderOK
  <2> HIDE DEF r
  <2>4. Balanced(s, r, all, td)
    BY <1>1, <1>2, <2>2, <2>3 DEF Balanced, Frozen, Volume, SideOK, OrderOK
  <2> QED BY <2>4 DEF r
<1>3. CASE ShfeRules(s) /\ o.offset = "CLOSETODAY"
  <2>1. r = [x EXCEPT !.frozenToday = @ - o.volume]
    BY <1>3 DEF Release
  <2>2. /\ r.today = x.today /\ r.his = x.his
        /\ r.frozenToday = x.frozenToday - o.volume /\ r.frozenHis = x.frozenHis
    BY <2>1 DEF SideOK, SideFields
  <2>3. Takes(o, Both) = o.volume /\ Takes(o, Todays) = o.volume
    BY <1>3 DEF Takes, Both, Todays
  <2> HIDE DEF r
  <2>4. Balanced(s, r, all, td)
    BY <1>3, <2>2, <2>3 DEF Balanced, Frozen, Volume, SideOK, OrderOK
  <2> QED BY <2>4 DEF r
<1>4. CASE ShfeRules(s) /\ o.offset # "CLOSETODAY"
  <2>1. r = [x EXCEPT !.frozenHis = @ - o.volume]
    BY <1>4 DEF Release
  <2>2. /\ r.today = x.today /\ r.his = x.his
        /\ r.frozenToday = x.frozenToday /\ r.frozenHis = x.frozenHis - o.volume
    BY <2>1 DEF SideOK, SideFields
  <2>3. Takes(o, Both) = o.volume /\ Takes(o, Todays) = 0
    BY <1>4 DEF Takes, Both, Todays, Opens, OrderOK
  <2> HIDE DEF r
  <2>4. Balanced(s, r, all, td)
    BY <1>4, <2>2, <2>3 DEF Balanced, Frozen, Volume, SideOK, OrderOK
  <2> QED BY <2>4 DEF r
<1> QED BY <1>2, <1>3, <1>4

(* A fill takes what was frozen for it. *)
LEMMA ClosedBalanced ==
    ASSUME NEW s, NEW x, SideOK(x), NEW o, OrderOK(o), ~Opens(o), NEW all \in Nat, NEW td \in Nat, td <= all,
           Balanced(s, x, all + Takes(o, Both), td + Takes(o, Todays))
    PROVE  /\ SideOK(Closed(s, Release(s, x, o), o))
           /\ Balanced(s, Closed(s, Release(s, x, o), o), all, td)
<1> DEFINE r == Release(s, x, o)
           c == Closed(s, r, o)
           least == Min({r.his, o.volume})
           his == IF ShfeRules(s) THEN IF o.offset = "CLOSE" THEN o.volume ELSE 0 ELSE least
<1>1. SideOK(r)
  BY ReleaseType
<1>2. Balanced(s, r, all, td)
  BY ReleaseBalanced
<1>3. r.today = x.today /\ r.his = x.his
  BY DEF Release, SideOK, SideFields
<1> HIDE DEF r
<1>4. least = IF r.his <= o.volume THEN r.his ELSE o.volume
  BY <1>1, MinOfTwo DEF SideOK, OrderOK
<1> HIDE DEF least
<1>5. his \in Int
  BY <1>1, <1>4 DEF SideOK, OrderOK
<1>6. c = [r EXCEPT !.his = @ - his, !.today = @ - (o.volume - his),
                    !.cost = @ - r.price * o.volume * Meta[s].mult]
  BY DEF Closed, least
<1> HIDE DEF his
<1>7. /\ DOMAIN c = SideFields
      /\ c.today = r.today - (o.volume - his) /\ c.his = r.his - his
      /\ c.frozenToday = r.frozenToday /\ c.frozenHis = r.frozenHis
  BY <1>1, <1>6 DEF SideOK, SideFields
<1> HIDE DEF c
<1>8. SideOK(c)
  BY <1>1, <1>5, <1>7 DEF SideOK, OrderOK
<1>9. Balanced(s, c, all, td)
  <2>1. CASE ~ShfeRules(s)
    <3>1. Takes(o, Both) = o.volume
      BY DEF Takes, Both, Opens, OrderOK
    <3>2. his = least
      BY <2>1 DEF his
    <3>3. o.volume + all <= x.today + x.his /\ x.today >= 0 /\ x.his >= 0
      BY <3>1 DEF Balanced, Frozen, Volume, SideOK, OrderOK
    <3> QED BY <1>1, <1>2, <1>3, <1>4, <1>7, <2>1, <3>2, <3>3 DEF Balanced, Frozen, Volume, SideOK, OrderOK
  <2>2. CASE ShfeRules(s) /\ o.offset = "CLOSE"
    <3>1. Takes(o, Both) = o.volume /\ Takes(o, Todays) = 0
      BY <2>2 DEF Takes, Both, Todays
    <3>2. his = o.volume
      BY <2>2 DEF his
    <3>3. /\ x.frozenToday = td /\ x.frozenHis = all + o.volume - td /\ x.frozenHis <= x.his
          /\ r.frozenToday = td /\ r.frozenHis = all - td
      BY <1>1, <1>2, <2>2, <3>1 DEF Balanced, Frozen, SideOK, OrderOK
    <3> QED BY <1>1, <1>2, <1>3, <1>7, <2>2, <3>2, <3>3 DEF Balanced, Frozen, Volume, SideOK, OrderOK
  <2>3. CASE ShfeRules(s) /\ o.offset = "CLOSETODAY"
    <3>1. Takes(o, Both) = o.volume /\ Takes(o, Todays) = o.volume
      BY <2>3 DEF Takes, Both, Todays
    <3>2. his = 0
      BY <2>3 DEF his
    <3>3. /\ x.frozenToday = td + o.volume /\ x.frozenToday <= x.today /\ x.frozenHis <= x.his
          /\ r.frozenToday = td /\ r.frozenHis = all - td /\ x.frozenHis = all - td
      BY <1>1, <1>2, <2>3, <3>1 DEF Balanced, Frozen, SideOK, OrderOK
    <3> QED BY <1>1, <1>2, <1>3, <1>7, <2>3, <3>2, <3>3 DEF Balanced, Frozen, Volume, SideOK, OrderOK
  <2> QED BY <2>1, <2>2, <2>3 DEF OrderOK, Opens
<1> QED BY <1>8, <1>9 DEF c, r

LEMMA OpenedBalanced ==
    ASSUME NEW s, NEW x, SideOK(x), NEW o, OrderOK(o), NEW price, NEW all \in Nat, NEW td \in Nat,
           Balanced(s, x, all, td)
    PROVE  SideOK(Opened(s, x, o, price)) /\ Balanced(s, Opened(s, x, o, price), all, td)
<1> DEFINE c == Opened(s, x, o, price)
<1>1. /\ DOMAIN c = SideFields
      /\ c.today = x.today + o.volume /\ c.his = x.his
      /\ c.frozenToday = x.frozenToday /\ c.frozenHis = x.frozenHis
  BY DEF Opened, SideOK, SideFields
<1> HIDE DEF c
<1>2. SideOK(c) /\ Balanced(s, c, all, td)
  BY <1>1 DEF SideOK, OrderOK, Balanced, Frozen, Volume
<1> QED BY <1>2 DEF c

LEMMA FreezeBalanced ==
    ASSUME NEW s, NEW x, SideOK(x), NEW o, OrderOK(o), ~Opens(o), NEW all \in Nat, NEW td \in Nat,
           Balanced(s, x, all, td), Closable(s, x, o) >= o.volume
    PROVE  /\ SideOK(Freeze(s, x, o))
           /\ Balanced(s, Freeze(s, x, o), all + Takes(o, Both), td + Takes(o, Todays))
<1> DEFINE f == Freeze(s, x, o)
           his == Min({x.his - x.frozenHis, o.volume})
<1>1. his \in Int
  BY MinOfTwo DEF SideOK, OrderOK
<1> HIDE DEF his
<1>2. CASE ~ShfeRules(s)
  <2>1. f = [x EXCEPT !.frozenHis = @ + his, !.frozenToday = @ + o.volume - his]
    BY <1>2 DEF Freeze, his
  <2>2. /\ DOMAIN f = SideFields /\ f.today = x.today /\ f.his = x.his
        /\ f.frozenToday = x.frozenToday + o.volume - his /\ f.frozenHis = x.frozenHis + his
    BY <2>1 DEF SideOK, SideFields
  <2>3. Takes(o, Both) = o.volume
    BY DEF Takes, Both, Opens, OrderOK
  <2> HIDE DEF f
  <2>4. Volume(x) - Frozen(x) >= o.volume
    BY <1>2 DEF Closable
  <2>5. SideOK(f) /\ Balanced(s, f, all + Takes(o, Both), td + Takes(o, Todays))
    BY <1>1, <1>2, <2>2, <2>3, <2>4 DEF Balanced, Frozen, Volume, SideOK, OrderOK
  <2> QED BY <2>5 DEF f
<1>3. CASE ShfeRules(s) /\ o.offset = "CLOSETODAY"
  <2>1. f = [x EXCEPT !.frozenToday = @ + o.volume]
    BY <1>3 DEF Freeze
  <2>2. /\ DOMAIN f = SideFields /\ f.today = x.today /\ f.his = x.his
        /\ f.frozenToday = x.frozenToday + o.volume /\ f.frozenHis = x.frozenHis
    BY <2>1 DEF SideOK, SideFields
  <2>3. Takes(o, Both) = o.volume /\ Takes(o, Todays) = o.volume
    BY <1>3 DEF Takes, Both, Todays
  <2> HIDE DEF f
  <2>4. x.today - x.frozenToday >= o.volume
    BY <1>3 DEF Closable
  <2>5. SideOK(f) /\ Balanced(s, f, all + Takes(o, Both), td + Takes(o, Todays))
    BY <1>3, <2>2, <2>3, <2>4 DEF Balanced, Frozen, Volume, SideOK, OrderOK
  <2> QED BY <2>5 DEF f
<1>4. CASE ShfeRules(s) /\ o.offset # "CLOSETODAY"
  <2>1. f = [x EXCEPT !.frozenHis = @ + o.volume]
    BY <1>4 DEF Freeze
  <2>2. /\ DOMAIN f = SideFields /\ f.today = x.today /\ f.his = x.his
        /\ f.frozenToday = x.frozenToday /\ f.frozenHis = x.frozenHis + o.volume
    BY <2>1 DEF SideOK, SideFields
  <2>3. Takes(o, Both) = o.volume /\ Takes(o, Todays) = 0
    BY <1>4 DEF Takes, Both, Todays, Opens, OrderOK
  <2> HIDE DEF f
  <2>4. x.his - x.frozenHis >= o.volume
    BY <1>4 DEF Closable
  <2>5. SideOK(f) /\ Balanced(s, f, all + Takes(o, Both), td + Takes(o, Todays))
    BY <1>4, <2>2, <2>3, <2>4 DEF Balanced, Frozen, Volume, SideOK, OrderOK
  <2> QED BY <2>5 DEF f
<1> QED BY <1>2, <1>3, <1>4

LEMMA CarriedBalanced ==
    ASSUME NEW s, NEW x, SideOK(x), NEW last, x.today >= 0, x.his >= 0
    PROVE  SideOK(Carried(s, x, last)) /\ Balanced(s, Carried(s, x, last), 0, 0)
<1> DEFINE c == Carried(s, x, last)
<1>1. /\ DOMAIN c = SideFields
      /\ c.today = 0 /\ c.his = x.today + x.his /\ c.frozenToday = 0 /\ c.frozenHis = 0
  BY DEF Carried, SideOK, SideFields, Volume
<1> HIDE DEF c
<1>2. SideOK(c) /\ Balanced(s, c, 0, 0)
  BY <1>1 DEF SideOK, Balanced, Frozen, Volume
<1> QED BY <1>2 DEF c

-----------------------------------------------------------------------------
(***************************************************************************)
(* The broker between two operations, and how one follows another.         *)
(***************************************************************************)
BooksBalance(b) ==
    \A k \in DOMAIN b.positions, side \in SideNames :
        Balanced(k[2], b.positions[k][side],
                 ClosingOf(b.orders, k, side, Both), ClosingOf(b.orders, k, side, Todays))
Sound(b) == BrokerShape(b) /\ FillsOnce(b) /\ BooksBalance(b)

(* Trades are only added. *)
Extends(s, t) == IsSeq(s) /\ IsSeq(t) /\ Len(s) <= Len(t) /\ \A i \in DOMAIN s : t[i] = s[i]
Continues(b, c) ==
    c.settlements = b.settlements /\ c.lastSettled = b.lastSettled /\ Extends(b.trades, c.trades)

LEMMA BooksAreFrozen ==
    ASSUME NEW b, BooksBalance(b)
    PROVE  FrozenIsClosing(b)
<1> SUFFICES ASSUME NEW k \in DOMAIN b.positions, NEW side \in {"long", "short"}
             PROVE  /\ Frozen(b.positions[k][side]) = ClosingVolume(b, k, side, {"CLOSE", "CLOSETODAY"})
                    /\ Frozen(b.positions[k][side]) <= Volume(b.positions[k][side])
                    /\ b.positions[k][side].today >= 0 /\ b.positions[k][side].his >= 0
                    /\ ShfeRules(k[2]) =>
                          /\ b.positions[k][side].frozenToday = ClosingVolume(b, k, side, {"CLOSETODAY"})
                          /\ b.positions[k][side].frozenToday <= b.positions[k][side].today
                          /\ b.positions[k][side].frozenHis <= b.positions[k][side].his
  BY DEF FrozenIsClosing
<1>1. /\ ClosingVolume(b, k, side, {"CLOSE", "CLOSETODAY"}) = ClosingOf(b.orders, k, side, Both)
      /\ ClosingVolume(b, k, side, {"CLOSETODAY"}) = ClosingOf(b.orders, k, side, Todays)
  BY ClosingIs DEF Both, Todays
<1>2. Balanced(k[2], b.positions[k][side],
               ClosingOf(b.orders, k, side, Both), ClosingOf(b.orders, k, side, Todays))
  BY DEF BooksBalance, SideNames
<1> QED BY <1>1, <1>2 DEF Balanced

LEMMA ContinuesTrans ==
    ASSUME NEW b, NEW c, NEW d, Continues(b, c), Continues(c, d)
    PROVE  Continues(b, d)
<1>1. /\ Len(b.trades) \in Nat /\ DOMAIN b.trades = 1 .. Len(b.trades)
      /\ Len(c.trades) \in Nat /\ DOMAIN c.trades = 1 .. Len(c.trades)
      /\ Len(d.trades) \in Nat
  BY SeqFacts DEF Continues, Extends
<1> QED BY <1>1 DEF Continues, Extends

LEMMA SameTradesContinue ==
    ASSUME NEW b, BrokerShape(b), NEW c, c.trades = b.trades,
           c.settlements = b.settlements, c.lastSettled = b.lastSettled
    PROVE  Continues(b, c)
<1>1. Len(b.trades) \in Nat
  BY SeqFacts DEF BrokerShape
<1> QED BY <1>1 DEF Continues, Extends, BrokerShape

LEMMA SameBooksSound ==
    ASSUME NEW b, Sound(b), NEW c, SameBooks(b, c)
    PROVE  Sound(c) /\ Continues(b, c) /\ c.orders = b.orders /\ DOMAIN c.positions = DOMAIN b.positions
<1>1. BrokerShape(c) /\ FillsOnce(c) /\ Continues(b, c)
  BY SameBooksShape, SameBooksFills, SameTradesContinue DEF Sound, SameBooks
<1>2. ASSUME NEW k \in DOMAIN c.positions, NEW side \in SideNames
      PROVE  Balanced(k[2], c.positions[k][side],
                      ClosingOf(c.orders, k, side, Both), ClosingOf(c.orders, k, side, Todays))
  <2>1. c.orders = b.orders /\ k \in DOMAIN b.positions /\ SameVolumes(c.positions[k][side], b.positions[k][side])
    BY DEF SameBooks
  <2>2. Balanced(k[2], b.positions[k][side],
                 ClosingOf(b.orders, k, side, Both), ClosingOf(b.orders, k, side, Todays))
    BY <2>1 DEF Sound, BooksBalance
  <2> QED BY <2>1, <2>2 DEF SameVolumes, Balanced, Frozen, Volume
<1> QED BY <1>1, <1>2 DEF Sound, BooksBalance, SameBooks

-----------------------------------------------------------------------------
(***************************************************************************)
(* A working order that is over, filled or not.                            *)
(***************************************************************************)
LEMMA BrokerOrders ==
    ASSUME NEW b, BrokerShape(b)
    PROVE  OrdersOK(b.orders)
  BY DEF BrokerShape, OrdersOK

LEMMA SideIsNamed == ASSUME NEW o PROVE SideOf(o) \in SideNames
  BY DEF SideOf, SideNames

LEMMA OtherPart ==
    ASSUME NEW o, OrderOK(o), NEW k, NEW side, k # <<o.account, o.symbol>> \/ side # SideOf(o), NEW D
    PROVE  Part(o, k, side, D) = 0
  BY DEF Part

LEMMA OwnPart ==
    ASSUME NEW o, NEW D
    PROVE  Part(o, <<o.account, o.symbol>>, SideOf(o), D) = Takes(o, D)
  BY DEF Part, Takes

LEMMA OrderLeaves ==
    ASSUME NEW b, BrokerShape(b), BooksBalance(b), NEW i \in DOMAIN b.orders, Alive(b.orders[i]),
           NEW c, OrdersOK(c.orders), DOMAIN c.orders = DOMAIN b.orders,
           \A j \in DOMAIN b.orders : j # i => c.orders[j] = b.orders[j],
           ~Alive(c.orders[i]), DOMAIN c.positions = DOMAIN b.positions,
           NEW k0, k0 = <<b.orders[i].account, b.orders[i].symbol>>, NEW d0, d0 = SideOf(b.orders[i]),
           \A k \in DOMAIN b.positions, side \in SideNames :
              k # k0 \/ side # d0 => c.positions[k][side] = b.positions[k][side],
           \A all, td \in Nat :
              td <= all /\ Balanced(k0[2], b.positions[k0][d0],
                                    all + Takes(b.orders[i], Both), td + Takes(b.orders[i], Todays))
                 => Balanced(k0[2], c.positions[k0][d0], all, td)
    PROVE  BooksBalance(c)
<1> SUFFICES ASSUME NEW k \in DOMAIN b.positions, NEW side \in SideNames
             PROVE  Balanced(k[2], c.positions[k][side],
                             ClosingOf(c.orders, k, side, Both), ClosingOf(c.orders, k, side, Todays))
  BY DEF BooksBalance
<1> DEFINE o == b.orders[i]
           was(D) == ClosingOf(b.orders, k, side, D)
           is(D) == ClosingOf(c.orders, k, side, D)
<1>1. OrdersOK(b.orders) /\ OrderOK(o) /\ Both \in SUBSET Both /\ Todays \in SUBSET Both
  BY BrokerOrders DEF BrokerShape, Both, Todays
<1>2. is(Both) \in Nat /\ is(Todays) <= is(Both)
  BY <1>1, ClosingFacts
<1>3. is(Todays) \in Nat
  BY <1>1, ClosingFacts
<1>4. was(Both) = Part(o, k, side, Both) + is(Both) /\ was(Todays) = Part(o, k, side, Todays) + is(Todays)
  BY <1>1, ClosingLoses
<1>5. Balanced(k[2], b.positions[k][side], was(Both), was(Todays))
  BY DEF BooksBalance
<1>6. CASE k # k0 \/ side # d0
  <2>1. Part(o, k, side, Both) = 0 /\ Part(o, k, side, Todays) = 0
    BY <1>1, <1>6, OtherPart
  <2>2. was(Both) = is(Both) /\ was(Todays) = is(Todays)
    BY <1>2, <1>3, <1>4, <2>1
  <2>3. c.positions[k][side] = b.positions[k][side]
    BY <1>6
  <2> QED BY <1>5, <2>2, <2>3
<1>7. CASE k = k0 /\ side = d0
  <2>1. Part(o, k, side, Both) = Takes(o, Both) /\ Part(o, k, side, Todays) = Takes(o, Todays)
    BY <1>7, OwnPart
  <2>2. Takes(o, Both) \in Nat /\ Takes(o, Todays) \in Nat
    BY <1>1 DEF Takes, OrderOK
  <2> HIDE DEF was, is, o
  <2>3. was(Both) = is(Both) + Takes(o, Both) /\ was(Todays) = is(Todays) + Takes(o, Todays)
    BY <1>2, <1>3, <1>4, <2>1, <2>2
  <2>4. Balanced(k0[2], b.positions[k0][d0], is(Both) + Takes(o, Both), is(Todays) + Takes(o, Todays))
    BY <1>5, <1>7, <2>3
  <2>5. Balanced(k0[2], c.positions[k0][d0], is(Both), is(Todays))
    BY <1>2, <1>3, <2>4 DEF o
  <2> QED BY <1>7, <2>5 DEF is
<1> QED BY <1>6, <1>7

LEMMA SideSet ==
    ASSUME NEW p, PositionOK(p), NEW d \in SideNames, NEW x, SideOK(x)
    PROVE  /\ PositionOK([p EXCEPT ![d] = x])
           /\ [p EXCEPT ![d] = x][d] = x
           /\ \A side \in SideNames : side # d => [p EXCEPT ![d] = x][side] = p[side]
<1> DEFINE r == [p EXCEPT ![d] = x]
<1>1. DOMAIN r = PositionFields /\ r[d] = x /\ \A f \in PositionFields : f # d => r[f] = p[f]
  BY DEF PositionOK, PositionFields, SideNames
<1>2. SideNames \subseteq PositionFields
  BY DEF SideNames, PositionFields
<1> HIDE DEF r
<1>3. \A side \in SideNames : SideOK(r[side])
  BY <1>1, <1>2 DEF PositionOK, SideNames
<1>4. PositionOK(r)
  BY <1>1, <1>3 DEF PositionOK, SideNames
<1> QED BY <1>1, <1>2, <1>4 DEF r

LEMMA SideOfPosition ==
    ASSUME NEW p, PositionOK(p), NEW d \in SideNames
    PROVE  SideOK(p[d])
  BY DEF PositionOK, SideNames

LEMMA FinishedOK ==
    ASSUME NEW o, OrderOK(o)
    PROVE  /\ OrderOK(Finished(o)) /\ ~Alive(Finished(o))
           /\ Finished(o).account = o.account /\ Finished(o).symbol = o.symbol
           /\ OrderOK([Finished(o) EXCEPT !.left = 0]) /\ ~Alive([Finished(o) EXCEPT !.left = 0])
           /\ [Finished(o) EXCEPT !.left = 0].account = o.account
           /\ [Finished(o) EXCEPT !.left = 0].symbol = o.symbol
  BY DEF OrderOK, OrderFields, Finished, Alive

(* What is left of a broker when its working order i is over. *)
Over(b, i, c) ==
    /\ DOMAIN c.orders = DOMAIN b.orders /\ ~Alive(c.orders[i])
    /\ \A j \in DOMAIN b.orders : j # i => c.orders[j] = b.orders[j]

LEMMA FinishUnfilledSound ==
    ASSUME NEW b, Sound(b), NEW i \in DOMAIN b.orders, Alive(b.orders[i])
    PROVE  /\ Sound(FinishUnfilled(b, i)) /\ Continues(b, FinishUnfilled(b, i)) /\ Over(b, i, FinishUnfilled(b, i))
           /\ DOMAIN FinishUnfilled(b, i).positions = DOMAIN b.positions
           /\ FinishUnfilled(b, i).trades = b.trades
<1> DEFINE o == b.orders[i]
           k0 == <<o.account, o.symbol>>
           d0 == SideOf(o)
           c == FinishUnfilled(b, i)
           p == b.positions[k0]
           x == IF Opens(o) THEN p[d0] ELSE Release(o.symbol, p[d0], o)
<1>0. BrokerShape(b) /\ FillsOnce(b) /\ BooksBalance(b)
  BY DEF Sound
<1>1. /\ OrderOK(o) /\ k0 \in DOMAIN b.positions /\ PositionOK(p) /\ d0 \in SideNames
      /\ IsSeq(b.orders) /\ \A k \in DOMAIN b.positions : PositionOK(b.positions[k])
  BY <1>0, SideIsNamed DEF BrokerShape
<1>2. /\ DOMAIN c = BrokerFields /\ c.orders = [b.orders EXCEPT ![i] = Finished(o)]
      /\ c.trades = b.trades /\ c.settlements = b.settlements /\ c.lastSettled = b.lastSettled
      /\ Opens(o) => c.positions = b.positions
      /\ ~Opens(o) => c.positions =
            [b.positions EXCEPT ![k0] = [p EXCEPT ![d0] = Release(o.symbol, p[d0], o)]]
  <2> DEFINE over == [b EXCEPT !.orders[i] = Finished(o)]
  <2>1. /\ DOMAIN over = BrokerFields /\ over.positions = b.positions
        /\ over.orders = [b.orders EXCEPT ![i] = Finished(o)] /\ over.trades = b.trades
        /\ over.settlements = b.settlements /\ over.lastSettled = b.lastSettled
    BY <1>0 DEF BrokerShape, BrokerFields
  <2>2. c = IF Opens(o) THEN over ELSE [over EXCEPT !.positions[k0][d0] = Release(o.symbol, @, o)]
    BY DEF FinishUnfilled
  <2> HIDE DEF over, c, k0, d0, o
  <2>3. Opens(o) => c = over
    BY <2>2
  <2>4. ~Opens(o) =>
          /\ DOMAIN c = BrokerFields /\ c.orders = over.orders /\ c.trades = over.trades
          /\ c.settlements = over.settlements /\ c.lastSettled = over.lastSettled
          /\ c.positions = [over.positions EXCEPT ![k0] = [over.positions[k0] EXCEPT ![d0] =
                               Release(o.symbol, over.positions[k0][d0], o)]]
    BY <2>1, <2>2 DEF BrokerFields
  <2> QED BY <2>1, <2>3, <2>4 DEF p
<1>3. SideOK(p[d0]) /\ SideOK(x)
  BY <1>1, SideOfPosition, ReleaseType
<1>4. /\ DOMAIN c.positions = DOMAIN b.positions
      /\ \A k \in DOMAIN b.positions : k # k0 => c.positions[k] = b.positions[k]
      /\ c.positions[k0] = IF Opens(o) THEN p ELSE [p EXCEPT ![d0] = Release(o.symbol, p[d0], o)]
  BY <1>1, <1>2
<1>5. /\ PositionOK(c.positions[k0]) /\ c.positions[k0][d0] = x
      /\ \A side \in SideNames : side # d0 => c.positions[k0][side] = p[side]
  <2> DEFINE y == Release(o.symbol, p[d0], o)
  <2>1. CASE Opens(o)
    BY <1>1, <1>4, <2>1
  <2>2. CASE ~Opens(o)
    <3>1. x = y /\ c.positions[k0] = [p EXCEPT ![d0] = y]
      BY <1>4, <2>2
    <3> HIDE DEF c, x, y, p, d0
    <3> QED BY <1>1, <1>3, <3>1, SideSet
  <2> QED BY <2>1, <2>2
<1>6. /\ IsSeq(c.orders) /\ DOMAIN c.orders = DOMAIN b.orders /\ c.orders[i] = Finished(o)
      /\ \A j \in DOMAIN b.orders : j # i => c.orders[j] = b.orders[j]
  BY <1>1, <1>2, ExceptFacts
<1>7. OrderOK(c.orders[i]) /\ ~Alive(c.orders[i]) /\ <<c.orders[i].account, c.orders[i].symbol>> = k0
  BY <1>1, <1>6, FinishedOK
<1> HIDE DEF c, x
<1>8. BrokerShape(c)
  BY <1>0, <1>1, <1>2, <1>4, <1>5, <1>6, <1>7 DEF BrokerShape
<1>9. FillsOnce(c)
  BY <1>0, <1>2, <1>6, <1>7 DEF FillsOnce
<1>10. ASSUME NEW all \in Nat, NEW td \in Nat, td <= all,
              Balanced(k0[2], p[d0], all + Takes(o, Both), td + Takes(o, Todays))
       PROVE  Balanced(k0[2], c.positions[k0][d0], all, td)
  <2>1. CASE Opens(o)
    <3>1. Takes(o, Both) = 0 /\ Takes(o, Todays) = 0
      BY <2>1 DEF Takes, Opens, Both, Todays
    <3>2. x = p[d0]
      BY <2>1 DEF x
    <3>3. all + 0 = all /\ td + 0 = td
      OBVIOUS
    <3> QED BY <1>5, <1>10, <3>1, <3>2, <3>3
  <2>2. CASE ~Opens(o)
    <3>1. x = Release(o.symbol, p[d0], o)
      BY <2>2 DEF x
    <3>2. Balanced(o.symbol, Release(o.symbol, p[d0], o), all, td)
      BY <1>1, <1>3, <1>10, <2>2, ReleaseBalanced
    <3> QED BY <1>5, <3>1, <3>2
  <2> QED BY <2>1, <2>2
<1>11. \A k \in DOMAIN b.positions, side \in SideNames :
          k # k0 \/ side # d0 => c.positions[k][side] = b.positions[k][side]
  BY <1>4, <1>5
<1>12. OrdersOK(c.orders)
  BY <1>8, BrokerOrders
<1>13. BooksBalance(c)
  BY <1>0, <1>4, <1>6, <1>7, <1>10, <1>11, <1>12, OrderLeaves
<1>14. Continues(b, c)
  BY <1>0, <1>2, SameTradesContinue
<1> QED BY <1>2, <1>4, <1>6, <1>7, <1>8, <1>9, <1>13, <1>14 DEF Sound, Over, c

LEMMA AppendExtends ==
    ASSUME NEW s, IsSeq(s), NEW e
    PROVE  Extends(s, Append(s, e))
<1>1. /\ IsSeq(Append(s, e)) /\ Len(Append(s, e)) = Len(s) + 1 /\ Len(s) \in Nat /\ DOMAIN s = 1 .. Len(s)
      /\ \A i \in 1 .. Len(s) : Append(s, e)[i] = s[i]
  BY AppendFacts, SeqFacts
<1> QED BY <1>1 DEF Extends

LEMMA FillSound ==
    ASSUME NEW b, Sound(b), NEW i \in DOMAIN b.orders, Alive(b.orders[i]), NEW q, NEW price
    PROVE  /\ Sound(Fill(b, i, q, price)) /\ Continues(b, Fill(b, i, q, price)) /\ Over(b, i, Fill(b, i, q, price))
           /\ DOMAIN Fill(b, i, q, price).positions = DOMAIN b.positions
<1> DEFINE o == b.orders[i]
           k0 == <<o.account, o.symbol>>
           d0 == SideOf(o)
           c == Fill(b, i, q, price)
           p == b.positions[k0]
           x == IF Opens(o) THEN Opened(o.symbol, p[d0], o, price)
                ELSE Closed(o.symbol, Release(o.symbol, p[d0], o), o)
           done == [Finished(o) EXCEPT !.left = 0]
<1>0. BrokerShape(b) /\ FillsOnce(b) /\ BooksBalance(b)
  BY DEF Sound
<1>1. /\ OrderOK(o) /\ k0 \in DOMAIN b.positions /\ PositionOK(p) /\ d0 \in SideNames
      /\ IsSeq(b.orders) /\ \A k \in DOMAIN b.positions : PositionOK(b.positions[k])
  BY <1>0, SideIsNamed DEF BrokerShape
<1>2. \E trade : /\ trade.order = i
                 /\ DOMAIN c = BrokerFields /\ c.orders = [b.orders EXCEPT ![i] = done]
                 /\ c.trades = Append(b.trades, trade)
                 /\ c.settlements = b.settlements /\ c.lastSettled = b.lastSettled
                 /\ c.positions = [b.positions EXCEPT ![k0] = [p EXCEPT ![d0] = x]]
  <2> DEFINE commission == o.left * Meta[o.symbol].commission
             trade == [order |-> i, account |-> o.account, symbol |-> o.symbol, dir |-> o.dir, offset |-> o.offset,
                       volume |-> o.left, price |-> price, t |-> q.t, commission |-> commission]
             profit == IF Opens(o) THEN 0 ELSE CloseProfit(o.symbol, p[d0], o, price)
             paid == Premium(o.symbol, o, price)
  <2>1. EnsurePosition(b, o.account, o.symbol) = b
    BY <1>1 DEF EnsurePosition
  <2>2. c = [b EXCEPT
                !.orders[i] = done,
                !.positions[k0][d0] = x,
                !.accounts[o.account].closeProfit = @ + profit,
                !.accounts[o.account].commission = @ + commission,
                !.accounts[o.account].premium = @ + paid,
                !.trades = Append(@, trade),
                !.recent = Append(@, trade)]
    BY <2>1 DEF Fill
  <2>3. trade.order = i
    OBVIOUS
  <2> HIDE DEF trade, profit, paid, commission, x, done, c, k0, d0, o
  <2>4. /\ DOMAIN c = BrokerFields /\ c.orders = [b.orders EXCEPT ![i] = done]
        /\ c.trades = Append(b.trades, trade)
        /\ c.settlements = b.settlements /\ c.lastSettled = b.lastSettled
        /\ c.positions = [b.positions EXCEPT ![k0] = [b.positions[k0] EXCEPT ![d0] = x]]
    BY <1>0, <2>2 DEF BrokerShape, BrokerFields
  <2> QED BY <2>3, <2>4 DEF p
<1>20. PICK trade : /\ trade.order = i
                    /\ DOMAIN c = BrokerFields /\ c.orders = [b.orders EXCEPT ![i] = done]
                    /\ c.trades = Append(b.trades, trade)
                    /\ c.settlements = b.settlements /\ c.lastSettled = b.lastSettled
                    /\ c.positions = [b.positions EXCEPT ![k0] = [p EXCEPT ![d0] = x]]
  BY <1>2
<1>30. /\ OrderOK(done) /\ ~Alive(done) /\ done.account = o.account /\ done.symbol = o.symbol
  BY <1>1, FinishedOK
<1> HIDE DEF c, done
<1>31. SideOK(p[d0])
  BY <1>1, SideOfPosition
<1>32. /\ Both \in SUBSET Both /\ Todays \in SUBSET Both /\ OrdersOK(b.orders)
       /\ ClosingOf(b.orders, k0, d0, Both) \in Nat /\ ClosingOf(b.orders, k0, d0, Todays) \in Nat
  <2>1. Both \in SUBSET Both /\ Todays \in SUBSET Both /\ OrdersOK(b.orders) /\ Todays \in SUBSET Todays
    BY <1>0, BrokerOrders DEF Both, Todays
  <2> QED BY <2>1, ClosingFacts
<1>4. /\ DOMAIN c.positions = DOMAIN b.positions
      /\ \A k \in DOMAIN b.positions : k # k0 => c.positions[k] = b.positions[k]
      /\ c.positions[k0] = [p EXCEPT ![d0] = x]
  BY <1>1, <1>20
<1>6. /\ IsSeq(c.orders) /\ DOMAIN c.orders = DOMAIN b.orders /\ c.orders[i] = done
      /\ \A j \in DOMAIN b.orders : j # i => c.orders[j] = b.orders[j]
  BY <1>1, <1>20, ExceptFacts
<1>7. OrderOK(c.orders[i]) /\ ~Alive(c.orders[i]) /\ <<c.orders[i].account, c.orders[i].symbol>> = k0
  BY <1>6, <1>30
<1>70. \A j \in DOMAIN c.orders : OrderOK(c.orders[j]) /\ <<c.orders[j].account, c.orders[j].symbol>> \in DOMAIN b.positions
  BY <1>0, <1>1, <1>6, <1>7 DEF BrokerShape
<1>71. OrdersOK(c.orders)
  BY <1>6, <1>70 DEF OrdersOK
<1>10. ASSUME NEW all \in Nat, NEW td \in Nat, td <= all,
              Balanced(k0[2], p[d0], all + Takes(o, Both), td + Takes(o, Todays))
       PROVE  SideOK(x) /\ Balanced(k0[2], x, all, td)
  <2>1. CASE Opens(o)
    <3>1. Takes(o, Both) = 0 /\ Takes(o, Todays) = 0
      BY <2>1 DEF Takes, Opens, Both, Todays
    <3>2. x = Opened(o.symbol, p[d0], o, price)
      BY <2>1 DEF x
    <3>3. Balanced(o.symbol, p[d0], all, td)
      <4>1. all + 0 = all /\ td + 0 = td
        OBVIOUS
      <4> QED BY <1>10, <3>1, <4>1
    <3>4. SideOK(Opened(o.symbol, p[d0], o, price)) /\ Balanced(o.symbol, Opened(o.symbol, p[d0], o, price), all, td)
      BY <1>1, <1>31, <3>3, OpenedBalanced
    <3> QED BY <3>2, <3>4
  <2>2. CASE ~Opens(o)
    <3>1. x = Closed(o.symbol, Release(o.symbol, p[d0], o), o)
      BY <2>2 DEF x
    <3>2. /\ SideOK(Closed(o.symbol, Release(o.symbol, p[d0], o), o))
          /\ Balanced(o.symbol, Closed(o.symbol, Release(o.symbol, p[d0], o), o), all, td)
      BY <1>1, <1>31, <1>10, <2>2, ClosedBalanced
    <3> QED BY <3>1, <3>2
  <2> QED BY <2>1, <2>2
<1>11. SideOK(x)
  <2> DEFINE is(D) == ClosingOf(c.orders, k0, d0, D)
  <2>1. is(Both) \in Nat /\ is(Todays) \in Nat /\ is(Todays) <= is(Both)
    BY <1>32, <1>71, ClosingFacts
  <2>2. /\ ClosingOf(b.orders, k0, d0, Both) = Takes(o, Both) + is(Both)
        /\ ClosingOf(b.orders, k0, d0, Todays) = Takes(o, Todays) + is(Todays)
    BY <1>6, <1>7, <1>32, ClosingLoses, OwnPart
  <2>3. Takes(o, Both) \in Nat /\ Takes(o, Todays) \in Nat
    BY <1>1 DEF Takes, OrderOK
  <2>4. Balanced(k0[2], p[d0], ClosingOf(b.orders, k0, d0, Both), ClosingOf(b.orders, k0, d0, Todays))
    BY <1>0, <1>1 DEF BooksBalance
  <2> HIDE DEF is, x, p, o, k0, d0
  <2>5. /\ Takes(o, Both) + is(Both) = is(Both) + Takes(o, Both)
        /\ Takes(o, Todays) + is(Todays) = is(Todays) + Takes(o, Todays)
    BY <2>1, <2>3
  <2> QED BY <1>10, <2>1, <2>2, <2>4, <2>5
<1> HIDE DEF x
<1>5. /\ PositionOK(c.positions[k0]) /\ c.positions[k0][d0] = x
      /\ \A side \in SideNames : side # d0 => c.positions[k0][side] = p[side]
  <2> HIDE DEF p, d0
  <2> QED BY <1>1, <1>4, <1>11, SideSet
<1>12. Extends(b.trades, c.trades) /\ IsSeq(c.trades)
  BY <1>0, <1>20, AppendExtends DEF BrokerShape, Extends
<1>8. BrokerShape(c)
  BY <1>0, <1>4, <1>5, <1>6, <1>12, <1>20, <1>70 DEF BrokerShape
<1>9. FillsOnce(c)
  <2> DEFINE n == Len(b.trades)
  <2>1. /\ n \in Nat /\ DOMAIN b.trades = 1 .. n /\ DOMAIN c.trades = 1 .. (n + 1)
        /\ c.trades[n + 1] = trade /\ \A j \in 1 .. n : c.trades[j] = b.trades[j]
    <3>1. IsSeq(b.trades) /\ IsSeq(c.trades)
      BY <1>0, <1>12 DEF BrokerShape
    <3> QED BY <1>20, <3>1, AppendFacts, SeqFacts
  <2>2. \A j \in 1 .. n : b.trades[j].order # i
    BY <1>0, <2>1 DEF FillsOnce
  <2> HIDE DEF n
  <2>3. \A j \in DOMAIN c.trades : c.trades[j].order \in DOMAIN c.orders /\ ~Alive(c.orders[c.trades[j].order])
    BY <1>0, <1>6, <1>7, <1>20, <2>1 DEF FillsOnce
  <2>4. \A j, k \in DOMAIN c.trades : c.trades[j].order = c.trades[k].order => j = k
    BY <1>0, <1>20, <2>1, <2>2 DEF FillsOnce
  <2> QED BY <2>3, <2>4 DEF FillsOnce
<1>13. \A k \in DOMAIN b.positions, side \in SideNames :
          k # k0 \/ side # d0 => c.positions[k][side] = b.positions[k][side]
  BY <1>4, <1>5
<1>14. BooksBalance(c)
  <2>1. \A all, td \in Nat :
          td <= all /\ Balanced(k0[2], p[d0], all + Takes(o, Both), td + Takes(o, Todays))
             => Balanced(k0[2], c.positions[k0][d0], all, td)
    BY <1>5, <1>10
  <2> QED BY <1>0, <1>4, <1>6, <1>7, <1>13, <1>71, <2>1, OrderLeaves
<1>15. Continues(b, c)
  BY <1>12, <1>20 DEF Continues
<1> QED BY <1>4, <1>6, <1>7, <1>8, <1>9, <1>14, <1>15 DEF Sound, Over, c

(* An order meets a quote: it is filled, over without a fill, or stays. *)
LEMMA MatchSound ==
    ASSUME NEW b, Sound(b), NEW i \in DOMAIN b.orders, Alive(b.orders[i]), NEW q
    PROVE  /\ Sound(Match(b, i, q)) /\ Continues(b, Match(b, i, q))
           /\ DOMAIN Match(b, i, q).orders = DOMAIN b.orders
           /\ \A j \in DOMAIN b.orders : j # i => Match(b, i, q).orders[j] = b.orders[j]
           /\ DOMAIN Match(b, i, q).positions = DOMAIN b.positions
<1> DEFINE price == FillPrice(b.orders[i], q)
<1>1. \/ Match(b, i, q) = Fill(b, i, q, price)
      \/ Match(b, i, q) = FinishUnfilled(b, i)
      \/ Match(b, i, q) = b
  BY DEF Match
<1>2. Continues(b, b)
  BY SameTradesContinue DEF Sound
<1> HIDE DEF price
<1> QED BY <1>1, <1>2, FillSound, FinishUnfilledSound DEF Over

-----------------------------------------------------------------------------
(***************************************************************************)
(* The broker's operations follow one broker between operations by another. *)
(***************************************************************************)
Follows(b, c) == Sound(c) /\ Continues(b, c)

(* Without a trade. *)
Keeps(b, c) == Follows(b, c) /\ c.trades = b.trades

LEMMA FollowsSelf ==
    ASSUME NEW b, Sound(b)
    PROVE  Follows(b, b) /\ Keeps(b, b)
  BY SameTradesContinue DEF Sound, Follows, Keeps

LEMMA FollowsTrans ==
    ASSUME NEW b, NEW c, NEW d, Follows(b, c), Follows(c, d)
    PROVE  Follows(b, d)
  BY ContinuesTrans DEF Follows

LEMMA KeepsTrans ==
    ASSUME NEW b, NEW c, NEW d, Keeps(b, c), Keeps(c, d)
    PROVE  Keeps(b, d)
  BY FollowsTrans DEF Keeps

LEMMA SameBooksFollow ==
    ASSUME NEW b, Sound(b), NEW c, SameBooks(b, c)
    PROVE  Follows(b, c) /\ Keeps(b, c)
  BY SameBooksSound DEF Follows, Keeps, SameBooks

LEMMA OrderIndices ==
    ASSUME NEW b, BrokerShape(b), NEW A \in SUBSET DOMAIN b.orders
    PROVE  IsFiniteSet(A)
  BY BrokerOrders, SetOfOrders DEF Volumed

(* Every working order of the symbol meets the quote. *)
LEMMA ApplyQuoteSound ==
    ASSUME NEW b, Sound(b), NEW s, NEW q
    PROVE  Follows(b, ApplyQuote(b, s, q))
<1> DEFINE quoted == [b EXCEPT !.quotes[s] = q]
           A == {i \in DOMAIN b.orders : Alive(b.orders[i]) /\ b.orders[i].symbol = s}
           es == SetToSeq(A)
           n == Cardinality(A)
           r == MatchAll(quoted, q, es)
<1>1. Follows(b, quoted) /\ quoted.orders = b.orders
  <2>1. SameBooks(b, quoted)
    BY QuotedSame DEF Sound
  <2> HIDE DEF quoted
  <2> QED BY <2>1, SameBooksFollow DEF SameBooks
<1>2. IsFiniteSet(A) /\ A \in SUBSET DOMAIN b.orders /\ \A i \in A : Alive(b.orders[i])
  BY OrderIndices DEF Sound
<1> HIDE DEF A
<1>3. n \in Nat /\ es \in [1 .. n -> A] /\ \A i, j \in 1 .. n : es[i] = es[j] => i = j
  BY <1>2, SetToSeqFacts
<1>4. DOMAIN es = 1 .. n
  BY <1>3
<1>5. ApplyQuote(b, s, q) = RecomputeSymbol(r, s)
  BY DEF ApplyQuote, A, MatchAll
<1> HIDE DEF quoted, es, n
<1>6. Runs("match", q, quoted, es, n, r)
  BY <1>3, <1>4, MatchesRun
<1> HIDE DEF r
<1>7. PICK m : /\ m[0] = quoted /\ r = m[n]
               /\ \A k \in 1 .. n : m[k] = StepOf("match", q, m[k - 1], es[k])
  BY <1>6 DEF Runs
<1> DEFINE Good(k) == /\ Follows(b, m[k]) /\ DOMAIN m[k].orders = DOMAIN b.orders
                      /\ \A j \in (k + 1) .. n : m[k].orders[es[j]] = b.orders[es[j]]
           G == {k \in 0 .. n : Good(k)}
<1>8. 0 \in G
  BY <1>1, <1>3, <1>7
<1>9. ASSUME NEW k \in 1 .. n, k - 1 \in G PROVE k \in G
  <2> DEFINE x == es[k]
             d == m[k - 1]
             e == m[k]
  <2>1. k \in Nat /\ k - 1 \in Nat /\ (k - 1) + 1 = k /\ k \in k .. n /\ (k + 1) .. n \subseteq k .. n /\ k \in 0 .. n
    BY <1>3
  <2>2. Good(k - 1)
    BY <1>9
  <2>3. Sound(d) /\ Follows(b, d) /\ DOMAIN d.orders = DOMAIN b.orders
        /\ \A j \in k .. n : d.orders[es[j]] = b.orders[es[j]]
    BY <2>1, <2>2 DEF Follows
  <2>4. x \in A /\ x \in DOMAIN d.orders /\ Alive(d.orders[x])
    BY <1>2, <1>3, <2>1, <2>3
  <2>5. e = Match(d, x, q)
    BY <1>7 DEF StepOf
  <2> HIDE DEF x, d, e
  <2>6. Follows(d, e) /\ DOMAIN e.orders = DOMAIN d.orders
        /\ \A j \in DOMAIN d.orders : j # x => e.orders[j] = d.orders[j]
    BY <2>3, <2>4, <2>5, MatchSound DEF Follows
  <2>7. Follows(b, e)
    BY <2>3, <2>6, FollowsTrans
  <2>8. ASSUME NEW j \in (k + 1) .. n PROVE e.orders[es[j]] = b.orders[es[j]]
    <3>1. j \in 1 .. n /\ j # k /\ j \in k .. n
      BY <2>1
    <3>2. es[j] # x /\ es[j] \in DOMAIN d.orders
      BY <1>2, <1>3, <2>3, <3>1 DEF x
    <3> QED BY <2>3, <2>6, <3>1, <3>2
  <2> QED BY <2>1, <2>3, <2>6, <2>7, <2>8 DEF e
<1> HIDE DEF G
<1>10. n \in G
  BY <1>3, <1>8, <1>9, CountUp
<1>11. Follows(b, r)
  BY <1>7, <1>10 DEF G
<1>12. SameBooks(r, RecomputeSymbol(r, s))
  BY <1>11, RecomputeSymbolSame DEF Follows, Sound
<1> QED BY <1>5, <1>11, <1>12, SameBooksFollow, FollowsTrans DEF Follows

LEMMA ApplyPathSound ==
    ASSUME NEW b, Sound(b), NEW s, NEW path, NEW n \in Nat, DOMAIN path = 1 .. n
    PROVE  Follows(b, ApplyPath(b, s, path))
<1> DEFINE r == ApplyPath(b, s, path)
<1>1. Runs("quote", s, b, path, n, r)
  BY QuotesRun
<1> HIDE DEF r
<1>2. PICK m : /\ m[0] = b /\ r = m[n]
               /\ \A k \in 1 .. n : m[k] = StepOf("quote", s, m[k - 1], path[k])
  BY <1>1 DEF Runs
<1> DEFINE G == {k \in 0 .. n : Follows(b, m[k])}
<1>3. 0 \in G
  BY <1>2, FollowsSelf
<1>4. ASSUME NEW k \in 1 .. n, k - 1 \in G PROVE k \in G
  <2>1. k \in 0 .. n /\ Follows(b, m[k - 1]) /\ Sound(m[k - 1])
    BY <1>4 DEF Follows
  <2>2. m[k] = ApplyQuote(m[k - 1], s, path[k])
    BY <1>2 DEF StepOf
  <2>3. Follows(b, m[k])
    BY <2>1, <2>2, ApplyQuoteSound, FollowsTrans
  <2> QED BY <2>1, <2>3
<1> HIDE DEF G
<1>5. n \in G
  BY <1>3, <1>4, CountUp
<1> QED BY <1>2, <1>5 DEF G, r

LEMMA CancelSound ==
    ASSUME NEW b, Sound(b), NEW i \in DOMAIN b.orders
    PROVE  Keeps(b, CancelOrder(b, i))
<1> DEFINE c == FinishUnfilled(b, i)
           s == b.orders[i].symbol
<1>1. CASE Alive(b.orders[i])
  <2>1. Keeps(b, c)
    BY <1>1, FinishUnfilledSound DEF Keeps, Follows
  <2>2. CancelOrder(b, i) = RecomputeSymbol(c, s)
    BY <1>1 DEF CancelOrder
  <2> HIDE DEF c, s
  <2>3. SameBooks(c, RecomputeSymbol(c, s))
    BY <2>1, RecomputeSymbolSame DEF Keeps, Follows, Sound
  <2> QED BY <2>1, <2>2, <2>3, SameBooksFollow, KeepsTrans DEF Keeps, Follows
<1>2. CASE ~Alive(b.orders[i])
  BY <1>2, FollowsSelf DEF CancelOrder
<1> QED BY <1>1, <1>2

LEMMA SyncedSound ==
    ASSUME NEW b, Sound(b), NEW s, NEW q
    PROVE  Keeps(b, Synced(b, s, q))
<1>1. SameBooks(b, SyncQuote(b, s, q))
  BY SyncSame DEF Sound
<1>2. Synced(b, s, q) = b \/ Synced(b, s, q) = SyncQuote(b, s, q)
  BY DEF Synced
<1> QED BY <1>1, <1>2, SameBooksFollow, FollowsSelf

LEMMA UnderlyingFacts ==
    ASSUME NEW s \in Symbols
    PROVE  Underlying(s) \in Seq(Symbols)
<1>1. Meta[s].underlying # None => Meta[s].underlying \in Symbols
  BY BrokerAssumption DEF None
<1> QED BY <1>1 DEF Underlying

LEMMA RegisteredSound ==
    ASSUME NEW b, Sound(b), NEW s \in Symbols
    PROVE  Keeps(b, Registered(b, s))
<1> DEFINE ss == <<s>> \o Underlying(s)
           n == Len(ss)
           r == FoldLeft(RegisterSymbol, b, ss)
<1>1. n \in Nat /\ DOMAIN ss = 1 .. n
  BY UnderlyingFacts
<1>2. Registered(b, s) = r
  BY DEF Registered
<1> HIDE DEF ss, n
<1>3. Runs("register", 0, b, ss, n, r)
  BY <1>1, RegistersRun
<1> HIDE DEF r
<1>4. PICK m : /\ m[0] = b /\ r = m[n]
               /\ \A k \in 1 .. n : m[k] = StepOf("register", 0, m[k - 1], ss[k])
  BY <1>3 DEF Runs
<1> DEFINE G == {k \in 0 .. n : Keeps(b, m[k])}
<1>5. 0 \in G
  BY <1>1, <1>4, FollowsSelf
<1>6. ASSUME NEW k \in 1 .. n, k - 1 \in G PROVE k \in G
  <2>1. k \in 0 .. n /\ Keeps(b, m[k - 1]) /\ Sound(m[k - 1])
    BY <1>1, <1>6 DEF Keeps, Follows
  <2>2. m[k] = RegisterSymbol(m[k - 1], ss[k])
    BY <1>4 DEF StepOf
  <2>3. SameBooks(m[k - 1], m[k])
    BY <2>1, <2>2, RegisterSame DEF Sound
  <2> QED BY <2>1, <2>3, SameBooksFollow, KeepsTrans
<1> HIDE DEF G
<1>7. n \in G
  BY <1>1, <1>5, <1>6, CountUp
<1> QED BY <1>2, <1>4, <1>7 DEF G

-----------------------------------------------------------------------------
(***************************************************************************)
(* An order goes in.                                                       *)
(***************************************************************************)
LEMMA EnsurePositionSound ==
    ASSUME NEW b, Sound(b), NEW a \in Accounts, NEW s \in Symbols
    PROVE  /\ Keeps(b, EnsurePosition(b, a, s))
           /\ <<a, s>> \in DOMAIN EnsurePosition(b, a, s).positions
           /\ EnsurePosition(b, a, s).orders = b.orders
<1> DEFINE k0 == <<a, s>>
           fresh == DefaultPosition(LastPrice(b, s))
           c == EnsurePosition(b, a, s)
<1>0. BrokerShape(b) /\ FillsOnce(b) /\ BooksBalance(b)
  BY DEF Sound
<1>1. CASE k0 \in DOMAIN b.positions
  BY <1>1, FollowsSelf DEF EnsurePosition
<1>2. CASE k0 \notin DOMAIN b.positions
  <2> DEFINE ps == [k \in DOMAIN b.positions \cup {k0} |->
                       IF k \in DOMAIN b.positions THEN b.positions[k] ELSE fresh]
  <2>1. k0 \in Accounts \X Symbols /\ DOMAIN b.positions \subseteq Accounts \X Symbols
    BY <1>0 DEF BrokerShape
  <2>2. Restrict([k \in Accounts \X Symbols |-> IF k \in DOMAIN b.positions THEN b.positions[k] ELSE fresh],
                 DOMAIN b.positions \cup {k0}) = ps
    BY <2>1 DEF Restrict
  <2>3. c = [b EXCEPT !.positions = ps]
    BY <1>2, <2>2 DEF EnsurePosition
  <2>4. /\ DOMAIN ps = DOMAIN b.positions \cup {k0} /\ ps[k0] = fresh
        /\ \A k \in DOMAIN b.positions : ps[k] = b.positions[k]
    BY <1>2
  <2> HIDE DEF ps, c
  <2>5. /\ DOMAIN c = BrokerFields /\ c.positions = ps /\ c.orders = b.orders /\ c.trades = b.trades
        /\ c.settlements = b.settlements /\ c.lastSettled = b.lastSettled
    BY <1>0, <2>3 DEF BrokerShape, BrokerFields
  <2>6. PositionOK(fresh) /\ fresh.long = NoSide /\ fresh.short = NoSide
    BY DEF DefaultPosition, PositionOK, PositionFields, SideOK, SideFields, NoSide
  <2> HIDE DEF fresh
  <2>7. BrokerShape(c)
    BY <1>0, <2>1, <2>4, <2>5, <2>6 DEF BrokerShape
  <2>8. FillsOnce(c)
    BY <1>0, <2>5 DEF FillsOnce
  <2>9. ASSUME NEW side \in SideNames
        PROVE  Balanced(s, ps[k0][side], ClosingOf(b.orders, k0, side, Both), ClosingOf(b.orders, k0, side, Todays))
    <3>1. ClosingSet(b.orders, k0, side, Both) = {} /\ ClosingSet(b.orders, k0, side, Todays) = {}
      BY <1>0, <1>2 DEF ClosingSet, BrokerShape
    <3>2. ClosingOf(b.orders, k0, side, Both) = 0 /\ ClosingOf(b.orders, k0, side, Todays) = 0
      BY <3>1, SumEmpty DEF ClosingOf
    <3>3. ps[k0][side] = NoSide
      BY <2>4, <2>6 DEF SideNames
    <3>4. Balanced(s, NoSide, 0, 0)
      BY DEF Balanced, NoSide, Frozen, Volume
    <3> QED BY <3>2, <3>3, <3>4
  <2>10. ASSUME NEW k \in DOMAIN c.positions, NEW side \in SideNames
         PROVE  Balanced(k[2], c.positions[k][side],
                         ClosingOf(c.orders, k, side, Both), ClosingOf(c.orders, k, side, Todays))
    <3>1. CASE k = k0
      BY <2>5, <2>9, <3>1
    <3>2. CASE k # k0
      BY <1>0, <2>4, <2>5, <3>2 DEF BooksBalance
    <3> QED BY <3>1, <3>2
  <2>11. Continues(b, c)
    BY <1>0, <2>5, SameTradesContinue
  <2>12. k0 \in DOMAIN c.positions
    BY <2>4, <2>5
  <2>13. BooksBalance(c)
    BY <2>10 DEF BooksBalance
  <2> QED BY <2>5, <2>7, <2>8, <2>11, <2>12, <2>13 DEF Keeps, Follows, Sound, c
<1> QED BY <1>1, <1>2

Gains(o, D) == IF Alive(o) THEN Takes(o, D) ELSE 0

LEMMA OrderJoins ==
    ASSUME NEW b, BrokerShape(b), BooksBalance(b), NEW o, OrderOK(o),
           NEW k0 \in DOMAIN b.positions, k0 = <<o.account, o.symbol>>, NEW d0, d0 = SideOf(o),
           NEW c, c.orders = Append(b.orders, o), DOMAIN c.positions = DOMAIN b.positions,
           \A k \in DOMAIN b.positions, side \in SideNames :
              k # k0 \/ side # d0 => c.positions[k][side] = b.positions[k][side],
           \A all, td \in Nat :
              Balanced(k0[2], b.positions[k0][d0], all, td)
                 => Balanced(k0[2], c.positions[k0][d0], all + Gains(o, Both), td + Gains(o, Todays))
    PROVE  BooksBalance(c)
<1> SUFFICES ASSUME NEW k \in DOMAIN b.positions, NEW side \in SideNames
             PROVE  Balanced(k[2], c.positions[k][side],
                             ClosingOf(c.orders, k, side, Both), ClosingOf(c.orders, k, side, Todays))
  BY DEF BooksBalance
<1> DEFINE was(D) == ClosingOf(b.orders, k, side, D)
           is(D) == ClosingOf(c.orders, k, side, D)
           more(D) == IF Alive(o) THEN Part(o, k, side, D) ELSE 0
<1>1. OrdersOK(b.orders) /\ Both \in SUBSET Both /\ Todays \in SUBSET Todays
  BY BrokerOrders
<1>2. was(Both) \in Nat /\ was(Todays) \in Nat
  BY <1>1, ClosingFacts
<1>3. is(Both) = was(Both) + more(Both) /\ is(Todays) = was(Todays) + more(Todays)
  BY <1>1, ClosingGains
<1>4. Balanced(k[2], b.positions[k][side], was(Both), was(Todays))
  BY DEF BooksBalance
<1>5. CASE k # k0 \/ side # d0
  <2>1. more(Both) = 0 /\ more(Todays) = 0
    BY <1>5, OtherPart
  <2>2. c.positions[k][side] = b.positions[k][side]
    BY <1>5
  <2> HIDE DEF was, is, more
  <2>3. is(Both) = was(Both) /\ is(Todays) = was(Todays)
    BY <1>2, <1>3, <2>1
  <2>4. Balanced(k[2], c.positions[k][side], is(Both), is(Todays))
    BY <1>4, <2>2, <2>3
  <2> QED BY <2>4 DEF is
<1>6. CASE k = k0 /\ side = d0
  <2>1. more(Both) = Gains(o, Both) /\ more(Todays) = Gains(o, Todays)
    BY <1>6, OwnPart DEF Gains
  <2> HIDE DEF was, is, more
  <2>2. Balanced(k0[2], c.positions[k0][d0], was(Both) + Gains(o, Both), was(Todays) + Gains(o, Todays))
    BY <1>2, <1>4, <1>6
  <2>3. Balanced(k[2], c.positions[k][side], is(Both), is(Todays))
    BY <1>3, <1>6, <2>1, <2>2
  <2> QED BY <2>3 DEF is
<1> QED BY <1>5, <1>6

(* What the broker makes of an order: it is rejected, or what it closes is there. *)
LEMMA AdmittedFacts ==
    ASSUME NEW b, NEW o, OrderOK(o)
    PROVE  /\ OrderOK(Admitted(b, o))
           /\ Admitted(b, o).account = o.account /\ Admitted(b, o).symbol = o.symbol
           /\ Admitted(b, o).offset = o.offset /\ Admitted(b, o).dir = o.dir
           /\ Admitted(b, o).volume = o.volume
           /\ Alive(Admitted(b, o)) /\ ~Opens(Admitted(b, o))
                 => ~(Closable(o.symbol, b.positions[<<o.account, o.symbol>>][SideOf(o)], o) < o.volume)
<1> DEFINE r == Admitted(b, o)
           money == OpenMoney(b, o)
           priced == [o EXCEPT !.frozenMargin = money.margin, !.frozenPremium = money.premium]
<1>1. \/ r = Rejected(o)
      \/ Opens(o) /\ r = priced
      \/ ~(Closable(o.symbol, b.positions[<<o.account, o.symbol>>][SideOf(o)], o) < o.volume) /\ r = o
  BY DEF Admitted
<1>2. /\ OrderOK(Rejected(o)) /\ ~Alive(Rejected(o))
      /\ Rejected(o).account = o.account /\ Rejected(o).symbol = o.symbol /\ Rejected(o).offset = o.offset
      /\ Rejected(o).dir = o.dir /\ Rejected(o).volume = o.volume
  BY DEF Rejected, OrderOK, OrderFields, Alive
<1>3. /\ OrderOK(priced)
      /\ priced.account = o.account /\ priced.symbol = o.symbol /\ priced.offset = o.offset
      /\ priced.dir = o.dir /\ priced.volume = o.volume
  <2> HIDE DEF money
  <2> QED BY DEF OrderOK, OrderFields
<1> HIDE DEF r, priced
<1> QED BY <1>1, <1>2, <1>3 DEF Opens, r

LEMMA NewOrderFacts ==
    ASSUME NEW b, NEW a \in Accounts, NEW req \in Requests
    PROVE  /\ OrderOK(NewOrder(b, a, req)) /\ NewOrder(b, a, req).account = a
           /\ NewOrder(b, a, req).symbol = req.symbol /\ req.symbol \in Symbols
<1>1. req \in [symbol : Symbols, dir : {"BUY", "SELL"}, offset : {"OPEN", "CLOSE", "CLOSETODAY"},
               price : Int \cup {NoPrice}, volume : Nat \ {0}]
  BY ReplayAssumption
<1> QED BY <1>1 DEF NewOrder, OrderOK, OrderFields

LEMMA ClosableOf ==
    ASSUME NEW o, NEW p, p.offset = o.offset, NEW s, NEW x
    PROVE  Closable(s, x, p) = Closable(s, x, o)
  BY DEF Closable

LEMMA InsertOrderSound ==
    ASSUME NEW b, Sound(b), NEW a \in Accounts, NEW req \in Requests
    PROVE  Keeps(b, InsertOrder(b, a, req))
<1> DEFINE s == req.symbol
           k0 == <<a, s>>
           held == EnsurePosition(b, a, s)
           fresh == NewOrder(b, a, req)
           o == Admitted(held, fresh)
           d0 == SideOf(o)
           closes == Alive(o) /\ ~Opens(o)
           p == held.positions[k0]
           x == IF closes THEN Freeze(s, p[d0], o) ELSE p[d0]
           froze == IF closes THEN [held EXCEPT !.positions[k0][d0] = Freeze(s, @, o)] ELSE held
           c == [froze EXCEPT !.orders = Append(@, o)]
<1>1. s \in Symbols /\ OrderOK(fresh) /\ fresh.account = a /\ fresh.symbol = s
  BY NewOrderFacts
<1>2. Keeps(b, held) /\ k0 \in DOMAIN held.positions
  BY <1>1, EnsurePositionSound
<1>3. InsertOrder(b, a, req) = RecomputeAccounts(c, {a})
  BY DEF InsertOrder
<1> HIDE DEF held, fresh
<1>4. /\ OrderOK(o) /\ k0 = <<o.account, o.symbol>> /\ o.offset = fresh.offset /\ o.volume = fresh.volume
      /\ SideOf(fresh) = d0
      /\ closes => ~(Closable(s, p[d0], fresh) < fresh.volume)
  <2>1. /\ OrderOK(o) /\ k0 = <<o.account, o.symbol>> /\ o.offset = fresh.offset /\ o.dir = fresh.dir
        /\ o.volume = fresh.volume
    BY <1>1, AdmittedFacts
  <2>2. SideOf(fresh) = d0
    BY <2>1 DEF SideOf, Opens
  <2>3. closes => ~(Closable(s, p[d0], fresh) < fresh.volume)
    BY <1>1, <2>2, AdmittedFacts
  <2> QED BY <2>1, <2>2, <2>3
<1> HIDE DEF o
<1>5. closes => ~(Closable(s, p[d0], o) < o.volume)
  BY <1>4, ClosableOf
<1>6. /\ BrokerShape(held) /\ FillsOnce(held) /\ BooksBalance(held)
      /\ IsSeq(held.orders) /\ d0 \in SideNames /\ PositionOK(p) /\ SideOK(p[d0])
  <2>1. BrokerShape(held) /\ FillsOnce(held) /\ BooksBalance(held)
    BY <1>2 DEF Keeps, Follows, Sound
  <2>2. IsSeq(held.orders) /\ d0 \in SideNames /\ PositionOK(p)
    BY <1>2, <2>1, SideIsNamed DEF BrokerShape
  <2> QED BY <2>1, <2>2, SideOfPosition
<1>7. closes => Closable(s, p[d0], o) >= o.volume
  <2>1. Closable(s, p[d0], o) \in Int /\ o.volume \in Int
    BY <1>4, <1>6 DEF Closable, SideOK, Volume, Frozen, OrderOK
  <2> QED BY <1>5, <2>1
<1>8. ASSUME NEW all \in Nat, NEW td \in Nat, Balanced(s, p[d0], all, td)
      PROVE  SideOK(x) /\ Balanced(s, x, all + Gains(o, Both), td + Gains(o, Todays))
  <2>1. CASE closes
    <3>1. /\ SideOK(Freeze(s, p[d0], o))
          /\ Balanced(s, Freeze(s, p[d0], o), all + Takes(o, Both), td + Takes(o, Todays))
      BY <1>4, <1>6, <1>7, <1>8, <2>1, FreezeBalanced
    <3>2. x = Freeze(s, p[d0], o) /\ Gains(o, Both) = Takes(o, Both) /\ Gains(o, Todays) = Takes(o, Todays)
      BY <2>1 DEF x, Gains
    <3> QED BY <3>1, <3>2
  <2>2. CASE ~closes
    <3>1. x = p[d0] /\ Gains(o, Both) = 0 /\ Gains(o, Todays) = 0
      BY <2>2 DEF x, Gains, Takes, Opens, Both, Todays
    <3>2. all + 0 = all /\ td + 0 = td
      OBVIOUS
    <3> QED BY <1>6, <1>8, <3>1, <3>2
  <2> QED BY <2>1, <2>2
<1>9. /\ DOMAIN c = BrokerFields /\ c.orders = Append(held.orders, o) /\ c.trades = held.trades
      /\ c.settlements = held.settlements /\ c.lastSettled = held.lastSettled
      /\ closes => c.positions = [held.positions EXCEPT ![k0] = [p EXCEPT ![d0] = x]]
      /\ ~closes => c.positions = held.positions
  <2>1. /\ DOMAIN froze = BrokerFields /\ froze.orders = held.orders /\ froze.trades = held.trades
        /\ froze.settlements = held.settlements /\ froze.lastSettled = held.lastSettled
        /\ closes => froze.positions = [held.positions EXCEPT ![k0] = [p EXCEPT ![d0] = x]]
        /\ ~closes => froze.positions = held.positions
    <3>1. CASE closes
      <4>1. froze = [held EXCEPT !.positions[k0][d0] = Freeze(s, @, o)] /\ x = Freeze(s, p[d0], o)
        BY <3>1
      <4> HIDE DEF froze, x, closes, k0, d0, s
      <4> QED BY <1>6, <3>1, <4>1 DEF BrokerShape, BrokerFields
    <3>2. CASE ~closes
      BY <1>6, <3>2 DEF BrokerShape
    <3> QED BY <3>1, <3>2
  <2> HIDE DEF froze, closes, x
  <2> QED BY <2>1 DEF BrokerFields
<1> HIDE DEF c, x
<1>10. SideOK(x)
  <2> DEFINE was(D) == ClosingOf(held.orders, k0, d0, D)
  <2>1. OrdersOK(held.orders) /\ Both \in SUBSET Both /\ Todays \in SUBSET Todays
    BY <1>6, BrokerOrders
  <2>2. was(Both) \in Nat /\ was(Todays) \in Nat
    BY <2>1, ClosingFacts
  <2>3. Balanced(s, p[d0], was(Both), was(Todays))
    BY <1>2, <1>6 DEF BooksBalance
  <2> HIDE DEF was
  <2> QED BY <1>8, <2>2, <2>3
<1>11. /\ DOMAIN c.positions = DOMAIN held.positions
       /\ \A k \in DOMAIN held.positions : k # k0 => c.positions[k] = held.positions[k]
       /\ PositionOK(c.positions[k0]) /\ c.positions[k0][d0] = x
       /\ \A side \in SideNames : side # d0 => c.positions[k0][side] = p[side]
  <2>1. CASE closes
    <3>1. /\ DOMAIN c.positions = DOMAIN held.positions
          /\ \A k \in DOMAIN held.positions : k # k0 => c.positions[k] = held.positions[k]
          /\ c.positions[k0] = [p EXCEPT ![d0] = x]
      BY <1>2, <1>9, <2>1
    <3> HIDE DEF p, d0
    <3> QED BY <1>6, <1>10, <3>1, SideSet
  <2>2. CASE ~closes
    BY <1>6, <1>9, <2>2 DEF x
  <2> QED BY <2>1, <2>2
<1>12. \A k \in DOMAIN held.positions, side \in SideNames :
          k # k0 \/ side # d0 => c.positions[k][side] = held.positions[k][side]
  BY <1>11
<1>13. \A all, td \in Nat :
          Balanced(k0[2], held.positions[k0][d0], all, td)
             => Balanced(k0[2], c.positions[k0][d0], all + Gains(o, Both), td + Gains(o, Todays))
  BY <1>8, <1>11
<1>14. BooksBalance(c)
  <2>1. d0 = SideOf(o) /\ OrderOK(o) /\ k0 = <<o.account, o.symbol>>
    BY <1>4
  <2>2. k0 \in DOMAIN held.positions /\ BrokerShape(held) /\ BooksBalance(held)
    BY <1>2, <1>6
  <2>3. c.orders = Append(held.orders, o) /\ DOMAIN c.positions = DOMAIN held.positions
    BY <1>9, <1>11
  <2> HIDE DEF k0, d0, p, closes
  <2> QED BY <1>12, <1>13, <2>1, <2>2, <2>3, OrderJoins
<1>15. /\ IsSeq(c.orders) /\ DOMAIN held.orders \subseteq DOMAIN c.orders
       /\ \A j \in DOMAIN held.orders : c.orders[j] = held.orders[j]
       /\ \A j \in DOMAIN c.orders : j \in DOMAIN held.orders \/ c.orders[j] = o
  <2>1. /\ IsSeq(c.orders) /\ Len(c.orders) = Len(held.orders) + 1 /\ Len(held.orders) \in Nat
        /\ DOMAIN held.orders = 1 .. Len(held.orders) /\ DOMAIN c.orders = 1 .. Len(c.orders)
        /\ c.orders[Len(held.orders) + 1] = o
        /\ \A j \in 1 .. Len(held.orders) : c.orders[j] = held.orders[j]
    BY <1>6, <1>9, AppendFacts, SeqFacts
  <2> QED BY <2>1
<1>16. BrokerShape(c)
  BY <1>2, <1>4, <1>6, <1>9, <1>11, <1>15 DEF BrokerShape
<1>17. FillsOnce(c)
  BY <1>6, <1>9, <1>15 DEF FillsOnce
<1>18. Keeps(b, c)
  <2>1. Continues(held, c)
    BY <1>6, <1>9, SameTradesContinue
  <2>2. Keeps(held, c)
    BY <1>9, <1>14, <1>16, <1>17, <2>1 DEF Keeps, Follows, Sound
  <2> QED BY <1>2, <2>2, KeepsTrans
<1>19. SameBooks(c, RecomputeAccounts(c, {a}))
  BY <1>16, RecomputeAccountsSame
<1> QED BY <1>3, <1>18, <1>19, SameBooksFollow, KeepsTrans DEF Keeps, Follows

(* A task's order: the quotes it brings, then the order itself. *)
LEMMA InsertedSound ==
    ASSUME NEW b, Sound(b), NEW op, op.account \in Accounts, op.req \in Requests
    PROVE  Keeps(b, Inserted(b, op))
<1> DEFINE s == op.req.symbol
           under == IF op.under = <<>> THEN b ELSE Synced(b, Underlying(s)[1], op.under[1])
           shown == Synced(under, s, op.shown)
<1>1. Keeps(b, under)
  BY SyncedSound, FollowsSelf
<1>2. Inserted(b, op) = InsertOrder(shown, op.account, op.req)
  BY DEF Inserted
<1> HIDE DEF under
<1>3. Keeps(under, shown)
  BY <1>1, SyncedSound DEF Keeps, Follows
<1> HIDE DEF shown
<1>4. Keeps(shown, InsertOrder(shown, op.account, op.req))
  BY <1>3, InsertOrderSound DEF Keeps, Follows
<1> QED BY <1>1, <1>2, <1>3, <1>4, KeepsTrans

-----------------------------------------------------------------------------
(***************************************************************************)
(* Settling a day and beginning.                                           *)
(***************************************************************************)
(* Every working order is over without a fill. *)
LEMMA FinishAllSound ==
    ASSUME NEW b, Sound(b), NEW A, A = {i \in DOMAIN b.orders : Alive(b.orders[i])}
    PROVE  /\ Keeps(b, FinishAll(b, SetToSeq(A)))
           /\ \A i \in DOMAIN FinishAll(b, SetToSeq(A)).orders : ~Alive(FinishAll(b, SetToSeq(A)).orders[i])
<1> DEFINE es == SetToSeq(A)
           n == Cardinality(A)
           r == FinishAll(b, es)
<1>2. IsFiniteSet(A) /\ A \in SUBSET DOMAIN b.orders /\ \A i \in A : Alive(b.orders[i])
  BY OrderIndices DEF Sound
<1>3. /\ n \in Nat /\ es \in [1 .. n -> A] /\ \A i, j \in 1 .. n : es[i] = es[j] => i = j
      /\ \A x \in A : \E i \in 1 .. n : es[i] = x
  BY <1>2, SetToSeqFacts
<1>4. DOMAIN es = 1 .. n
  BY <1>3
<1> HIDE DEF es, n
<1>6. Runs("finish", 0, b, es, n, r)
  BY <1>3, <1>4, FinishesRun
<1> HIDE DEF r
<1>7. PICK m : /\ m[0] = b /\ r = m[n]
               /\ \A k \in 1 .. n : m[k] = StepOf("finish", 0, m[k - 1], es[k])
  BY <1>6 DEF Runs
<1> DEFINE Good(k) == /\ Keeps(b, m[k]) /\ DOMAIN m[k].orders = DOMAIN b.orders
                      /\ \A j \in (k + 1) .. n : m[k].orders[es[j]] = b.orders[es[j]]
                      /\ \A x \in DOMAIN b.orders :
                            Alive(m[k].orders[x]) => \E j \in (k + 1) .. n : es[j] = x
           G == {k \in 0 .. n : Good(k)}
<1>8. 0 \in G
  <2>1. 0 \in 0 .. n /\ 0 + 1 = 1
    BY <1>3
  <2>2. Keeps(b, m[0]) /\ m[0].orders = b.orders
    BY <1>7, FollowsSelf
  <2>3. \A x \in DOMAIN b.orders : Alive(b.orders[x]) => \E j \in 1 .. n : es[j] = x
    BY <1>3
  <2> QED BY <2>1, <2>2, <2>3
<1>9. ASSUME NEW k \in 1 .. n, k - 1 \in G PROVE k \in G
  <2> DEFINE x == es[k]
             d == m[k - 1]
             e == m[k]
  <2>1. k \in Nat /\ k - 1 \in Nat /\ (k - 1) + 1 = k /\ k \in k .. n /\ (k + 1) .. n \subseteq k .. n /\ k \in 0 .. n
    BY <1>3
  <2>2. Good(k - 1)
    BY <1>9
  <2>3. /\ Sound(d) /\ Keeps(b, d) /\ DOMAIN d.orders = DOMAIN b.orders
        /\ \A j \in k .. n : d.orders[es[j]] = b.orders[es[j]]
        /\ \A y \in DOMAIN b.orders : Alive(d.orders[y]) => \E j \in k .. n : es[j] = y
    BY <2>1, <2>2 DEF Keeps, Follows
  <2>4. x \in A /\ x \in DOMAIN d.orders /\ Alive(d.orders[x])
    BY <1>2, <1>3, <2>1, <2>3
  <2>5. e = FinishUnfilled(d, x)
    BY <1>7 DEF StepOf
  <2> HIDE DEF x, d, e
  <2>6. Keeps(d, e) /\ DOMAIN e.orders = DOMAIN d.orders /\ ~Alive(e.orders[x])
        /\ \A j \in DOMAIN d.orders : j # x => e.orders[j] = d.orders[j]
    BY <2>3, <2>4, <2>5, FinishUnfilledSound DEF Keeps, Follows, Over
  <2>7. Keeps(b, e)
    BY <2>3, <2>6, KeepsTrans
  <2>8. ASSUME NEW j \in (k + 1) .. n PROVE e.orders[es[j]] = b.orders[es[j]]
    <3>1. j \in 1 .. n /\ j # k /\ j \in k .. n
      BY <2>1
    <3>2. es[j] # x /\ es[j] \in DOMAIN d.orders
      BY <1>2, <1>3, <2>3, <3>1 DEF x
    <3> QED BY <2>3, <2>6, <3>1, <3>2
  <2>9. ASSUME NEW y \in DOMAIN b.orders, Alive(e.orders[y]) PROVE \E j \in (k + 1) .. n : es[j] = y
    <3>1. y # x
      BY <2>6, <2>9
    <3>2. Alive(d.orders[y])
      BY <2>3, <2>6, <2>9, <3>1
    <3>3. PICK j \in k .. n : es[j] = y
      BY <2>3, <3>2
    <3>4. j # k
      BY <3>1, <3>3 DEF x
    <3>5. j \in (k + 1) .. n
      BY <1>3, <2>1, <3>4
    <3> QED BY <3>3, <3>5
  <2> QED BY <2>1, <2>3, <2>6, <2>7, <2>8, <2>9 DEF e
<1> HIDE DEF G
<1>10. n \in G
  <2>1. n \in Nat /\ n \in 0 .. n
    BY <1>3
  <2> QED BY <1>8, <1>9, <2>1, CountUp
<1>11. Keeps(b, r) /\ DOMAIN r.orders = DOMAIN b.orders /\ \A x \in DOMAIN b.orders : ~Alive(r.orders[x])
  <2>1. (n + 1) .. n = {}
    BY <1>3
  <2> QED BY <1>7, <1>10, <2>1 DEF G
<1> QED BY <1>11 DEF r, es

(* A settled day is added to the settlements. *)
Settles(b, c, day) ==
    /\ Sound(c) /\ c.trades = b.trades
    /\ c.lastSettled = day
    /\ \E record : record.day = day /\ c.settlements = Append(b.settlements, record)

LEMMA CarriedPositionOK ==
    ASSUME NEW s, NEW p, PositionOK(p), \A side \in SideNames : p[side].today >= 0 /\ p[side].his >= 0
    PROVE  /\ PositionOK(CarriedPosition(s, p))
           /\ \A side \in SideNames : Balanced(s, CarriedPosition(s, p)[side], 0, 0)
<1> DEFINE c == CarriedPosition(s, p)
<1>1. /\ DOMAIN c = PositionFields
      /\ c.long = Carried(s, p.long, p.last) /\ c.short = Carried(s, p.short, p.last)
  BY DEF CarriedPosition, PositionOK, PositionFields
<1> HIDE DEF c
<1>2. SideOK(p.long) /\ SideOK(p.short) /\ p.long.today >= 0 /\ p.long.his >= 0 /\ p.short.today >= 0 /\ p.short.his >= 0
  BY DEF PositionOK, SideNames
<1>3. SideOK(c.long) /\ Balanced(s, c.long, 0, 0) /\ SideOK(c.short) /\ Balanced(s, c.short, 0, 0)
  BY <1>1, <1>2, CarriedBalanced
<1>4. PositionOK(c)
  BY <1>1, <1>3 DEF PositionOK
<1>5. \A side \in SideNames : Balanced(s, c[side], 0, 0)
  BY <1>3 DEF SideNames
<1> QED BY <1>4, <1>5 DEF c

LEMMA SettledSound ==
    ASSUME NEW b, Sound(b), NEW day
    PROVE  Settles(b, Settled(b, day), day)
<1> DEFINE valued == RecomputeAll(b)
           A == {i \in DOMAIN b.orders : Alive(b.orders[i])}
           freed == FinishAll(valued, SetToSeq(A))
           accounts == [a \in Accounts |-> CarriedAccount(freed, a)]
           carried == [freed EXCEPT !.accounts = accounts,
                                    !.positions = [k \in DOMAIN @ |-> CarriedPosition(k[2], @[k])]]
           last == RecomputeAll(carried)
           record == [day |-> day, balance |-> valued.accounts, trades |-> b.recent]
           c == Settled(b, day)
<1>1. c = [last EXCEPT !.settlements = Append(@, record), !.recent = <<>>, !.lastSettled = day]
  BY DEF Settled, FinishAll
<1>2. SameBooks(b, valued)
  BY RecomputeAllSame DEF Sound
<1> HIDE DEF valued
<1>3. Keeps(b, valued) /\ valued.orders = b.orders
  BY <1>2, SameBooksFollow DEF SameBooks
<1>4. A = {i \in DOMAIN valued.orders : Alive(valued.orders[i])}
  BY <1>3
<1> HIDE DEF A
<1>5. Keeps(valued, freed) /\ \A i \in DOMAIN freed.orders : ~Alive(freed.orders[i])
  BY <1>3, <1>4, FinishAllSound DEF Keeps, Follows
<1> HIDE DEF freed
<1>6. Keeps(b, freed) /\ BrokerShape(freed) /\ FillsOnce(freed) /\ BooksBalance(freed)
  BY <1>3, <1>5, KeepsTrans DEF Keeps, Follows, Sound
<1>7. /\ DOMAIN carried = BrokerFields /\ carried.orders = freed.orders /\ carried.trades = freed.trades
      /\ carried.settlements = freed.settlements /\ carried.lastSettled = freed.lastSettled
      /\ DOMAIN carried.positions = DOMAIN freed.positions
      /\ \A k \in DOMAIN freed.positions : carried.positions[k] = CarriedPosition(k[2], freed.positions[k])
  <2> DEFINE ps == [k \in DOMAIN freed.positions |-> CarriedPosition(k[2], freed.positions[k])]
  <2>1. carried = [freed EXCEPT !.accounts = accounts, !.positions = ps]
    OBVIOUS
  <2>2. DOMAIN ps = DOMAIN freed.positions /\ \A k \in DOMAIN freed.positions : ps[k] = CarriedPosition(k[2], freed.positions[k])
    OBVIOUS
  <2> HIDE DEF ps, accounts, carried
  <2>3. /\ DOMAIN carried = BrokerFields /\ carried.orders = freed.orders /\ carried.trades = freed.trades
        /\ carried.settlements = freed.settlements /\ carried.lastSettled = freed.lastSettled
        /\ carried.positions = ps
    BY <1>6, <2>1 DEF BrokerShape, BrokerFields
  <2> QED BY <2>2, <2>3
<1> HIDE DEF carried
<1>8. ASSUME NEW k \in DOMAIN freed.positions
      PROVE  /\ PositionOK(carried.positions[k])
             /\ \A side \in SideNames : Balanced(k[2], carried.positions[k][side], 0, 0)
  <2>1. PositionOK(freed.positions[k])
    BY <1>6 DEF BrokerShape
  <2>2. \A side \in SideNames : freed.positions[k][side].today >= 0 /\ freed.positions[k][side].his >= 0
    BY <1>6 DEF BooksBalance, Balanced
  <2> QED BY <1>7, <2>1, <2>2, CarriedPositionOK
<1>9. BrokerShape(carried)
  BY <1>6, <1>7, <1>8 DEF BrokerShape
<1>10. FillsOnce(carried)
  BY <1>6, <1>7 DEF FillsOnce
<1>11. BooksBalance(carried)
  <2>1. ASSUME NEW k, NEW side
        PROVE  ClosingOf(carried.orders, k, side, Both) = 0 /\ ClosingOf(carried.orders, k, side, Todays) = 0
    BY <1>5, <1>7, ClosingNone
  <2> QED BY <1>7, <1>8, <2>1 DEF BooksBalance
<1>12. SameBooks(carried, last)
  BY <1>9, RecomputeAllSame
<1> HIDE DEF last
<1>13. Keeps(carried, last)
  BY <1>9, <1>10, <1>11, <1>12, SameBooksFollow DEF Sound
<1>14. BrokerShape(last) /\ FillsOnce(last) /\ BooksBalance(last)
  BY <1>13 DEF Keeps, Follows, Sound
<1>15. last.settlements = b.settlements /\ last.trades = freed.trades
  BY <1>6, <1>7, <1>12 DEF SameBooks, Keeps, Follows, Continues
<1>16. record.day = day
  OBVIOUS
<1> HIDE DEF record, c
<1>17. /\ DOMAIN c = BrokerFields /\ c.orders = last.orders /\ c.trades = last.trades /\ c.positions = last.positions
       /\ c.settlements = Append(last.settlements, record) /\ c.lastSettled = day
  BY <1>1, <1>14 DEF BrokerShape, BrokerFields
<1>18. IsSeq(c.settlements)
  BY <1>14, <1>17, AppendFacts DEF BrokerShape
<1>19. BrokerShape(c)
  BY <1>14, <1>17, <1>18 DEF BrokerShape
<1>20. FillsOnce(c) /\ BooksBalance(c)
  BY <1>14, <1>17 DEF FillsOnce, BooksBalance
<1>21. c.trades = b.trades
  BY <1>6, <1>15, <1>17 DEF Keeps
<1>22. Settles(b, c, day)
  BY <1>15, <1>16, <1>17, <1>19, <1>20, <1>21 DEF Settles, Sound
<1> QED BY <1>22 DEF c

LEMMA NewBrokerSound ==
    ASSUME NEW known
    PROVE  /\ Sound([NewBroker EXCEPT !.meta = known])
           /\ [NewBroker EXCEPT !.meta = known].trades = <<>>
           /\ [NewBroker EXCEPT !.meta = known].settlements = <<>>
           /\ [NewBroker EXCEPT !.meta = known].lastSettled = NoPrice
<1> DEFINE c == [NewBroker EXCEPT !.meta = known]
           accounts == [a \in Accounts |-> DefaultAccount]
           positions == [k \in {} |-> NoSide]
           quotes == [s \in Symbols |-> NoPrice]
<1>1. DOMAIN positions = {}
  OBVIOUS
<1> HIDE DEF accounts, positions, quotes
<1>2. NewBroker = [accounts |-> accounts, orders |-> <<>>, positions |-> positions, meta |-> {}, quotes |-> quotes,
                   trades |-> <<>>, recent |-> <<>>, settlements |-> <<>>, lastSettled |-> NoPrice]
  BY DEF NewBroker, accounts, positions, quotes
<1>3. /\ DOMAIN c = BrokerFields /\ c.orders = <<>> /\ c.trades = <<>> /\ c.settlements = <<>>
      /\ c.positions = positions /\ c.lastSettled = NoPrice
  BY <1>2 DEF BrokerFields
<1> HIDE DEF c
<1>4. BrokerShape(c)
  BY <1>1, <1>3, EmptyIsSeq DEF BrokerShape
<1>5. FillsOnce(c) /\ BooksBalance(c)
  BY <1>1, <1>3, EmptyIsSeq DEF FillsOnce, BooksBalance
<1> QED BY <1>3, <1>4, <1>5 DEF Sound, c

-----------------------------------------------------------------------------
(***************************************************************************)
(* What the trades' publication adds, and sequences of sequences.          *)
(***************************************************************************)
LEMMA FunctionIsSeq ==
    ASSUME NEW n \in Nat, NEW p, p = [i \in 1 .. n |-> p[i]]
    PROVE  IsSeq(p) /\ Len(p) = n
<1> DEFINE S == {p[i] : i \in 1 .. n}
<1>1. \A i \in 1 .. n : p[i] \in S
  OBVIOUS
<1> HIDE DEF S
<1>2. p \in [1 .. n -> S]
  BY <1>1
<1>3. p \in Seq(S) /\ Len(p) = n
  BY <1>2
<1> QED BY <1>3 DEF IsSeq

LEMMA InSeq ==
    ASSUME NEW s, IsSeq(s), NEW S, \A i \in DOMAIN s : s[i] \in S
    PROVE  s \in Seq(S)
<1>1. PICK T : s \in Seq(T)
  BY DEF IsSeq
<1> QED BY <1>1

LEMMA AnnouncedIs ==
    ASSUME NEW trades, IsSeq(trades), IsInjective(trades), NEW t
    PROVE  /\ IsSeq(Announced(trades, t)) /\ IsInjective(Announced(trades, t))
           /\ ToSet(Announced(trades, t)) = ToSet(trades) \cup {t}
<1> DEFINE n == Len(trades)
           c == Append(trades, t)
<1>1. n \in Nat /\ DOMAIN trades = 1 .. n
  BY SeqFacts
<1>2. CASE Contains(trades, t)
  <2>1. Announced(trades, t) = trades
    BY <1>2 DEF Announced
  <2>2. t \in ToSet(trades)
    BY <1>1, <1>2 DEF Contains, ToSet
  <2> QED BY <2>1, <2>2
<1>3. CASE ~Contains(trades, t)
  <2>1. Announced(trades, t) = c
    BY <1>3 DEF Announced
  <2>2. \A i \in 1 .. n : trades[i] # t
    BY <1>3 DEF Contains
  <2>3. IsSeq(c) /\ DOMAIN c = 1 .. (n + 1) /\ c[n + 1] = t /\ \A i \in 1 .. n : c[i] = trades[i]
    BY AppendFacts, SeqFacts
  <2> HIDE DEF c, n
  <2>4. IsInjective(c)
    BY <1>1, <2>2, <2>3 DEF IsInjective
  <2>5. ToSet(c) = ToSet(trades) \cup {t}
    <3>1. ASSUME NEW x \in ToSet(c) PROVE x \in ToSet(trades) \cup {t}
      BY <1>1, <2>3, <3>1 DEF ToSet
    <3>2. ASSUME NEW x \in ToSet(trades) PROVE x \in ToSet(c)
      <4>1. PICK i \in 1 .. n : x = trades[i]
        BY <1>1, <3>2 DEF ToSet
      <4>2. i \in DOMAIN c /\ c[i] = x
        BY <1>1, <2>3, <4>1
      <4> QED BY <4>2 DEF ToSet
    <3>3. t \in ToSet(c)
      <4>1. n + 1 \in DOMAIN c
        BY <1>1, <2>3
      <4> QED BY <2>3, <4>1 DEF ToSet
    <3> QED BY <3>1, <3>2, <3>3
  <2> QED BY <2>1, <2>3, <2>4, <2>5
<1> QED BY <1>2, <1>3

(* The hub keeps each trade once. *)
LEMMA AnnouncedAll ==
    ASSUME NEW trades, IsSeq(trades), IsInjective(trades), NEW ts, IsSeq(ts)
    PROVE  /\ IsSeq(FoldLeft(Announced, trades, ts)) /\ IsInjective(FoldLeft(Announced, trades, ts))
           /\ ToSet(FoldLeft(Announced, trades, ts)) = ToSet(trades) \cup ToSet(ts)
<1> DEFINE n == Len(ts)
           r == FoldLeft(Announced, trades, ts)
           Some(k) == {ts[i] : i \in 1 .. k}
<1>1. n \in Nat /\ DOMAIN ts = 1 .. n
  BY SeqFacts
<1> HIDE DEF n
<1>2. Runs("announce", 0, trades, ts, n, r)
  BY <1>1, AnnouncesRun
<1> HIDE DEF r
<1>3. PICK m : /\ m[0] = trades /\ r = m[n]
               /\ \A k \in 1 .. n : m[k] = StepOf("announce", 0, m[k - 1], ts[k])
  BY <1>2 DEF Runs
<1> DEFINE G == {k \in 0 .. n : IsSeq(m[k]) /\ IsInjective(m[k]) /\ ToSet(m[k]) = ToSet(trades) \cup Some(k)}
<1>4. 0 \in G
  <2>1. Some(0) = {} /\ 0 \in 0 .. n
    BY <1>1
  <2> HIDE DEF Some
  <2> QED BY <1>3, <2>1
<1>5. ASSUME NEW k \in 1 .. n, k - 1 \in G PROVE k \in G
  <2>1. k \in 0 .. n /\ Some(k) = Some(k - 1) \cup {ts[k]}
    BY <1>1
  <2>2. IsSeq(m[k - 1]) /\ IsInjective(m[k - 1]) /\ ToSet(m[k - 1]) = ToSet(trades) \cup Some(k - 1)
    BY <1>5
  <2>3. m[k] = Announced(m[k - 1], ts[k])
    BY <1>3 DEF StepOf
  <2> HIDE DEF Some
  <2>4. IsSeq(m[k]) /\ IsInjective(m[k]) /\ ToSet(m[k]) = ToSet(m[k - 1]) \cup {ts[k]}
    BY <2>2, <2>3, AnnouncedIs
  <2> QED BY <2>1, <2>2, <2>4
<1> HIDE DEF G
<1>6. n \in G
  BY <1>1, <1>4, <1>5, CountUp
<1>7. Some(n) = ToSet(ts)
  BY <1>1 DEF ToSet
<1> HIDE DEF Some
<1> QED BY <1>3, <1>6, <1>7 DEF G, r

(* The changes of an operation hold the trades it added. *)
LEMMA ChangesAre ==
    ASSUME NEW b, NEW c, Extends(b.trades, c.trades)
    PROVE  /\ IsSeq(Changes(b, c).trades)
           /\ ToSet(c.trades) = ToSet(b.trades) \cup ToSet(Changes(b, c).trades)
           /\ DOMAIN Changes(b, c) = {"orders", "trades"}
<1> DEFINE s == b.trades
           t == c.trades
           m == Len(s)
           n == Len(t)
           d == Changes(b, c).trades
<1>1. /\ m \in Nat /\ DOMAIN s = 1 .. m /\ n \in Nat /\ DOMAIN t = 1 .. n /\ m <= n
      /\ \A i \in 1 .. m : t[i] = s[i]
  BY SeqFacts DEF Extends
<1>2. PICK S : t \in Seq(S)
  BY DEF Extends, IsSeq
<1>3. d = SubSeq(t, m + 1, n) /\ DOMAIN Changes(b, c) = {"orders", "trades"}
  BY DEF Changes
<1> HIDE DEF d, s, t
<1>4. d \in Seq(S) /\ Len(d) = n - m /\ \A i \in 1 .. (n - m) : d[i] = t[i + m]
  <2>1. \A i \in (m + 1) .. n : t[i] \in S
    BY <1>1, <1>2
  <2>2. /\ m + 1 \in Int /\ n \in Int /\ n - (m + 1) + 1 = n - m
        /\ (IF m + 1 <= n THEN n - (m + 1) + 1 ELSE 0) = n - m
        /\ \A i \in 1 .. (n - m) : (m + 1) + i - 1 = i + m
    <3>1. m \in Nat /\ n \in Nat /\ m <= n
      BY <1>1
    <3> HIDE DEF m, n
    <3> QED BY <3>1
  <2> HIDE DEF m, n
  <2>3. /\ SubSeq(t, m + 1, n) \in Seq(S)
        /\ Len(SubSeq(t, m + 1, n)) = n - m
        /\ \A i \in 1 .. (n - m) : SubSeq(t, m + 1, n)[i] = t[(m + 1) + i - 1]
    BY <2>1, <2>2, SubSeqProperties
  <2> QED BY <1>3, <2>2, <2>3
<1>5. IsSeq(d) /\ DOMAIN d = 1 .. (n - m)
  BY <1>4 DEF IsSeq
<1> HIDE DEF m, n
<1>6. ToSet(t) = ToSet(s) \cup ToSet(d)
  <2>1. ASSUME NEW x \in ToSet(t) PROVE x \in ToSet(s) \cup ToSet(d)
    <3>1. PICK i \in 1 .. n : x = t[i]
      BY <1>1, <2>1 DEF ToSet
    <3>2. CASE i <= m
      <4>1. i \in DOMAIN s /\ s[i] = x
        BY <1>1, <3>1, <3>2
      <4> QED BY <4>1 DEF ToSet
    <3>3. CASE ~(i <= m)
      <4>1. i - m \in 1 .. (n - m) /\ (i - m) + m = i
        BY <1>1, <3>3
      <4>2. i - m \in DOMAIN d /\ d[i - m] = x
        BY <1>4, <1>5, <3>1, <4>1
      <4> QED BY <4>2 DEF ToSet
    <3> QED BY <3>2, <3>3
  <2>2. ASSUME NEW x \in ToSet(s) PROVE x \in ToSet(t)
    <3>1. PICK i \in 1 .. m : x = s[i]
      BY <1>1, <2>2 DEF ToSet
    <3>2. i \in DOMAIN t /\ t[i] = x
      BY <1>1, <3>1
    <3> QED BY <3>2 DEF ToSet
  <2>3. ASSUME NEW x \in ToSet(d) PROVE x \in ToSet(t)
    <3>1. PICK i \in 1 .. (n - m) : x = d[i]
      BY <1>5, <2>3 DEF ToSet
    <3>2. i + m \in DOMAIN t /\ t[i + m] = x
      BY <1>1, <1>4, <3>1
    <3> QED BY <3>2 DEF ToSet
  <2> QED BY <2>1, <2>2, <2>3
<1> QED BY <1>3, <1>5, <1>6 DEF d, s, t

LEMMA LargestUpTo ==
    ASSUME NEW n \in Nat, NEW S \in SUBSET (0 .. n), S # {}
    PROVE  Max(S) \in S
<1> DEFINE T == {n - x : x \in S}
<1>1. T \in SUBSET Nat /\ T # {}
  <2>1. \A x \in S : n - x \in Nat
    OBVIOUS
  <2>2. T \in SUBSET Nat
    BY <2>1
  <2>3. PICK x \in S : TRUE
    OBVIOUS
  <2>4. n - x \in T
    BY <2>3
  <2> QED BY <2>2, <2>4
<1>2. PICK y \in T : \A z \in T : y <= z
  BY <1>1, LeastElement
<1>3. PICK x \in S : y = n - x
  BY <1>2
<1>4. \A z \in S : x >= z
  BY <1>2, <1>3
<1> HIDE DEF T
<1> QED BY <1>4 DEF Max

FlattenTo(seqs) ==
    CHOOSE f : f = [i \in 1 .. Len(seqs) |-> IF i = 1 THEN seqs[i] ELSE f[i - 1] \o seqs[i]]
FlattenStep(seqs, f, i) == IF i = 1 THEN seqs[i] ELSE f[i - 1] \o seqs[i]

IsFlatten(seqs, n, f) == f = [i \in 1 .. n |-> FlattenStep(seqs, f, i)]

LEMMA FlattenExists ==
    ASSUME NEW n \in Nat, NEW seqs
    PROVE  \E f : IsFlatten(seqs, n, f)
<1> DEFINE Fits(g, k) == \A i \in 1 .. k : g[i] = FlattenStep(seqs, g, i)
           G == {k \in Nat : \E g : Fits(g, k)}
<1>1. 0 \in G
  OBVIOUS
<1>2. ASSUME NEW k \in 1 .. n, k - 1 \in G PROVE k \in G
  <2>1. k \in Nat /\ k - 1 \in Nat
    OBVIOUS
  <2>2. PICK g : Fits(g, k - 1)
    BY <1>2
  <2> DEFINE h == [i \in 1 .. k |-> IF i = k THEN FlattenStep(seqs, g, k) ELSE g[i]]
  <2>3. ASSUME NEW i \in 1 .. k PROVE h[i] = FlattenStep(seqs, h, i)
    <3>1. CASE i = 1
      <4>1. k # 1 => g[1] = FlattenStep(seqs, g, 1)
        BY <2>1, <2>2
      <4>2. FlattenStep(seqs, g, 1) = seqs[1] /\ FlattenStep(seqs, h, 1) = seqs[1]
        BY DEF FlattenStep
      <4> QED BY <2>1, <3>1, <4>1, <4>2
    <3>2. CASE i # 1
      <4>1. i - 1 \in 1 .. k /\ i - 1 # k
        BY <2>1, <3>2
      <4>2. h[i - 1] = g[i - 1]
        BY <4>1
      <4>3. h[i] = FlattenStep(seqs, g, i)
        BY <2>1, <2>2
      <4> HIDE DEF h
      <4> QED BY <3>2, <4>2, <4>3 DEF FlattenStep
    <3> QED BY <3>1, <3>2
  <2> HIDE DEF h
  <2>4. Fits(h, k)
    BY <2>3
  <2> QED BY <2>1, <2>4
<1> HIDE DEF G
<1>3. n \in G
  BY <1>1, <1>2, CountUp
<1>4. PICK g : Fits(g, n)
  BY <1>3 DEF G
<1> DEFINE h == [i \in 1 .. n |-> g[i]]
<1>5. ASSUME NEW i \in 1 .. n PROVE h[i] = FlattenStep(seqs, h, i)
  <2>1. i # 1 => i - 1 \in 1 .. n
    OBVIOUS
  <2>2. g[i] = FlattenStep(seqs, g, i)
    BY <1>4
  <2> QED BY <2>1, <2>2 DEF FlattenStep
<1>6. h = [i \in 1 .. n |-> h[i]]
  OBVIOUS
<1> HIDE DEF h
<1> QED BY <1>5, <1>6 DEF IsFlatten

LEMMA FlattenType ==
    ASSUME NEW S, NEW seqs \in Seq(Seq(S))
    PROVE  FlattenSeq(seqs) \in Seq(S)
<1> DEFINE n == Len(seqs)
           f == FlattenTo(seqs)
<1>1. n \in Nat
  OBVIOUS
<1>2. FlattenSeq(seqs) = IF n = 0 THEN seqs ELSE f[n]
  BY DEF FlattenSeq, FlattenTo
<1>3. \A g : IsFlatten(seqs, n, g) <=>
             g = [i \in 1 .. n |-> IF i = 1 THEN seqs[i] ELSE g[i - 1] \o seqs[i]]
  BY DEF IsFlatten, FlattenStep
<1>4. IsFlatten(seqs, n, f)
  BY <1>1, <1>3, FlattenExists DEF FlattenTo
<1>7. \A k \in 1 .. n : seqs[k] \in Seq(S)
  OBVIOUS
<1>5. CASE n = 0
  <2>1. seqs = <<>>
    BY <1>5
  <2>2. <<>> \in Seq(S)
    OBVIOUS
  <2> QED BY <1>2, <1>5, <2>1, <2>2
<1>6. CASE n # 0
  <2> DEFINE G == {k \in 0 .. n : k # 0 => f[k] \in Seq(S)}
  <2> HIDE DEF f, n
  <2>1. 0 \in G
    BY <1>1
  <2>2. ASSUME NEW k \in 1 .. n, k - 1 \in G PROVE k \in G
    <3>1. f[k] = FlattenStep(seqs, f, k) /\ seqs[k] \in Seq(S) /\ k \in 0 .. n
      <4>1. f[k] = FlattenStep(seqs, f, k)
        BY <1>4 DEF IsFlatten
      <4> QED BY <1>1, <1>7, <4>1
    <3>2. k # 1 => f[k - 1] \in Seq(S)
      BY <2>2
    <3>3. FlattenStep(seqs, f, k) \in Seq(S)
      BY <3>1, <3>2 DEF FlattenStep
    <3> QED BY <3>1, <3>3
  <2> HIDE DEF G
  <2>3. n \in G
    <3>1. n \in Nat /\ n \in 0 .. n
      BY <1>1
    <3> QED BY <2>1, <2>2, <3>1, CountUp
  <2>4. f[n] \in Seq(S)
    BY <1>6, <2>3 DEF G
  <2> QED BY <1>2, <1>6, <2>4
<1> QED BY <1>5, <1>6

-----------------------------------------------------------------------------
(***************************************************************************)
(* Feeds deliver events of symbols; the kernel's steps keep it so.          *)
(***************************************************************************)
BarRecords == [t : Int, open : Int, high : Int, low : Int, close : Int]
TickRecords == [t : Int, last : Int, ask : Int \cup {NoPrice}, bid : Int \cup {NoPrice}]
Events ==
    [kind : {"tick", "open", "close"}, symbol : Symbols, dur : Nat, t : Int, bar : BarRecords \cup TickRecords]
FeedNames == {f \in Symbols \X Nat : f[2] = 0 \/ f \in DOMAIN Bars}

LEMMA DayStartType == ASSUME NEW t \in Int PROVE TradingDayStart(t) \in Int
<1> DEFINE start == t - (Day - Evening)
           weekday == (start \div Day) % 7
<1>1. start \in Int
  BY DEF Day, Evening
<1> HIDE DEF start
<1>2. start \div Day \in Int
  BY <1>1 DEF Day
<1>3. weekday \in Int
  BY <1>2
<1>4. TradingDayStart(t) = IF weekday >= 5 THEN start - Day * (weekday - 4) ELSE start
  BY DEF TradingDayStart, start
<1> HIDE DEF weekday
<1> QED BY <1>1, <1>3, <1>4 DEF Day

LEMMA FeedEventsType ==
    ASSUME NEW f \in FeedNames
    PROVE  FeedEvents(f) \in Seq(Events)
<1> DEFINE s == f[1]
           d == f[2]
<1>1. s \in Symbols /\ d \in Nat /\ f = <<s, d>> /\ (d = 0 \/ f \in DOMAIN Bars)
  BY DEF FeedNames
<1> HIDE DEF s, d
<1>2. CASE d = 0
  <2>1. Ticks[s] \in Seq(TickRecords)
    BY <1>1, ReplayAssumption DEF TickRecords
  <2>2. TickEvents(s) =
          [i \in 1 .. Len(Ticks[s]) |->
             [kind |-> "tick", symbol |-> s, dur |-> 0, t |-> Ticks[s][i].t, bar |-> Ticks[s][i]]]
    BY <2>1 DEF TickEvents
  <2>3. \A i \in 1 .. Len(Ticks[s]) :
          [kind |-> "tick", symbol |-> s, dur |-> 0, t |-> Ticks[s][i].t, bar |-> Ticks[s][i]] \in Events
    <3> SUFFICES ASSUME NEW i \in 1 .. Len(Ticks[s])
                 PROVE  [kind |-> "tick", symbol |-> s, dur |-> 0, t |-> Ticks[s][i].t, bar |-> Ticks[s][i]] \in Events
      OBVIOUS
    <3>1. Ticks[s][i] \in TickRecords
      BY <2>1
    <3>2. Ticks[s][i].t \in Int
      BY <3>1 DEF TickRecords
    <3> QED BY <1>1, <3>1, <3>2 DEF Events
  <2>4. Len(Ticks[s]) \in Nat
    BY <2>1
  <2>5. TickEvents(s) \in Seq(Events)
    BY <2>2, <2>3, <2>4
  <2> QED BY <1>2, <2>5 DEF FeedEvents, s, d
<1>3. CASE d # 0
  <2> DEFINE bars == Bars[<<s, d>>]
             pair(i) == <<[kind |-> "open", symbol |-> s, dur |-> d, t |-> OpenTime(bars[i], d), bar |-> bars[i]],
                          [kind |-> "close", symbol |-> s, dur |-> d, t |-> CloseTime(bars[i], d), bar |-> bars[i]]>>
             seqs == [i \in DOMAIN bars |-> pair(i)]
  <2>1. bars \in Seq(BarRecords)
    BY <1>1, <1>3, ReplayAssumption DEF BarRecords
  <2>2. BarEvents(s, d) = FlattenSeq(seqs)
    BY DEF BarEvents
  <2> HIDE DEF bars
  <2>3. ASSUME NEW i \in DOMAIN bars PROVE pair(i) \in Seq(Events)
    <3>1. bars[i] \in BarRecords /\ bars[i].t \in Int
      <4>1. bars[i] \in BarRecords
        BY <2>1
      <4> QED BY <4>1 DEF BarRecords
    <3>2. OpenTime(bars[i], d) \in Int
      BY <1>1, <3>1, DayStartType DEF OpenTime
    <3>3. TradingDayStart(bars[i].t + d) \in Int
      BY <1>1, <3>1, DayStartType
    <3>4. CloseTime(bars[i], d) \in Int
      BY <1>1, <3>1, <3>3 DEF CloseTime
    <3>5. /\ [kind |-> "open", symbol |-> s, dur |-> d, t |-> OpenTime(bars[i], d), bar |-> bars[i]] \in Events
          /\ [kind |-> "close", symbol |-> s, dur |-> d, t |-> CloseTime(bars[i], d), bar |-> bars[i]] \in Events
      BY <1>1, <3>1, <3>2, <3>4 DEF Events
    <3> QED BY <3>5
  <2>4. DOMAIN bars = 1 .. Len(bars) /\ Len(bars) \in Nat
    BY <2>1
  <2>5. seqs \in Seq(Seq(Events))
    <3> HIDE DEF pair
    <3>1. seqs = [i \in 1 .. Len(bars) |-> pair(i)]
      BY <2>4
    <3>2. seqs \in [1 .. Len(bars) -> Seq(Events)]
      BY <2>3, <2>4, <3>1
    <3> HIDE DEF seqs
    <3> QED BY <2>4, <3>2
  <2> HIDE DEF seqs
  <2>6. BarEvents(s, d) \in Seq(Events)
    BY <2>2, <2>5, FlattenType
  <2> QED BY <1>3, <2>6 DEF FeedEvents, s, d
<1> QED BY <1>2, <1>3

LEMMA MissingType ==
    ASSUME NEW fs \in Seq(FeedNames)
    PROVE  Missing(fs) \in Seq(FeedNames)
<1> DEFINE one(i) == IF fs[i] \in registered THEN <<>> ELSE <<fs[i]>>
           seqs == [i \in DOMAIN fs |-> one(i)]
<1>1. DOMAIN fs = 1 .. Len(fs) /\ Len(fs) \in Nat
  OBVIOUS
<1>2. ASSUME NEW i \in DOMAIN fs PROVE one(i) \in Seq(FeedNames)
  OBVIOUS
<1>3. Missing(fs) = FlattenSeq(seqs)
  BY DEF Missing
<1>4. seqs \in Seq(Seq(FeedNames))
  <2> HIDE DEF one
  <2>1. seqs = [i \in 1 .. Len(fs) |-> one(i)]
    BY <1>1
  <2>2. seqs \in [1 .. Len(fs) -> Seq(FeedNames)]
    BY <1>1, <1>2, <2>1
  <2> HIDE DEF seqs
  <2> QED BY <1>1, <2>2
<1> HIDE DEF seqs
<1> QED BY <1>3, <1>4, FlattenType

LEMMA FeedsForType ==
    ASSUME NEW s \in Symbols, NEW d, d = 0 \/ <<s, d>> \in DOMAIN Bars
    PROVE  FeedsFor(s, d) \in Seq(FeedNames)
<1> DEFINE u == Underlying(s)
           first == [i \in DOMAIN u |-> <<u[i], ImplicitDuration>>]
<1>1. u \in Seq(Symbols) /\ Len(u) \in Nat /\ DOMAIN u = 1 .. Len(u)
  BY UnderlyingFacts
<1>2. FeedsFor(s, d) = Append(first, <<s, d>>)
  BY DEF FeedsFor
<1> HIDE DEF u
<1>3. <<s, d>> \in FeedNames
  BY ReplayAssumption DEF FeedNames
<1>4. \A x \in Symbols : <<x, ImplicitDuration>> \in FeedNames
  BY ReplayAssumption DEF FeedNames
<1>5. first \in [1 .. Len(u) -> FeedNames]
  BY <1>1, <1>4
<1>6. first \in Seq(FeedNames)
  BY <1>1, <1>5
<1> HIDE DEF first
<1> QED BY <1>2, <1>3, <1>6

FeedsTyped == feeds \in Seq(Seq(Events))

LEMMA EnsureFeeds ==
    ASSUME FeedsTyped, NEW fs \in Seq(FeedNames), NEW s, NEW source, Ensure(fs, s, source)
    PROVE  FeedsTyped'
<1> DEFINE missing == Missing(fs)
           more == [i \in DOMAIN missing |-> FeedEvents(missing[i])]
<1>1. missing \in Seq(FeedNames) /\ Len(missing) \in Nat /\ DOMAIN missing = 1 .. Len(missing)
  BY MissingType
<1>2. feeds' = feeds \o more
  BY DEF Ensure
<1> HIDE DEF missing
<1>3. \A i \in 1 .. Len(missing) : FeedEvents(missing[i]) \in Seq(Events)
  BY <1>1, FeedEventsType
<1>4. more \in [1 .. Len(missing) -> Seq(Events)]
  BY <1>1, <1>3
<1>5. more \in Seq(Seq(Events))
  BY <1>1, <1>4
<1> HIDE DEF more
<1> QED BY <1>2, <1>5 DEF FeedsTyped

LEMMA DueTyped ==
    ASSUME FeedsTyped, NEW k \in DOMAIN feeds, NEW t
    PROVE  Due(k, t) \in Seq(Events) /\ Rest(k, t) \in Seq(Events)
<1> DEFINE f == feeds[k]
           S == {n \in 0 .. Len(f) : \A i \in 1 .. n : f[i].t = t}
           c == DueCount(k, t)
<1>1. f \in Seq(Events) /\ Len(f) \in Nat
  BY DEF FeedsTyped
<1>2. c = Max(S)
  BY DEF DueCount
<1> HIDE DEF f, c
<1>3. 0 \in S /\ S \in SUBSET (0 .. Len(f))
  BY <1>1
<1> HIDE DEF S
<1>4. c \in 0 .. Len(f)
  BY <1>1, <1>2, <1>3, LargestUpTo
<1>5. SubSeq(f, 1, c) \in Seq(Events)
  <2>1. 1 \in Int /\ c \in Int /\ \A i \in 1 .. c : f[i] \in Events
    BY <1>1, <1>4
  <2> QED BY <2>1, SubSeqProperties
<1>6. SubSeq(f, c + 1, Len(f)) \in Seq(Events)
  <2>1. c + 1 \in Int /\ Len(f) \in Int /\ \A i \in (c + 1) .. Len(f) : f[i] \in Events
    BY <1>1, <1>4
  <2> QED BY <2>1, SubSeqProperties
<1> QED BY <1>5, <1>6 DEF Due, Rest, f, c

(* What an event's quotes are: as many as it shows, all at its time. *)
LEMMA PathFacts ==
    ASSUME NEW e
    PROVE  /\ IsSeq(PathOf(e)) /\ Len(PathOf(e)) \in {1, 4}
           /\ \A i \in 1 .. Len(PathOf(e)) : PathOf(e)[i].t = e.t
<1> DEFINE p == PathOf(e)
           tick == [t |-> e.t, last |-> e.bar.last, ask |-> e.bar.ask, bid |-> e.bar.bid]
           quote(price) == BarQuote(e.symbol, e.t, price)
           prices == <<e.bar.open, e.bar.high, e.bar.low, e.bar.close>>
<1>1. \A price : quote(price).t = e.t
  BY DEF BarQuote
<1>2. CASE e.kind = "tick"
  <2>1. p = <<tick>>
    BY <1>2 DEF PathOf
  <2>2. tick.t = e.t
    OBVIOUS
  <2> HIDE DEF tick, p
  <2>3. p \in Seq({tick}) /\ Len(p) = 1 /\ p[1] = tick
    BY <2>1
  <2>4. IsSeq(p) /\ \A i \in 1 .. Len(p) : p[i].t = e.t
    BY <2>2, <2>3 DEF IsSeq
  <2> QED BY <2>3, <2>4 DEF p
<1>3. CASE e.kind = "open"
  <2> DEFINE first == quote(e.bar.open)
  <2>1. p = <<first>>
    BY <1>3 DEF PathOf
  <2>2. first.t = e.t
    BY <1>1
  <2> HIDE DEF first, p
  <2>3. p \in Seq({first}) /\ Len(p) = 1 /\ p[1] = first
    BY <2>1
  <2>4. IsSeq(p) /\ \A i \in 1 .. Len(p) : p[i].t = e.t
    BY <2>2, <2>3 DEF IsSeq
  <2> QED BY <2>3, <2>4 DEF p
<1>4. CASE e.kind # "tick" /\ e.kind # "open"
  <2>1. p = [i \in 1 .. 4 |-> quote(prices[i])]
    BY <1>4 DEF PathOf
  <2> HIDE DEF quote, prices
  <2>2. p = [i \in 1 .. 4 |-> p[i]] /\ \A i \in 1 .. 4 : p[i] = quote(prices[i])
    BY <2>1
  <2> HIDE DEF p
  <2>3. IsSeq(p) /\ Len(p) = 4
    BY <2>2, FunctionIsSeq
  <2>4. \A i \in 1 .. Len(p) : p[i].t = e.t
    BY <1>1, <2>2, <2>3
  <2> QED BY <2>3, <2>4 DEF p
<1> QED BY <1>2, <1>3, <1>4

(* What a step of the kernel leaves for the session to go through. *)
Synthesized(view, paths, updated) ==
    /\ DOMAIN view = Symbols /\ DOMAIN paths = Symbols
    /\ \A s \in Symbols : IsSeq(paths[s])
    /\ updated \in Seq(Symbols)
    /\ \A i \in DOMAIN updated : view[updated[i]].t \in Int

LEMMA ApplyEventKeeps ==
    ASSUME NEW k, Synthesized(k.visible, k.paths, k.updated), NEW e \in Events
    PROVE  LET after == ApplyEvent(k, e) IN Synthesized(after.visible, after.paths, after.updated)
<1> DEFINE s == e.symbol
           path == PathOf(e)
           hit == Prefer(k.selected[s], Source(e)) = Source(e)
           after == ApplyEvent(k, e)
<1>1. s \in Symbols /\ e.t \in Int
  BY DEF Events
<1>2. /\ after.visible = IF hit THEN [k.visible EXCEPT ![s] = Last(path)] ELSE k.visible
      /\ after.paths = [k.paths EXCEPT ![s] = IF hit \/ e.kind = "tick" THEN path ELSE <<>>]
      /\ after.updated = IF hit /\ ~Contains(k.updated, s) THEN Append(k.updated, s) ELSE k.updated
  BY DEF ApplyEvent
<1> HIDE DEF after
<1>3. IsSeq(path) /\ Len(path) \in {1, 4} /\ \A i \in 1 .. Len(path) : path[i].t = e.t
  BY PathFacts
<1> HIDE DEF hit, path
<1>4. Last(path).t \in Int
  <2>1. Len(path) \in 1 .. Len(path)
    <3>1. Len(path) = 1 \/ Len(path) = 4
      BY <1>3
    <3> QED BY <3>1
  <2> QED BY <1>1, <1>3, <2>1 DEF Last
<1>5. DOMAIN after.paths = Symbols /\ \A x \in Symbols : IsSeq(after.paths[x])
  BY <1>1, <1>2, <1>3, EmptyIsSeq DEF Synthesized
<1>6. DOMAIN after.visible = Symbols
  BY <1>2 DEF Synthesized
<1>7. \A x \in Symbols : k.visible[x].t \in Int => after.visible[x].t \in Int
  BY <1>1, <1>2, <1>4 DEF Synthesized
<1>8. hit => after.visible[s].t \in Int
  BY <1>1, <1>2, <1>4 DEF Synthesized
<1>9. after.updated \in Seq(Symbols)
  BY <1>1, <1>2 DEF Synthesized
<1>10. ASSUME NEW i \in DOMAIN after.updated PROVE after.visible[after.updated[i]].t \in Int
  <2>1. k.updated \in Seq(Symbols) /\ \A j \in DOMAIN k.updated : k.visible[k.updated[j]].t \in Int
    BY DEF Synthesized
  <2>2. CASE i \in DOMAIN k.updated
    <3>1. after.updated[i] = k.updated[i] /\ k.updated[i] \in Symbols
      BY <1>1, <1>2, <2>1, <2>2
    <3> QED BY <1>7, <2>1, <2>2, <3>1
  <2>3. CASE i \notin DOMAIN k.updated
    <3>1. hit /\ after.updated = Append(k.updated, s)
      BY <1>2, <2>3
    <3>2. after.updated[i] = s
      BY <1>1, <2>1, <2>3, <3>1
    <3> QED BY <1>8, <3>1, <3>2
  <2> QED BY <2>2, <2>3
<1> QED BY <1>5, <1>6, <1>9, <1>10 DEF Synthesized, after

LEMMA AfterEventsSynthesized ==
    ASSUME DOMAIN visible = Symbols, NEW events \in Seq(Events)
    PROVE  LET after == AfterEvents(events) IN Synthesized(after.visible, after.paths, after.updated)
<1> DEFINE n == Len(events)
           r == AfterEvents(events)
<1>1. n \in Nat /\ DOMAIN events = 1 .. n /\ \A i \in 1 .. n : events[i] \in Events
  OBVIOUS
<1> HIDE DEF n
<1>2. Runs("event", 0, EventBase, events, n, r)
  BY <1>1, EventsRun
<1> HIDE DEF r
<1>3. PICK m : /\ m[0] = EventBase /\ r = m[n]
               /\ \A k \in 1 .. n : m[k] = StepOf("event", 0, m[k - 1], events[k])
  BY <1>2 DEF Runs
<1> DEFINE G == {k \in 0 .. n : Synthesized(m[k].visible, m[k].paths, m[k].updated)}
<1>4. 0 \in G
  <2>1. Synthesized(EventBase.visible, EventBase.paths, EventBase.updated)
    <3>1. <<>> \in Seq(Symbols) /\ DOMAIN <<>> = {}
      BY EmptyIsSeq
    <3>2. EventBase.visible = visible /\ EventBase.paths = [s \in Symbols |-> <<>>] /\ EventBase.updated = <<>>
      BY DEF EventBase
    <3> QED BY <3>1, <3>2, EmptyIsSeq DEF Synthesized
  <2> QED BY <1>1, <1>3, <2>1
<1>5. ASSUME NEW k \in 1 .. n, k - 1 \in G PROVE k \in G
  <2>1. k \in 0 .. n /\ Synthesized(m[k - 1].visible, m[k - 1].paths, m[k - 1].updated)
    BY <1>1, <1>5
  <2>2. m[k] = ApplyEvent(m[k - 1], events[k]) /\ events[k] \in Events
    BY <1>1, <1>3 DEF StepOf
  <2>3. Synthesized(m[k].visible, m[k].paths, m[k].updated)
    BY <2>1, <2>2, ApplyEventKeeps
  <2> QED BY <2>1, <2>3
<1> HIDE DEF G
<1>6. n \in G
  <2>1. n \in Nat /\ n \in 0 .. n
    BY <1>1
  <2> QED BY <1>4, <1>5, <2>1, CountUp
<1> QED BY <1>3, <1>6 DEF G, r

LEMMA DueEvents ==
    ASSUME FeedsTyped, NEW t
    PROVE  /\ FlattenSeq([k \in DOMAIN feeds |-> Due(k, t)]) \in Seq(Events)
           /\ [k \in DOMAIN feeds |-> Rest(k, t)] \in Seq(Seq(Events))
<1> DEFINE dues == [k \in DOMAIN feeds |-> Due(k, t)]
           rests == [k \in DOMAIN feeds |-> Rest(k, t)]
<1>1. DOMAIN feeds = 1 .. Len(feeds) /\ Len(feeds) \in Nat
  BY DEF FeedsTyped
<1>2. \A k \in 1 .. Len(feeds) : Due(k, t) \in Seq(Events) /\ Rest(k, t) \in Seq(Events)
  BY <1>1, DueTyped
<1>3. dues \in [1 .. Len(feeds) -> Seq(Events)] /\ rests \in [1 .. Len(feeds) -> Seq(Events)]
  BY <1>1, <1>2
<1> HIDE DEF dues, rests
<1>4. dues \in Seq(Seq(Events))
  BY <1>1, <1>3
<1>5. rests \in Seq(Seq(Events))
  BY <1>1, <1>3
<1>6. FlattenSeq(dues) \in Seq(Events)
  BY <1>4, FlattenType
<1> QED BY <1>5, <1>6 DEF dues, rests

-----------------------------------------------------------------------------
(***************************************************************************)
(* What the replay is made of.                                             *)
(***************************************************************************)
SessionOK(s, view) ==
    \/ s = Idle
    \/ /\ "at" \in DOMAIN s /\ s.at \in {"quotes", "broker", "publish"}
       /\ s.todo # <<>> /\ Synthesized(view, s.paths, s.todo)
       /\ s.at = "publish" => IsSeq(s.changes.trades)
TaskOK(c) ==
    \/ c = Idle
    \/ c.at = "insert" /\ c.account \in Accounts /\ c.req \in Requests
    \/ c.at = "publish" /\ IsSeq(c.changes.trades) /\ DOMAIN c.changes = {"orders", "trades"}
BrokerTyped ==
    /\ broker = NoBroker \/ Sound(broker)
    /\ broker = NoBroker => \A t \in Tasks : task[t] = Idle
Typed ==
    /\ FeedsTyped /\ DOMAIN visible = Symbols /\ SessionOK(session, visible)
    /\ DOMAIN task = Tasks /\ \A t \in Tasks : TaskOK(task[t])
    /\ BrokerTyped

LEMMA SoundIsThere == ASSUME NEW b, Sound(b) PROVE b # NoBroker
<1>1. DOMAIN NoBroker = {}
  BY EmptyIsSeq DEF NoBroker
<1> QED BY <1>1 DEF Sound, BrokerShape, BrokerFields

LEMMA NoChangesOK ==
    /\ IsSeq(NoChanges.trades) /\ NoChanges.trades = <<>> /\ DOMAIN NoChanges = {"orders", "trades"}
    /\ ToSet(NoChanges.trades) = {}
  BY EmptyIsSeq DEF NoChanges, ToSet

LEMMA GoesOnOK ==
    ASSUME NEW view, NEW paths, NEW todo, Synthesized(view, paths, todo)
    PROVE  SessionOK(StepGoesOn(todo, paths), view)
  BY DEF StepGoesOn, SessionOK

LEMMA TailSynthesized ==
    ASSUME NEW view, NEW paths, NEW todo, Synthesized(view, paths, todo), todo # <<>>
    PROVE  /\ Synthesized(view, paths, Tail(todo))
           /\ Head(todo) \in Symbols /\ view[Head(todo)].t \in Int
<1>1. todo \in Seq(Symbols) /\ todo # <<>> /\ \A i \in DOMAIN todo : view[todo[i]].t \in Int
  BY DEF Synthesized
<1>2. Tail(todo) \in Seq(Symbols) /\ \A i \in DOMAIN Tail(todo) : i + 1 \in DOMAIN todo /\ Tail(todo)[i] = todo[i + 1]
  BY <1>1
<1>3. Head(todo) \in Symbols /\ 1 \in DOMAIN todo /\ Head(todo) = todo[1]
  BY <1>1
<1> QED BY <1>1, <1>2, <1>3 DEF Synthesized

LEMMA SettleDaySound ==
    ASSUME NEW b, Sound(b), NEW day
    PROVE  /\ Sound(SettleDay(b, day)) /\ SettleDay(b, day).trades = b.trades
           /\ \/ b.lastSettled = day /\ SettleDay(b, day) = b
              \/ b.lastSettled # day /\ Settles(b, SettleDay(b, day), day)
<1>1. CASE b.lastSettled = day
  BY <1>1 DEF SettleDay
<1>2. CASE b.lastSettled # day
  <2>1. SettleDay(b, day) = Settled(b, day)
    BY <1>2 DEF SettleDay
  <2> QED BY <1>2, <2>1, SettledSound DEF Settles
<1> QED BY <1>1, <1>2

(* What each action makes of the broker. *)
LEMMA AskBroker ==
    ASSUME Typed, NEW q \in Asks, Ask(q.symbol, q.dur, q.source)
    PROVE  \/ broker = NoBroker /\ broker' = NoBroker
           \/ broker # NoBroker /\ Keeps(broker, broker')
<1>1. q.symbol \in Symbols
  BY ReplayAssumption
<1>2. CASE broker = NoBroker
  BY <1>2 DEF Ask
<1>3. CASE broker # NoBroker
  <2>1. Sound(broker) /\ broker' = Registered(broker, q.symbol)
    BY <1>3 DEF Ask, Typed, BrokerTyped
  <2> QED BY <1>1, <1>3, <2>1, RegisteredSound
<1> QED BY <1>2, <1>3

LEMMA RuntimeBroker ==
    ASSUME Typed, Runtime
    PROVE  /\ broker = NoBroker /\ Sound(broker') /\ broker'.trades = <<>> /\ broker'.settlements = <<>>
           /\ session = Idle /\ \A t \in Tasks : task[t] = Idle
  BY NewBrokerSound DEF Runtime, Typed, BrokerTyped

LEMMA StepQuoteBroker ==
    ASSUME Typed, StepQuote
    PROVE  /\ session.at = "quotes" /\ session.todo # <<>> /\ visible[Head(session.todo)].t \in Int
           /\ \/ broker' = broker
              \/ /\ broker # NoBroker /\ DayEnds(visible[Head(session.todo)].t)
                 /\ Sound(broker) /\ broker' = SettleDay(broker, clock.day)
<1>1. session.at = "quotes" /\ session # Idle
  BY DEF StepQuote, Idle
<1>2. session.todo # <<>> /\ visible[Head(session.todo)].t \in Int
  BY <1>1, TailSynthesized DEF Typed, SessionOK
<1> QED BY <1>1, <1>2 DEF StepQuote, Typed, BrokerTyped

LEMMA StepBrokerBroker ==
    ASSUME Typed, StepBroker
    PROVE  /\ session.at = "broker" /\ session # Idle /\ session.todo # <<>>
           /\ Synthesized(visible, session.paths, session.todo)
           /\ session'.at = "publish" /\ session'.todo = session.todo /\ session'.paths = session.paths
           /\ "at" \in DOMAIN session'
           /\ \/ broker = NoBroker /\ broker' = NoBroker /\ session'.changes = NoChanges
              \/ broker # NoBroker /\ Follows(broker, broker') /\ session'.changes = Changes(broker, broker')
<1>1. session.at = "broker" /\ session # Idle
  BY DEF StepBroker, Idle
<1>2. session.todo # <<>> /\ Synthesized(visible, session.paths, session.todo)
  BY <1>1 DEF Typed, SessionOK
<1>3. session'.at = "publish" /\ session'.todo = session.todo /\ session'.paths = session.paths /\ "at" \in DOMAIN session'
  BY DEF StepBroker
<1>4. CASE broker = NoBroker
  <2>1. broker' = NoBroker /\ session'.changes = NoChanges
    BY <1>4 DEF StepBroker
  <2> QED BY <1>1, <1>2, <1>3, <1>4, <2>1
<1>5. CASE broker # NoBroker
  <2> DEFINE s == Head(session.todo)
             path == session.paths[s]
  <2>1. broker' = ApplyPath(broker, s, path) /\ session'.changes = Changes(broker, broker')
    BY <1>5 DEF StepBroker, Matching
  <2>2. Sound(broker)
    BY <1>5 DEF Typed, BrokerTyped
  <2>3. IsSeq(path)
    BY <1>2, TailSynthesized DEF Synthesized
  <2> HIDE DEF s, path
  <2>4. Len(path) \in Nat /\ DOMAIN path = 1 .. Len(path)
    BY <2>3, SeqFacts
  <2>5. Follows(broker, broker')
    BY <2>1, <2>2, <2>4, ApplyPathSound
  <2> QED BY <1>1, <1>2, <1>3, <1>5, <2>1, <2>5
<1> QED BY <1>4, <1>5

LEMMA FinishBroker ==
    ASSUME Typed, Finish
    PROVE  Sound(broker) /\ clock # None /\ session = Idle /\ broker' = SettleDay(broker, clock.day)
  BY DEF Finish, Typed, BrokerTyped

LEMMA InsertReadsBroker ==
    ASSUME Typed, NEW t \in Tasks, InsertReads(t)
    PROVE  /\ broker # NoBroker /\ Keeps(broker, broker') /\ task[t] = Idle
           /\ \E c : c.at = "insert" /\ c.account \in Accounts /\ c.req \in Requests
                     /\ task' = [task EXCEPT ![t] = c]
           /\ \E s \in Symbols : Ensure(FeedsFor(s, ImplicitDuration), s, ImplicitSource)
<1>1. PICK a \in Accounts, req \in Requests, hinted \in BOOLEAN :
         /\ Ensure(FeedsFor(req.symbol, ImplicitDuration), req.symbol, ImplicitSource)
         /\ broker' = Registered(broker, req.symbol)
         /\ task' = [task EXCEPT ![t] =
               [at |-> "insert", account |-> a, req |-> req, shown |-> market'.quotes[req.symbol],
                match |-> IF hinted \/ req.symbol \in market'.active THEN market'.quotes[req.symbol] ELSE None,
                under |-> [i \in DOMAIN Underlying(req.symbol) |-> market'.quotes[Underlying(req.symbol)[i]]]]]
  BY DEF InsertReads
<1>2. req.symbol \in Symbols
  BY ReplayAssumption
<1>3. broker # NoBroker /\ Sound(broker) /\ task[t] = Idle
  BY DEF InsertReads, Typed, BrokerTyped
<1>4. Keeps(broker, broker')
  BY <1>1, <1>2, <1>3, RegisteredSound
<1>5. \E c : c.at = "insert" /\ c.account \in Accounts /\ c.req \in Requests /\ task' = [task EXCEPT ![t] = c]
  <2> DEFINE c == [at |-> "insert", account |-> a, req |-> req, shown |-> market'.quotes[req.symbol],
                   match |-> IF hinted \/ req.symbol \in market'.active THEN market'.quotes[req.symbol] ELSE None,
                   under |-> [i \in DOMAIN Underlying(req.symbol) |-> market'.quotes[Underlying(req.symbol)[i]]]]
  <2>1. c.at = "insert" /\ c.account \in Accounts /\ c.req \in Requests
    OBVIOUS
  <2>2. task' = [task EXCEPT ![t] = c]
    BY <1>1
  <2> HIDE DEF c
  <2> QED BY <2>1, <2>2
<1> QED BY <1>1, <1>2, <1>3, <1>4, <1>5

LEMMA InsertOrderBroker ==
    ASSUME Typed, NEW t \in Tasks, InsertOrderIn(t)
    PROVE  /\ broker # NoBroker
           /\ \E inserted, c : /\ Keeps(broker, inserted) /\ Follows(inserted, broker')
                               /\ c.at = "publish" /\ c.changes = Changes(inserted, broker')
                               /\ task' = [task EXCEPT ![t] = c]
<1> DEFINE op == task[t]
           inserted == Inserted(broker, op)
           id == Len(inserted.orders)
           c == [at |-> "publish", order |-> id, status |-> inserted.orders[id].status,
                 changes |-> Changes(inserted, broker')]
<1>1. op.at = "insert"
  BY DEF InsertOrderIn
<1>2. op # Idle /\ op.account \in Accounts /\ op.req \in Requests
  BY <1>1 DEF Typed, TaskOK, Idle
<1>3. broker # NoBroker /\ Sound(broker)
  BY <1>2 DEF Typed, BrokerTyped
<1>4. Keeps(broker, inserted)
  BY <1>2, <1>3, InsertedSound
<1>5. /\ broker' = IF op.match = None THEN inserted ELSE ApplyQuote(inserted, op.req.symbol, op.match)
      /\ task' = [task EXCEPT ![t] = c]
  BY DEF InsertOrderIn
<1>6. c.at = "publish" /\ c.changes = Changes(inserted, broker')
  OBVIOUS
<1> HIDE DEF c, inserted
<1>7. Follows(inserted, broker')
  BY <1>4, <1>5, ApplyQuoteSound, FollowsSelf DEF Keeps, Follows
<1> QED BY <1>3, <1>4, <1>5, <1>6, <1>7

LEMMA CancelBroker ==
    ASSUME Typed, NEW t \in Tasks, Cancel(t)
    PROVE  /\ broker # NoBroker /\ Keeps(broker, broker') /\ task[t] = Idle
           /\ \E c : c.at = "publish" /\ c.changes = NoChanges /\ task' = [task EXCEPT ![t] = c]
<1>1. PICK i \in DOMAIN broker.orders :
         /\ broker' = CancelOrder(broker, i)
         /\ task' = [task EXCEPT ![t] = [at |-> "publish", order |-> i, status |-> "FINISHED", changes |-> NoChanges]]
  BY DEF Cancel
<1>2. broker # NoBroker /\ Sound(broker) /\ task[t] = Idle
  BY DEF Cancel, Typed, BrokerTyped
<1>3. Keeps(broker, broker')
  BY <1>1, <1>2, CancelSound
<1> DEFINE c == [at |-> "publish", order |-> i, status |-> "FINISHED", changes |-> NoChanges]
<1>4. c.at = "publish" /\ c.changes = NoChanges /\ task' = [task EXCEPT ![t] = c]
  BY <1>1
<1> HIDE DEF c
<1> QED BY <1>2, <1>3, <1>4


(* Every action keeps it. *)
LEMMA SoundAfter ==
    ASSUME NEW b, NEW c, Sound(c) \/ Follows(b, c) \/ Keeps(b, c)
    PROVE  Sound(c) /\ c # NoBroker
  BY SoundIsThere DEF Keeps, Follows

LEMMA TypedApart ==
    ASSUME Typed, FeedsTyped', UNCHANGED <<visible, session, task>>, broker' = broker \/ Sound(broker')
    PROVE  Typed'
<1>1. BrokerTyped'
  BY SoundIsThere DEF Typed, BrokerTyped
<1> QED BY <1>1 DEF Typed

LEMMA TypedSession ==
    ASSUME Typed, feeds' = feeds, UNCHANGED <<visible, task>>, broker' = broker \/ Sound(broker'),
           SessionOK(session', visible)
    PROVE  Typed'
<1>1. BrokerTyped'
  BY SoundIsThere DEF Typed, BrokerTyped
<1>2. FeedsTyped'
  BY DEF Typed, FeedsTyped
<1> QED BY <1>1, <1>2 DEF Typed

LEMMA TypedTask ==
    ASSUME Typed, FeedsTyped', UNCHANGED <<visible, session>>, Sound(broker'),
           NEW t \in Tasks, NEW c, TaskOK(c), task' = [task EXCEPT ![t] = c]
    PROVE  Typed'
<1>1. BrokerTyped'
  BY SoundIsThere DEF Typed, BrokerTyped
<1>2. DOMAIN task' = Tasks /\ \A u \in Tasks : TaskOK(task'[u])
  <2> HIDE DEF TaskOK
  <2>1. DOMAIN task = Tasks /\ \A u \in Tasks : TaskOK(task[u])
    BY DEF Typed
  <2>2. \A u \in Tasks : task'[u] = IF u = t THEN c ELSE task[u]
    BY <2>1
  <2> QED BY <2>1, <2>2
<1> QED BY <1>1, <1>2 DEF Typed

LEMMA FeedsStay == ASSUME Typed, feeds' = feeds PROVE FeedsTyped'
  BY DEF Typed, FeedsTyped

LEMMA InitTyped == Init => Typed
<1> SUFFICES ASSUME Init PROVE Typed
  OBVIOUS
<1>1. FeedsTyped
  BY DEF Init, FeedsTyped
<1>2. session = Idle /\ DOMAIN visible = Symbols /\ broker = NoBroker
  BY DEF Init
<1>3. DOMAIN task = Tasks /\ \A t \in Tasks : task[t] = Idle
  BY DEF Init
<1> QED BY <1>1, <1>2, <1>3 DEF Typed, BrokerTyped, SessionOK, TaskOK

LEMMA AskTyped ==
    ASSUME Typed, NEW q \in Asks, Ask(q.symbol, q.dur, q.source)
    PROVE  Typed'
<1>1. q.symbol \in Symbols /\ (q.dur = 0 \/ <<q.symbol, q.dur>> \in DOMAIN Bars)
  BY ReplayAssumption
<1>2. FeedsFor(q.symbol, q.dur) \in Seq(FeedNames)
  BY <1>1, FeedsForType
<1>3. Ensure(FeedsFor(q.symbol, q.dur), q.symbol, q.source) /\ UNCHANGED <<visible, session, task>>
  BY DEF Ask
<1>4. FeedsTyped
  BY DEF Typed
<1>5. FeedsTyped'
  BY <1>2, <1>3, <1>4, EnsureFeeds
<1>6. broker' = broker \/ Sound(broker')
  BY AskBroker, SoundAfter
<1> QED BY <1>3, <1>5, <1>6, TypedApart

LEMMA StepTyped ==
    ASSUME Typed, Step
    PROVE  Typed'
<1> DEFINE events == FlattenSeq([k \in DOMAIN feeds |-> Due(k, NextTime)])
           after == AfterEvents(events)
<1>1. FeedsTyped /\ DOMAIN visible = Symbols
  BY DEF Typed
<1>2. events \in Seq(Events) /\ [k \in DOMAIN feeds |-> Rest(k, NextTime)] \in Seq(Seq(Events))
  BY <1>1, DueEvents
<1>3. /\ feeds' = [k \in DOMAIN feeds |-> Rest(k, NextTime)]
      /\ visible' = after.visible /\ session' = StepGoesOn(after.updated, after.paths)
      /\ UNCHANGED <<broker, task>>
  BY DEF Step
<1>4. FeedsTyped'
  BY <1>2, <1>3 DEF FeedsTyped
<1> HIDE DEF events
<1>5. Synthesized(after.visible, after.paths, after.updated)
  BY <1>1, <1>2, AfterEventsSynthesized
<1> HIDE DEF after
<1>6. SessionOK(session', visible')
  BY <1>3, <1>5, GoesOnOK
<1>7. DOMAIN visible' = Symbols
  BY <1>3, <1>5 DEF Synthesized
<1>8. BrokerTyped'
  BY <1>3 DEF Typed, BrokerTyped
<1> QED BY <1>3, <1>4, <1>6, <1>7, <1>8 DEF Typed

LEMMA StepQuoteTyped ==
    ASSUME Typed, StepQuote
    PROVE  Typed'
<1>1. feeds' = feeds /\ UNCHANGED <<visible, task>> /\ session' = [session EXCEPT !.at = "broker"]
  BY DEF StepQuote, kernel
<1>2. session.at = "quotes" /\ SessionOK(session, visible)
  BY DEF StepQuote, Typed
<1>3. session # Idle
  BY <1>2 DEF Idle
<1>4. /\ "at" \in DOMAIN session' /\ session'.at = "broker"
      /\ session'.todo = session.todo /\ session'.paths = session.paths
  BY <1>1, <1>2, <1>3 DEF SessionOK
<1>5. SessionOK(session', visible)
  BY <1>2, <1>3, <1>4 DEF SessionOK
<1>6. broker' = broker \/ Sound(broker')
  BY StepQuoteBroker, SettleDaySound
<1> QED BY <1>1, <1>5, <1>6, TypedSession

LEMMA StepBrokerTyped ==
    ASSUME Typed, StepBroker
    PROVE  Typed'
<1>1. feeds' = feeds /\ UNCHANGED <<visible, task>>
  BY DEF StepBroker, kernel
<1>2. /\ session.todo # <<>> /\ Synthesized(visible, session.paths, session.todo)
      /\ session'.at = "publish" /\ session'.todo = session.todo /\ session'.paths = session.paths
      /\ "at" \in DOMAIN session'
  BY StepBrokerBroker
<1>3. IsSeq(session'.changes.trades) /\ (broker' = broker \/ Sound(broker'))
  <2>1. CASE broker = NoBroker /\ broker' = NoBroker /\ session'.changes = NoChanges
    BY <2>1, NoChangesOK
  <2>2. CASE broker # NoBroker /\ Follows(broker, broker') /\ session'.changes = Changes(broker, broker')
    BY <2>2, ChangesAre DEF Follows, Continues
  <2> QED BY <2>1, <2>2, StepBrokerBroker
<1>4. SessionOK(session', visible)
  BY <1>2, <1>3 DEF SessionOK
<1> QED BY <1>1, <1>3, <1>4, TypedSession

LEMMA PublishesSession ==
    ASSUME Typed, StepPublishes
    PROVE  /\ session # Idle /\ IsSeq(session.changes.trades) /\ session.at = "publish"
           /\ SessionOK(session', visible)
           /\ session' = Idle \/ session'.at = "quotes"
<1>1. session.at = "publish" /\ session' = StepGoesOn(Tail(session.todo), session.paths)
  BY DEF StepPublishes
<1>2. session # Idle /\ SessionOK(session, visible)
  BY <1>1 DEF Idle, Typed
<1>3. session.todo # <<>> /\ Synthesized(visible, session.paths, session.todo) /\ IsSeq(session.changes.trades)
  BY <1>1, <1>2 DEF SessionOK
<1>4. Synthesized(visible, session.paths, Tail(session.todo))
  BY <1>3, TailSynthesized
<1>5. SessionOK(session', visible)
  BY <1>1, <1>4, GoesOnOK
<1>6. session' = Idle \/ session'.at = "quotes"
  BY <1>1 DEF StepGoesOn
<1> QED BY <1>1, <1>2, <1>3, <1>5, <1>6

LEMMA TaskActionsTyped ==
    ASSUME Typed, NEW t \in Tasks, TaskStep(t)
    PROVE  Typed'
<1>1. CASE InsertReads(t)
  <2>1. PICK s \in Symbols : Ensure(FeedsFor(s, ImplicitDuration), s, ImplicitSource)
    BY <1>1, InsertReadsBroker
  <2>2. FeedsFor(s, ImplicitDuration) \in Seq(FeedNames)
    BY FeedsForType, ReplayAssumption
  <2>3. FeedsTyped'
    BY <2>1, <2>2, EnsureFeeds DEF Typed
  <2>4. PICK c : c.at = "insert" /\ c.account \in Accounts /\ c.req \in Requests /\ task' = [task EXCEPT ![t] = c]
    BY <1>1, InsertReadsBroker
  <2>5. TaskOK(c)
    BY <2>4 DEF TaskOK
  <2>6. Sound(broker')
    BY <1>1, InsertReadsBroker, SoundAfter
  <2>7. UNCHANGED <<visible, session>>
    BY <1>1 DEF InsertReads
  <2> QED BY <2>3, <2>4, <2>5, <2>6, <2>7, TypedTask
<1>2. CASE InsertOrderIn(t)
  <2>1. PICK inserted, c : /\ Keeps(broker, inserted) /\ Follows(inserted, broker')
                           /\ c.at = "publish" /\ c.changes = Changes(inserted, broker')
                           /\ task' = [task EXCEPT ![t] = c]
    BY <1>2, InsertOrderBroker
  <2>2. TaskOK(c)
    BY <2>1, ChangesAre DEF Follows, Continues, TaskOK
  <2>3. UNCHANGED <<visible, session>> /\ feeds' = feeds
    BY <1>2 DEF InsertOrderIn, kernel
  <2>4. Sound(broker')
    BY <2>1, SoundAfter
  <2> QED BY <2>1, <2>2, <2>3, <2>4, FeedsStay, TypedTask
<1>3. CASE TaskPublishes(t)
  <2>1. task[t].at = "publish" /\ task' = [task EXCEPT ![t] = Idle] /\ UNCHANGED <<visible, session, broker>>
        /\ feeds' = feeds
    BY <1>3 DEF TaskPublishes, kernel
  <2>2. task[t] # Idle
    BY <2>1 DEF Idle
  <2>3. Sound(broker')
    BY <2>1, <2>2 DEF Typed, BrokerTyped
  <2>4. TaskOK(Idle)
    BY DEF TaskOK
  <2> QED BY <2>1, <2>3, <2>4, FeedsStay, TypedTask
<1>4. CASE Cancel(t)
  <2>1. PICK c : c.at = "publish" /\ c.changes = NoChanges /\ task' = [task EXCEPT ![t] = c]
    BY <1>4, CancelBroker
  <2>2. TaskOK(c)
    BY <2>1, NoChangesOK DEF TaskOK
  <2>3. Sound(broker')
    BY <1>4, CancelBroker, SoundAfter
  <2>4. UNCHANGED <<visible, session>> /\ feeds' = feeds
    BY <1>4 DEF Cancel, kernel
  <2> QED BY <2>1, <2>2, <2>3, <2>4, FeedsStay, TypedTask
<1> QED BY <1>1, <1>2, <1>3, <1>4 DEF TaskStep

LEMMA TypedStep == Typed /\ [Next]_vars => Typed'
<1> SUFFICES ASSUME Typed, [Next]_vars PROVE Typed'
  OBVIOUS
<1>1. CASE \E q \in Asks : Ask(q.symbol, q.dur, q.source)
  BY <1>1, AskTyped
<1>2. CASE Runtime
  <2>1. Sound(broker')
    BY <1>2, RuntimeBroker
  <2>2. UNCHANGED <<visible, session, task>> /\ feeds' = feeds
    BY <1>2 DEF Runtime, kernel
  <2> QED BY <2>1, <2>2, FeedsStay, TypedApart
<1>3. CASE Step
  BY <1>3, StepTyped
<1>4. CASE StepQuote
  BY <1>4, StepQuoteTyped
<1>5. CASE StepBroker
  BY <1>5, StepBrokerTyped
<1>6. CASE StepPublishes
  <2>1. feeds' = feeds /\ UNCHANGED <<visible, task, broker>>
    BY <1>6 DEF StepPublishes, kernel
  <2>2. SessionOK(session', visible)
    BY <1>6, PublishesSession
  <2> QED BY <2>1, <2>2, TypedSession
<1>7. CASE Finish
  <2>1. Sound(broker')
    BY <1>7, FinishBroker, SettleDaySound
  <2>2. UNCHANGED <<visible, session, task>> /\ feeds' = feeds
    BY <1>7 DEF Finish, kernel
  <2> QED BY <2>1, <2>2, FeedsStay, TypedApart
<1>8. CASE \E t \in Tasks : TaskStep(t)
  BY <1>8, TaskActionsTyped
<1>9. CASE UNCHANGED vars
  <2>1. UNCHANGED <<visible, session, task, broker>> /\ feeds' = feeds
    BY <1>9 DEF vars, kernel
  <2> QED BY <2>1, FeedsStay, TypedApart
<1> QED BY <1>1, <1>2, <1>3, <1>4, <1>5, <1>6, <1>7, <1>8, <1>9 DEF Next, SessionStep

(* The types: of the feeds, of what the session goes through, of what each   *)
(* task is in, and of the broker, whose books balance between two operations *)
(* (replay/kernel.rs, session.rs, runtime.rs, sim.rs).                       *)
THEOREM ReplayTyped == Spec => []Typed
<1>1. Init => Typed
  BY InitTyped
<1>2. Typed /\ [Next]_vars => Typed'
  BY TypedStep
<1> QED BY <1>1, <1>2, PTL DEF Spec

(* However tasks' orders and cancels interleave with quotes that fill them   *)
(* and days that are settled, what is frozen of a position is what the       *)
(* working close orders will take, and never more than there is              *)
(* (replay/sim.rs).                                                          *)
THEOREM FrozenHold == Spec => []FrozenVolumes
<1>1. Typed => FrozenVolumes
  BY BooksAreFrozen DEF Typed, BrokerTyped, Sound, FrozenVolumes
<1> QED BY <1>1, ReplayTyped, PTL

-----------------------------------------------------------------------------
(***************************************************************************)
(* The trading days settle in order.                                       *)
(***************************************************************************)
LEMMA TradingDayFacts ==
    ASSUME NEW t \in Int
    PROVE  /\ TradingDay(t) \in Int /\ TradingDay(t) % Day = 0
           /\ \A d \in Int : d % Day = 0 /\ t > TradingDayEnd(d) => TradingDay(t) > d
<1> DEFINE q == t \div 24
           r == t % 24
           days == q + (IF r >= 18 THEN 1 ELSE 0)
           weekday == days % 7
           next == IF weekday >= 5 THEN days + 7 - weekday ELSE days
<1>1. q \in Int /\ r \in 0 .. 23 /\ t = 24 * q + r
  OBVIOUS
<1>2. TradingDay(t) = 24 * next
  BY DEF TradingDay, Day, Evening
<1> HIDE DEF q, r
<1>3. days \in Int /\ days >= q /\ (r >= 18 => days = q + 1)
  BY <1>1
<1> HIDE DEF days
<1>4. weekday \in 0 .. 6
  BY <1>3
<1> HIDE DEF weekday
<1>5. next \in Int /\ next >= days
  BY <1>3, <1>4
<1> HIDE DEF next
<1>6. TradingDay(t) \in Int /\ TradingDay(t) % Day = 0
  BY <1>2, <1>5 DEF Day
<1>7. ASSUME NEW d \in Int, d % Day = 0, t > TradingDayEnd(d)
      PROVE  TradingDay(t) > d
  <2>1. PICK e \in Int : d = 24 * e
    <3>1. d \div 24 \in Int /\ d = 24 * (d \div 24) + (d % 24)
      OBVIOUS
    <3>2. d = 24 * (d \div 24)
      BY <1>7, <3>1 DEF Day
    <3> QED BY <3>1, <3>2
  <2>2. t >= 24 * e + 18
    BY <1>7, <2>1 DEF TradingDayEnd, Evening
  <2>3. q >= e + 1 \/ (q = e /\ r >= 18)
    BY <1>1, <2>2
  <2>4. days >= e + 1
    BY <1>1, <1>3, <2>3
  <2> QED BY <1>2, <1>3, <1>5, <2>1, <2>4
<1> QED BY <1>6, <1>7

ClockOK(c) ==
    c = None \/ (/\ c \in [day : Int, end : Int] /\ c.day % Day = 0
                 /\ c.end = TradingDayEnd(c.day))
SettledUpTo(b, c) ==
    /\ \A i \in DOMAIN b.settlements :
          /\ c # None /\ b.settlements[i].day \in Int /\ b.settlements[i].day <= c.day
          /\ b.lastSettled # c.day => b.settlements[i].day < c.day
    /\ \A i, k \in DOMAIN b.settlements : i < k => b.settlements[i].day < b.settlements[k].day
DaysInOrder == ClockOK(clock) /\ (broker # NoBroker => SettledUpTo(broker, clock))

LEMMA DayOfOK ==
    ASSUME NEW t \in Int
    PROVE  /\ ClockOK(DayOf(t)) /\ DayOf(t) # None
           /\ \A c : ClockOK(c) /\ c # None /\ t > c.end => DayOf(t).day > c.day
<1>1. TradingDay(t) \in Int /\ TradingDay(t) % Day = 0
  BY TradingDayFacts
<1>2. TradingDayEnd(TradingDay(t)) \in Int
  BY <1>1 DEF TradingDayEnd, Evening
<1>3. DayOf(t) \in [day : Int, end : Int] /\ DayOf(t).day = TradingDay(t)
      /\ DayOf(t).end = TradingDayEnd(TradingDay(t))
  BY <1>1, <1>2 DEF DayOf
<1>4. DayOf(t) # None
  BY <1>3, ReplayAssumption DEF None
<1>5. ASSUME NEW c, ClockOK(c), c # None, t > c.end
      PROVE  DayOf(t).day > c.day
  <2>1. c.day \in Int /\ c.day % Day = 0 /\ t > TradingDayEnd(c.day)
    BY <1>5 DEF ClockOK
  <2> QED BY <1>3, <2>1, TradingDayFacts
<1> QED BY <1>1, <1>3, <1>4, <1>5 DEF ClockOK

LEMMA SettleDayInOrder ==
    ASSUME NEW b, Sound(b), NEW c, ClockOK(c), c # None, SettledUpTo(b, c)
    PROVE  /\ SettledUpTo(SettleDay(b, c.day), c)
           /\ \A d : ClockOK(d) /\ d # None /\ d.day > c.day => SettledUpTo(SettleDay(b, c.day), d)
<1> DEFINE after == SettleDay(b, c.day)
           s == b.settlements
           r == after.settlements
<1>1. c.day \in Int
  BY DEF ClockOK
<1>2. IsSeq(s) /\ Len(s) \in Nat /\ DOMAIN s = 1 .. Len(s)
  BY SeqFacts DEF Sound, BrokerShape
<1>3. after = b \/ Settles(b, after, c.day)
  BY SettleDaySound
<1>4. /\ \A i \in DOMAIN r : r[i].day \in Int /\ r[i].day <= c.day
      /\ after.lastSettled = c.day \/ after = b
      /\ \A i, k \in DOMAIN r : i < k => r[i].day < r[k].day
  <2>1. CASE after = b
    BY <2>1 DEF SettledUpTo
  <2>2. CASE after # b
    <3>1. Settles(b, after, c.day) /\ b.lastSettled # c.day
      BY <2>2, SettleDaySound
    <3>2. PICK record : record.day = c.day /\ r = Append(s, record)
      BY <3>1 DEF Settles
    <3> HIDE DEF after
    <3>3. PICK S : s \in Seq(S)
      BY <1>2 DEF IsSeq
    <3>4. s \in Seq(S \cup {record}) /\ record \in S \cup {record}
      BY <3>3
    <3>5. /\ DOMAIN r = 1 .. (Len(s) + 1) /\ r[Len(s) + 1] = record
          /\ \A i \in 1 .. Len(s) : r[i] = s[i]
      <4> HIDE DEF s
      <4> QED BY <3>2, <3>4
    <3>6. \A i \in 1 .. Len(s) : s[i].day \in Int /\ s[i].day < c.day
      BY <1>2, <3>1 DEF SettledUpTo
    <3>7. \A i, k \in 1 .. Len(s) : i < k => s[i].day < s[k].day
      BY <1>2 DEF SettledUpTo
    <3>8. after.lastSettled = c.day
      BY <3>1 DEF Settles
    <3> HIDE DEF r, s
    <3>9. \A i \in DOMAIN r : i \in 1 .. Len(s) \/ i = Len(s) + 1
      BY <1>2, <3>5
    <3>10. \A i \in DOMAIN r : r[i].day \in Int /\ r[i].day <= c.day
      BY <1>1, <3>2, <3>5, <3>6, <3>9
    <3>11. \A i, k \in DOMAIN r : i < k => i \in 1 .. Len(s)
      BY <1>2, <3>5
    <3>12. \A i, k \in DOMAIN r : i < k => r[i].day < r[k].day
      BY <3>2, <3>5, <3>6, <3>7, <3>9, <3>11
    <3> QED BY <3>8, <3>10, <3>12
  <2> QED BY <2>1, <2>2
<1>5. SettledUpTo(after, c)
  BY <1>4 DEF SettledUpTo
<1>6. ASSUME NEW d, ClockOK(d), d # None, d.day > c.day PROVE SettledUpTo(after, d)
  <2>1. d.day \in Int
    BY <1>6 DEF ClockOK
  <2> HIDE DEF after
  <2> QED BY <1>1, <1>4, <1>6, <2>1 DEF SettledUpTo
<1> QED BY <1>5, <1>6

LEMMA SameSettlements ==
    ASSUME DaysInOrder, clock' = clock,
           \/ broker' = broker
           \/ broker # NoBroker /\ Follows(broker, broker')
    PROVE  DaysInOrder'
  BY DEF DaysInOrder, SettledUpTo, Follows, Continues

LEMMA StepQuoteDays ==
    ASSUME Typed, DaysInOrder, StepQuote
    PROVE  DaysInOrder'
<1> DEFINE t == visible[Head(session.todo)].t
<1>1. t \in Int
  BY StepQuoteBroker
<1>2. /\ broker' = IF DayEnds(t) /\ broker # NoBroker THEN SettleDay(broker, clock.day) ELSE broker
      /\ clock' = IF clock = None \/ DayEnds(t) THEN DayOf(t) ELSE clock
  BY DEF StepQuote
<1> HIDE DEF t
<1>3. ClockOK(clock) /\ (broker # NoBroker => Sound(broker) /\ SettledUpTo(broker, clock))
  BY DEF DaysInOrder, Typed, BrokerTyped
<1>4. CASE clock = None
  <2>1. broker' = broker /\ clock' = DayOf(t)
    BY <1>2, <1>4 DEF DayEnds
  <2>2. broker # NoBroker => DOMAIN broker.settlements = {}
    BY <1>3, <1>4 DEF SettledUpTo
  <2>3. broker # NoBroker => SettledUpTo(broker, DayOf(t))
    BY <2>2 DEF SettledUpTo
  <2> QED BY <1>1, <2>1, <2>3, DayOfOK DEF DaysInOrder
<1>5. CASE clock # None /\ DayEnds(t)
  <2>1. clock' = DayOf(t) /\ t > clock.end
    BY <1>2, <1>5 DEF DayEnds
  <2>2. ClockOK(DayOf(t)) /\ DayOf(t) # None /\ DayOf(t).day > clock.day
    BY <1>1, <1>3, <1>5, <2>1, DayOfOK
  <2>3. CASE broker = NoBroker
    BY <1>2, <2>1, <2>2, <2>3 DEF DaysInOrder
  <2>4. CASE broker # NoBroker
    <3>1. broker' = SettleDay(broker, clock.day)
      BY <1>2, <1>5, <2>4
    <3>2. SettledUpTo(SettleDay(broker, clock.day), DayOf(t))
      BY <1>3, <1>5, <2>2, <2>4, SettleDayInOrder
    <3> QED BY <2>1, <2>2, <3>1, <3>2 DEF DaysInOrder
  <2> QED BY <2>3, <2>4
<1>6. CASE clock # None /\ ~DayEnds(t)
  <2>1. broker' = broker /\ clock' = clock
    BY <1>2, <1>6
  <2> QED BY <2>1, SameSettlements
<1> QED BY <1>4, <1>5, <1>6

LEMMA DaysStep == Typed /\ DaysInOrder /\ [Next]_vars => DaysInOrder'
<1> SUFFICES ASSUME Typed, DaysInOrder, [Next]_vars PROVE DaysInOrder'
  OBVIOUS
<1>1. CASE \E q \in Asks : Ask(q.symbol, q.dur, q.source)
  <2>1. PICK q \in Asks : Ask(q.symbol, q.dur, q.source)
    BY <1>1
  <2>2. clock' = clock
    BY <2>1 DEF Ask
  <2>3. broker' = broker \/ (broker # NoBroker /\ Keeps(broker, broker'))
    BY <2>1, AskBroker
  <2> QED BY <2>2, <2>3, SameSettlements DEF Keeps
<1>2. CASE Runtime
  <2>1. clock' = clock /\ broker'.settlements = <<>>
    BY <1>2, RuntimeBroker DEF Runtime
  <2>2. SettledUpTo(broker', clock)
    BY <2>1, EmptyIsSeq DEF SettledUpTo
  <2> QED BY <2>1, <2>2 DEF DaysInOrder
<1>3. CASE Step
  BY <1>3, SameSettlements DEF Step
<1>4. CASE StepQuote
  BY <1>4, StepQuoteDays
<1>5. CASE StepBroker
  <2>1. clock' = clock
    BY <1>5 DEF StepBroker
  <2> QED BY <1>5, <2>1, StepBrokerBroker, SameSettlements
<1>6. CASE StepPublishes
  BY <1>6, SameSettlements DEF StepPublishes
<1>7. CASE Finish
  <2>1. /\ Sound(broker) /\ clock # None /\ broker' = SettleDay(broker, clock.day) /\ clock' = clock
        /\ broker # NoBroker
    BY <1>7, FinishBroker DEF Finish
  <2>2. SettledUpTo(broker', clock)
    BY <2>1, SettleDayInOrder DEF DaysInOrder
  <2> QED BY <2>1, <2>2 DEF DaysInOrder
<1>8. CASE \E t \in Tasks : TaskStep(t)
  <2>1. PICK t \in Tasks : TaskStep(t)
    BY <1>8
  <2>2. CASE InsertReads(t)
    <3>1. clock' = clock
      BY <2>2 DEF InsertReads
    <3> QED BY <2>2, <3>1, InsertReadsBroker, SameSettlements DEF Keeps
  <2>3. CASE InsertOrderIn(t)
    <3>1. clock' = clock
      BY <2>3 DEF InsertOrderIn
    <3>2. PICK inserted : Keeps(broker, inserted) /\ Follows(inserted, broker')
      BY <2>3, InsertOrderBroker
    <3>3. broker # NoBroker /\ Follows(broker, broker')
      BY <2>3, <3>2, InsertOrderBroker, FollowsTrans DEF Keeps
    <3> QED BY <3>1, <3>3, SameSettlements
  <2>4. CASE TaskPublishes(t)
    BY <2>4, SameSettlements DEF TaskPublishes
  <2>5. CASE Cancel(t)
    <3>1. clock' = clock
      BY <2>5 DEF Cancel
    <3> QED BY <2>5, <3>1, CancelBroker, SameSettlements DEF Keeps
  <2> QED BY <2>1, <2>2, <2>3, <2>4, <2>5 DEF TaskStep
<1>9. CASE UNCHANGED vars
  BY <1>9, SameSettlements DEF vars
<1> QED BY <1>1, <1>2, <1>3, <1>4, <1>5, <1>6, <1>7, <1>8, <1>9 DEF Next, SessionStep

(* Each trading day is settled once and in order, whenever the runtime is    *)
(* taken, finish() is called or late feeds take the replay back              *)
(* (replay/session.rs).                                                      *)
THEOREM DaysOnce == Spec => []DaysSettleOnce
<1>1. Init => DaysInOrder
  <2>1. Init => clock = None /\ broker = NoBroker
    BY DEF Init
  <2> QED BY <2>1 DEF DaysInOrder, ClockOK
<1>2. Typed /\ DaysInOrder /\ [Next]_vars => DaysInOrder'
  BY DaysStep
<1>3. DaysInOrder => DaysSettleOnce
  BY DEF DaysInOrder, SettledUpTo, DaysSettleOnce
<1> QED BY <1>1, <1>2, <1>3, ReplayTyped, PTL DEF Spec

-----------------------------------------------------------------------------
(***************************************************************************)
(* What the hubs are told of trades: a fill of the broker has been         *)
(* published, or the session or the task that made it is about to.         *)
(***************************************************************************)
Fills(c) == IF c.at = "publish" THEN ToSet(c.changes.trades) ELSE {}
TradesOf(b) == IF b = NoBroker THEN <<>> ELSE b.trades
TradesTold ==
    /\ IsSeq(told.trades) /\ IsInjective(told.trades)
    /\ \A f : f \in ToSet(TradesOf(broker)) <=>
                 \/ f \in ToSet(told.trades)
                 \/ f \in Fills(session)
                 \/ \E t \in Tasks : f \in Fills(task[t])

LEMMA IdleFills == Fills(Idle) = {}
  BY DEF Fills, Idle

LEMMA SameTradesTold ==
    ASSUME TradesTold, told' = told, TradesOf(broker') = TradesOf(broker),
           Fills(session') = Fills(session), \A t \in Tasks : Fills(task'[t]) = Fills(task[t])
    PROVE  TradesTold'
<1> HIDE DEF Fills, TradesOf
<1> QED BY DEF TradesTold

LEMMA KeepsTrades ==
    ASSUME NEW b, Sound(b), NEW c, c = b \/ Keeps(b, c) \/ (Sound(c) /\ c.trades = b.trades)
    PROVE  TradesOf(c) = TradesOf(b)
  BY SoundIsThere, SoundAfter DEF Keeps, TradesOf

LEMMA PublishTells ==
    ASSUME TradesTold, NEW c, IsSeq(c.trades), Publish(c)
    PROVE  /\ IsSeq(told'.trades) /\ IsInjective(told'.trades)
           /\ ToSet(told'.trades) = ToSet(told.trades) \cup ToSet(c.trades)
<1> DEFINE r == FoldLeft(Announced, told.trades, c.trades)
<1>1. told'.trades = r
  BY DEF Publish
<1>2. IsSeq(r) /\ IsInjective(r) /\ ToSet(r) = ToSet(told.trades) \cup ToSet(c.trades)
  BY AnnouncedAll DEF TradesTold
<1> HIDE DEF r
<1> QED BY <1>1, <1>2

LEMMA TaskChanges ==
    ASSUME NEW c, IsSeq(c.trades), DOMAIN c = {"orders", "trades"}, NEW more
    PROVE  [c EXCEPT !.orders = more].trades = c.trades
  OBVIOUS

LEMMA SessionTradesTold ==
    ASSUME Typed, TradesTold,
           \/ \E q \in Asks : Ask(q.symbol, q.dur, q.source)
           \/ Runtime \/ Step \/ StepQuote \/ Finish \/ UNCHANGED vars
    PROVE  TradesTold'
<1>1. CASE \E q \in Asks : Ask(q.symbol, q.dur, q.source)
  <2>1. PICK q \in Asks : Ask(q.symbol, q.dur, q.source)
    BY <1>1
  <2>2. TradesOf(broker') = TradesOf(broker)
    <3>1. CASE broker = NoBroker /\ broker' = NoBroker
      BY <3>1
    <3>2. CASE broker # NoBroker /\ Keeps(broker, broker')
      BY <3>2, KeepsTrades DEF Typed, BrokerTyped
    <3> QED BY <2>1, <3>1, <3>2, AskBroker
  <2> QED BY <2>1, <2>2, SameTradesTold DEF Ask
<1>2. CASE Runtime
  <2>1. TradesOf(broker') = TradesOf(broker)
    BY <1>2, RuntimeBroker DEF TradesOf
  <2> QED BY <1>2, <2>1, SameTradesTold DEF Runtime
<1>3. CASE Step
  <2>1. session = Idle /\ UNCHANGED <<broker, task, told>>
    BY <1>3 DEF Step
  <2>2. session' = Idle \/ session'.at = "quotes"
    BY <1>3 DEF Step, StepGoesOn
  <2>3. Fills(session') = Fills(session)
    BY <2>1, <2>2, IdleFills DEF Fills
  <2> QED BY <2>1, <2>3, SameTradesTold
<1>4. CASE StepQuote
  <2>1. session' = [session EXCEPT !.at = "broker"] /\ UNCHANGED <<task, told>> /\ session.at = "quotes"
    BY <1>4 DEF StepQuote
  <2>2. session # Idle
    BY <2>1 DEF Idle
  <2>3. session'.at = "broker"
    BY <2>1, <2>2 DEF Typed, SessionOK
  <2>4. Fills(session') = Fills(session)
    BY <2>1, <2>3 DEF Fills
  <2>5. TradesOf(broker') = TradesOf(broker)
    BY <1>4, StepQuoteBroker, SettleDaySound, KeepsTrades
  <2> QED BY <2>1, <2>4, <2>5, SameTradesTold
<1>5. CASE Finish
  <2>1. UNCHANGED <<session, task, told>>
    BY <1>5 DEF Finish
  <2>2. TradesOf(broker') = TradesOf(broker)
    BY <1>5, FinishBroker, SettleDaySound, KeepsTrades
  <2> QED BY <2>1, <2>2, SameTradesTold
<1>6. CASE UNCHANGED vars
  BY <1>6, SameTradesTold DEF vars
<1> QED BY <1>1, <1>2, <1>3, <1>4, <1>5, <1>6

LEMMA StepBrokerTold ==
    ASSUME Typed, TradesTold, StepBroker
    PROVE  TradesTold'
<1>1. UNCHANGED <<task, told>> /\ session.at = "broker" /\ session'.at = "publish"
  BY StepBrokerBroker DEF StepBroker
<1>2. Fills(session) = {} /\ Fills(session') = ToSet(session'.changes.trades)
  BY <1>1 DEF Fills
<1>3. ToSet(TradesOf(broker')) = ToSet(TradesOf(broker)) \cup ToSet(session'.changes.trades)
  <2>1. CASE broker = NoBroker /\ broker' = NoBroker /\ session'.changes = NoChanges
    BY <2>1, NoChangesOK
  <2>2. CASE broker # NoBroker /\ Follows(broker, broker') /\ session'.changes = Changes(broker, broker')
    <3>1. broker' # NoBroker
      BY <2>2, SoundAfter
    <3> QED BY <2>2, <3>1, ChangesAre DEF TradesOf, Follows, Continues
  <2> QED BY <2>1, <2>2, StepBrokerBroker
<1> HIDE DEF Fills, TradesOf
<1> QED BY <1>1, <1>2, <1>3 DEF TradesTold

LEMMA StepPublishesTold ==
    ASSUME Typed, TradesTold, StepPublishes
    PROVE  TradesTold'
<1>1. /\ session.at = "publish" /\ IsSeq(session.changes.trades)
      /\ session' = Idle \/ session'.at = "quotes"
  BY PublishesSession
<1>2. Fills(session) = ToSet(session.changes.trades) /\ Fills(session') = {}
  BY <1>1, IdleFills DEF Fills
<1>3. /\ IsSeq(told'.trades) /\ IsInjective(told'.trades)
      /\ ToSet(told'.trades) = ToSet(told.trades) \cup ToSet(session.changes.trades)
  BY <1>1, PublishTells DEF StepPublishes
<1>4. UNCHANGED <<broker, task>>
  BY DEF StepPublishes
<1> HIDE DEF Fills, TradesOf
<1> QED BY <1>2, <1>3, <1>4 DEF TradesTold

LEMMA TaskTold ==
    ASSUME Typed, TradesTold, NEW t \in Tasks, TaskStep(t)
    PROVE  TradesTold'
<1>1. DOMAIN task = Tasks
  BY DEF Typed
<1>2. CASE InsertReads(t)
  <2>1. UNCHANGED <<session, told>>
    BY <1>2 DEF InsertReads
  <2>2. PICK c : c.at = "insert" /\ task' = [task EXCEPT ![t] = c]
    BY <1>2, InsertReadsBroker
  <2>3. broker # NoBroker /\ Keeps(broker, broker') /\ task[t] = Idle
    BY <1>2, InsertReadsBroker
  <2>4. TradesOf(broker') = TradesOf(broker)
    BY <2>3, KeepsTrades DEF Typed, BrokerTyped
  <2>5. Fills(c) = {}
    BY <2>2 DEF Fills
  <2>6. \A u \in Tasks : Fills(task'[u]) = Fills(task[u])
    BY <1>1, <2>2, <2>3, <2>5, IdleFills
  <2> QED BY <2>1, <2>4, <2>6, SameTradesTold
<1>3. CASE InsertOrderIn(t)
  <2>1. PICK inserted, c : /\ Keeps(broker, inserted) /\ Follows(inserted, broker')
                           /\ c.at = "publish" /\ c.changes = Changes(inserted, broker')
                           /\ task' = [task EXCEPT ![t] = c]
    BY <1>3, InsertOrderBroker
  <2>2. UNCHANGED <<session, told>> /\ task[t].at = "insert" /\ broker # NoBroker /\ broker' # NoBroker
    BY <1>3, <2>1, InsertOrderBroker, SoundAfter DEF InsertOrderIn
  <2>3. Fills(task[t]) = {} /\ Fills(c) = ToSet(Changes(inserted, broker').trades)
    BY <2>1, <2>2 DEF Fills
  <2>4. ToSet(TradesOf(broker')) = ToSet(TradesOf(broker)) \cup Fills(c)
    <3>1. inserted.trades = broker.trades /\ Extends(inserted.trades, broker'.trades)
      BY <2>1 DEF Keeps, Follows, Continues
    <3>2. ToSet(broker'.trades) = ToSet(inserted.trades) \cup ToSet(Changes(inserted, broker').trades)
      BY <3>1, ChangesAre
    <3> QED BY <2>2, <2>3, <3>1, <3>2 DEF TradesOf
  <2>5. \A u \in Tasks : task'[u] = IF u = t THEN c ELSE task[u]
    BY <1>1, <2>1
  <2> HIDE DEF Fills, TradesOf
  <2> QED BY <2>2, <2>3, <2>4, <2>5 DEF TradesTold
<1>4. CASE TaskPublishes(t)
  <2> DEFINE c == task[t].changes
             more == c.orders @@ (task[t].order :> task[t].status)
             what == [c EXCEPT !.orders = more]
  <2>1. task[t].at = "publish" /\ Publish(what) /\ task' = [task EXCEPT ![t] = Idle] /\ UNCHANGED <<broker, session>>
    BY <1>4 DEF TaskPublishes
  <2>2. task[t] # Idle
    BY <2>1 DEF Idle
  <2>3. IsSeq(c.trades) /\ DOMAIN c = {"orders", "trades"}
    BY <2>1, <2>2 DEF Typed, TaskOK
  <2> HIDE DEF more
  <2>4. what.trades = c.trades
    BY <2>3, TaskChanges
  <2> HIDE DEF what
  <2>5. /\ IsSeq(told'.trades) /\ IsInjective(told'.trades)
        /\ ToSet(told'.trades) = ToSet(told.trades) \cup ToSet(c.trades)
    BY <2>1, <2>3, <2>4, PublishTells
  <2>6. Fills(task[t]) = ToSet(c.trades)
    BY <2>1 DEF Fills
  <2>7. \A u \in Tasks : task'[u] = IF u = t THEN Idle ELSE task[u]
    BY <1>1, <2>1
  <2> HIDE DEF Fills, TradesOf, c
  <2> QED BY <2>1, <2>5, <2>6, <2>7, IdleFills DEF TradesTold
<1>5. CASE Cancel(t)
  <2>1. UNCHANGED <<session, told>>
    BY <1>5 DEF Cancel
  <2>2. PICK c : c.at = "publish" /\ c.changes = NoChanges /\ task' = [task EXCEPT ![t] = c]
    BY <1>5, CancelBroker
  <2>3. broker # NoBroker /\ Keeps(broker, broker') /\ task[t] = Idle
    BY <1>5, CancelBroker
  <2>4. TradesOf(broker') = TradesOf(broker)
    BY <2>3, KeepsTrades DEF Typed, BrokerTyped
  <2>5. Fills(c) = {}
    BY <2>2, NoChangesOK DEF Fills
  <2>6. \A u \in Tasks : Fills(task'[u]) = Fills(task[u])
    BY <1>1, <2>2, <2>3, <2>5, IdleFills
  <2> QED BY <2>1, <2>4, <2>6, SameTradesTold
<1> QED BY <1>2, <1>3, <1>4, <1>5 DEF TaskStep

LEMMA TradesToldStep == Typed /\ TradesTold /\ [Next]_vars => TradesTold'
<1> SUFFICES ASSUME Typed, TradesTold, [Next]_vars PROVE TradesTold'
  OBVIOUS
<1> QED BY SessionTradesTold, StepBrokerTold, StepPublishesTold, TaskTold DEF Next, SessionStep

(* Every fill is published, once, whoever of the session and the tasks made  *)
(* it, and no order is filled twice (replay/runtime.rs, sim.rs).             *)
THEOREM FillsPublished == Spec => []FillsArePublished
<1>1. Init => TradesTold
  <2> SUFFICES ASSUME Init PROVE TradesTold
    OBVIOUS
  <2>1. session = Idle /\ broker = NoBroker /\ (\A t \in Tasks : task[t] = Idle) /\ told.trades = <<>>
    BY DEF Init
  <2>2. ToSet(<<>>) = {} /\ IsInjective(<<>>)
    BY EmptyIsSeq DEF ToSet, IsInjective
  <2> QED BY <2>1, <2>2, IdleFills, EmptyIsSeq DEF TradesTold, TradesOf
<1>2. Typed /\ TradesTold /\ [Next]_vars => TradesTold'
  BY TradesToldStep
<1>3. Typed /\ TradesTold => FillsArePublished
  <2> SUFFICES ASSUME Typed, TradesTold PROVE FillsArePublished
    OBVIOUS
  <2>1. broker # NoBroker /\ Quiet => ToSet(told.trades) = ToSet(broker.trades)
    BY IdleFills DEF TradesTold, TradesOf, Quiet
  <2>2. broker # NoBroker => FillsOnce(broker)
    BY DEF Typed, BrokerTyped, Sound
  <2> QED BY <2>1, <2>2 DEF TradesTold, FillsOnce, FillsArePublished
<1> QED BY <1>1, <1>2, <1>3, ReplayTyped, PTL DEF Spec

-----------------------------------------------------------------------------
(***************************************************************************)
(* The rows of a series.  A feed delivers its bars' events one after       *)
(* another, an opening and a closing one for each bar; what it delivers at  *)
(* an instant lies together among the events the kernel applies.           *)
(***************************************************************************)
(* Where the parts of a flattened sequence begin. *)
Placed(seqs, flat, off) ==
    /\ off \in [0 .. Len(seqs) -> Nat] /\ off[0] = 0 /\ Len(flat) = off[Len(seqs)]
    /\ \A i \in 1 .. Len(seqs) :
          /\ off[i] = off[i - 1] + Len(seqs[i]) /\ off[i] <= Len(flat)
          /\ \A j \in 1 .. Len(seqs[i]) : flat[off[i - 1] + j] = seqs[i][j]

LEMMA FlattenPlaces ==
    ASSUME NEW S, NEW seqs \in Seq(Seq(S))
    PROVE  \E off : Placed(seqs, FlattenSeq(seqs), off)
<1> DEFINE n == Len(seqs)
           f == FlattenTo(seqs)
<1>1. n \in Nat
  OBVIOUS
<1>2. FlattenSeq(seqs) = IF n = 0 THEN seqs ELSE f[n]
  BY DEF FlattenSeq, FlattenTo
<1>3. \A g : IsFlatten(seqs, n, g) <=>
             g = [i \in 1 .. n |-> IF i = 1 THEN seqs[i] ELSE g[i - 1] \o seqs[i]]
  BY DEF IsFlatten, FlattenStep
<1>4. IsFlatten(seqs, n, f)
  BY <1>1, <1>3, FlattenExists DEF FlattenTo
<1>5. \A k \in 1 .. n : seqs[k] \in Seq(S)
  OBVIOUS
<1>6. CASE n = 0
  <2> DEFINE off == [i \in 0 .. 0 |-> 0]
  <2>1. FlattenSeq(seqs) = seqs
    BY <1>2, <1>6
  <2>2. Placed(seqs, seqs, off)
    BY <1>6 DEF Placed
  <2> QED BY <2>1, <2>2
<1>7. CASE n # 0
  <2> DEFINE off == [i \in 0 .. n |-> IF i = 0 THEN 0 ELSE Len(f[i])]
             Good(k) == /\ k # 0 => f[k] \in Seq(S)
                        /\ \A i \in 0 .. k : off[i] \in Nat
                        /\ \A i \in 1 .. k :
                              /\ off[i] = off[i - 1] + Len(seqs[i]) /\ off[i] <= Len(f[k])
                              /\ \A j \in 1 .. Len(seqs[i]) : f[k][off[i - 1] + j] = seqs[i][j]
             G == {k \in 0 .. n : Good(k)}
  <2>0. off[0] = 0 /\ \A i \in 1 .. n : off[i] = Len(f[i])
    BY <1>1
  <2> HIDE DEF f, n, off
  <2>1. 0 \in G
    <3>1. \A i \in 0 .. 0 : i = 0
      OBVIOUS
    <3>2. \A i \in 1 .. 0 : FALSE
      OBVIOUS
    <3>3. 0 \in 0 .. n
      BY <1>1
    <3>4. Good(0)
      BY <2>0, <3>1, <3>2
    <3> HIDE DEF Good
    <3> QED BY <3>3, <3>4
  <2>2. ASSUME NEW k \in 1 .. n, k - 1 \in G PROVE k \in G
    <3>1. k \in Nat /\ k \in 0 .. n /\ k - 1 \in Nat /\ Good(k - 1)
      BY <1>1, <2>2
    <3>2. f[k] = FlattenStep(seqs, f, k) /\ seqs[k] \in Seq(S)
      <4>1. f[k] = FlattenStep(seqs, f, k)
        BY <1>4 DEF IsFlatten
      <4> QED BY <1>5, <4>1
    <3>3. CASE k = 1
      <4>1. f[k] = seqs[k]
        BY <3>2, <3>3 DEF FlattenStep
      <4>2. off[k] = Len(seqs[k]) /\ off[k - 1] = 0 /\ Len(seqs[k]) \in Nat
        BY <2>0, <3>2, <3>3, <4>1
      <4>3. Good(k)
        <5>1. ASSUME NEW i \in 1 .. k
              PROVE  /\ off[i] = off[i - 1] + Len(seqs[i]) /\ off[i] <= Len(f[k])
                     /\ \A j \in 1 .. Len(seqs[i]) : f[k][off[i - 1] + j] = seqs[i][j]
          <6>1. i = k
            BY <3>3
          <6> QED BY <4>1, <4>2, <6>1
        <5>2. \A i \in 0 .. k : off[i] \in Nat
          <6> SUFFICES ASSUME NEW i \in 0 .. k PROVE off[i] \in Nat
            OBVIOUS
          <6>1. i = 0 \/ i = k
            BY <3>3
          <6> QED BY <2>0, <4>2, <6>1
        <5> QED BY <3>2, <4>1, <5>1, <5>2
      <4> HIDE DEF Good
      <4> QED BY <3>1, <4>3
    <3>4. CASE k # 1
      <4> DEFINE g == f[k - 1]
      <4>0. f[k - 1] \in Seq(S)
        BY <3>1, <3>4
      <4>1. f[k] = g \o seqs[k] /\ g \in Seq(S) /\ k - 1 \in 1 .. n
        <5>1. f[k] = f[k - 1] \o seqs[k]
          BY <3>2, <3>4 DEF FlattenStep
        <5>2. k - 1 \in 1 .. n
          <6>1. k - 1 # 0
            BY <3>4
          <6>2. k \in Nat /\ k - 1 \in Nat /\ k \in 1 .. n
            BY <3>1
          <6> HIDE DEF Good
          <6> QED BY <1>1, <6>1, <6>2
        <5> QED BY <4>0, <5>1, <5>2
      <4>2. off[k] = Len(f[k]) /\ off[k - 1] = Len(g)
        BY <2>0, <4>1
      <4>3. \A i \in 1 .. k - 1 :
               /\ off[i] = off[i - 1] + Len(seqs[i]) /\ off[i] <= Len(g)
               /\ \A j \in 1 .. Len(seqs[i]) : g[off[i - 1] + j] = seqs[i][j]
        BY <3>1
      <4>4. \A i \in 0 .. k - 1 : off[i] \in Nat
        BY <3>1
      <4> HIDE DEF g
      <4>5. f[k] \in Seq(S) /\ Len(f[k]) = Len(g) + Len(seqs[k])
            /\ (\A x \in 1 .. Len(g) : f[k][x] = g[x])
            /\ (\A x \in 1 .. Len(seqs[k]) : f[k][Len(g) + x] = seqs[k][x])
        BY <3>2, <4>1
      <4>6. ASSUME NEW i \in 1 .. k
            PROVE  /\ off[i] = off[i - 1] + Len(seqs[i]) /\ off[i] <= Len(f[k])
                   /\ \A j \in 1 .. Len(seqs[i]) : f[k][off[i - 1] + j] = seqs[i][j]
        <5>1. CASE i = k
          <6>1. Len(g) \in Nat /\ Len(seqs[k]) \in Nat
            BY <3>2, <4>1
          <6>2. off[k] = off[k - 1] + Len(seqs[k]) /\ off[k] <= Len(f[k])
            BY <4>2, <4>5, <6>1
          <6>3. \A j \in 1 .. Len(seqs[k]) : f[k][off[k - 1] + j] = seqs[k][j]
            BY <4>2, <4>5
          <6> QED BY <5>1, <6>2, <6>3
        <5>2. CASE i # k
          <6>1. i \in 1 .. k - 1 /\ i - 1 \in 0 .. k - 1
            BY <3>1, <5>2
          <6>2. seqs[i] \in Seq(S)
            BY <1>1, <1>5, <3>1, <6>1
          <6>3. Len(seqs[i]) \in Nat /\ Len(g) \in Nat /\ Len(seqs[k]) \in Nat
            BY <3>2, <4>1, <6>2
          <6>4. off[i] = off[i - 1] + Len(seqs[i]) /\ off[i] <= Len(g) /\ off[i - 1] \in Nat
            BY <4>3, <4>4, <6>1
          <6>5. \A j \in 1 .. Len(seqs[i]) : off[i - 1] + j \in 1 .. Len(g)
            BY <6>3, <6>4
          <6>6. \A j \in 1 .. Len(seqs[i]) : g[off[i - 1] + j] = seqs[i][j]
            BY <4>3, <6>1
          <6>7. \A j \in 1 .. Len(seqs[i]) : f[k][off[i - 1] + j] = seqs[i][j]
            BY <4>5, <6>5, <6>6
          <6>8. off[i] <= Len(f[k])
            <7>1. off[i] \in Nat
              BY <4>4, <6>1
            <7> QED BY <4>5, <6>3, <6>4, <7>1
          <6> QED BY <6>4, <6>7, <6>8
        <5> QED BY <5>1, <5>2
      <4>8. \A i \in 0 .. k : off[i] \in Nat
        <5> SUFFICES ASSUME NEW i \in 0 .. k PROVE off[i] \in Nat
          OBVIOUS
        <5>1. Len(f[k]) \in Nat
          BY <4>5
        <5>2. i = k \/ i \in 0 .. k - 1
          BY <3>1
        <5> QED BY <4>2, <4>4, <5>1, <5>2
      <4>7. Good(k)
        BY <4>5, <4>6, <4>8
      <4> HIDE DEF Good
      <4> QED BY <3>1, <4>7
    <3> QED BY <3>3, <3>4
  <2> HIDE DEF G
  <2>3. n \in G
    <3>1. n \in Nat /\ n \in 0 .. n
      BY <1>1
    <3> QED BY <2>1, <2>2, <3>1, CountUp
  <2>4. Good(n)
    BY <2>3 DEF G
  <2>5. \A i \in 0 .. n : off[i] \in Nat
    BY <2>4
  <2>6. off \in [0 .. n -> Nat]
    <3>1. off = [i \in 0 .. n |-> off[i]]
      BY DEF off
    <3> QED BY <2>5, <3>1
  <2>7. Placed(seqs, f[n], off)
    <3>1. off[n] = Len(f[n])
      BY <1>1, <1>7, <2>0
    <3> QED BY <2>0, <2>4, <2>6, <3>1 DEF Placed, n
  <2> QED BY <1>2, <1>7, <2>7
<1> QED BY <1>6, <1>7

(* What a feed delivers.  The opening and the closing event of the i-th bar   *)
(* are the feed's events number 2i - 1 and 2i.                                *)
ShowsBars(f, es) ==
    /\ Len(es) = 2 * Len(Bars[f])
    /\ \A i \in 1 .. Len(Bars[f]) :
          /\ es[2 * i - 1].kind = "open" /\ es[2 * i - 1].bar = Bars[f][i]
          /\ es[2 * i].kind = "close" /\ es[2 * i].bar = Bars[f][i]
OfFeed(f, es) ==
    \A n \in 1 .. Len(es) :
        es[n].symbol = f[1] /\ es[n].dur = f[2] /\ (es[n].kind = "tick" <=> f[2] = 0)

LEMMA BarEventsAre ==
    ASSUME NEW f \in DOMAIN Bars
    PROVE  ShowsBars(f, FeedEvents(f)) /\ OfFeed(f, FeedEvents(f))
<1> DEFINE s == f[1]
           d == f[2]
           bars == Bars[<<s, d>>]
           opening(i) == [kind |-> "open", symbol |-> s, dur |-> d, t |-> OpenTime(bars[i], d), bar |-> bars[i]]
           closing(i) == [kind |-> "close", symbol |-> s, dur |-> d, t |-> CloseTime(bars[i], d), bar |-> bars[i]]
           pair(i) == <<opening(i), closing(i)>>
           seqs == [i \in DOMAIN bars |-> pair(i)]
           all == {opening(i) : i \in DOMAIN bars} \cup {closing(i) : i \in DOMAIN bars}
           n == Len(bars)
           es == FeedEvents(f)
<1>1. s \in Symbols /\ d \in Nat \ {0} /\ f = <<s, d>>
  BY ReplayAssumption
<1>2. bars \in Seq(BarRecords) /\ Bars[f] = bars
  BY <1>1, ReplayAssumption DEF BarRecords
<1>3. es = FlattenSeq(seqs)
  BY <1>1 DEF BarEvents, FeedEvents
<1> HIDE DEF s, d, bars, es
<1>4. DOMAIN bars = 1 .. n /\ n \in Nat
  BY <1>2
<1> HIDE DEF n
<1>5. \A i \in 1 .. n : opening(i) \in all /\ closing(i) \in all
  BY <1>4
<1>6. \A i \in 1 .. n :
        /\ opening(i).kind = "open" /\ opening(i).symbol = s /\ opening(i).dur = d /\ opening(i).bar = bars[i]
        /\ closing(i).kind = "close" /\ closing(i).symbol = s /\ closing(i).dur = d /\ closing(i).bar = bars[i]
  OBVIOUS
<1> HIDE DEF opening, closing, all
<1>7. \A i \in 1 .. n : /\ pair(i) \in Seq(all) /\ Len(pair(i)) = 2
                        /\ pair(i)[1] = opening(i) /\ pair(i)[2] = closing(i)
  BY <1>5
<1>8. seqs \in [1 .. n -> Seq(all)] /\ \A i \in 1 .. n : seqs[i] = pair(i)
  <2> HIDE DEF pair
  <2> QED BY <1>4, <1>7
<1>9. seqs \in Seq(Seq(all)) /\ Len(seqs) = n
  <2> HIDE DEF seqs
  <2> QED BY <1>4, <1>8
<1> HIDE DEF seqs, pair
<1>10. es \in Seq(all)
  BY <1>3, <1>9, FlattenType
<1>11. PICK off : Placed(seqs, es, off)
  BY <1>3, <1>9, FlattenPlaces
<1>12. /\ off \in [0 .. n -> Nat] /\ off[0] = 0 /\ Len(es) = off[n]
       /\ \A i \in 1 .. n : off[i] = off[i - 1] + 2
       /\ \A i \in 1 .. n : es[off[i - 1] + 1] = opening(i) /\ es[off[i - 1] + 2] = closing(i)
  <2>1. \A i \in 1 .. n : Len(seqs[i]) = 2 /\ seqs[i][1] = opening(i) /\ seqs[i][2] = closing(i)
    BY <1>7, <1>8
  <2>2. /\ off \in [0 .. n -> Nat] /\ off[0] = 0 /\ Len(es) = off[n]
        /\ \A i \in 1 .. n : off[i] = off[i - 1] + Len(seqs[i])
        /\ \A i \in 1 .. n : \A j \in 1 .. Len(seqs[i]) : es[off[i - 1] + j] = seqs[i][j]
    BY <1>9, <1>11 DEF Placed
  <2>3. ASSUME NEW i \in 1 .. n
        PROVE  es[off[i - 1] + 1] = opening(i) /\ es[off[i - 1] + 2] = closing(i)
    <3>1. 1 \in 1 .. Len(seqs[i]) /\ 2 \in 1 .. Len(seqs[i])
      BY <2>1
    <3> QED BY <2>1, <2>2, <3>1
  <2>4. \A i \in 1 .. n : off[i] = off[i - 1] + 2
    BY <2>1, <2>2
  <2> QED BY <2>2, <2>3, <2>4
<1> DEFINE G == {i \in 0 .. n : off[i] = 2 * i}
<1>13. 0 \in G
  BY <1>4, <1>12
<1>14. \A i \in 1 .. n : i - 1 \in G => i \in G
  BY <1>4, <1>12
<1> HIDE DEF G
<1>15. \A i \in 0 .. n : i \in G
  BY <1>4, <1>13, <1>14, CountUp
<1>16. \A i \in 0 .. n : off[i] = 2 * i
  BY <1>15 DEF G
<1>17. Len(es) = 2 * n
  BY <1>4, <1>12, <1>16
<1>18. ASSUME NEW i \in 1 .. n PROVE es[2 * i - 1] = opening(i) /\ es[2 * i] = closing(i)
  <2>1. off[i - 1] = 2 * (i - 1) /\ i \in Int
    BY <1>4, <1>16
  <2>2. off[i - 1] + 1 = 2 * i - 1 /\ off[i - 1] + 2 = 2 * i
    BY <2>1
  <2>3. es[off[i - 1] + 1] = opening(i) /\ es[off[i - 1] + 2] = closing(i)
    BY <1>12
  <2> QED BY <2>2, <2>3
<1>19. ShowsBars(f, es)
  BY <1>2, <1>6, <1>17, <1>18 DEF ShowsBars, n
<1>20. ASSUME NEW k \in 1 .. Len(es)
       PROVE  es[k].symbol = s /\ es[k].dur = d /\ es[k].kind # "tick"
  <2>1. es[k] \in all
    BY <1>10
  <2>2. \E i \in 1 .. n : es[k] = opening(i) \/ es[k] = closing(i)
    BY <1>4, <2>1 DEF all
  <2> QED BY <1>6, <2>2
<1>21. OfFeed(f, es)
  BY <1>1, <1>20 DEF OfFeed
<1> QED BY <1>19, <1>21 DEF es

LEMMA FeedEventsAre ==
    ASSUME NEW f \in FeedNames
    PROVE  OfFeed(f, FeedEvents(f))
<1>1. CASE f \in DOMAIN Bars
  BY <1>1, BarEventsAre
<1>2. CASE f \notin DOMAIN Bars
  <2> DEFINE s == f[1]
  <2>1. s \in Symbols /\ f[2] = 0
    BY <1>2 DEF FeedNames
  <2>2. Ticks[s] \in Seq(TickRecords)
    BY <2>1, ReplayAssumption DEF TickRecords
  <2>3. FeedEvents(f) =
          [i \in 1 .. Len(Ticks[s]) |->
             [kind |-> "tick", symbol |-> s, dur |-> 0, t |-> Ticks[s][i].t, bar |-> Ticks[s][i]]]
    BY <2>1, <2>2 DEF FeedEvents, TickEvents
  <2> DEFINE n == Len(Ticks[s])
  <2>4. n \in Nat
    BY <2>2
  <2> HIDE DEF s, n
  <2>5. Len(FeedEvents(f)) = n
    BY <2>3, <2>4 DEF n
  <2>6. ASSUME NEW i \in 1 .. n
        PROVE  FeedEvents(f)[i] =
                 [kind |-> "tick", symbol |-> s, dur |-> 0, t |-> Ticks[s][i].t, bar |-> Ticks[s][i]]
    BY <2>3 DEF n
  <2> QED BY <2>1, <2>5, <2>6 DEF OfFeed, s
<1> QED BY <1>1, <1>2

(* The rows of a bar series after n of its feed's events: bars in order, all *)
(* but the last closed, the last being the one the n-th event is of.          *)
RowRecords == [t : Int, closed : BOOLEAN]
RowsAt(r, f, n) ==
    /\ r \in Seq(RowRecords)
    /\ \A i, k \in 1 .. Len(r) : i < k => r[i].t < r[k].t /\ r[i].closed
    /\ n = 0 => r = <<>>
    /\ n # 0 => /\ r # <<>>
                /\ \E m \in 1 .. Len(Bars[f]) :
                      r[Len(r)].t = Bars[f][m].t /\ n = IF r[Len(r)].closed THEN 2 * m ELSE 2 * m - 1

LEMMA RowsEnd ==
    ASSUME NEW f, NEW n, NEW m \in 1 .. Len(Bars[f]), NEW w \in Seq(RowRecords),
           \A i, k \in 1 .. Len(w) : i < k => w[i].t < w[k].t /\ w[i].closed,
           w # <<>>, w[Len(w)].t = Bars[f][m].t,
           n # 0, n = IF w[Len(w)].closed THEN 2 * m ELSE 2 * m - 1
    PROVE  RowsAt(w, f, n)
  BY DEF RowsAt

LEMMA WindowedIs ==
    ASSUME NEW S, NEW seq \in Seq(S), Len(seq) # 0
    PROVE  /\ Windowed(seq) \in Seq(S)
           /\ \E a \in 1 .. Len(seq) :
                 /\ Len(Windowed(seq)) = Len(seq) - a + 1
                 /\ \A i \in 1 .. Len(seq) - a + 1 : Windowed(seq)[i] = seq[a + i - 1]
<1> DEFINE n == Len(seq)
           b == n - Width + 1
           a == Max({1, b})
<1>1. n \in Nat \ {0} /\ Width \in Nat \ {0} /\ seq \in [1 .. n -> S]
  BY ReplayAssumption
<1> HIDE DEF n
<1>2. b \in Int /\ b <= n
  BY <1>1
<1> HIDE DEF b
<1>3. a \in {1, b} /\ a >= 1
  <2>1. CASE b >= 1
    <3>1. b \in {1, b} /\ \A y \in {1, b} : b >= y
      BY <1>2, <2>1
    <3> QED BY <1>2, <3>1 DEF Max
  <2>2. CASE ~ (b >= 1)
    <3>1. 1 \in {1, b} /\ \A y \in {1, b} : 1 >= y
      BY <1>2, <2>2
    <3> QED BY <1>2, <3>1 DEF Max
  <2> QED BY <2>1, <2>2
<1>4. a \in 1 .. n
  BY <1>1, <1>2, <1>3
<1>5. Windowed(seq) = SubSeq(seq, a, n)
  BY DEF Windowed, n, b
<1> HIDE DEF a
<1>6. a \in Int /\ n \in Int /\ a <= n /\ \A i \in a .. n : seq[i] \in S
  BY <1>1, <1>4
<1>7. /\ SubSeq(seq, a, n) \in Seq(S) /\ Len(SubSeq(seq, a, n)) = n - a + 1
      /\ \A i \in 1 .. n - a + 1 : SubSeq(seq, a, n)[i] = seq[a + i - 1]
  BY <1>6, SubSeqProperties
<1> QED BY <1>4, <1>5, <1>7 DEF n

(* A row that continues the rows is put after them, one that closes the last  *)
(* replaces it.                                                              *)
LEMMA WindowedRows ==
    ASSUME NEW r \in Seq(RowRecords), \A i, k \in 1 .. Len(r) : i < k => r[i].t < r[k].t /\ r[i].closed,
           Len(r) # 0
    PROVE  LET w == Windowed(r) IN
           /\ w \in Seq(RowRecords) /\ Len(w) # 0 /\ w[Len(w)] = r[Len(r)]
           /\ \A i, k \in 1 .. Len(w) : i < k => w[i].t < w[k].t /\ w[i].closed
<1> DEFINE w == Windowed(r)
           n == Len(r)
<1>1. PICK a \in 1 .. n : /\ Len(w) = n - a + 1
                          /\ \A i \in 1 .. n - a + 1 : w[i] = r[a + i - 1]
  BY WindowedIs
<1>2. w \in Seq(RowRecords)
  BY WindowedIs
<1> HIDE DEF w
<1>3. n \in Nat /\ a \in Nat /\ Len(w) \in Nat
  BY <1>2
<1>4. Len(w) # 0 /\ w[Len(w)] = r[n]
  <2> DEFINE l == n - a + 1
  <2>1. l \in 1 .. l /\ a + l - 1 = n /\ l # 0
    BY <1>1, <1>3
  <2>2. Len(w) = l /\ \A i \in 1 .. l : w[i] = r[a + i - 1]
    BY <1>1
  <2> HIDE DEF l
  <2>3. w[l] = r[a + l - 1]
    BY <2>1, <2>2
  <2> QED BY <2>1, <2>2, <2>3
<1>5. ASSUME NEW i \in 1 .. Len(w), NEW k \in 1 .. Len(w), i < k
      PROVE  w[i].t < w[k].t /\ w[i].closed
  <2>1. w[i] = r[a + i - 1] /\ w[k] = r[a + k - 1]
    BY <1>1
  <2>2. a + i - 1 \in 1 .. n /\ a + k - 1 \in 1 .. n /\ a + i - 1 < a + k - 1
    BY <1>1, <1>3, <1>5
  <2>3. r[a + i - 1].t < r[a + k - 1].t /\ r[a + i - 1].closed
    BY <2>2
  <2> QED BY <2>1, <2>3
<1> QED BY <1>2, <1>4, <1>5 DEF w

LEMMA OpensRow ==
    ASSUME NEW f \in DOMAIN Bars, NEW m \in 1 .. Len(Bars[f]), NEW r, RowsAt(r, f, 2 * (m - 1)),
           NEW row, row = [t |-> Bars[f][m].t, closed |-> FALSE]
    PROVE  RowsAt(PushRow(r, row), f, 2 * m - 1)
<1> DEFINE a == Append(r, row)
           w == Windowed(a)
           n == Len(r)
<1>1. /\ Bars[f] \in Seq(BarRecords)
      /\ \A i, k \in DOMAIN Bars[f] : i < k => Bars[f][i].t < Bars[f][k].t
  BY ReplayAssumption DEF BarRecords
<1>2. m \in Nat /\ DOMAIN Bars[f] = 1 .. Len(Bars[f]) /\ Bars[f][m] \in BarRecords
  BY <1>1
<1>3. row \in RowRecords
  BY <1>2 DEF BarRecords, RowRecords
<1>4. r \in Seq(RowRecords) /\ n \in Nat
  BY DEF RowsAt
<1>5. a \in Seq(RowRecords) /\ Len(a) = n + 1 /\ a[n + 1] = row /\ \A i \in 1 .. n : a[i] = r[i]
  BY <1>3, <1>4
<1> HIDE DEF a
<1>6. n # 0 => r[n].closed /\ r[n].t < row.t
  <2> SUFFICES ASSUME n # 0 PROVE r[n].closed /\ r[n].t < row.t
    OBVIOUS
  <2>1. n \in 1 .. n /\ r[n] \in RowRecords
    BY <1>4
  <2>2. 2 * (m - 1) # 0
    BY <1>4, <2>1 DEF RowsAt
  <2>3. PICK x \in 1 .. Len(Bars[f]) :
           r[n].t = Bars[f][x].t /\ 2 * (m - 1) = IF r[n].closed THEN 2 * x ELSE 2 * x - 1
    BY <2>2 DEF RowsAt
  <2>4. x \in Nat
    OBVIOUS
  <2>5. r[n].closed /\ x = m - 1
    BY <1>2, <2>3, <2>4
  <2>6. x < m /\ x \in DOMAIN Bars[f] /\ m \in DOMAIN Bars[f]
    BY <1>2, <2>4, <2>5
  <2> QED BY <1>1, <2>3, <2>5, <2>6
<1>7. ASSUME NEW i \in 1 .. Len(a), NEW k \in 1 .. Len(a), i < k
      PROVE  a[i].t < a[k].t /\ a[i].closed
  <2>1. i \in 1 .. n /\ a[i] = r[i] /\ r[i] \in RowRecords
    BY <1>4, <1>5, <1>7
  <2>2. CASE k \in 1 .. n
    <3>1. a[k] = r[k] /\ r[i].t < r[k].t /\ r[i].closed
      BY <1>5, <1>7, <2>1, <2>2 DEF RowsAt
    <3> QED BY <2>1, <3>1
  <2>3. CASE k \notin 1 .. n
    <3>1. k = n + 1 /\ a[k] = row /\ n # 0 /\ n \in 1 .. n
      BY <1>4, <1>5, <2>1, <2>3
    <3>2. r[i].t <= r[n].t /\ r[i].closed
      <4>0. r[n] \in RowRecords /\ r[i] \in RowRecords
        BY <1>4, <2>1, <3>1
      <4>1. r[n].closed /\ r[n].t \in Int /\ r[i].t \in Int
        BY <1>6, <3>1, <4>0 DEF RowRecords
      <4>2. CASE i = n
        BY <4>1, <4>2
      <4>3. CASE i # n
        <5>1. i < n
          BY <1>4, <2>1, <4>3
        <5>2. r[i].t < r[n].t /\ r[i].closed
          BY <2>1, <3>1, <5>1 DEF RowsAt
        <5> QED BY <4>1, <5>2
      <4> QED BY <4>2, <4>3
    <3>3. r[i].t \in Int /\ r[n].t \in Int /\ row.t \in Int
      <4>1. r[n] \in RowRecords
        BY <1>4, <3>1
      <4> QED BY <1>3, <2>1, <4>1 DEF RowRecords
    <3> QED BY <1>6, <2>1, <3>1, <3>2, <3>3
  <2> QED BY <2>2, <2>3
<1>8. /\ w \in Seq(RowRecords) /\ Len(w) # 0 /\ w[Len(w)] = row
      /\ \A i, k \in 1 .. Len(w) : i < k => w[i].t < w[k].t /\ w[i].closed
  <2>1. Len(a) # 0
    BY <1>4, <1>5
  <2> QED BY <1>5, <1>7, <2>1, WindowedRows
<1>9. PushRow(r, row) = w
  BY DEF PushRow, a
<1> HIDE DEF w
<1>10. w # <<>> /\ 2 * m - 1 # 0
  BY <1>2, <1>8
<1>11. w[Len(w)].t = Bars[f][m].t /\ ~ w[Len(w)].closed
  BY <1>8
<1>12. RowsAt(w, f, 2 * m - 1)
  BY <1>8, <1>10, <1>11, RowsEnd
<1> QED BY <1>9, <1>12

LEMMA ClosesRow ==
    ASSUME NEW f \in DOMAIN Bars, NEW m \in 1 .. Len(Bars[f]), NEW r, RowsAt(r, f, 2 * m - 1),
           NEW row, row = [t |-> Bars[f][m].t, closed |-> TRUE]
    PROVE  RowsAt(PushRow(r, row), f, 2 * m)
<1> DEFINE n == Len(r)
           w == [r EXCEPT ![n] = row]
<1>1. Bars[f] \in Seq(BarRecords)
  BY ReplayAssumption DEF BarRecords
<1>2. m \in Nat /\ m # 0 /\ Bars[f][m] \in BarRecords
  BY <1>1
<1>3. row \in RowRecords
  BY <1>2 DEF BarRecords, RowRecords
<1>4. r \in Seq(RowRecords) /\ n \in Nat /\ 2 * m - 1 # 0
  BY <1>2 DEF RowsAt
<1>5. r # <<>> /\ n # 0 /\ n \in 1 .. n
  BY <1>4 DEF RowsAt
<1>6. r[n].t = row.t
  <2>1. PICK x \in 1 .. Len(Bars[f]) :
           r[n].t = Bars[f][x].t /\ 2 * m - 1 = IF r[n].closed THEN 2 * x ELSE 2 * x - 1
    BY <1>4 DEF RowsAt
  <2>2. x \in Nat
    OBVIOUS
  <2>3. x = m
    BY <1>2, <2>1, <2>2
  <2> QED BY <2>1, <2>3
<1>7. PushRow(r, row) = w
  BY <1>5, <1>6 DEF PushRow, Last
<1>8. w \in Seq(RowRecords) /\ Len(w) = n /\ w[n] = row /\ \A i \in 1 .. n : i # n => w[i] = r[i]
  BY <1>3, <1>4, <1>5
<1> HIDE DEF w
<1>9. ASSUME NEW i \in 1 .. n, NEW k \in 1 .. n, i < k
      PROVE  w[i].t < w[k].t /\ w[i].closed
  <2>1. i # n /\ w[i] = r[i] /\ r[i].t < r[k].t /\ r[i].closed
    BY <1>4, <1>8, <1>9 DEF RowsAt
  <2>2. w[k].t = r[k].t
    BY <1>6, <1>8
  <2> QED BY <2>1, <2>2
<1>10. w # <<>>
  BY <1>5, <1>8
<1>11. w[Len(w)].t = Bars[f][m].t /\ w[Len(w)].closed
  BY <1>8
<1>12. \A i, k \in 1 .. Len(w) : i < k => w[i].t < w[k].t /\ w[i].closed
  BY <1>8, <1>9
<1>13. RowsAt(w, f, 2 * m)
  <2>1. 2 * m # 0
    BY <1>2
  <2> QED BY <1>8, <1>10, <1>11, <1>12, <2>1, RowsEnd
<1> QED BY <1>7, <1>13

(* The next of the feed's events makes the rows those after one event more.  *)
LEMMA NextRow ==
    ASSUME NEW f \in DOMAIN Bars, NEW n \in Nat, n + 1 <= Len(FeedEvents(f)), NEW r, RowsAt(r, f, n)
    PROVE  RowsAt(PushRow(r, BarRow(FeedEvents(f)[n + 1])), f, n + 1)
<1> DEFINE e == FeedEvents(f)[n + 1]
           bars == Bars[f]
<1>1. ShowsBars(f, FeedEvents(f)) /\ Len(bars) \in Nat
  BY BarEventsAre, ReplayAssumption
<1>2. PICK m \in Nat : n = 2 * m \/ n = 2 * m + 1
  <2> DEFINE m == n \div 2
  <2>1. m \in Nat /\ (n = 2 * m \/ n = 2 * m + 1)
    OBVIOUS
  <2> QED BY <2>1
<1>3. CASE n = 2 * m
  <2>1. m + 1 \in 1 .. Len(bars) /\ n + 1 = 2 * (m + 1) - 1 /\ n = 2 * ((m + 1) - 1)
    BY <1>1, <1>3 DEF ShowsBars
  <2>2. e.kind = "open" /\ e.bar = bars[m + 1]
    BY <1>1, <2>1 DEF ShowsBars
  <2>3. BarRow(e) = [t |-> bars[m + 1].t, closed |-> FALSE]
    BY <2>2 DEF BarRow
  <2> HIDE DEF e
  <2>4. RowsAt(PushRow(r, BarRow(e)), f, 2 * (m + 1) - 1)
    BY <2>1, <2>3, OpensRow
  <2> QED BY <2>1, <2>4 DEF e
<1>4. CASE n = 2 * m + 1
  <2>1. m + 1 \in 1 .. Len(bars) /\ n + 1 = 2 * (m + 1) /\ n = 2 * (m + 1) - 1
    BY <1>1, <1>4 DEF ShowsBars
  <2>2. e.kind = "close" /\ e.bar = bars[m + 1]
    BY <1>1, <2>1 DEF ShowsBars
  <2>3. BarRow(e) = [t |-> bars[m + 1].t, closed |-> TRUE]
    BY <2>2 DEF BarRow
  <2> HIDE DEF e
  <2>4. RowsAt(PushRow(r, BarRow(e)), f, 2 * (m + 1))
    BY <2>1, <2>3, ClosesRow
  <2> QED BY <2>1, <2>4 DEF e
<1> QED BY <1>2, <1>3, <1>4

(* Where the kernel is in its feeds: key names the feed each of feeds is the   *)
(* rest of, done counts the events that have been delivered, and the rows are *)
(* what those made them.  Of a feed that is not registered there are none.    *)
RowsFor(f, n) == {r \in Seq(RowRecords) : RowsAt(r, f, n)}
Tracks(key, done) ==
    /\ key \in [DOMAIN feeds -> FeedNames] /\ done \in [FeedNames -> Nat]
    /\ \A k, l \in DOMAIN feeds : key[k] = key[l] => k = l
    /\ \A k \in DOMAIN feeds : key[k] \in registered
    /\ \A f \in FeedNames \ registered : done[f] = 0
    /\ \A k \in DOMAIN feeds :
          /\ done[key[k]] + Len(feeds[k]) = Len(FeedEvents(key[k]))
          /\ \A i \in 1 .. Len(feeds[k]) : feeds[k][i] = FeedEvents(key[k])[done[key[k]] + i]
    /\ \A f \in DOMAIN Bars : rows[f] \in RowsFor(f, done[f])
Tracked == DOMAIN rows = DOMAIN Bars /\ \E key, done : Tracks(key, done)

LEMMA BarsAreFeeds == DOMAIN Bars \subseteq FeedNames
<1> SUFFICES ASSUME NEW f \in DOMAIN Bars PROVE f \in FeedNames
  OBVIOUS
<1>1. f \in Symbols \X (Nat \ {0})
  BY ReplayAssumption
<1> QED BY <1>1 DEF FeedNames

LEMMA DueIs ==
    ASSUME FeedsTyped, NEW k \in DOMAIN feeds, NEW t
    PROVE  /\ Len(Due(k, t)) \in 0 .. Len(feeds[k])
           /\ \A i \in 1 .. Len(Due(k, t)) : Due(k, t)[i] = feeds[k][i]
           /\ Len(Rest(k, t)) = Len(feeds[k]) - Len(Due(k, t))
           /\ \A i \in 1 .. Len(Rest(k, t)) : Rest(k, t)[i] = feeds[k][Len(Due(k, t)) + i]
<1> DEFINE f == feeds[k]
           S == {n \in 0 .. Len(f) : \A i \in 1 .. n : f[i].t = t}
           c == DueCount(k, t)
<1>1. f \in Seq(Events) /\ Len(f) \in Nat
  BY DEF FeedsTyped
<1>2. c = Max(S)
  BY DEF DueCount
<1> HIDE DEF f, c
<1>3. 0 \in S /\ S \in SUBSET (0 .. Len(f))
  BY <1>1
<1> HIDE DEF S
<1>4. c \in 0 .. Len(f)
  BY <1>1, <1>2, <1>3, LargestUpTo
<1>5. /\ Len(SubSeq(f, 1, c)) = c
      /\ \A i \in 1 .. c : SubSeq(f, 1, c)[i] = f[i]
  <2>1. 1 \in Int /\ c \in Int /\ \A i \in 1 .. c : f[i] \in Events
    BY <1>1, <1>4
  <2>2. /\ Len(SubSeq(f, 1, c)) = IF 1 <= c THEN c - 1 + 1 ELSE 0
        /\ \A i \in 1 .. c - 1 + 1 : SubSeq(f, 1, c)[i] = f[1 + i - 1]
    BY <2>1, SubSeqProperties
  <2>3. \A i \in 1 .. c : i \in 1 .. c - 1 + 1 /\ 1 + i - 1 = i
    BY <1>4
  <2> QED BY <1>4, <2>2, <2>3
<1>6. /\ Len(SubSeq(f, c + 1, Len(f))) = Len(f) - c
      /\ \A i \in 1 .. Len(f) - c : SubSeq(f, c + 1, Len(f))[i] = f[c + i]
  <2>1. c + 1 \in Int /\ Len(f) \in Int /\ \A i \in (c + 1) .. Len(f) : f[i] \in Events
    BY <1>1, <1>4
  <2>2. /\ Len(SubSeq(f, c + 1, Len(f))) = IF c + 1 <= Len(f) THEN Len(f) - (c + 1) + 1 ELSE 0
        /\ \A i \in 1 .. Len(f) - (c + 1) + 1 : SubSeq(f, c + 1, Len(f))[i] = f[(c + 1) + i - 1]
    BY <2>1, SubSeqProperties
  <2>3. \A i \in 1 .. Len(f) - c : i \in 1 .. Len(f) - (c + 1) + 1 /\ (c + 1) + i - 1 = c + i
    BY <1>1, <1>4
  <2> QED BY <1>1, <1>4, <2>2, <2>3
<1>7. Due(k, t) = SubSeq(f, 1, c) /\ Rest(k, t) = SubSeq(f, c + 1, Len(f))
  BY DEF Due, Rest, f, c
<1> QED BY <1>1, <1>4, <1>5, <1>6, <1>7 DEF f

(* The rows when the feeds before the k-th have delivered what is due of them *)
(* and the k-th has delivered j events.                                      *)
CountAt(due, k, j, l) == IF l < k THEN due[l] ELSE IF l = k THEN j ELSE 0
Stage(R, key, done, due, n, k, j) ==
    /\ DOMAIN R = DOMAIN Bars
    /\ \A l \in 1 .. n :
          key[l] \in DOMAIN Bars => RowsAt(R[key[l]], key[l], done[key[l]] + CountAt(due, k, j, l))
    /\ \A f \in DOMAIN Bars : (\A l \in 1 .. n : key[l] # f) => RowsAt(R[f], f, done[f])

LEMMA StageGrows ==
    ASSUME NEW n \in Nat, NEW key \in [1 .. n -> FeedNames], NEW done \in [FeedNames -> Nat], NEW due,
           \A k, l \in 1 .. n : key[k] = key[l] => k = l,
           NEW k \in 1 .. n, NEW j \in Nat, done[key[k]] + j + 1 <= Len(FeedEvents(key[k])),
           NEW acc, Stage(acc.rows, key, done, due, n, k, j),
           NEW e, e = FeedEvents(key[k])[done[key[k]] + j + 1]
    PROVE  Stage(ApplyEvent(acc, e).rows, key, done, due, n, k, j + 1)
<1> DEFINE f == key[k]
           R == acc.rows
           Q == ApplyEvent(acc, e).rows
           c == done[f] + j
<1>1. f \in FeedNames /\ c \in Nat /\ c + 1 = done[f] + j + 1 /\ f = <<f[1], f[2]>>
  BY DEF FeedNames
<1>2. e.symbol = f[1] /\ e.dur = f[2] /\ (e.kind = "tick" <=> f[2] = 0)
  <2>1. OfFeed(f, FeedEvents(f)) /\ Len(FeedEvents(f)) \in Nat
    BY <1>1, FeedEventsAre, FeedEventsType
  <2>2. c + 1 \in 1 .. Len(FeedEvents(f))
    BY <1>1, <2>1
  <2> QED BY <1>1, <2>1, <2>2 DEF OfFeed
<1>3. f[2] = 0 <=> f \notin DOMAIN Bars
  <2>1. f \in DOMAIN Bars => f[2] # 0
    BY ReplayAssumption
  <2> QED BY <1>1, <2>1 DEF FeedNames
<1>4. Q = IF e.kind = "tick" THEN R ELSE [R EXCEPT ![<<e.symbol, e.dur>>] = PushRow(@, BarRow(e))]
  BY DEF ApplyEvent
<1> HIDE DEF Q, R, f
<1>5. DOMAIN R = DOMAIN Bars
  BY DEF Stage, R
<1>6. /\ DOMAIN Q = DOMAIN Bars
      /\ f \in DOMAIN Bars => Q[f] = PushRow(R[f], BarRow(e))
      /\ \A g \in DOMAIN Bars : g # f => Q[g] = R[g]
  BY <1>1, <1>2, <1>3, <1>4, <1>5
<1>7. ASSUME NEW l \in 1 .. n, key[l] \in DOMAIN Bars
      PROVE  RowsAt(Q[key[l]], key[l], done[key[l]] + CountAt(due, k, j + 1, l))
  <2>1. RowsAt(R[key[l]], key[l], done[key[l]] + CountAt(due, k, j, l))
    BY <1>7 DEF Stage, R
  <2>2. CASE l = k
    <3>1. CountAt(due, k, j, l) = j /\ CountAt(due, k, j + 1, l) = j + 1
      BY <2>2 DEF CountAt
    <3>2. RowsAt(R[f], f, c) /\ f \in DOMAIN Bars
      BY <1>7, <2>1, <2>2, <3>1 DEF f
    <3>3. c + 1 <= Len(FeedEvents(f)) /\ e = FeedEvents(f)[c + 1]
      BY <1>1 DEF f
    <3> HIDE DEF c
    <3>4. RowsAt(PushRow(R[f], BarRow(FeedEvents(f)[c + 1])), f, c + 1)
      BY <1>1, <3>2, <3>3, NextRow
    <3>5. RowsAt(Q[f], f, c + 1)
      BY <1>6, <3>2, <3>3, <3>4
    <3>6. RowsAt(Q[f], f, done[f] + (j + 1))
      <4>1. done[f] \in Nat /\ c + 1 = done[f] + (j + 1)
        BY <1>1 DEF c
      <4> QED BY <3>5, <4>1
    <3> QED BY <2>2, <3>1, <3>6 DEF f
  <2>3. CASE l # k
    <3>1. CountAt(due, k, j, l) = CountAt(due, k, j + 1, l)
      BY <2>3 DEF CountAt
    <3>2. key[l] # f
      BY <2>3 DEF f
    <3> QED BY <1>6, <1>7, <2>1, <3>1, <3>2
  <2> QED BY <2>2, <2>3
<1>8. ASSUME NEW g \in DOMAIN Bars, \A l \in 1 .. n : key[l] # g
      PROVE  RowsAt(Q[g], g, done[g])
  <2>1. RowsAt(R[g], g, done[g])
    BY <1>8 DEF Stage, R
  <2>2. g # f
    BY <1>8 DEF f
  <2> QED BY <1>6, <2>1, <2>2
<1>9. Stage(Q, key, done, due, n, k, j + 1)
  BY <1>6, <1>7, <1>8 DEF Stage
<1> QED BY <1>9 DEF Q

LEMMA StageTurns ==
    ASSUME NEW R, NEW key, NEW done, NEW due, NEW n \in Nat, NEW k \in 1 .. n,
           Stage(R, key, done, due, n, k, due[k])
    PROVE  Stage(R, key, done, due, n, k + 1, 0)
<1>1. \A l \in 1 .. n : CountAt(due, k, due[k], l) = CountAt(due, k + 1, 0, l)
  BY DEF CountAt
<1> QED BY <1>1 DEF Stage

(* What the kernel applies at an instant brings each of its feeds' rows on by *)
(* what that feed delivered.                                                 *)
DueOf(t) == [k \in DOMAIN feeds |-> Due(k, t)]
LEMMA AppliedRows ==
    ASSUME FeedsTyped, DOMAIN rows = DOMAIN Bars, NEW key, NEW done, Tracks(key, done), NEW t
    PROVE  LET n == Len(feeds) IN
           Stage(AfterEvents(FlattenSeq(DueOf(t))).rows, key, done, [k \in 1 .. n |-> Len(Due(k, t))], n, n + 1, 0)
<1> DEFINE n == Len(feeds)
           due == [k \in 1 .. n |-> Len(Due(k, t))]
           seqs == DueOf(t)
           es == FlattenSeq(seqs)
           N == Len(es)
           r == AfterEvents(es)
<1>1. n \in Nat /\ DOMAIN feeds = 1 .. n
  BY DEF FeedsTyped
<1> HIDE DEF n
<1>2. \A k \in 1 .. n : Due(k, t) \in Seq(Events) /\ seqs[k] = Due(k, t)
  BY <1>1, DueTyped DEF DueOf
<1>3. seqs \in [1 .. n -> Seq(Events)]
  BY <1>1, <1>2 DEF DueOf
<1> HIDE DEF seqs
<1>4. seqs \in Seq(Seq(Events)) /\ Len(seqs) = n
  BY <1>1, <1>3
<1>5. es \in Seq(Events)
  BY <1>4, FlattenType
<1>6. PICK off : Placed(seqs, es, off)
  BY <1>4, FlattenPlaces
<1> HIDE DEF es
<1>7. N \in Nat /\ DOMAIN es = 1 .. N
  BY <1>5
<1> HIDE DEF N
<1>8. Runs("event", 0, EventBase, es, N, r)
  BY <1>7, EventsRun
<1> HIDE DEF r
<1>9. PICK m : /\ m[0] = EventBase /\ r = m[N]
               /\ \A p \in 1 .. N : m[p] = StepOf("event", 0, m[p - 1], es[p])
  BY <1>8 DEF Runs
<1>10. /\ off \in [0 .. n -> Nat] /\ off[0] = 0 /\ N = off[n]
       /\ \A k \in 1 .. n :
             /\ off[k] = off[k - 1] + due[k] /\ off[k] <= N
             /\ \A j \in 1 .. due[k] : es[off[k - 1] + j] = Due(k, t)[j]
  <2>1. /\ off \in [0 .. n -> Nat] /\ off[0] = 0 /\ N = off[n]
        /\ \A k \in 1 .. n :
              /\ off[k] = off[k - 1] + Len(seqs[k]) /\ off[k] <= N
              /\ \A j \in 1 .. Len(seqs[k]) : es[off[k - 1] + j] = seqs[k][j]
    BY <1>4, <1>6 DEF Placed, N
  <2>2. \A k \in 1 .. n : Len(seqs[k]) = due[k] /\ seqs[k] = Due(k, t)
    BY <1>2
  <2> HIDE DEF due
  <2> QED BY <2>1, <2>2
<1>11. \A k \in 1 .. n : due[k] \in Nat /\ due[k] = Len(Due(k, t))
  BY <1>2
<1> HIDE DEF due
<1>12. /\ key \in [1 .. n -> FeedNames] /\ done \in [FeedNames -> Nat]
       /\ \A k, l \in 1 .. n : key[k] = key[l] => k = l
  BY <1>1 DEF Tracks
<1> DEFINE At(p, k, j) == Stage(m[p].rows, key, done, due, n, k, j)
           G == {k \in 0 .. n : At(off[k], k + 1, 0)}
<1>13. 0 \in G
  <2>1. m[off[0]].rows = rows
    BY <1>9, <1>10 DEF EventBase
  <2>2. \A l \in 1 .. n : CountAt(due, 0 + 1, 0, l) = 0
    BY <1>1 DEF CountAt
  <2>3. \A l \in 1 .. n : key[l] \in DOMAIN Bars =>
           RowsAt(rows[key[l]], key[l], done[key[l]] + CountAt(due, 0 + 1, 0, l))
    <3> SUFFICES ASSUME NEW l \in 1 .. n, key[l] \in DOMAIN Bars
                 PROVE  RowsAt(rows[key[l]], key[l], done[key[l]] + CountAt(due, 0 + 1, 0, l))
      OBVIOUS
    <3>1. done[key[l]] \in Nat
      BY <1>12
    <3>2. done[key[l]] + CountAt(due, 0 + 1, 0, l) = done[key[l]]
      BY <2>2, <3>1
    <3>3. RowsAt(rows[key[l]], key[l], done[key[l]])
      BY DEF Tracks, RowsFor
    <3> QED BY <3>2, <3>3
  <2>4. \A f \in DOMAIN Bars : RowsAt(rows[f], f, done[f])
    BY DEF Tracks, RowsFor
  <2>5. At(off[0], 0 + 1, 0)
    BY <2>1, <2>3, <2>4 DEF Stage
  <2> HIDE DEF At
  <2> QED BY <1>1, <2>5
<1>14. ASSUME NEW k \in 1 .. n, k - 1 \in G PROVE k \in G
  <2> DEFINE base == off[k - 1]
             f == key[k]
             H == {j \in 0 .. due[k] : At(base + j, k, j)}
  <2>1. k \in Nat /\ k \in 0 .. n /\ k - 1 \in 0 .. n /\ k \in DOMAIN feeds
    BY <1>1
  <2>2. base \in Nat /\ due[k] \in Nat /\ base + due[k] <= N /\ off[k] = base + due[k]
    BY <1>10, <1>11, <2>1
  <2>3. At(base, k, 0)
    <3>1. (k - 1) + 1 = k
      BY <2>1
    <3>2. At(off[k - 1], (k - 1) + 1, 0)
      BY <1>14
    <3> HIDE DEF At
    <3> QED BY <3>1, <3>2
  <2>4. 0 \in H
    <3>1. base + 0 = base
      BY <2>2
    <3> HIDE DEF At, base
    <3> QED BY <2>2, <2>3, <3>1
  <2>5. /\ due[k] <= Len(feeds[k]) /\ Len(feeds[k]) \in Nat
        /\ \A i \in 1 .. due[k] : Due(k, t)[i] = feeds[k][i]
    <3>1. /\ Len(Due(k, t)) \in 0 .. Len(feeds[k])
          /\ \A i \in 1 .. Len(Due(k, t)) : Due(k, t)[i] = feeds[k][i]
      BY <2>1, DueIs
    <3>2. Len(feeds[k]) \in Nat
      BY <2>1 DEF FeedsTyped
    <3> QED BY <1>11, <3>1, <3>2
  <2>6. /\ done[f] + Len(feeds[k]) = Len(FeedEvents(f))
        /\ \A i \in 1 .. Len(feeds[k]) : feeds[k][i] = FeedEvents(f)[done[f] + i]
    BY <2>1 DEF Tracks
  <2>7. f \in FeedNames /\ done[f] \in Nat
    BY <1>12
  <2> HIDE DEF base
  <2>8. ASSUME NEW j \in 1 .. due[k], j - 1 \in H PROVE j \in H
    <3> DEFINE i == j - 1
    <3>1. i \in Nat /\ j = i + 1 /\ j \in 1 .. Len(feeds[k]) /\ j \in Nat
      BY <2>2, <2>5
    <3>2. At(base + i, k, i)
      BY <2>8
    <3>3. base + j \in 1 .. N /\ (base + j) - 1 = base + i
      BY <1>7, <2>2, <3>1
    <3>4. m[base + j] = ApplyEvent(m[base + i], es[base + j])
      BY <1>9, <3>3 DEF StepOf
    <3>5. es[base + j] = FeedEvents(f)[done[f] + j]
      <4>1. es[base + j] = Due(k, t)[j]
        BY <1>10 DEF base
      <4>2. Due(k, t)[j] = feeds[k][j]
        BY <2>5
      <4> QED BY <2>6, <3>1, <4>1, <4>2
    <3>6. done[f] + j = done[f] + i + 1 /\ done[f] + i + 1 <= Len(FeedEvents(f))
      <4>1. Len(feeds[k]) \in Nat /\ done[f] + Len(feeds[k]) = Len(FeedEvents(f))
        BY <2>5, <2>6
      <4>2. i \in Nat /\ j = i + 1 /\ j <= Len(feeds[k]) /\ done[f] \in Nat
        BY <2>7, <3>1, <4>1
      <4> DEFINE a == done[f]
                 l == Len(feeds[k])
                 all == Len(FeedEvents(f))
      <4>3. l \in Nat /\ a + l = all /\ i \in Nat /\ j = i + 1 /\ j <= l /\ a \in Nat
        BY <4>1, <4>2
      <4> HIDE DEF i, a, l, all
      <4>4. a + j = a + i + 1 /\ a + i + 1 <= all
        BY <4>3
      <4> QED BY <4>4 DEF a, all
    <3>7. es[base + j] = FeedEvents(f)[done[f] + i + 1]
      BY <3>5, <3>6
    <3> HIDE DEF i
    <3>8. Stage(ApplyEvent(m[base + i], es[base + j]).rows, key, done, due, n, k, i + 1)
      BY <1>1, <1>12, <3>1, <3>2, <3>6, <3>7, StageGrows
    <3>9. At(base + j, k, j)
      BY <3>1, <3>4, <3>8
    <3> HIDE DEF At
    <3>10. j \in 0 .. due[k]
      BY <2>2
    <3> QED BY <3>9, <3>10
  <2> HIDE DEF H
  <2>9. due[k] \in H
    <3>1. due[k] \in Nat /\ due[k] \in 0 .. due[k]
      BY <2>2
    <3> QED BY <2>4, <2>8, <3>1, CountUp
  <2>10. At(off[k], k, due[k])
    BY <2>2, <2>9 DEF H
  <2>11. At(off[k], k + 1, 0)
    BY <1>1, <2>10, StageTurns
  <2> HIDE DEF At
  <2> QED BY <2>1, <2>11
<1> HIDE DEF G
<1>15. n \in G
  <2>1. n \in Nat /\ n \in 0 .. n
    BY <1>1
  <2> QED BY <1>13, <1>14, <2>1, CountUp
<1>16. Stage(r.rows, key, done, due, n, n + 1, 0)
  BY <1>9, <1>10, <1>15 DEF G
<1> QED BY <1>16 DEF r, due, n, es, seqs

LEMMA StepTracks ==
    ASSUME Typed, Tracked, Step
    PROVE  Tracked'
<1> DEFINE t == NextTime
           n == Len(feeds)
           after == AfterEvents(FlattenSeq(DueOf(t))).rows
           due == [k \in 1 .. n |-> Len(Due(k, t))]
<1>1. FeedsTyped /\ DOMAIN rows = DOMAIN Bars
  BY DEF Typed, Tracked
<1>2. PICK key, done : Tracks(key, done)
  BY DEF Tracked
<1>3. Stage(after, key, done, due, n, n + 1, 0)
  BY <1>1, <1>2, AppliedRows
<1>4. /\ feeds' = [k \in DOMAIN feeds |-> Rest(k, t)]
      /\ rows' = after /\ registered' = registered
  BY DEF Step, DueOf
<1> HIDE DEF after
<1>5. n \in Nat /\ DOMAIN feeds = 1 .. n
  BY <1>1 DEF FeedsTyped
<1>6. \A k \in 1 .. n :
        /\ due[k] \in 0 .. Len(feeds[k]) /\ Len(feeds[k]) \in Nat
        /\ Len(Rest(k, t)) = Len(feeds[k]) - due[k]
        /\ \A i \in 1 .. Len(Rest(k, t)) : Rest(k, t)[i] = feeds[k][due[k] + i]
  BY <1>1, <1>5, DueIs DEF FeedsTyped
<1> HIDE DEF due, n, t
<1>7. DOMAIN feeds' = 1 .. n /\ \A k \in 1 .. n : feeds'[k] = Rest(k, t)
  BY <1>4, <1>5
<1>8. /\ key \in [1 .. n -> FeedNames] /\ done \in [FeedNames -> Nat]
      /\ \A k, l \in 1 .. n : key[k] = key[l] => k = l
      /\ \A k \in 1 .. n : key[k] \in registered
      /\ \A f \in FeedNames \ registered : done[f] = 0
  BY <1>2, <1>5 DEF Tracks
<1> DEFINE place(f) == CHOOSE l \in 1 .. n : key[l] = f
           more == [f \in FeedNames |-> IF \E l \in 1 .. n : key[l] = f THEN done[f] + due[place(f)] ELSE done[f]]
<1>9. ASSUME NEW k \in 1 .. n PROVE more[key[k]] = done[key[k]] + due[k] /\ due[k] \in Nat
  <2>1. place(key[k]) = k
    BY <1>8
  <2>2. key[k] \in FeedNames /\ \E l \in 1 .. n : key[l] = key[k]
    BY <1>8
  <2> HIDE DEF place
  <2> QED BY <1>6, <2>1, <2>2
<1>10. \A f \in FeedNames : (\A l \in 1 .. n : key[l] # f) => more[f] = done[f]
  BY DEF more
<1> HIDE DEF more
<1>11. more \in [FeedNames -> Nat]
  <2>1. more = [f \in FeedNames |-> more[f]]
    BY DEF more
  <2>2. ASSUME NEW f \in FeedNames PROVE more[f] \in Nat
    <3>1. CASE \E l \in 1 .. n : key[l] = f
      <4>1. PICK l \in 1 .. n : key[l] = f
        BY <3>1
      <4>2. done[f] \in Nat /\ due[l] \in Nat /\ more[f] = done[f] + due[l]
        BY <1>8, <1>9, <4>1
      <4> QED BY <4>2
    <3>2. CASE \A l \in 1 .. n : key[l] # f
      BY <1>8, <1>10, <3>2
    <3> QED BY <3>1, <3>2
  <2> QED BY <2>1, <2>2
<1>12. \A f \in FeedNames \ registered : more[f] = 0
  BY <1>8, <1>10
<1>13. ASSUME NEW k \in 1 .. n
       PROVE  /\ more[key[k]] + Len(feeds'[k]) = Len(FeedEvents(key[k]))
              /\ \A i \in 1 .. Len(feeds'[k]) : feeds'[k][i] = FeedEvents(key[k])[more[key[k]] + i]
  <2> DEFINE f == key[k]
             es == FeedEvents(f)
  <2>1. /\ done[f] + Len(feeds[k]) = Len(es)
        /\ \A i \in 1 .. Len(feeds[k]) : feeds[k][i] = es[done[f] + i]
    BY <1>2, <1>5 DEF Tracks
  <2>2. done[f] \in Nat /\ due[k] \in Nat /\ more[f] = done[f] + due[k]
    BY <1>8, <1>9
  <2>3. /\ due[k] \in 0 .. Len(feeds[k]) /\ Len(feeds[k]) \in Nat
        /\ Len(feeds'[k]) = Len(feeds[k]) - due[k]
        /\ \A i \in 1 .. Len(feeds'[k]) : feeds'[k][i] = feeds[k][due[k] + i]
    BY <1>6, <1>7
  <2> HIDE DEF f, es
  <2>4. more[f] + Len(feeds'[k]) = Len(es)
    BY <2>1, <2>2, <2>3
  <2>5. ASSUME NEW i \in 1 .. Len(feeds'[k]) PROVE feeds'[k][i] = es[more[f] + i]
    <3>1. due[k] + i \in 1 .. Len(feeds[k]) /\ done[f] + (due[k] + i) = more[f] + i
      BY <2>2, <2>3
    <3>2. feeds'[k][i] = feeds[k][due[k] + i] /\ feeds[k][due[k] + i] = es[done[f] + (due[k] + i)]
      BY <2>1, <2>3, <3>1
    <3> QED BY <3>1, <3>2
  <2> QED BY <2>4, <2>5 DEF es, f
<1>14. DOMAIN after = DOMAIN Bars
  BY <1>3 DEF Stage
<1>15. ASSUME NEW f \in DOMAIN Bars PROVE RowsAt(after[f], f, more[f])
  <2>1. CASE \E l \in 1 .. n : key[l] = f
    <3>1. PICK l \in 1 .. n : key[l] = f
      BY <2>1
    <3>2. RowsAt(after[f], f, done[f] + CountAt(due, n + 1, 0, l))
      BY <1>3, <3>1 DEF Stage
    <3>3. CountAt(due, n + 1, 0, l) = due[l]
      BY <1>5 DEF CountAt
    <3> QED BY <1>9, <3>1, <3>2, <3>3
  <2>2. CASE \A l \in 1 .. n : key[l] # f
    <3>1. RowsAt(after[f], f, done[f])
      BY <1>3, <2>2 DEF Stage
    <3> QED BY <1>10, <2>2, <3>1, BarsAreFeeds
  <2> QED BY <2>1, <2>2
<1>16. PICK dn : dn = more
  OBVIOUS
<1>17. ASSUME NEW f \in DOMAIN Bars PROVE rows'[f] \in RowsFor(f, dn[f])
  <2>1. RowsAt(rows'[f], f, dn[f])
    BY <1>4, <1>15, <1>16
  <2> QED BY <2>1 DEF RowsFor, RowsAt
<1>18. Tracks(key, dn)'
  BY <1>4, <1>7, <1>8, <1>11, <1>12, <1>13, <1>16, <1>17 DEF Tracks
<1>19. DOMAIN rows' = DOMAIN Bars
  BY <1>4, <1>14
<1> QED BY <1>18, <1>19 DEF Tracked

(* A feed that was not registered is added once, with all its events before it. *)
Fresh(more) ==
    /\ more \in Seq(FeedNames)
    /\ \A i \in 1 .. Len(more) : more[i] \notin registered
    /\ \A i, k \in 1 .. Len(more) : more[i] = more[k] => i = k

LEMMA MissingFresh ==
    ASSUME NEW s \in Symbols, NEW d, d = 0 \/ <<s, d>> \in DOMAIN Bars
    PROVE  LET fs == FeedsFor(s, d) IN Fresh(Missing(fs)) /\ ToSet(Missing(fs)) \subseteq ToSet(fs)
<1> DEFINE u == Underlying(s)
           fs == FeedsFor(s, d)
           one(i) == IF fs[i] \in registered THEN <<>> ELSE <<fs[i]>>
           seqs == [i \in DOMAIN fs |-> one(i)]
           all == Missing(fs)
           n == Len(fs)
<1>1. fs \in Seq(FeedNames) /\ n \in Nat /\ DOMAIN fs = 1 .. n
  BY FeedsForType
<1>2. all = FlattenSeq(seqs)
  BY DEF Missing
<1>3. \A i, k \in 1 .. n : fs[i] = fs[k] => i = k
  <2>1. CASE u = <<>>
    <3>1. fs = <<<<s, d>>>>
      BY <2>1 DEF FeedsFor
    <3> QED BY <3>1
  <2>2. CASE u # <<>>
    <3>1. u = <<Meta[s].underlying>> /\ Meta[s].underlying # s
      BY <2>2, ReplayAssumption DEF Underlying
    <3> DEFINE first == <<Meta[s].underlying, ImplicitDuration>>
    <3>2. DOMAIN u = 1 .. 1 /\ u[1] = Meta[s].underlying
      BY <3>1
    <3>3. [i \in DOMAIN u |-> <<u[i], ImplicitDuration>>] = <<first>>
      BY <3>2
    <3> DEFINE parts == [i \in DOMAIN u |-> <<u[i], ImplicitDuration>>]
    <3>4. fs = Append(parts, <<s, d>>)
      BY DEF FeedsFor
    <3>5. first # <<s, d>>
      BY <3>1
    <3>6. parts = <<first>>
      BY <3>3
    <3> HIDE DEF first, parts, fs
    <3>7. IsSeq(parts) /\ Len(parts) = 1 /\ parts[1] = first
      <4>1. parts \in Seq({first}) /\ Len(parts) = 1 /\ parts[1] = first
        BY <3>6
      <4> QED BY <4>1 DEF IsSeq
    <3>8. Len(fs) = 2 /\ fs[1] = first /\ fs[2] = <<s, d>>
      <4> DEFINE own == <<s, d>>
      <4>1. fs = Append(parts, own)
        BY <3>4
      <4> HIDE DEF own
      <4>2. /\ Len(fs) = Len(parts) + 1 /\ fs[Len(parts) + 1] = own
            /\ \A i \in 1 .. Len(parts) : fs[i] = parts[i]
        BY <3>7, <4>1, AppendFacts
      <4>3. 1 \in 1 .. Len(parts) /\ Len(parts) + 1 = 2
        BY <3>7
      <4>4. Len(fs) = 2 /\ fs[1] = first /\ fs[2] = own
        BY <3>7, <4>2, <4>3
      <4> QED BY <4>4 DEF own
    <3> QED BY <3>5, <3>8 DEF n
  <2> QED BY <2>1, <2>2
<1> HIDE DEF fs
<1>4. \A i \in 1 .. n : one(i) \in Seq(FeedNames) /\ (\A x \in 1 .. Len(one(i)) : x = 1)
                        /\ (Len(one(i)) = 1 => one(i)[1] = fs[i] /\ fs[i] \notin registered)
  BY <1>1
<1>5. seqs \in [1 .. n -> Seq(FeedNames)] /\ \A i \in 1 .. n : seqs[i] = one(i)
  BY <1>1, <1>4
<1> HIDE DEF one, seqs, n
<1>6. seqs \in Seq(Seq(FeedNames)) /\ Len(seqs) = n
  BY <1>1, <1>5
<1>7. all \in Seq(FeedNames)
  BY <1>2, <1>6, FlattenType
<1>8. PICK off : Placed(seqs, all, off)
  BY <1>2, <1>6, FlattenPlaces
<1> HIDE DEF all
<1>9. ASSUME NEW x \in 1 .. Len(all)
      PROVE  \E i \in 1 .. n : Len(one(i)) = 1 /\ off[i] = x /\ all[x] = fs[i] /\ fs[i] \notin registered
  <2> DEFINE G == {k \in 0 .. n : x <= off[k] =>
                      \E i \in 1 .. n : Len(one(i)) = 1 /\ off[i] = x /\ all[x] = fs[i] /\ fs[i] \notin registered}
  <2>1. x \in Nat /\ x # 0
    BY <1>7
  <2>2. off \in [0 .. n -> Nat] /\ off[0] = 0 /\ Len(all) = off[n]
    BY <1>6, <1>8 DEF Placed
  <2>3. 0 \in G
    BY <1>1, <2>1, <2>2
  <2>4. ASSUME NEW k \in 1 .. n, k - 1 \in G PROVE k \in G
    <3>1. k \in 0 .. n /\ k - 1 \in 0 .. n
      BY <1>1
    <3>2. Len(one(k)) \in Nat /\ Len(one(k)) <= 1 /\ seqs[k] = one(k)
      <4>1. one(k) \in Seq(FeedNames) /\ (\A y \in 1 .. Len(one(k)) : y = 1)
        BY <1>4
      <4>2. Len(one(k)) \in Nat
        BY <4>1
      <4>3. Len(one(k)) \in 1 .. Len(one(k)) \/ Len(one(k)) = 0
        BY <4>2
      <4> QED BY <1>5, <4>1, <4>2, <4>3
    <3>3. /\ off[k] = off[k - 1] + Len(one(k)) /\ off[k] \in Nat /\ off[k - 1] \in Nat
          /\ \A j \in 1 .. Len(one(k)) : all[off[k - 1] + j] = one(k)[j]
      BY <1>6, <1>8, <2>2, <3>1, <3>2 DEF Placed
    <3>4. CASE x <= off[k - 1]
      BY <2>4, <3>1, <3>4
    <3>5. CASE ~ (x <= off[k - 1]) /\ x <= off[k]
      <4> DEFINE l == Len(one(k))
      <4>0. l \in Nat /\ l <= 1 /\ off[k] = off[k - 1] + l /\ off[k] \in Nat /\ off[k - 1] \in Nat
        BY <3>2, <3>3
      <4> HIDE DEF l
      <4>3. l = 0 \/ l = 1
        BY <4>0
      <4>4. l = 1 /\ x = off[k] /\ x = off[k - 1] + 1
        BY <2>1, <3>5, <4>0, <4>3
      <4>1. Len(one(k)) = 1 /\ x = off[k] /\ x = off[k - 1] + 1
        BY <4>4 DEF l
      <4>2. all[x] = one(k)[1] /\ one(k)[1] = fs[k] /\ fs[k] \notin registered
        <5>1. 1 \in 1 .. Len(one(k))
          BY <4>1
        <5> QED BY <1>4, <3>3, <4>1, <5>1
      <4> QED BY <3>1, <4>1, <4>2
    <3>6. CASE ~ (x <= off[k])
      BY <3>1, <3>6
    <3> QED BY <3>4, <3>5, <3>6
  <2> HIDE DEF G
  <2>5. n \in G
    <3>1. n \in Nat /\ n \in 0 .. n
      BY <1>1
    <3> QED BY <2>3, <2>4, <3>1, CountUp
  <2>6. x <= off[n]
    BY <2>2
  <2> QED BY <2>5, <2>6 DEF G
<1>10. Fresh(all)
  <2>1. \A x \in 1 .. Len(all) : all[x] \notin registered
    BY <1>9
  <2>2. ASSUME NEW x \in 1 .. Len(all), NEW y \in 1 .. Len(all), all[x] = all[y] PROVE x = y
    <3>1. PICK i \in 1 .. n : off[i] = x /\ all[x] = fs[i]
      BY <1>9
    <3>2. PICK k \in 1 .. n : off[k] = y /\ all[y] = fs[k]
      BY <1>9
    <3> QED BY <1>3, <2>2, <3>1, <3>2
  <2> QED BY <1>7, <2>1, <2>2 DEF Fresh
<1>11. ToSet(all) \subseteq ToSet(fs)
  <2>1. \A x \in 1 .. Len(all) : \E i \in 1 .. n : all[x] = fs[i]
    BY <1>9
  <2>2. DOMAIN all = 1 .. Len(all)
    BY <1>7
  <2> QED BY <1>1, <2>1, <2>2 DEF ToSet
<1> QED BY <1>10, <1>11 DEF all, fs

LEMMA EnsureTracks ==
    ASSUME FeedsTyped, Tracked, NEW s \in Symbols, NEW d, d = 0 \/ <<s, d>> \in DOMAIN Bars,
           NEW source, Ensure(FeedsFor(s, d), s, source), rows' = rows
    PROVE  Tracked'
<1> DEFINE fs == FeedsFor(s, d)
           more == Missing(fs)
           added == [i \in DOMAIN more |-> FeedEvents(more[i])]
           n == Len(feeds)
           m == Len(more)
<1>1. PICK key, done : Tracks(key, done)
  BY DEF Tracked
<1>2. feeds' = feeds \o added /\ registered' = registered \cup ToSet(fs)
  BY DEF Ensure
<1>3. Fresh(more) /\ ToSet(more) \subseteq ToSet(fs)
  BY MissingFresh
<1> HIDE DEF fs, more
<1>4. more \in Seq(FeedNames) /\ m \in Nat /\ DOMAIN more = 1 .. m
  BY <1>3 DEF Fresh
<1>5. n \in Nat /\ DOMAIN feeds = 1 .. n /\ feeds \in Seq(Seq(Events))
  BY DEF FeedsTyped
<1>6. added \in Seq(Seq(Events)) /\ Len(added) = m /\ \A i \in 1 .. m : added[i] = FeedEvents(more[i])
  <2>1. \A i \in 1 .. m : FeedEvents(more[i]) \in Seq(Events)
    BY <1>4, FeedEventsType
  <2>2. added \in [1 .. m -> Seq(Events)]
    BY <1>4, <2>1
  <2> QED BY <1>4, <2>2
<1> HIDE DEF added, n, m
<1>7. /\ DOMAIN feeds' = 1 .. (n + m)
      /\ \A k \in 1 .. n : feeds'[k] = feeds[k]
      /\ \A i \in 1 .. m : feeds'[n + i] = added[i]
  <2> DEFINE S == Seq(Events)
             all == feeds \o added
  <2>1. feeds \in Seq(S) /\ added \in Seq(S) /\ Len(feeds) = n /\ Len(added) = m
    BY <1>5, <1>6 DEF n
  <2> HIDE DEF S
  <2>2. /\ all \in Seq(S) /\ Len(all) = n + m
        /\ \A k \in 1 .. n : all[k] = feeds[k]
        /\ \A i \in 1 .. m : all[n + i] = added[i]
    <3>1. /\ all \in Seq(S) /\ Len(all) = Len(feeds) + Len(added)
          /\ \A i \in 1 .. Len(feeds) + Len(added) :
                all[i] = IF i <= Len(feeds) THEN feeds[i] ELSE added[i - Len(feeds)]
      BY <2>1, ConcatProperties
    <3> HIDE DEF all
    <3>2. \A i \in 1 .. n + m : all[i] = IF i <= n THEN feeds[i] ELSE added[i - n]
      BY <2>1, <3>1
    <3>3. \A k \in 1 .. n : k \in 1 .. n + m /\ k <= n
      BY <1>4, <1>5
    <3>4. \A i \in 1 .. m : n + i \in 1 .. n + m /\ ~ (n + i <= n) /\ (n + i) - n = i
      BY <1>4, <1>5
    <3>5. \A k \in 1 .. n : all[k] = feeds[k]
      BY <3>2, <3>3
    <3>6. \A i \in 1 .. m : all[n + i] = added[i]
      BY <3>2, <3>4
    <3> QED BY <2>1, <3>1, <3>5, <3>6
  <2>3. DOMAIN all = 1 .. (n + m)
    BY <1>4, <1>5, <2>2
  <2> HIDE DEF all
  <2>4. feeds' = all
    BY <1>2 DEF all
  <2> QED BY <2>2, <2>3, <2>4
<1>8. /\ key \in [1 .. n -> FeedNames] /\ done \in [FeedNames -> Nat]
      /\ \A k, l \in 1 .. n : key[k] = key[l] => k = l
      /\ \A k \in 1 .. n : key[k] \in registered
      /\ \A f \in FeedNames \ registered : done[f] = 0
  BY <1>1, <1>5 DEF Tracks
<1>9. PICK names : names = [k \in 1 .. (n + m) |-> IF k <= n THEN key[k] ELSE more[k - n]]
  OBVIOUS
<1>10. /\ \A k \in 1 .. n : k \in 1 .. (n + m) /\ names[k] = key[k]
       /\ \A i \in 1 .. m : n + i \in 1 .. (n + m) /\ names[n + i] = more[i]
  <2>1. \A k \in 1 .. n : k \in 1 .. (n + m) /\ k <= n
    BY <1>4, <1>5
  <2>2. \A i \in 1 .. m : n + i \in 1 .. (n + m) /\ ~ (n + i <= n) /\ (n + i) - n = i
    BY <1>4, <1>5
  <2> QED BY <1>9, <2>1, <2>2
<1>11. \A k \in 1 .. (n + m) : k \in 1 .. n \/ \E i \in 1 .. m : k = n + i
  <2> SUFFICES ASSUME NEW k \in 1 .. (n + m), k \notin 1 .. n PROVE \E i \in 1 .. m : k = n + i
    OBVIOUS
  <2>1. k - n \in 1 .. m /\ k = n + (k - n)
    BY <1>4, <1>5
  <2> QED BY <2>1
<1>12. \A i \in 1 .. m : more[i] \in FeedNames /\ more[i] \notin registered /\ more[i] \in registered'
  <2>1. \A i \in 1 .. m : more[i] \in FeedNames /\ more[i] \notin registered
    BY <1>3, <1>4 DEF Fresh, m
  <2>2. \A i \in 1 .. m : more[i] \in ToSet(more)
    BY <1>4 DEF ToSet
  <2> QED BY <1>2, <1>3, <2>1, <2>2
<1>13. names \in [1 .. (n + m) -> FeedNames]
  <2>1. \A k \in 1 .. (n + m) : names[k] \in FeedNames
    BY <1>8, <1>10, <1>11, <1>12
  <2> QED BY <1>9, <2>1
<1>14. ASSUME NEW k \in 1 .. (n + m), NEW l \in 1 .. (n + m), names[k] = names[l] PROVE k = l
  <2>1. CASE k \in 1 .. n /\ l \in 1 .. n
    BY <1>8, <1>10, <1>14, <2>1
  <2>2. CASE \E i \in 1 .. m : k = n + i
    <3>1. PICK i \in 1 .. m : k = n + i
      BY <2>2
    <3>2. names[k] = more[i] /\ more[i] \notin registered
      BY <1>10, <1>12, <3>1
    <3>3. l \notin 1 .. n
      BY <1>8, <1>10, <1>14, <3>2
    <3>4. PICK j \in 1 .. m : l = n + j
      BY <1>11, <3>3
    <3>5. more[i] = more[j]
      BY <1>10, <1>14, <3>2, <3>4
    <3>6. i = j
      BY <1>3, <3>5 DEF Fresh, m
    <3> QED BY <3>1, <3>4, <3>6
  <2>3. CASE k \in 1 .. n /\ \E j \in 1 .. m : l = n + j
    <3>1. PICK j \in 1 .. m : l = n + j
      BY <2>3
    <3>2. names[l] \notin registered /\ names[k] \in registered
      BY <1>8, <1>10, <1>12, <2>3, <3>1
    <3> QED BY <1>14, <3>2
  <2> QED BY <1>11, <2>1, <2>2, <2>3
<1>15. \A k \in 1 .. (n + m) : names[k] \in registered'
  <2>1. \A k \in 1 .. n : names[k] \in registered'
    BY <1>2, <1>8, <1>10
  <2>2. \A i \in 1 .. m : names[n + i] \in registered'
    BY <1>10, <1>12
  <2> QED BY <1>11, <2>1, <2>2
<1>16. \A f \in FeedNames \ registered' : done[f] = 0
  BY <1>2, <1>8
<1>17. ASSUME NEW k \in 1 .. (n + m)
       PROVE  /\ done[names[k]] + Len(feeds'[k]) = Len(FeedEvents(names[k]))
              /\ \A i \in 1 .. Len(feeds'[k]) : feeds'[k][i] = FeedEvents(names[k])[done[names[k]] + i]
  <2>1. CASE k \in 1 .. n
    <3>1. names[k] = key[k] /\ feeds'[k] = feeds[k]
      BY <1>7, <1>10, <2>1
    <3>2. /\ done[key[k]] + Len(feeds[k]) = Len(FeedEvents(key[k]))
          /\ \A i \in 1 .. Len(feeds[k]) : feeds[k][i] = FeedEvents(key[k])[done[key[k]] + i]
      BY <1>1, <1>5, <2>1 DEF Tracks
    <3> QED BY <3>1, <3>2
  <2>2. CASE \E i \in 1 .. m : k = n + i
    <3>1. PICK i \in 1 .. m : k = n + i
      BY <2>2
    <3> DEFINE es == FeedEvents(more[i])
    <3>2. names[k] = more[i] /\ feeds'[k] = es
      BY <1>6, <1>7, <1>10, <3>1
    <3>3. done[more[i]] = 0
      BY <1>8, <1>12
    <3>4. es \in Seq(Events)
      BY <1>12, FeedEventsType
    <3> HIDE DEF es
    <3>5. 0 + Len(es) = Len(es) /\ \A x \in 1 .. Len(es) : 0 + x = x
      BY <3>4
    <3> QED BY <3>2, <3>3, <3>5 DEF es
  <2> QED BY <1>11, <2>1, <2>2
<1>18. \A f \in DOMAIN Bars : rows'[f] \in RowsFor(f, done[f])
  BY <1>1 DEF Tracks
<1>19. Tracks(names, done)'
  BY <1>7, <1>8, <1>13, <1>14, <1>15, <1>16, <1>17, <1>18 DEF Tracks
<1>20. DOMAIN rows' = DOMAIN Bars
  BY DEF Tracked
<1> QED BY <1>19, <1>20 DEF Tracked

LEMMA TrackedStays ==
    ASSUME Tracked, UNCHANGED <<feeds, rows, registered>>
    PROVE  Tracked'
<1>1. PICK key, done : Tracks(key, done)
  BY DEF Tracked
<1>2. Tracks(key, done)'
  BY <1>1 DEF Tracks
<1> QED BY <1>2 DEF Tracked

LEMMA InitTracked == Init => Tracked
<1> SUFFICES ASSUME Init PROVE Tracked
  OBVIOUS
<1>1. feeds = <<>> /\ registered = {} /\ rows = [f \in DOMAIN Bars |-> <<>>]
  BY DEF Init
<1> DEFINE key == [k \in {} |-> <<>>]
           done == [f \in FeedNames |-> 0]
<1>2. DOMAIN feeds = {}
  BY <1>1
<1>3. \A f \in DOMAIN Bars : done[f] = 0
  BY BarsAreFeeds
<1>4. \A f \in DOMAIN Bars : rows[f] = <<>>
  BY <1>1
<1>5. <<>> \in Seq(RowRecords) /\ Len(<<>>) = 0
  OBVIOUS
<1>6. \A f : RowsAt(<<>>, f, 0)
  BY <1>5 DEF RowsAt
<1>7. \A f \in DOMAIN Bars : rows[f] \in RowsFor(f, done[f])
  BY <1>3, <1>4, <1>5, <1>6 DEF RowsFor
<1>8. key \in [DOMAIN feeds -> FeedNames] /\ done \in [FeedNames -> Nat]
  BY <1>2
<1> HIDE DEF key
<1>9. Tracks(key, done)
  BY <1>2, <1>7, <1>8 DEF Tracks
<1>10. DOMAIN rows = DOMAIN Bars
  BY <1>1
<1> QED BY <1>9, <1>10 DEF Tracked

LEMMA TrackedStep == Typed /\ Tracked /\ [Next]_vars => Tracked'
<1> SUFFICES ASSUME Typed, Tracked, [Next]_vars PROVE Tracked'
  OBVIOUS
<1>0. FeedsTyped
  BY DEF Typed
<1>1. ASSUME NEW q \in Asks, Ask(q.symbol, q.dur, q.source) PROVE Tracked'
  <2>1. q.symbol \in Symbols /\ (q.dur = 0 \/ <<q.symbol, q.dur>> \in DOMAIN Bars)
    BY ReplayAssumption
  <2>2. Ensure(FeedsFor(q.symbol, q.dur), q.symbol, q.source) /\ rows' = rows
    BY <1>1 DEF Ask
  <2> QED BY <1>0, <2>1, <2>2, EnsureTracks
<1>2. CASE Step
  BY <1>2, StepTracks
<1>3. CASE Runtime \/ StepQuote \/ StepBroker \/ StepPublishes \/ Finish
  <2>1. UNCHANGED <<feeds, rows, registered>>
    BY <1>3 DEF Runtime, StepQuote, StepBroker, StepPublishes, Finish, kernel
  <2> QED BY <2>1, TrackedStays
<1>4. ASSUME NEW t \in Tasks, TaskStep(t) PROVE Tracked'
  <2>1. CASE InsertReads(t)
    <3>1. PICK s \in Symbols : Ensure(FeedsFor(s, ImplicitDuration), s, ImplicitSource)
      BY <2>1, InsertReadsBroker
    <3>2. <<s, ImplicitDuration>> \in DOMAIN Bars
      BY ReplayAssumption
    <3>3. rows' = rows
      BY <2>1 DEF InsertReads
    <3> QED BY <1>0, <3>1, <3>2, <3>3, EnsureTracks
  <2>2. CASE InsertOrderIn(t) \/ TaskPublishes(t) \/ Cancel(t)
    <3>1. UNCHANGED <<feeds, rows, registered>>
      BY <2>2 DEF InsertOrderIn, TaskPublishes, Cancel, kernel
    <3> QED BY <3>1, TrackedStays
  <2> QED BY <1>4, <2>1, <2>2 DEF TaskStep
<1>5. CASE UNCHANGED vars
  <2>1. UNCHANGED <<feeds, rows, registered>>
    BY <1>5 DEF vars, kernel
  <2> QED BY <2>1, TrackedStays
<1> QED BY <1>1, <1>2, <1>3, <1>4, <1>5 DEF Next, SessionStep

(* Whatever is asked for while the replay steps, and however late a feed      *)
(* comes in, the rows of a series are its bars in order, all but the last     *)
(* closed (replay/kernel.rs, feed.rs, series_store.rs).                       *)
THEOREM BarsOrdered == Spec => []BarsInOrder
<1>1. Init => Tracked
  BY InitTracked
<1>2. Typed /\ Tracked /\ [Next]_vars => Tracked'
  BY TrackedStep
<1>3. Tracked => BarsInOrder
  <2> SUFFICES ASSUME Tracked, NEW f \in DOMAIN Bars PROVE
               \A i, k \in DOMAIN rows[f] : i < k => rows[f][i].t < rows[f][k].t /\ rows[f][i].closed
    BY DEF BarsInOrder
  <2>1. PICK n : RowsAt(rows[f], f, n)
    BY DEF Tracked, Tracks, RowsFor
  <2>2. rows[f] \in Seq(RowRecords)
    BY <2>1 DEF RowsAt
  <2>3. DOMAIN rows[f] = 1 .. Len(rows[f])
    BY <2>2
  <2> QED BY <2>1, <2>3 DEF RowsAt
<1> QED BY <1>1, <1>2, <1>3, ReplayTyped, PTL DEF Spec
=============================================================================
